----------------------------- MODULE NocRouting -----------------------------
(***************************************************************************)
(* Network-on-chip routing and its placement costs (src/vpr/src/noc and    *)
(* noc_place_utils, noc_place_checkpoint, initial_noc_placement in         *)
(* src/vpr/src/place).  Logical routers sit on the routers of a mesh and   *)
(* traffic flows are routed between them by one of six algorithms, link by *)
(* link.  The placer moves or swaps logical routers; every flow of a moved *)
(* router is routed again, the costs of the flows and links it touched are *)
(* proposed, and the move is committed or reverted.                        *)
(*                                                                         *)
(*   stage  "initial"   noc_routers_anneal, which keeps a checkpoint       *)
(*          "annealed"  initial_noc_placement after the annealing          *)
(*          "main"      the annealer of the placer                         *)
(*          "done"      the placement is accepted                          *)
(*   phase  "routing"   initial_noc_routing, on zeroed link usages         *)
(*          "rerouting" the flows of the moved routers are routed again    *)
(*          "proposed"  the costs of the move are known                    *)
(*          "idle"      between two moves                                  *)
(*          "cycle"     the program gave up with an error                  *)
(*                                                                         *)
(* Bandwidths, capacities and costs are integers.  A flow's cost is its    *)
(* aggregate bandwidth (the latency terms are computed beside it, from the *)
(* same route); a link's cost is its congested bandwidth.                  *)
(***************************************************************************)
EXTENDS Integers, Sequences, Functions, FiniteSets

CONSTANTS Width, Height, Depth,   \* the mesh of physical routers
          Logical,                \* router blocks of the netlist
          Flows,                  \* traffic flows, numbered from 1
          Source, Sink,           \* the blocks a flow connects
          Bandwidth, Capacity,    \* of a flow, of every link
          Algorithms,             \* the routing algorithms considered
          Hash(_, _, _, _),       \* murmur3_32 of source, sink, router, flow
          LinkOrder(_, _, _),     \* which shortest path the search finds
          StartLocs,              \* random placements considered
          MaxMoves, MainMoves     \* moves of the initial and main annealing

ASSUME MeshAssumption ==
    Width \in Nat \ {0} /\ Height \in Nat \ {0} /\ Depth \in Nat \ {0}

ASSUME FlowAssumption ==
    /\ Flows \subseteq Nat \ {0} /\ IsFiniteSet(Flows)
    /\ Source \in [Flows -> Logical] /\ Sink \in [Flows -> Logical]
    /\ \A f \in Flows : Source[f] # Sink[f]
    /\ Bandwidth \in [Flows -> Nat] /\ Capacity \in Nat

ASSUME AlgorithmAssumption ==
    Algorithms \subseteq {"xy", "west_first", "north_last",
                          "negative_first", "odd_even", "bfs"}

Routers == [x : 0 .. Width - 1, y : 0 .. Height - 1, z : 0 .. Depth - 1]

ASSUME HashAssumption ==
    \A s, d, c \in Routers :
        /\ LinkOrder(s, d, c) \in Nat
        /\ \A f \in Flows : Hash(s, d, c, f) \in Nat

\* A logical router occupies a physical router of its own.
Placements == {p \in [Logical -> Routers] :
                   \A a, b \in Logical : a # b => p[a] # p[b]}

ASSUME StartAssumption ==
    StartLocs \subseteq Placements /\ MaxMoves \in Nat /\ MainMoves \in Nat

VARIABLES algorithm,      \* noc_flows_router
          stage, phase,
          moves,          \* moves left in this annealing
          loc,            \* block_locs of the logical routers
          undo,           \* block_locs before the proposed move
          routes,         \* traffic_flow_routes
          backup,         \* traffic_flow_routes_backup
          usage,          \* link_bandwidth_usages
          pending,        \* flows still to be routed
          walk,           \* the locals of route_flow
          affectedLinks,  \* affected_noc_links
          costs,          \* traffic_flow_costs, link_congestion_costs, costs
          proposed,       \* the proposed ones and noc_delta_c
          checkpoint      \* NoCPlacementCheckpoint

vars == <<algorithm, stage, phase, moves, loc, undo, routes, backup, usage,
          pending, walk, affectedLinks, costs, proposed, checkpoint>>

-----------------------------------------------------------------------------
(* The mesh.  A link is the pair of the routers it connects. *)

Directions == {"W", "E", "N", "S", "U", "D"}

Apart(a, b) == IF a < b THEN b - a ELSE a - b

Distance(p, q) == Apart(p.x, q.x) + Apart(p.y, q.y) + Apart(p.z, q.z)

Beyond(p, d) ==
    CASE d = "W" -> [p EXCEPT !.x = @ - 1]
      [] d = "E" -> [p EXCEPT !.x = @ + 1]
      [] d = "S" -> [p EXCEPT !.y = @ - 1]
      [] d = "N" -> [p EXCEPT !.y = @ + 1]
      [] d = "D" -> [p EXCEPT !.z = @ - 1]
      [] d = "U" -> [p EXCEPT !.z = @ + 1]

Links == {l \in Routers \X Routers :
              \E d \in Directions : l[2] = Beyond(l[1], d)}

LinksOf(route) == {route[i] : i \in 1 .. Len(route)}

is_noc_3d == Depth > 1

Odd(n) == n % 2 = 1

-----------------------------------------------------------------------------
(* get_legal_directions of the six algorithms. *)

Xward(at, dst) == IF dst.x < at.x THEN {"W"}
                  ELSE IF dst.x > at.x THEN {"E"} ELSE {}

Yward(at, dst) == IF dst.y < at.y THEN {"S"}
                  ELSE IF dst.y > at.y THEN {"N"} ELSE {}

Zward(at, dst) == IF dst.z < at.z THEN {"D"}
                  ELSE IF dst.z > at.z THEN {"U"} ELSE {}

Minimal(at, dst) == Xward(at, dst) \cup Yward(at, dst) \cup Zward(at, dst)

XY(at, dst) == IF at.x # dst.x THEN Xward(at, dst)
               ELSE IF at.y # dst.y THEN Yward(at, dst) ELSE Zward(at, dst)

WestFirst(at, dst) ==
    LET first == IF is_noc_3d THEN {"W", "S"} ELSE {"W"}
    IN  IF Minimal(at, dst) \cap first # {}
        THEN Minimal(at, dst) \cap first ELSE Minimal(at, dst)

NorthLast(at, dst) ==
    LET last == {"N", "U"}
    IN  IF Minimal(at, dst) \ last # {}
        THEN Minimal(at, dst) \ last ELSE Minimal(at, dst)

\* Mutant: any direction towards the sink will do.
NegativeFirst_Adaptive(at, dst) == Minimal(at, dst)

NegativeFirst(at, dst) ==
    LET negative == {"W", "S", "D"}
    IN  IF Minimal(at, dst) \cap negative # {}
        THEN Minimal(at, dst) \cap negative ELSE Minimal(at, dst)

\* Mutant: eastward into the column of the sink, whichever it is.
OddEven2D_AnyColumn(src, at, dst, prev) ==
    LET northOrSouth == IF dst.y > at.y THEN {"N"} ELSE {"S"}
    IN  IF dst.x = at.x THEN northOrSouth
        ELSE IF dst.x < at.x
        THEN {"W"} \cup (IF Odd(at.x) THEN {} ELSE northOrSouth)
        ELSE IF dst.y = at.y THEN {"E"}
        ELSE (IF Odd(at.x) \/ at.x = src.x \/ prev # "E"
              THEN northOrSouth ELSE {}) \cup {"E"}

OddEven2D(src, at, dst, prev) ==
    LET northOrSouth == IF dst.y > at.y THEN {"N"} ELSE {"S"}
    IN  IF dst.x = at.x THEN northOrSouth
        ELSE IF dst.x < at.x
        THEN {"W"} \cup (IF Odd(at.x) THEN {} ELSE northOrSouth)
        ELSE IF dst.y = at.y THEN {"E"}
        ELSE (IF Odd(at.x) \/ at.x = src.x \/ prev # "E"
              THEN northOrSouth ELSE {})
             \cup (IF Odd(dst.x) \/ dst.x - at.x # 1 THEN {"E"} ELSE {})

OddEvenPlane(src, at, dst, prev) ==
    LET upOrDown == IF dst.z > at.z THEN {"U"} ELSE {"D"}
    IN  IF dst.y = at.y THEN upOrDown
        ELSE IF dst.y < at.y
        THEN {"S"} \cup (IF Odd(at.y) THEN {} ELSE upOrDown)
        ELSE IF dst.z = at.z THEN {"N"}
        ELSE (IF Odd(at.y) \/ at.y = src.y \/ prev # "N"
              THEN upOrDown ELSE {})
             \cup (IF Odd(dst.y) \/ dst.y - at.y > 1 THEN {"N"} ELSE {})

OddEven3D(src, at, dst, prev) ==
    LET plane == OddEvenPlane(src, at, dst, prev)
    IN  IF dst.x = at.x THEN plane
        ELSE IF dst.x < at.x
        THEN {"W"} \cup (IF Odd(at.x) THEN {} ELSE plane)
        ELSE IF dst.y = at.y /\ dst.z = at.z THEN {"E"}
        ELSE (IF Odd(dst.x) \/ dst.x - at.x > 1 THEN {"E"} ELSE {})
             \cup (IF Odd(at.x) \/ at.x = src.x \/ prev # "E"
                   THEN plane ELSE {})

get_legal_directions(alg, src, at, dst, prev) ==
    CASE alg = "xy"             -> XY(at, dst)
      [] alg = "west_first"     -> WestFirst(at, dst)
      [] alg = "north_last"     -> NorthLast(at, dst)
      [] alg = "negative_first" -> NegativeFirst(at, dst)
      [] alg = "odd_even"       -> IF is_noc_3d
                                   THEN OddEven3D(src, at, dst, prev)
                                   ELSE OddEven2D(src, at, dst, prev)
      [] alg = "bfs"            -> Minimal(at, dst)

\* The only legal direction or, by the remainder of a hash value, the one
\* along a coordinate; no direction (INVALID) when none is legal there.
select_next_direction(dirs, hash, at, dst) ==
    LET r == hash % Distance(at, dst)
        coordinate ==
            IF r < Apart(at.x, dst.x) THEN {"W", "E"}
            ELSE IF r < Apart(at.x, dst.x) + Apart(at.y, dst.y)
            THEN {"N", "S"} ELSE {"U", "D"}
    IN  IF \E d \in Directions : dirs = {d} THEN dirs
        ELSE dirs \cap coordinate

-----------------------------------------------------------------------------
(* is_turn_legal of the turn models on a mesh of one layer: the move out   *)
(* of b after the one into b; a, b, c are routers a packet passes in a row. *)

XYTurn(a, b, c) ==
    /\ ~(a.y # b.y /\ b.x # c.x)
    /\ ~(a.z # b.z /\ (b.x # c.x \/ b.y # c.y))

WestFirstTurn(a, b, c) == ~(a.y # b.y /\ c.x < b.x)

NorthLastTurn(a, b, c) == ~(b.y > a.y /\ c.x # b.x)

NegativeFirstTurn(a, b, c) ==
    ~(b.x > a.x /\ c.y < b.y) /\ ~(b.y > a.y /\ c.x < b.x)

OddEvenTurn(a, b, c) ==
    IF Odd(b.x) THEN ~(a.y # b.y /\ c.x < b.x)
                ELSE ~(b.x > a.x /\ c.y # b.y)

is_turn_legal(alg, a, b, c) ==
    /\ a # c
    /\ CASE alg = "xy"             -> XYTurn(a, b, c)
         [] alg = "west_first"     -> WestFirstTurn(a, b, c)
         [] alg = "north_last"     -> NorthLastTurn(a, b, c)
         [] alg = "negative_first" -> NegativeFirstTurn(a, b, c)
         [] alg = "odd_even"       -> OddEvenTurn(a, b, c)
         [] OTHER                  -> TRUE

\* The edges of the ChannelDependencyGraph: links one flow takes in a row.
Dependencies ==
    UNION {{<<routes[f][i], routes[f][i + 1]>> : i \in 1 .. Len(routes[f]) - 1}
           : f \in Flows}

\* A finite graph has a cycle exactly when each vertex of some nonempty set
\* has an edge to a vertex of that set.
has_cycles ==
    \E C \in SUBSET {e[1] : e \in Dependencies} :
        C # {} /\ \A a \in C : \E b \in C : <<a, b>> \in Dependencies

-----------------------------------------------------------------------------
(* Costs. *)

Positive(n) == IF n > 0 THEN n ELSE 0

FlowCost(f, route) == Bandwidth[f] * Len(route)

get_link_congestion_cost(l) == Positive(usage[l] - Capacity)

NocCost(total) == total.aggregate + total.congestion

\* comp_noc_aggregate_bandwidth_cost and comp_noc_congestion_cost.
CostsFromScratch ==
    LET flowCost == [f \in Flows |-> FlowCost(f, routes[f])]
        linkCost == [l \in Links |-> get_link_congestion_cost(l)]
    IN  [flows |-> flowCost, links |-> linkCost,
         total |-> [aggregate  |-> SumFunction(flowCost),
                    congestion |-> SumFunction(linkCost)]]

NoCosts == [flows |-> [f \in Flows |-> -1], links |-> [l \in Links |-> -1],
            total |-> [aggregate |-> 0, congestion |-> 0]]

NoProposal == [flows |-> <<>>, links |-> <<>>,
               delta |-> [aggregate |-> 0, congestion |-> 0]]

NoWalk == [flow |-> 0, at |-> [x |-> 0, y |-> 0, z |-> 0],
           prev |-> "none", visited |-> {}]

NoCheckpoint == [valid |-> FALSE, cost |-> 0, locs |-> <<>>]

\* What flow f uses of link l when it takes this route.
Share(route, f, l) == IF l \in LinksOf(route) THEN Bandwidth[f] ELSE 0

update_traffic_flow_link_usage(f, route, sign) ==
    [l \in Links |-> usage[l] + sign * Share(route, f, l)]

-----------------------------------------------------------------------------
Init ==
    /\ algorithm \in Algorithms
    /\ loc \in StartLocs
    /\ undo = loc
    /\ stage = "initial" /\ phase = "routing" /\ moves = MaxMoves
    /\ routes = [f \in Flows |-> <<>>]
    /\ backup = [f \in Flows |-> <<>>]
    /\ usage = [l \in Links |-> 0]
    /\ pending = Flows
    /\ walk = NoWalk
    /\ affectedLinks = {}
    /\ costs = NoCosts /\ proposed = NoProposal
    /\ checkpoint = NoCheckpoint

StartWalk(f) ==
    walk' = [flow |-> f, at |-> loc[Source[f]], prev |-> "none",
             visited |-> {}]

\* initial_noc_routing reaches a flow: route_flow clears its route.  The
\* code takes the flows in the order of their ids.
RouteFlow(f) ==
    /\ phase = "routing" /\ walk = NoWalk
    /\ f \in pending
    /\ pending' = pending \ {f}
    /\ routes' = [routes EXCEPT ![f] = <<>>]
    /\ StartWalk(f)
    /\ UNCHANGED <<algorithm, stage, phase, moves, loc, undo, backup, usage,
                   affectedLinks, costs, proposed, checkpoint>>

\* re_route_traffic_flow gives up the links of the old route and keeps the
\* route as the backup, before the flow is routed again.
ReRouteFlow(f) ==
    /\ phase = "rerouting" /\ walk = NoWalk
    /\ f \in pending
    /\ pending' = pending \ {f}
    /\ usage' = update_traffic_flow_link_usage(f, routes[f], -1)
    /\ backup' = [backup EXCEPT ![f] = routes[f]]
    /\ routes' = [routes EXCEPT ![f] = <<>>]
    /\ StartWalk(f)
    /\ UNCHANGED <<algorithm, stage, phase, moves, loc, undo, affectedLinks,
                   costs, proposed, checkpoint>>

\* The directions route_flow may take next, one or none: the legal ones,
\* the one of them that is selected, if its link leads to a new router.
NextDirections ==
    LET src  == loc[Source[walk.flow]]
        dst  == loc[Sink[walk.flow]]
        dirs == get_legal_directions(algorithm, src, walk.at, dst, walk.prev)
        hash == IF algorithm = "bfs" THEN LinkOrder(src, dst, walk.at)
                ELSE Hash(src, dst, walk.at, walk.flow)
    IN  {d \in select_next_direction(dirs, hash, walk.at, dst) :
             Beyond(walk.at, d) \in Routers \ walk.visited}

\* One iteration of route_flow: move_to_next_router found a link.  Without
\* one the program ends with a fatal error, and so does the behaviour.
Hop ==
    /\ phase \in {"routing", "rerouting"} /\ walk # NoWalk
    /\ walk.at # loc[Sink[walk.flow]]
    /\ \E d \in NextDirections :
           LET next == Beyond(walk.at, d)
           IN  /\ routes' = [routes EXCEPT ![walk.flow] =
                                 Append(@, <<walk.at, next>>)]
               /\ walk' = [walk EXCEPT !.at = next, !.prev = d,
                                       !.visited = @ \cup {next}]
    /\ UNCHANGED <<algorithm, stage, phase, moves, loc, undo, backup, usage,
                   pending, affectedLinks, costs, proposed, checkpoint>>

\* Mutant: the links given up are forgotten.
find_affected_links_by_flow_reroute_Gained(old, new) == LinksOf(new) \ LinksOf(old)

find_affected_links_by_flow_reroute(old, new) ==
    (LinksOf(old) \ LinksOf(new)) \cup (LinksOf(new) \ LinksOf(old))

\* The route reached the sink: the links of the new route are used and, in a
\* proposal, those of one of the two routes only are remembered.
FinishFlow ==
    LET f == walk.flow
    IN  /\ phase \in {"routing", "rerouting"} /\ walk # NoWalk
        /\ walk.at = loc[Sink[f]]
        /\ usage' = update_traffic_flow_link_usage(f, routes[f], 1)
        /\ affectedLinks' =
               IF phase = "routing" THEN affectedLinks
               ELSE affectedLinks \cup
                    find_affected_links_by_flow_reroute(backup[f], routes[f])
        /\ walk' = NoWalk
        /\ UNCHANGED <<algorithm, stage, phase, moves, loc, undo, routes,
                       backup, pending, costs, proposed, checkpoint>>

\* The end of initial_noc_routing, and of reinitialize_noc_routing after a
\* restored checkpoint: every cost is computed.
ComputeCosts ==
    /\ phase = "routing" /\ walk = NoWalk /\ pending = {}
    /\ costs' = CostsFromScratch
    /\ phase' = "idle"
    /\ UNCHANGED <<algorithm, stage, moves, loc, undo, routes, backup, usage,
                   pending, walk, affectedLinks, proposed, checkpoint>>

\* Mutant: the flows that end at a moved block keep their routes.
FlowsOf_SourceOnly(blocks) == {f \in Flows : Source[f] \in blocks}

FlowsOf(blocks) == {f \in Flows : Source[f] \in blocks \/ Sink[f] \in blocks}

Moved == {b \in Logical : loc[b] # undo[b]}

apply_move_blocks(b, to) ==
    [a \in Logical |-> IF a = b THEN to
                       ELSE IF loc[a] = to THEN loc[b] ELSE loc[a]]

\* propose_router_swap, or a move of the main annealer: a router block goes
\* to a free router of its layer or changes places with the block there, and
\* the flows of the moved blocks are to be routed again.
ProposeMove ==
    /\ stage \in {"initial", "main"} /\ phase = "idle" /\ moves > 0
    /\ \E b \in Logical, to \in Routers :
           /\ to # loc[b] /\ to.z = loc[b].z
           /\ loc' = apply_move_blocks(b, to)
           /\ pending' = FlowsOf({b} \cup {a \in Logical : loc[a] = to})
    /\ moves' = moves - 1
    /\ phase' = "rerouting"
    /\ UNCHANGED <<algorithm, stage, undo, routes, backup, usage, walk,
                   affectedLinks, costs, proposed, checkpoint>>

\* The rest of find_affected_noc_routers_and_update_noc_costs.
ProposeCosts ==
    /\ phase = "rerouting" /\ walk = NoWalk /\ pending = {}
    /\ LET flowCost == [f \in FlowsOf(Moved) |-> FlowCost(f, routes[f])]
           linkCost == [l \in affectedLinks |-> get_link_congestion_cost(l)]
       IN  proposed' =
               [flows |-> flowCost, links |-> linkCost,
                delta |->
                    [aggregate  |-> SumFunction([f \in DOMAIN flowCost |->
                                               flowCost[f] - costs.flows[f]]),
                     congestion |-> SumFunction([l \in DOMAIN linkCost |->
                                               linkCost[l] - costs.links[l]])]]
    /\ phase' = "proposed"
    /\ UNCHANGED <<algorithm, stage, moves, loc, undo, routes, backup, usage,
                   pending, walk, affectedLinks, costs, checkpoint>>

\* What a proposal leaves behind is overwritten before it is read again.
ForgetProposal ==
    /\ affectedLinks' = {}
    /\ proposed' = NoProposal
    /\ backup' = [f \in Flows |-> <<>>]

\* The move is accepted: commit_noc_costs and, in noc_routers_anneal,
\* save_checkpoint when this is the best accepted placement so far.
Commit ==
    /\ phase = "proposed"
    /\ LET total == [aggregate  |-> costs.total.aggregate
                                        + proposed.delta.aggregate,
                     congestion |-> costs.total.congestion
                                        + proposed.delta.congestion]
       IN  /\ costs' =
                  [flows |-> [f \in Flows |->
                                  IF f \in DOMAIN proposed.flows
                                  THEN proposed.flows[f] ELSE costs.flows[f]],
                   links |-> [l \in Links |->
                                  IF l \in affectedLinks
                                  THEN proposed.links[l] ELSE costs.links[l]],
                   total |-> total]
           /\ checkpoint' =
                  IF /\ stage = "initial"
                     /\ ~checkpoint.valid \/ NocCost(total) < checkpoint.cost
                  THEN [valid |-> TRUE, cost |-> NocCost(total), locs |-> loc]
                  ELSE checkpoint
    /\ undo' = loc
    /\ phase' = "idle"
    /\ ForgetProposal
    /\ UNCHANGED <<algorithm, stage, moves, loc, routes, usage, pending, walk>>

\* The move is rejected, by accept_noc_swap only when it raises the cost:
\* the blocks go back and revert_noc_traffic_flow_routes swaps the backups in.
Revert ==
    /\ phase = "proposed"
    /\ stage = "initial" => NocCost(proposed.delta) > 0
    /\ usage' = [l \in Links |->
                     usage[l] + SumFunction([f \in FlowsOf(Moved) |->
                                           Share(backup[f], f, l) - Share(routes[f], f, l)])]
    /\ routes' = [f \in Flows |-> IF f \in FlowsOf(Moved)
                                  THEN backup[f] ELSE routes[f]]
    /\ loc' = undo
    /\ phase' = "idle"
    /\ ForgetProposal
    /\ UNCHANGED <<algorithm, stage, moves, undo, pending, walk, costs,
                   checkpoint>>

\* Mutant: the link usages are not zeroed.
restore_checkpoint_OldUsage ==
    /\ loc' = checkpoint.locs /\ undo' = checkpoint.locs
    /\ pending' = Flows /\ phase' = "routing"
    /\ UNCHANGED usage

\* Mutant: only the places are restored, not the routes.
restore_checkpoint_PlacesOnly ==
    /\ loc' = checkpoint.locs /\ undo' = checkpoint.locs
    /\ UNCHANGED <<usage, pending, phase>>

\* The blocks take their places of the checkpoint and reinitialize_noc_routing
\* zeroes the usages and starts to route every flow again.
restore_checkpoint ==
    /\ loc' = checkpoint.locs /\ undo' = checkpoint.locs
    /\ usage' = [l \in Links |-> 0]
    /\ pending' = Flows /\ phase' = "routing"

\* The annealing of the initial placement ends; a better checkpoint is restored.
EndAnneal ==
    /\ stage = "initial" /\ phase = "idle" /\ moves = 0
    /\ stage' = "annealed"
    /\ IF checkpoint.valid /\ checkpoint.cost < NocCost(costs.total)
       THEN restore_checkpoint
       ELSE UNCHANGED <<loc, undo, usage, pending, phase>>
    /\ UNCHANGED <<algorithm, moves, routes, backup, walk, affectedLinks,
                   costs, proposed, checkpoint>>

\* initial_noc_placement refuses routes whose links may wait for each other in
\* a cycle; the constructor of the placer then computes the costs again.  The
\* checkpoint was a local variable of the annealing.
StartMainAnneal ==
    /\ stage = "annealed" /\ phase = "idle"
    /\ ~has_cycles
    /\ stage' = "main" /\ moves' = MainMoves
    /\ costs' = CostsFromScratch
    /\ checkpoint' = NoCheckpoint
    /\ UNCHANGED <<algorithm, phase, loc, undo, routes, backup, usage,
                   pending, walk, affectedLinks, proposed>>

\* Placer::check_place on the final placement.
EndPlacement ==
    /\ stage = "main" /\ phase = "idle"
    /\ ~has_cycles
    /\ stage' = "done"
    /\ UNCHANGED <<algorithm, phase, moves, loc, undo, routes, backup, usage,
                   pending, walk, affectedLinks, costs, proposed, checkpoint>>

CycleFound ==
    /\ stage \in {"annealed", "main"} /\ phase = "idle"
    /\ has_cycles
    /\ phase' = "cycle"
    /\ UNCHANGED <<algorithm, stage, moves, loc, undo, routes, backup, usage,
                   pending, walk, affectedLinks, costs, proposed, checkpoint>>

Next == \/ \E f \in Flows : RouteFlow(f)
        \/ \E f \in Flows : ReRouteFlow(f)
        \/ Hop \/ FinishFlow
        \/ ComputeCosts \/ ProposeMove \/ ProposeCosts \/ Commit \/ Revert
        \/ EndAnneal \/ StartMainAnneal \/ EndPlacement \/ CycleFound

Spec == Init /\ [][Next]_vars
-----------------------------------------------------------------------------
(* Properties *)

\* Every variable holds a value of its type (noc_place_utils.h).
TypeOK ==
    /\ algorithm \in Algorithms
    /\ stage \in {"initial", "annealed", "main", "done"}
    /\ phase \in {"routing", "rerouting", "proposed", "idle", "cycle"}
    /\ moves \in Nat
    /\ loc \in Placements /\ undo \in Placements
    /\ routes \in [Flows -> Seq(Links)] /\ backup \in [Flows -> Seq(Links)]
    /\ DOMAIN usage = Links
    /\ pending \subseteq Flows
    /\ walk \in {NoWalk} \cup [flow : Flows, at : Routers,
                               prev : Directions \cup {"none"},
                               visited : SUBSET Routers]
    /\ affectedLinks \subseteq Links
    /\ checkpoint.valid \in BOOLEAN
    /\ checkpoint.valid => checkpoint.locs \in Placements

\* A route that is not being computed leads from the router of its source to
\* the router of its sink, link after link, over as few links as their distance
\* ("Finds a minimal route", turn_model_routing.h): also after a reverted
\* move, a commit, a restored checkpoint.
Serves(route, src, dst) ==
    /\ Len(route) = Distance(src, dst)
    /\ route[1][1] = src /\ route[Len(route)][2] = dst
    /\ \A i \in 1 .. Len(route) - 1 : route[i][2] = route[i + 1][1]

RoutesServeTheirFlows ==
    \A f \in Flows \ (pending \cup {walk.flow}) :
        Serves(routes[f], loc[Source[f]], loc[Sink[f]])

\* On a mesh of one layer no route, finished or not, takes a turn its turn
\* model forbids: get_legal_directions and is_turn_legal were written apart.
TurnsAllowed ==
    ~is_noc_3d =>
        \A f \in Flows : \A i \in 1 .. Len(routes[f]) - 1 :
            is_turn_legal(algorithm, routes[f][i][1], routes[f][i][2],
                          routes[f][i + 1][2])

\* On a mesh of one layer only the breadth-first search, which is no turn
\* model, makes flows wait for each other's links in a cycle.
DeadlockFree == ~is_noc_3d /\ algorithm # "bfs" => phase # "cycle"

\* route_flow never ends with "No route could be found": the routers of a mesh
\* are connected, and there is a legal link to take until the sink is reached.
RouteFound ==
    walk # NoWalk /\ walk.at # loc[Sink[walk.flow]] => NextDirections # {}

\* The bandwidth used on a link is that of the flows whose routes hold it,
\* between any two updates of the increments and decrements.
UsageMatchesRoutes ==
    LET counted == Flows \ ({walk.flow} \cup
                             (IF phase = "routing" THEN pending ELSE {}))
    IN  \A l \in Links :
            usage[l] = SumFunction([f \in counted |-> Share(routes[f], f, l)])

\* Between moves the costs kept by increments are those computed from scratch
\* (recompute_costs_from_scratch and check_noc_placement_costs compare them).
CostsMatchRoutes == phase = "idle" => costs = CostsFromScratch

\* The initial placement ends no worse than the best placement accepted while
\* annealing, although a restored checkpoint only knows places: its routes
\* are computed again.
KeepsTheBest ==
    stage = "annealed" /\ phase = "idle" /\ checkpoint.valid
        => NocCost(costs.total) <= checkpoint.cost
=============================================================================
