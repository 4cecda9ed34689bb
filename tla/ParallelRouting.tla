---------------------------- MODULE ParallelRouting ----------------------------
(* route() (route/route.cpp) with a router that routes the nodes of a partition *)
(* tree in parallel (ParallelNetlistRouter.tpp; NestedNetlistRouter.tpp is the  *)
(* same on a thread pool).                                                      *)
(*                                                                              *)
(* A task routes the nets of its node one after the other and then starts the   *)
(* tasks of the two children.  Routing one net is two steps, between which any  *)
(* other task may run; what the main thread does between two routings of the    *)
(* netlist is one step for each half.  Costs, timing and congestion are left    *)
(* out: which nets are rerouted, where in its box a net is routed and whether   *)
(* an iteration ends without overuse are nondeterministic.                      *)
EXTENDS PartitionTree

CONSTANTS
  Placements,      \* terminal boxes of the nets the router may be started with
  BBFactors,       \* --bb_factor: the values it is started with
  Dynamic,         \* --route_bb_update dynamic
  ConflictedAt,    \* high_effort_congestion_mode_iteration_threshold
  MaxIterations,   \* --max_router_iterations
  MaxConvergence   \* --router_max_convergence_count

ASSUME PlacementsAssumption == Placements \subseteq [Nets -> Box]
ASSUME OptionsAssumption ==
  /\ BBFactors \subseteq Nat /\ Dynamic \in BOOLEAN
  /\ ConflictedAt \in Nat /\ MaxIterations \in Nat /\ MaxConvergence \in Nat

BBScaleFactor    == 2
BBScaleIterCount == 5

VARIABLES
  phase,      \* where the main thread is in route()
  pins,       \* box of each net's terminals (never changes)
  bb,         \* route_bb
  tree,       \* boxes of the nodes built so far
  edges,      \* parent and child nodes
  pending,    \* calls of build_helper still to be made
  home,       \* the node a net is kept in: node.nets and _net_to_ptree_node
  open,       \* nodes whose task is started and not finished
  visit,      \* per net: this iteration's visit by the task of its node
  complete,   \* per net: every sink of its route tree is reached
  route,      \* per net: hull of its route tree, {} before it has one
  results,    \* RouteIterResults: is_routable, rerouted_nets, bb_updated_nets
  itry, bb_fac, conflicted, convergences,
  best        \* best_routing: nets complete in it; or none saved

treeVars == <<tree, edges, pending>>
loopVars == <<itry, bb_fac, conflicted, convergences, best>>
vars == <<phase, pins, bb, treeVars, home, open, visit, complete, route, results,
          loopVars>>

NoBest    == {"none"}
NoResults == [routable |-> TRUE, rerouted |-> {}, updated |-> {}]

TypeOK ==
  /\ phase \in {"start", "build", "route", "assess", "prepare", "success", "failure",
                "aborted"}
  /\ pins \in [Nets -> Box] /\ bb \in [Nets -> Box]
  /\ tree \subseteq Box /\ edges \subseteq tree \X Box
  /\ \A j \in pending : j.box \in Box /\ j.nets \subseteq Nets
  /\ home \in [Nets -> Box]
  /\ open \subseteq tree
  /\ visit \in [Nets -> {"waiting", "routing", "visited"}]
  /\ complete \in [Nets -> BOOLEAN]
  /\ \A n \in Nets : route[n] \subseteq Box /\ Cardinality(route[n]) <= 1
  /\ results \in [routable: BOOLEAN, rerouted: SUBSET Nets, updated: SUBSET Nets]
  /\ itry \in 1 .. MaxIterations + 1
  /\ bb_fac \in Nat /\ conflicted \in Nat /\ convergences \in Nat
  /\ best = NoBest \/ best \subseteq Nets

Init ==
  /\ phase = "start"
  /\ pins \in Placements /\ bb_fac \in BBFactors
  /\ bb = [n \in Nets |-> LoadBox(pins[n], bb_fac)]
  /\ tree = {} /\ edges = {} /\ pending = {}
  /\ home = [n \in Nets |-> Device]
  /\ open = {}
  /\ visit = [n \in Nets |-> "visited"]
  /\ complete = [n \in Nets |-> FALSE]
  /\ route = [n \in Nets |-> {}]
  /\ results = NoResults
  /\ itry = 1 /\ conflicted = 0 /\ convergences = 0
  /\ best = NoBest

-------------------------------------------------------------------------------
(* route_netlist up to the first task, and the construction of the tree *)

StartIteration ==
  /\ phase = "start" /\ itry <= MaxIterations
  /\ results' = NoResults
  /\ visit' = [n \in Nets |-> "waiting"]
  /\ IF tree = {}
       THEN /\ phase' = "build"
            /\ pending' = {[box |-> Device, nets |-> Nets]}
            /\ UNCHANGED open
       ELSE phase' = "route" /\ open' = {Device} /\ UNCHANGED pending
  /\ UNCHANGED <<pins, bb, tree, edges, home, complete, route, loopVars>>

\* build_helper for a set of nets too small to cut.
BuildLeaf(j) ==
  /\ j \in pending
  /\ Cardinality(j.nets) < MinNets
  /\ tree' = tree \union {j.box}
  /\ home' = [n \in Nets |-> IF n \in j.nets THEN j.box ELSE home[n]]
  /\ pending' = pending \ {j}
  /\ UNCHANGED <<phase, pins, bb, edges, open, visit, complete, route, results,
                 loopVars>>

\* ... for a set to cut: by the best cutline, or into one node if there is none.
BuildBranch(j) ==
  /\ j \in pending
  /\ Cardinality(j.nets) >= MinNets
  /\ j.box.xmin < j.box.xmax /\ j.box.ymin < j.box.ymax
  /\ tree' = tree \union {j.box}
  /\ IF UsableCuts(j.nets, bb, j.box) = {}
       THEN /\ home' = [n \in Nets |-> IF n \in j.nets THEN j.box ELSE home[n]]
            /\ pending' = pending \ {j}
            /\ UNCHANGED edges
       ELSE \E c \in BestCuts(j.nets, bb, j.box) :
              LET l == [box |-> LeftBox(j.box, c), nets |-> LeftNets(j.nets, bb, c)]
                  r == [box |-> RightBox(j.box, c), nets |-> RightNets(j.nets, bb, c)]
              IN /\ home' = [n \in Nets |-> IF n \in CutNets(j.nets, bb, c)
                                              THEN j.box ELSE home[n]]
                 /\ pending' = (pending \ {j}) \union {l, r}
                 /\ edges' = edges \union {<<j.box, l.box>>, <<j.box, r.box>>}
  /\ UNCHANGED <<phase, pins, bb, open, visit, complete, route, results, loopVars>>

\* VTR_ASSERT(width > 1 && height > 1)
BuildAsserts(j) ==
  /\ j \in pending
  /\ Cardinality(j.nets) >= MinNets
  /\ j.box.xmin = j.box.xmax \/ j.box.ymin = j.box.ymax
  /\ phase' = "aborted"
  /\ UNCHANGED <<pins, bb, treeVars, home, open, visit, complete, route, results,
                 loopVars>>

BuildDone ==
  /\ phase = "build" /\ pending = {}
  /\ phase' = "route"
  /\ open' = {Device}
  /\ UNCHANGED <<pins, bb, treeVars, home, visit, complete, route, results, loopVars>>

-------------------------------------------------------------------------------
(* route_partition_tree_node *)

NetsOf(r) == {n \in Nets : home[n] = r}
Children(r) == {c \in tree : <<r, c>> \in edges}

\* The task of a node takes its next net; route_net starts.
BeginNet(n) ==
  /\ phase = "route" /\ home[n] \in open
  /\ visit[n] = "waiting"
  /\ \A m \in NetsOf(home[n]) : visit[m] # "routing"
  /\ visit' = [visit EXCEPT ![n] = "routing"]
  /\ UNCHANGED <<phase, pins, bb, treeVars, home, open, complete, route, results,
                 loopVars>>

\* Mutant: a net is skipped whether or not it is complete.
SkipNet_Incomplete(n) ==
  /\ visit[n] = "routing"
  /\ visit' = [visit EXCEPT ![n] = "visited"]
  /\ UNCHANGED <<phase, pins, bb, treeVars, home, open, complete, route, results,
                 loopVars>>

\* should_route_net: a net that is complete may be left as it is.
SkipNet(n) ==
  /\ visit[n] = "routing" /\ complete[n]
  /\ visit' = [visit EXCEPT ![n] = "visited"]
  /\ UNCHANGED <<phase, pins, bb, treeVars, home, open, complete, route, results,
                 loopVars>>

\* Where a net's tree may end up: as wide as its box or, where the difference is
\* read (dynamic_update_bounding_boxes), as tight as its terminals.
Hulls(n) == {bb[n]} \union (IF Dynamic THEN {pins[n]} ELSE {})

\* Every sink is reached within the net's box.
FinishNet(n) ==
  /\ visit[n] = "routing"
  /\ \E h \in Hulls(n) : route' = [route EXCEPT ![n] = {h}]
  /\ complete' = [complete EXCEPT ![n] = TRUE]
  /\ visit' = [visit EXCEPT ![n] = "visited"]
  /\ results' = [results EXCEPT !.rerouted = @ \union {n}]
  /\ UNCHANGED <<phase, pins, bb, treeVars, home, open, loopVars>>

\* Mutant: the net is retried at once, in the same box.
RetryNet_SameBox(n) ==
  /\ visit[n] = "routing" /\ bb[n] # Device
  /\ \E h \in Hulls(n) : route' = [route EXCEPT ![n] = {h}]
  /\ complete' = [complete EXCEPT ![n] = FALSE]
  /\ visit' = [visit EXCEPT ![n] = "waiting"]
  /\ UNCHANGED <<phase, pins, bb, treeVars, home, open, results, loopVars>>

\* retry_with_full_bb: a sink has no path within a box smaller than the device.
\* The box becomes the device's and the net is left unrouted for this iteration.
RetryNet(n) ==
  /\ visit[n] = "routing" /\ bb[n] # Device
  /\ \E h \in Hulls(n) : route' = [route EXCEPT ![n] = {h}]
  /\ complete' = [complete EXCEPT ![n] = FALSE]
  /\ bb' = [bb EXCEPT ![n] = Device]
  /\ visit' = [visit EXCEPT ![n] = "visited"]
  /\ results' = [results EXCEPT !.updated = @ \union {n}]
  /\ UNCHANGED <<phase, pins, treeVars, home, open, loopVars>>

\* No path in the whole device, or no node of the route tree to start from: the
\* task returns without starting its children.
FailNet(n) ==
  /\ visit[n] = "routing"
  /\ \E h \in Hulls(n) : route' = [route EXCEPT ![n] = {h}]
  /\ complete' = [complete EXCEPT ![n] = FALSE]
  /\ visit' = [visit EXCEPT ![n] = "visited"]
  /\ results' = [results EXCEPT !.routable = FALSE]
  /\ open' = open \ {home[n]}
  /\ UNCHANGED <<phase, pins, bb, treeVars, home, loopVars>>

\* Mutant: the children are started while the node's nets are being routed.
FinishNode_Early(r) ==
  /\ r \in open
  /\ \A n \in NetsOf(r) : visit[n] # "waiting"
  /\ open' = (open \ {r}) \union Children(r)
  /\ UNCHANGED <<phase, pins, bb, treeVars, home, visit, complete, route, results,
                 loopVars>>

\* Mutant: one child only is started.
FinishNode_OneChild(r) ==
  /\ r \in open
  /\ \A n \in NetsOf(r) : visit[n] = "visited"
  /\ open' = (open \ {r}) \union
               (IF Children(r) = {} THEN {} ELSE {CHOOSE c \in Children(r) : TRUE})
  /\ UNCHANGED <<phase, pins, bb, treeVars, home, visit, complete, route, results,
                 loopVars>>

\* Every net of the node was visited: the children's tasks are started.
FinishNode(r) ==
  /\ r \in open
  /\ \A n \in NetsOf(r) : visit[n] = "visited"
  /\ open' = (open \ {r}) \union Children(r)
  /\ UNCHANGED <<phase, pins, bb, treeVars, home, visit, complete, route, results,
                 loopVars>>

\* group.wait(), and the results of the threads combined
WaitForTasks ==
  /\ phase = "route" /\ open = {}
  /\ phase' = "assess"
  /\ UNCHANGED <<pins, bb, treeVars, home, open, visit, complete, route, results,
                 loopVars>>

-------------------------------------------------------------------------------
(* The rest of an iteration of route() *)

\* Leaving the loop: restore the best routing if one was saved.
Leave(saved) ==
  IF saved = NoBest
    THEN phase' = "failure" /\ UNCHANGED complete
    ELSE phase' = "success" /\ complete' = [n \in Nets |-> n \in saved]

OutOfIterations ==
  /\ phase = "start" /\ itry > MaxIterations
  /\ Leave(best)
  /\ UNCHANGED <<pins, bb, treeVars, home, open, visit, route, results, loopVars>>

\* A feasible routing, one without overuse, is saved when it is the first or a
\* better one, and counted; the loop ends after enough of them, when nothing was
\* routed, or when a heuristic gives up.
Assess ==
  /\ phase = "assess"
  /\ IF ~results.routable
       THEN phase' = "failure" /\ UNCHANGED <<complete, convergences, best>>
       ELSE \E feasible, better, stop \in BOOLEAN :
              /\ best' = IF feasible /\ (better \/ best = NoBest)
                           THEN {n \in Nets : complete[n]} ELSE best
              /\ convergences' = convergences + (IF feasible THEN 1 ELSE 0)
              /\ IF \/ convergences' >= MaxConvergence
                    \/ results.rerouted \union results.updated = {}
                    \/ stop
                   THEN Leave(best')
                   ELSE phase' = "prepare" /\ UNCHANGED complete
  /\ UNCHANGED <<pins, bb, treeVars, home, open, visit, route, results, itry, bb_fac,
                 conflicted>>

\* Mutant: the net stays where the tree was built.
NewHome_Stays(n, boxes) == home[n]

\* update_nets for one net: up from its node to the first that holds its box.
NewHome(n, boxes) ==
  CHOOSE r \in tree :
    /\ Within(home[n], r) /\ Within(boxes[n], r)
    /\ \A s \in tree : Within(home[n], s) /\ Within(boxes[n], s) => Within(r, s)

\* dynamic_update_bounding_boxes.  Its second parameter, the list of updated
\* nets, is passed by value: the caller's list does not change.
DynamicBoxes ==
  [n \in Nets |-> IF Dynamic /\ n \in results.rerouted
                    THEN Expand(bb[n], CHOOSE h \in route[n] : TRUE) ELSE bb[n]]

Prepare ==
  /\ phase = "prepare"
  /\ home' = [n \in Nets |-> IF n \in results.updated THEN NewHome(n, DynamicBoxes)
                                                      ELSE home[n]]
  /\ IF itry >= ConflictedAt
       THEN /\ conflicted' = conflicted + 1
            /\ IF conflicted % BBScaleIterCount = 0
                 THEN /\ bb_fac' = Lower(Upper(Width, Height), bb_fac * BBScaleFactor)
                      /\ bb' = [n \in Nets |-> LoadBox(pins[n], bb_fac')]
                 ELSE bb' = DynamicBoxes /\ UNCHANGED bb_fac
       ELSE bb' = DynamicBoxes /\ UNCHANGED <<bb_fac, conflicted>>
  /\ itry' = itry + 1
  /\ phase' = "start"
  /\ UNCHANGED <<pins, treeVars, open, visit, complete, route, results, convergences,
                 best>>

-------------------------------------------------------------------------------
NetStep(n) == BeginNet(n) \/ SkipNet(n) \/ FinishNet(n) \/ RetryNet(n) \/ FailNet(n)

BuildStep(j) == BuildLeaf(j) \/ BuildBranch(j) \/ BuildAsserts(j)

Terminated == phase \in {"success", "failure", "aborted"} /\ UNCHANGED vars

Next ==
  \/ StartIteration \/ OutOfIterations
  \/ phase = "build" /\ \E j \in pending : BuildStep(j)
  \/ BuildDone
  \/ \E n \in Nets : NetStep(n)
  \/ \E r \in open : FinishNode(r)
  \/ WaitForTasks
  \/ Assess
  \/ Prepare
  \/ Terminated

Spec == Init /\ [][Next]_vars

(* The scheduler runs every task that is started, and the main thread.        *)
FairSpec == Spec /\ WF_vars(Next)

-------------------------------------------------------------------------------
(* Properties *)

\* The nodes form a tree of regions: two nodes are nested or disjoint, and each
\* node but the root is the child of exactly one node, which holds it.
TreeOfRegions ==
  /\ \A r, s \in tree : Within(r, s) \/ Within(s, r) \/ Disjoint(r, s)
  /\ \A c \in tree \ {Device} :
       \E p \in tree : /\ <<p, c>> \in edges /\ Within(c, p)
                      /\ \A q \in tree : <<q, c>> \in edges => q = p

\* The node a net waits in holds the net's box, at every point of an iteration
\* where the net may still be routed.
HomeHoldsBox ==
  phase \in {"start", "route"} =>
    \A n \in Nets : Within(bb[n], home[n]) \/ n \in results.updated \/ tree = {}

\* What the routing of a net reads and writes: its box and its present route.
Touched(n) == {bb[n]} \union route[n]

\* "Nets in a given level of nodes are guaranteed to not have any overlapping
\* bounding boxes, so they can be routed in parallel" (ParallelNetlistRouter.tpp):
\* two nets being routed at the same time never touch the same place.
DisjointRouting ==
  \A m, n \in Nets :
    m # n /\ visit[m] = "routing" /\ visit[n] = "routing" =>
      \A a \in Touched(m), b \in Touched(n) : Disjoint(a, b)

\* No net falls through the tree: when all tasks of a routable iteration are over,
\* every net was visited.
EveryNetVisited ==
  phase = "assess" /\ results.routable => \A n \in Nets : visit[n] = "visited"

\* build_helper's assertion that a region to cut is wider and higher than one
\* tile fails only under --bb_factor 0, which leaves boxes one tile wide at the
\* edges of the device.
AssertsOnlyWhenTight == phase = "aborted" => bb_fac = 0

\* A net that ends an iteration with a sink unreached is reported, so that it is
\* moved to a node that holds its new box.
IncompleteIsReported ==
  phase = "assess" /\ results.routable =>
    \A n \in Nets : complete[n] \/ n \in results.updated

\* Every task of every iteration ends and so does route(): no net is retried for
\* ever.
RouteTerminates == <>(phase \in {"success", "failure", "aborted"})

\* "Successfully routed" (route.cpp): route() succeeds with every sink reached.
SuccessIsComplete == phase = "success" => \A n \in Nets : complete[n]
===============================================================================
