----------------------------- MODULE Interposer -----------------------------
(***************************************************************************)
(* How the routing-resource graph of an interposer device is built         *)
(* (src/vpr/src/route/rr_graph.cpp and rr_graph_interposer.cpp): the cut   *)
(* rows are placed, vertical wires that cross the first cut are split into *)
(* two segments joined by an interposer node through a slower switch, the  *)
(* spatial lookup follows, and the switches the edges name in terms of the *)
(* architecture become switches of the graph.  A build may be flat (wires  *)
(* inside the clusters are added later), and the graph is freed and built  *)
(* again, as the search for a channel width and flat routing do.           *)
(*                                                                         *)
(*   pc  "setup"  vpr_setup_interposer_cut_locations                       *)
(*       "draft"  build_rr_graph up to the edges                           *)
(*       "cross"  modify_rr_graph_for_interposer_based_arch begins         *)
(*       "split"  its loop over the crossing wires                         *)
(*       "index"  the end of alloc_and_load_rr_graph                       *)
(*       "load"   alloc_and_load_rr_switch_inf                             *)
(*       "flat"   build_intra_cluster_rr_graph                             *)
(*       "built"  the graph is in use                                      *)
(*       "fatal"  VPR_FATAL_ERROR        "asserted"  a VTR_ASSERT failed   *)
(*                                                                         *)
(* A wire is named by the column, track and rows it is drawn with; nodes   *)
(* that are not CHANY wires, and edges that are not about a cut, are left  *)
(* out, but for one edge through each switch of the architecture.          *)
(***************************************************************************)
EXTENDS Integers, Sequences, FiniteSets

CONSTANTS Columns,        \* the columns of vertical channels
          Height,         \* rows of the grid without its border
          Tracks,         \* tracks of a vertical channel
          XMax,           \* chan_width.x_max, tracks of a horizontal one
          Layouts,        \* the ways to cut each track into wires
          Directions,     \* Direction of each track
          Architectures,  \* all_sw_inf as read from the architecture file
          InternalDelays, \* delays of the switches inside the clusters
          InternalEdges,  \* edges added inside the clusters
          MaxCuts,        \* num_cuts
          NoNode,         \* RRNodeId::INVALID()
          NodeLimit,      \* 200000
          MaxBuilds       \* times the graph is built

Rows == 1 .. Height

TrackIds == 0 .. Tracks - 1

None == "none"

\* An architecture switch: whether its delay depends on its fan-in, and the
\* delay of one that lies inside the tiles.
ArchSwitch == [dependent : BOOLEAN, internal : InternalDelays \cup {None}]

ASSUME ChannelAssumption ==
    /\ Columns \subseteq Nat /\ IsFiniteSet(Columns)
    /\ Height \in Nat /\ Tracks \in Nat /\ XMax \in Nat
    /\ Directions \subseteq [TrackIds -> {"INC", "DEC", "BIDIR"}]

\* The wires of a track share no row.
ASSUME LayoutAssumption ==
    \A layout \in Layouts :
        /\ layout \in [TrackIds -> SUBSET {r \in Rows \X Rows : r[1] <= r[2]}]
        /\ \A t \in TrackIds : \A v, w \in layout[t] :
               v # w => v[2] < w[1] \/ w[2] < v[1]

ASSUME SwitchAssumption ==
    /\ None \notin InternalDelays
    /\ \A archs \in Architectures : archs \in Seq(ArchSwitch) /\ archs # <<>>

ASSUME BoundAssumption ==
    {InternalEdges, MaxCuts, NodeLimit, MaxBuilds} \subseteq Nat

VARIABLES pc,
          cuts,       \* arch_cut_locations
          direction,  \* of the wires of each track
          nodes,      \* the CHANY nodes: rows and track
          lookup,     \* RRSpatialLookup of the CHANY nodes
          crossing,   \* rr_nodes_that_cross still to be visited
          quota,      \* wires_to_process
          edges,      \* the edges of t_rr_graph_storage
          remapped,   \* remapped_edges_
          archs,      \* all_sw_inf, the key of an entry being its index
          switches,   \* rr_switch_inf_
          remap,      \* switch_fanin_remap, of its entry at UNDEFINED
          flatEdges,  \* edges added inside the clusters by this build
          builds      \* graphs built so far

vars == <<pc, cuts, direction, nodes, lookup, crossing, quota, edges, remapped,
          archs, switches, remap, flatEdges, builds>>

graph == <<direction, nodes, lookup, edges>>

-----------------------------------------------------------------------------
(* Nodes and the lookup. *)

Parts == {"wire", "segment", "interposer"}

\* A node is the wire as it was drawn, the segment split from it, or the
\* interposer node between the two.
Ids == [x : Columns, track : TrackIds, low : Rows, high : Rows, part : Parts]

ASSUME NoNodeAssumption == NoNode \notin Ids

Part(w, part) == [w EXCEPT !.part = part]

Slots == [x : Columns, y : Rows, track : 0 .. Tracks - 1 + XMax]

\* The slots of the lookup that a node placed at some rows and track fills.
SlotsOf(id, n) ==
    {s \in Slots : s.x = id.x /\ s.track = n.track /\ s.y \in n.low .. n.high}

\* add_node_to_all_locs
Register(table, id, n) ==
    [s \in Slots |-> IF s \in SlotsOf(id, n) THEN id ELSE table[s]]

\* remove_node clears one slot, and only when the node is there.
Unregister(table, id, row) ==
    [s \in Slots |-> IF s.x = id.x /\ s.y = row /\ s.track = id.track
                        /\ table[s] = id
                     THEN NoNode ELSE table[s]]

Drawn(layout) ==
    {w \in Ids : w.part = "wire" /\ <<w.low, w.high>> \in layout[w.track]}

AsDrawn(w) == [low |-> w.low, high |-> w.high, track |-> w.track]

EmptyLookup == [s \in Slots |-> NoNode]

NoNodes == [id \in {} |-> id]

LookupOf(wires) ==
    [s \in Slots |->
        IF \E w \in wires : s \in SlotsOf(w, AsDrawn(w))
        THEN CHOOSE w \in wires : s \in SlotsOf(w, AsDrawn(w))
        ELSE NoNode]

-----------------------------------------------------------------------------
(* Switches.  A switch of the graph copies a switch of the architecture: its *)
(* delay is Tdel(0) for a draft, times delay_increase for a delayed switch,  *)
(* and Tdel(UNDEFINED) once loaded.                                          *)

DelayIncrease == 3

PercentCut == 30

Copy(arch, loaded, times) ==
    [arch |-> arch, loaded |-> loaded, times |-> times]

Draft(arch) == Copy(arch, FALSE, 1)

\* Beside the switch it names, an edge records the one it is meant to have.
Edge(from, to, arch, times, switch) ==
    [from |-> from, to |-> to, arch |-> arch, times |-> times,
     switch |-> switch, remapped |-> FALSE]

\* An edge between two nodes the model leaves out.
OtherEdge(arch, switch) == Edge(NoNode, NoNode, arch, 1, switch)

\* Mutant: they take the places of the drafts.
create_delayed_switches_InPlace ==
    [i \in 1 .. Len(archs) |-> Copy(i, FALSE, DelayIncrease)]

\* create_delayed_switches numbers its switches after those of the graph.
create_delayed_switches ==
    switches \o [i \in 1 .. Len(archs) |-> Copy(i, FALSE, DelayIncrease)]

\* The first entry of delayed_switch_map is used for every wire.
ValidDelayedSwitch == Len(switches) - Len(archs) + 1

\* remap_rr_node_switch_indices leaves alone the edges already remapped.
RemapEdges ==
    {IF e.remapped THEN e
     ELSE [e EXCEPT !.switch = remap[e.switch], !.remapped = TRUE] : e \in edges}

-----------------------------------------------------------------------------
Init ==
    /\ pc = "setup"
    /\ cuts = <<>>
    /\ direction \in Directions
    /\ nodes = NoNodes
    /\ lookup = EmptyLookup
    /\ crossing = {}
    /\ quota = 0
    /\ edges = {}
    /\ remapped = FALSE
    /\ archs \in Architectures
    /\ switches = <<>>
    /\ remap = <<>>
    /\ flatEdges = 0
    /\ builds = 0

\* Cuts are placed at equal distances that are multiples of lcm, the least
\* common multiple of the heights of the blocks.
SliceHeight(numCuts, lcm) ==
    IF (Height \div lcm) \div (numCuts + 1) = 0 THEN lcm
    ELSE ((Height \div lcm) \div (numCuts + 1)) * lcm

CutLocations(numCuts, lcm) ==
    [k \in 1 .. numCuts |-> k * SliceHeight(numCuts, lcm)]

vpr_setup_interposer_cut_locations(numCuts, lcm) ==
    /\ pc = "setup"
    /\ IF numCuts > 0 /\ (lcm >= Height \/ numCuts * SliceHeight(numCuts, lcm) >= Height)
       THEN pc' = "fatal" /\ UNCHANGED cuts
       ELSE pc' = "draft" /\ cuts' = CutLocations(numCuts, lcm)
    /\ UNCHANGED <<direction, nodes, lookup, crossing, quota, edges, remapped,
                   archs, switches, remap, flatEdges, builds>>

\* build_rr_graph drafts the switches and makes nodes and edges; an edge names
\* a switch of the architecture.
DraftGraph(layout, toward) ==
    /\ pc = "draft"
    /\ pc' = IF cuts = <<>> THEN "index" ELSE "cross"
    /\ switches' = switches \o [i \in 1 .. Len(archs) |-> Draft(i)]
    /\ direction' = toward
    /\ nodes' = [w \in Drawn(layout) |-> AsDrawn(w)]
    /\ lookup' = LookupOf(Drawn(layout))
    /\ edges' = {OtherEdge(i, i) : i \in 1 .. Len(archs)}
    /\ UNCHANGED <<cuts, crossing, quota, remapped, archs, remap, flatEdges, builds>>

\* A wire crosses a cut when the cut is on one of its rows but the last.
Crosses(low, high, cut) == low <= cut /\ high > cut

CollectCrossing ==
    LET found == {w \in DOMAIN nodes :
                     \E k \in 1 .. Len(cuts) :
                         Crosses(nodes[w].low, nodes[w].high, cuts[k])}
    IN  /\ pc = "cross"
        /\ pc' = "split"
        /\ crossing' = found
        /\ quota' = (Cardinality(found) * PercentCut) \div 100
        /\ switches' = create_delayed_switches
        /\ UNCHANGED <<cuts, graph, remapped, archs, remap, flatEdges, builds>>

\* Mutant: the direction of the wire is forgotten.
NewRows_Upward(w, cut) == [low |-> cut + 1, high |-> nodes[w].high]

\* The rows of the new segment and of the wire once it is split; a wire keeps
\* the end it is driven from.
NewRows(w, cut) ==
    IF direction[w.track] = "INC" THEN [low |-> cut + 1, high |-> nodes[w].high]
    ELSE [low |-> nodes[w].low, high |-> cut]

KeptRows(w, cut) ==
    IF direction[w.track] = "INC" THEN [low |-> nodes[w].low, high |-> cut]
    ELSE [low |-> cut + 1, high |-> nodes[w].high]

Placed(rows, track) == [low |-> rows.low, high |-> rows.high, track |-> track]

\* The nodes of a split wire: the segment, the interposer node on a track of
\* its own, and the wire itself.
SplitNodes(w, cut) ==
    [id \in DOMAIN nodes \cup {Part(w, "segment"), Part(w, "interposer")} |->
        CASE id = w -> Placed(KeptRows(w, cut), w.track)
          [] id = Part(w, "segment") -> Placed(NewRows(w, cut), w.track)
          [] id = Part(w, "interposer") ->
                 Placed([low |-> cut, high |-> cut], w.track + XMax)
          [] OTHER -> nodes[id]]

\* Mutant: the wire is removed after it was put back.
SplitLookup_RemovedLast(w, cut) ==
    LET placed == SplitNodes(w, cut)
        new == Register(lookup, Part(w, "segment"), placed[Part(w, "segment")])
        inter == Register(new, Part(w, "interposer"), placed[Part(w, "interposer")])
    IN  Unregister(Register(inter, w, placed[w]), w, nodes[w].low)

\* The lookup sees the new nodes, forgets the wire at its first row and sees
\* it again at the rows it keeps.
SplitLookup(w, cut) ==
    LET placed == SplitNodes(w, cut)
        new == Register(lookup, Part(w, "segment"), placed[Part(w, "segment")])
        inter == Register(new, Part(w, "interposer"), placed[Part(w, "interposer")])
    IN  Register(Unregister(inter, w, nodes[w].low), w, placed[w])

SplitEdges(w) ==
    {Edge(w, Part(w, "interposer"), 1, DelayIncrease, ValidDelayedSwitch),
     Edge(Part(w, "interposer"), Part(w, "segment"), 1, DelayIncrease,
          ValidDelayedSwitch)}

\* One round of the loop: any crossing wire, for the model does not number the
\* nodes.  A wire that does not cross the first cut is passed over.
SplitWire(w) ==
    LET cut == cuts[1]
    IN  /\ pc = "split" /\ quota > 0 /\ w \in crossing
        /\ Crosses(nodes[w].low, nodes[w].high, cut)
        /\ Cardinality(DOMAIN nodes) < NodeLimit
        /\ crossing' = crossing \ {w}
        /\ quota' = quota - 1
        /\ nodes' = SplitNodes(w, cut)
        /\ lookup' = SplitLookup(w, cut)
        /\ edges' = edges \cup SplitEdges(w)
        /\ UNCHANGED <<pc, cuts, direction, remapped, archs, switches, remap,
                       flatEdges, builds>>

PassOver(w) ==
    /\ pc = "split" /\ quota > 0 /\ w \in crossing
    /\ ~ Crosses(nodes[w].low, nodes[w].high, cuts[1])
    /\ crossing' = crossing \ {w}
    /\ quota' = quota - 1
    /\ UNCHANGED <<pc, cuts, graph, remapped, archs, switches, remap, flatEdges, builds>>

\* The loop ends, early when the graph has grown too large.
EndSplitting ==
    /\ pc = "split"
    /\ \/ quota = 0
       \/ \E w \in crossing : /\ Crosses(nodes[w].low, nodes[w].high, cuts[1])
                              /\ Cardinality(DOMAIN nodes) >= NodeLimit
    /\ pc' = "index"
    /\ crossing' = {}
    /\ quota' = 0
    /\ UNCHANGED <<cuts, graph, remapped, archs, switches, remap, flatEdges, builds>>

\* The end of alloc_and_load_rr_graph.  With an empty switch_fanin_remap the
\* edges are declared to name switches of the graph already; otherwise they are
\* remapped, twice, and the second time asserts that it is the first.
IndexEdges ==
    /\ pc = "index"
    /\ pc' = IF remap = <<>> THEN "load" ELSE "asserted"
    /\ edges' = IF remap = <<>> THEN edges ELSE RemapEdges
    /\ remapped' = TRUE
    /\ UNCHANGED <<cuts, direction, nodes, lookup, crossing, quota, archs,
                   switches, remap, flatEdges, builds>>

\* alloc_and_load_rr_switch_inf.  partition_edges has run, so no fan-in is
\* counted: architecture switch i becomes switch i for an UNDEFINED fan-in, and
\* Tdel asserts that a switch which needs a fan-in is given one.
LoadSwitches ==
    /\ pc = "load"
    /\ IF \E i \in 1 .. Len(archs) : archs[i].dependent
       THEN pc' = "asserted" /\ UNCHANGED <<switches, remap>>
       ELSE /\ pc' \in {"flat", "built"}
            /\ switches' = [i \in 1 .. Len(switches) |->
                               IF i <= Len(archs) THEN Copy(i, TRUE, 1)
                               ELSE switches[i]]
            /\ remap' = [i \in 1 .. Len(archs) |-> i]
    /\ edges' = IF pc' = "flat"
                THEN {[e EXCEPT !.remapped = TRUE] : e \in edges}
                ELSE edges
    /\ remapped' = (pc' # "flat")
    /\ UNCHANGED <<cuts, direction, nodes, lookup, crossing, quota, archs,
                   flatEdges, builds>>

-----------------------------------------------------------------------------
(* The resources inside the clusters. *)

WithDelay(delay) == {i \in 1 .. Len(archs) : archs[i].internal = delay}

\* find_create_intra_cluster_sw: the first switch of the architecture inside
\* the tiles with this delay, or a new one, with a switch of the graph for it.
ReuseInternal(delay) ==
    /\ pc = "flat" /\ flatEdges < InternalEdges
    /\ \E i \in WithDelay(delay) :
           /\ \A j \in WithDelay(delay) : i <= j
           /\ edges' = edges \cup {OtherEdge(i, i)}
    /\ flatEdges' = flatEdges + 1
    /\ UNCHANGED <<pc, cuts, direction, nodes, lookup, crossing, quota, remapped,
                   archs, switches, remap, builds>>

CreateInternal(delay) ==
    LET key == Len(archs) + 1
    IN  /\ pc = "flat" /\ flatEdges < InternalEdges
        /\ WithDelay(delay) = {}
        /\ archs' = Append(archs, [dependent |-> FALSE, internal |-> delay])
        /\ switches' = Append(switches, Draft(key))
        /\ remap' = Append(remap, Len(switches) + 1)
        /\ edges' = edges \cup {OtherEdge(key, key)}
        /\ flatEdges' = flatEdges + 1
        /\ UNCHANGED <<pc, cuts, direction, nodes, lookup, crossing, quota,
                       remapped, builds>>

EndFlat ==
    /\ pc = "flat"
    /\ pc' = "built"
    /\ edges' = RemapEdges
    /\ remapped' = TRUE
    /\ UNCHANGED <<cuts, direction, nodes, lookup, crossing, quota, archs,
                   switches, remap, flatEdges, builds>>

\* all_sw_inf outlives the graph, with the switches a flat build added to it.
free_rr_graph ==
    /\ pc = "built" /\ builds < MaxBuilds
    /\ pc' = "draft"
    /\ nodes' = NoNodes
    /\ lookup' = EmptyLookup
    /\ edges' = {}
    /\ remapped' = FALSE
    /\ switches' = <<>>
    /\ remap' = <<>>
    /\ flatEdges' = 0
    /\ builds' = builds + 1
    /\ UNCHANGED <<cuts, direction, crossing, quota, archs>>

Next ==
    \/ \E numCuts \in 0 .. MaxCuts, lcm \in Rows :
           vpr_setup_interposer_cut_locations(numCuts, lcm)
    \/ \E layout \in Layouts, toward \in Directions : DraftGraph(layout, toward)
    \/ CollectCrossing
    \/ \E w \in crossing : SplitWire(w)
    \/ \E w \in crossing : PassOver(w)
    \/ EndSplitting
    \/ IndexEdges
    \/ LoadSwitches
    \/ \E delay \in InternalDelays : ReuseInternal(delay)
    \/ \E delay \in InternalDelays : CreateInternal(delay)
    \/ EndFlat
    \/ free_rr_graph

Spec == Init /\ [][Next]_vars

-----------------------------------------------------------------------------
(* Properties. *)

EdgeRecords ==
    [from : Ids \cup {NoNode}, to : Ids \cup {NoNode}, arch : Nat,
     times : {1, DelayIncrease}, switch : Nat, remapped : BOOLEAN]

\* The types of the state.
TypeOK ==
    /\ pc \in {"setup", "draft", "cross", "split", "index", "load", "flat",
               "built", "fatal", "asserted"}
    /\ cuts \in Seq(1 .. Height - 1)
    /\ direction \in Directions
    /\ DOMAIN nodes \subseteq Ids
    /\ \A id \in DOMAIN nodes :
           nodes[id] \in [low : Rows, high : Rows, track : 0 .. Tracks - 1 + XMax]
    /\ lookup \in [Slots -> Ids \cup {NoNode}]
    /\ crossing \subseteq DOMAIN nodes
    /\ quota \in Nat
    /\ edges \subseteq EdgeRecords
    /\ remapped \in BOOLEAN
    /\ archs \in Seq(ArchSwitch) /\ archs # <<>>
    /\ switches \in Seq([arch : Nat, loaded : BOOLEAN, times : {1, DelayIncrease}])
    /\ remap \in Seq(Nat)
    /\ flatEdges \in 0 .. InternalEdges /\ builds \in 0 .. MaxBuilds

\* Whatever the order in which the splits overwrite, clear and fill slots of the
\* spatial lookup, a slot finds a CHANY node that spans it when there is one and
\* nothing otherwise; two nodes span a slot only where the interposer node of
\* one wire falls on the track of another.
LookupFollowsTheSplit ==
    /\ \A s \in Slots : lookup[s] # NoNode =>
           /\ lookup[s] \in DOMAIN nodes
           /\ s \in SlotsOf(lookup[s], nodes[lookup[s]])
    /\ \A id \in DOMAIN nodes : \A s \in SlotsOf(id, nodes[id]) :
           \/ lookup[s] = id
           \/ /\ lookup[s] # NoNode
              /\ (id.part = "interposer") # (lookup[s].part = "interposer")

\* In a graph that was built no node is hidden: the lookup finds each node at
\* every slot it spans (verify_rr_node_indices, rr_graph2.cpp:1640).  Violated
\* when a vertical channel has more tracks than a horizontal one: an interposer
\* node, on track original + x_max, takes or loses a slot of another wire.
NoNodeIsHidden ==
    pc = "built" =>
        \A id \in DOMAIN nodes : \A s \in SlotsOf(id, nodes[id]) : lookup[s] = id

RowsOf(id) == nodes[id].low .. nodes[id].high

\* The wire and its segment share out the rows of the wire as drawn, with the
\* wire at the end it is driven from and the interposer node on the last row
\* before the cut.
SharesRows(w) ==
    LET segment == Part(w, "segment")
        below == IF direction[w.track] = "INC" THEN w ELSE segment
        above == IF direction[w.track] = "INC" THEN segment ELSE w
    IN  /\ nodes[below].low = w.low /\ nodes[above].high = w.high
        /\ w.low <= nodes[below].high /\ nodes[above].low <= w.high
        /\ nodes[above].low = nodes[below].high + 1
        /\ RowsOf(Part(w, "interposer")) = {nodes[below].high}

\* A signal enters the segment of a split wire only from the wire, through the
\* interposer node and a delayed switch on either side of it.
OnlyThroughInterposer(w) ==
    \A e \in edges :
        e.to \in {Part(w, "interposer"), Part(w, "segment")} =>
            /\ e.times = DelayIncrease
            /\ e.from = IF e.to.part = "segment" THEN Part(w, "interposer") ELSE w

\* A wire that is not split is as it was drawn; the parts of one that is split
\* cover its rows once and are joined across the cut only by the slow path
\* (rr_graph_interposer.cpp, steps 1 to 3 of the loop).
SplitsKeepTheSpan ==
    \A w \in DOMAIN nodes : w.part = "wire" =>
        IF Part(w, "segment") \in DOMAIN nodes
        THEN /\ Part(w, "interposer") \in DOMAIN nodes
             /\ SharesRows(w)
             /\ OnlyThroughInterposer(w)
        ELSE nodes[w] = AsDrawn(w)

\* Once a graph is built, every edge names a switch of the graph made from the
\* architecture switch it was drawn with, slowed down for the edges of an
\* interposer node only: no later load, remapping, flat build or rebuild with
\* new architecture switches moves a switch from under an edge.
EdgesKeepTheirSwitch ==
    pc = "built" =>
        \A e \in edges : /\ e.switch \in 1 .. Len(switches)
                         /\ switches[e.switch].arch = e.arch
                         /\ switches[e.switch].times = e.times

\* Building the graph trips no assertion.  Violated: physical_types.cpp:41
\* asserts that a switch whose delay depends on its fan-in is given one.
FaninIsKnown == pc # "asserted"

=============================================================================
