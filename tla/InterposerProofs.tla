-------------------------- MODULE InterposerProofs --------------------------
(***************************************************************************)
(* Proofs about Interposer, for every grid, layout, set of architectures   *)
(* and bound.  The inductive invariant is BuildInv: the types, the wires   *)
(* of a track apart (WiresApart), every node the part of a wire that is    *)
(* there (PartsOfWires), crossing wires not split yet (CrossingUnsplit),   *)
(* the shapes of split wires (SplitsKeepTheSpan), the lookup, shared slots *)
(* included (LookupFollowsTheSplit), and, by pc, where the switches of the *)
(* edges are (SwitchesInv).  No assumption relates the widths of the       *)
(* channels.                                                               *)
(***************************************************************************)
EXTENDS Interposer, FiniteSetTheorems, FunctionTheorems, TLAPS

LEMMA PositiveQuotient ==
  ASSUME NEW a \in Nat, NEW b \in Nat \ {0}
  PROVE  a \div b \in Nat
  BY SMT

LEMMA PositiveProduct ==
  ASSUME NEW a \in Nat \ {0}, NEW b \in Nat \ {0}
  PROVE  a * b \in Nat \ {0}
  BY SMT

LEMMA ProductGrows ==
  ASSUME NEW k \in Nat, NEW n \in Nat, k <= n, NEW s \in Nat
  PROVE  k * s <= n * s
  BY SMT

LEMMA SeqByElements ==
  ASSUME NEW R, NEW n \in Nat, NEW f, f = [i \in 1 .. n |-> f[i]],
         \A i \in 1 .. n : f[i] \in R
  PROVE  f \in Seq(R)
  OBVIOUS

LEMMA ElementOfSeq ==
  ASSUME NEW R, NEW s \in Seq(R), NEW i \in 1 .. Len(s)
  PROVE  s[i] \in R
  OBVIOUS

LEMMA SliceIsPositive ==
  ASSUME NEW numCuts \in Nat, NEW lcm \in Rows
  PROVE  SliceHeight(numCuts, lcm) \in Nat \ {0}
  <1>1. lcm \in Nat \ {0} /\ numCuts + 1 \in Nat \ {0}
    BY ChannelAssumption DEF Rows
  <1>2. Height \div lcm \in Nat
    BY <1>1, PositiveQuotient, ChannelAssumption
  <1>3. (Height \div lcm) \div (numCuts + 1) \in Nat
    BY <1>1, <1>2, PositiveQuotient
  <1> QED
    BY <1>1, <1>3, PositiveProduct DEF SliceHeight

LEMMA CutsAreRows ==
  ASSUME NEW numCuts \in Nat, NEW lcm \in Rows,
         numCuts > 0 => numCuts * SliceHeight(numCuts, lcm) < Height
  PROVE  CutLocations(numCuts, lcm) \in Seq(1 .. Height - 1)
  <1> DEFINE s == SliceHeight(numCuts, lcm)
  <1>1. s \in Nat \ {0}
    BY SliceIsPositive
  <1> HIDE DEF s
  <1>2. ASSUME NEW k \in 1 .. numCuts
        PROVE  k * s \in 1 .. Height - 1
    <2>1. k * s <= numCuts * s
      BY <1>1, ProductGrows
    <2>2. k * s \in Nat \ {0}
      BY <1>1, PositiveProduct
    <2>3. numCuts * s < Height
      BY DEF s
    <2>4. numCuts * s \in Nat /\ Height \in Nat
      BY <1>1, ChannelAssumption
    <2> QED
      BY <2>1, <2>2, <2>3, <2>4
  <1> QED
    BY <1>2 DEF CutLocations, s

\* There are finitely many nodes, so crossing wires can be counted.
LEMMA IdsAreFinite == IsFiniteSet(Ids)
  <1> DEFINE quads == (Columns \X TrackIds) \X ((Rows \X Rows) \X Parts)
             quad == [i \in Ids |-> <<<<i.x, i.track>>, <<<<i.low, i.high>>, i.part>>>>]
  <1>1. IsFiniteSet(Columns) /\ IsFiniteSet(TrackIds) /\ IsFiniteSet(Rows)
    BY ChannelAssumption, FS_Interval DEF TrackIds, Rows
  <1>2. IsFiniteSet(Parts)
    <2>1. Parts = ({"wire"} \cup {"segment"}) \cup {"interposer"}
      BY DEF Parts
    <2>2. IsFiniteSet({"wire"})
      BY FS_Singleton
    <2>3. IsFiniteSet({"wire"} \cup {"segment"})
      BY <2>2, FS_AddElement
    <2>4. IsFiniteSet(({"wire"} \cup {"segment"}) \cup {"interposer"})
      BY <2>3, FS_AddElement
    <2> QED
      BY <2>1, <2>4
  <1>3. IsFiniteSet(quads)
    BY <1>1, <1>2, FS_Product
  <1>4. quad \in [Ids -> quads]
    BY DEF Ids
  <1>5. ASSUME NEW i \in Ids, NEW j \in Ids, quad[i] = quad[j]
        PROVE  i = j
    BY <1>5 DEF Ids
  <1> HIDE DEF quads, quad
  <1>6. quad \in Injection(Ids, quads)
    BY <1>4, <1>5, Fun_IsInj
  <1> QED
    BY <1>3, <1>6, FS_Injection

-----------------------------------------------------------------------------
(* Nodes, slots and the lookup. *)

IsWire(id) == id.part = "wire"

\* Two wires of the same column and track share no row.
WiresApart ==
    \A v, w \in DOMAIN nodes :
        /\ IsWire(v) /\ IsWire(w) /\ v # w /\ v.x = w.x /\ v.track = w.track
        => v.high < w.low \/ w.high < v.low

\* The segment and the interposer node of a wire come together, with the wire
\* there, and each part is on its track and within the rows of the wire.
PartsOfWires ==
    \A id \in DOMAIN nodes :
        /\ Part(id, "wire") \in DOMAIN nodes
        /\ ~ IsWire(id) => /\ Part(id, "segment") \in DOMAIN nodes
                           /\ Part(id, "interposer") \in DOMAIN nodes
        /\ nodes[id].track = IF id.part = "interposer" THEN id.track + XMax ELSE id.track
        /\ id.low <= nodes[id].low /\ nodes[id].low <= nodes[id].high
        /\ nodes[id].high <= id.high

CrossingUnsplit ==
    /\ \A w \in crossing : IsWire(w) /\ Part(w, "segment") \notin DOMAIN nodes
    /\ pc # "split" => crossing = {}
    /\ pc \in {"cross", "split"} => cuts # <<>>
    /\ pc \in {"setup", "draft", "cross"} =>
           \A id \in DOMAIN nodes : IsWire(id)

LEMMA PartFacts ==
  ASSUME NEW id \in Ids, NEW part \in Parts
  PROVE  /\ Part(id, part) \in Ids
         /\ Part(id, part).part = part
         /\ Part(id, part).x = id.x /\ Part(id, part).track = id.track
         /\ Part(id, part).low = id.low /\ Part(id, part).high = id.high
         /\ part = id.part => Part(id, part) = id
         /\ \A other \in Parts : Part(Part(id, part), other) = Part(id, other)
  BY DEF Part, Ids, Parts

LEMMA EdgeIsRecord ==
  ASSUME NEW from \in Ids \cup {NoNode}, NEW to \in Ids \cup {NoNode}, NEW arch \in Nat,
         NEW times \in {1, DelayIncrease}, NEW switch \in Nat
  PROVE  Edge(from, to, arch, times, switch) \in EdgeRecords
  BY DEF Edge, EdgeRecords

\* A node is known by its column, track, rows and part.
LEMMA SameId ==
  ASSUME NEW i \in Ids, NEW j \in Ids, i.x = j.x, i.track = j.track,
         i.low = j.low, i.high = j.high, i.part = j.part
  PROVE  i = j
  BY DEF Ids

-----------------------------------------------------------------------------
(* Switches. *)

Resolved(e) ==
    /\ e.switch \in 1 .. Len(switches)
    /\ switches[e.switch].arch = e.arch
    /\ switches[e.switch].times = e.times

\* The switches of the architecture come first, unslowed.
ArchSwitchesFirst ==
    /\ Len(archs) <= Len(switches)
    /\ \A i \in 1 .. Len(archs) : switches[i].arch = i /\ switches[i].times = 1

\* Every switch of the architecture has one of the graph to be remapped to.
RemapCovers ==
    /\ Len(remap) = Len(archs)
    /\ \A i \in 1 .. Len(archs) :
           /\ remap[i] \in 1 .. Len(switches)
           /\ switches[remap[i]].arch = i /\ switches[remap[i]].times = 1

SwitchesInv ==
    /\ pc \in {"setup", "draft"} => edges = {} /\ switches = <<>> /\ flatEdges = 0
    /\ pc \in {"setup", "draft", "cross", "split", "index", "load"} => remap = <<>>
    /\ pc \in {"cross", "split", "index", "load"} =>
           ArchSwitchesFirst /\ \A e \in edges : Resolved(e)
    /\ pc = "split" => /\ ValidDelayedSwitch \in 1 .. Len(switches)
                       /\ switches[ValidDelayedSwitch].arch = 1
                       /\ switches[ValidDelayedSwitch].times = DelayIncrease
    /\ pc = "flat" =>
           /\ RemapCovers
           /\ \A e \in edges :
                  IF e.remapped THEN Resolved(e)
                  ELSE e.switch = e.arch /\ e.arch \in 1 .. Len(archs) /\ e.times = 1
    /\ pc = "built" => \A e \in edges : Resolved(e)

EdgeEnds == \A e \in edges : e.to = NoNode \/ e.to \in DOMAIN nodes

BuildInv ==
    /\ TypeOK
    /\ WiresApart /\ PartsOfWires /\ CrossingUnsplit /\ EdgeEnds
    /\ LookupFollowsTheSplit /\ SplitsKeepTheSpan
    /\ SwitchesInv

NodeInv ==
    WiresApart /\ PartsOfWires /\ EdgeEnds /\ LookupFollowsTheSplit /\ SplitsKeepTheSpan

USE ChannelAssumption, BoundAssumption, NoNodeAssumption

-----------------------------------------------------------------------------
(* The initial states and the drafting of the graph. *)

LEMMA BuildInit == Init => BuildInv
  <1> SUFFICES ASSUME Init PROVE BuildInv
    OBVIOUS
  <1> USE DEF Init, NoNodes
  <1>1. TypeOK
    <2>1. archs \in Seq(ArchSwitch) /\ archs # <<>>
      BY SwitchAssumption
    <2>2. lookup \in [Slots -> Ids \cup {NoNode}]
      BY DEF EmptyLookup
    <2>3. DOMAIN nodes = {} /\ crossing = {} /\ edges = {}
      OBVIOUS
    <2>4. cuts = <<>> /\ switches = <<>> /\ remap = <<>>
      OBVIOUS
    <2>5. /\ cuts \in Seq(1 .. Height - 1) /\ remap \in Seq(Nat)
          /\ switches \in Seq([arch : Nat, loaded : BOOLEAN, times : {1, DelayIncrease}])
      BY <2>4
    <2>6. flatEdges \in 0 .. InternalEdges /\ builds \in 0 .. MaxBuilds /\ quota \in Nat
      BY SMT
    <2> QED
      BY <2>1, <2>2, <2>3, <2>5, <2>6 DEF TypeOK
  <1>2. LookupFollowsTheSplit
    BY DEF LookupFollowsTheSplit, EmptyLookup
  <1> QED
    BY <1>1, <1>2 DEF BuildInv, WiresApart, PartsOfWires, CrossingUnsplit,
       EdgeEnds, SplitsKeepTheSpan, SwitchesInv

\* Wires drawn on the same slot are the same wire.
LEMMA DrawnApart ==
  ASSUME NEW layout \in Layouts, NEW v \in Drawn(layout), NEW w \in Drawn(layout),
         v.x = w.x, v.track = w.track, v # w
  PROVE  v.high < w.low \/ w.high < v.low
  <1>1. v \in Ids /\ w \in Ids /\ v.part = "wire" /\ w.part = "wire"
    BY DEF Drawn
  <1>2. <<v.low, v.high>> \in layout[v.track] /\ <<w.low, w.high>> \in layout[v.track]
    BY DEF Drawn
  <1>3. v.track \in TrackIds
    BY <1>1 DEF Ids
  <1>4. <<v.low, v.high>> # <<w.low, w.high>>
    BY <1>1, SameId
  <1> QED
    BY <1>2, <1>3, <1>4, LayoutAssumption

LEMMA DrawnWires ==
  ASSUME NEW layout \in Layouts, NEW w \in Drawn(layout)
  PROVE  /\ w \in Ids /\ IsWire(w)
         /\ AsDrawn(w) \in [low : Rows, high : Rows, track : 0 .. Tracks - 1 + XMax]
         /\ AsDrawn(w).low = w.low /\ AsDrawn(w).high = w.high
         /\ AsDrawn(w).track = w.track
         /\ w.low <= w.high
  <1>1. w \in Ids /\ <<w.low, w.high>> \in layout[w.track] /\ w.track \in TrackIds
    BY DEF Drawn, Ids
  <1>2. w.low <= w.high
    BY <1>1, LayoutAssumption
  <1> QED
    BY <1>1, <1>2 DEF Drawn, IsWire, AsDrawn, Ids, TrackIds

LEMMA DrawnLookup ==
  ASSUME NEW layout \in Layouts
  PROVE  /\ \A w \in Drawn(layout), s \in Slots :
                s \in SlotsOf(w, AsDrawn(w)) => LookupOf(Drawn(layout))[s] = w
         /\ \A s \in Slots : LookupOf(Drawn(layout))[s] # NoNode =>
                /\ LookupOf(Drawn(layout))[s] \in Drawn(layout)
                /\ s \in SlotsOf(LookupOf(Drawn(layout))[s],
                                 AsDrawn(LookupOf(Drawn(layout))[s]))
         /\ LookupOf(Drawn(layout)) \in [Slots -> Ids \cup {NoNode}]
  <1> DEFINE D == Drawn(layout)
             here(w, s) == s \in SlotsOf(w, AsDrawn(w))
  <1>1. ASSUME NEW v \in D, NEW w \in D, NEW s \in Slots, here(v, s), here(w, s)
        PROVE  v = w
    <2>1. v.x = w.x /\ v.track = w.track
      BY <1>1, DrawnWires DEF SlotsOf
    <2>2. s.y \in v.low .. v.high /\ s.y \in w.low .. w.high
      BY <1>1, DrawnWires DEF SlotsOf
    <2>3. v.low \in Nat /\ v.high \in Nat /\ w.low \in Nat /\ w.high \in Nat /\ s.y \in Nat
      BY DrawnWires DEF Ids, Rows, Slots
    <2> QED
      BY <2>1, <2>2, <2>3, DrawnApart
  <1>2. ASSUME NEW s \in Slots, NEW w \in D, here(w, s)
        PROVE  LookupOf(D)[s] = w
    <2>1. LookupOf(D)[s] = CHOOSE v \in D : here(v, s)
      BY <1>2 DEF LookupOf
    <2>2. LookupOf(D)[s] \in D /\ here(LookupOf(D)[s], s)
      BY <2>1, <1>2
    <2> QED
      BY <2>2, <1>1, <1>2
  <1>3. ASSUME NEW s \in Slots, LookupOf(D)[s] # NoNode
        PROVE  LookupOf(D)[s] \in D /\ here(LookupOf(D)[s], s)
    <2>1. PICK w \in D : here(w, s)
      BY <1>3 DEF LookupOf
    <2> QED
      BY <2>1, <1>2
  <1>4. LookupOf(D) = [s \in Slots |-> LookupOf(D)[s]]
    BY DEF LookupOf
  <1>5. D \subseteq Ids
    BY DEF Drawn
  <1>6. \A s \in Slots : LookupOf(D)[s] \in Ids \cup {NoNode}
    BY <1>3, <1>5
  <1> HIDE DEF D
  <1>7. LookupOf(D) \in [Slots -> Ids \cup {NoNode}]
    BY <1>4, <1>6
  <1> QED
    BY <1>2, <1>3, <1>7 DEF D

LEMMA DraftKeepsInv ==
  ASSUME BuildInv, NEW layout \in Layouts, NEW toward \in Directions,
         DraftGraph(layout, toward)
  PROVE  BuildInv'
  <1> DEFINE D == Drawn(layout)
  <1>1. /\ nodes' = [w \in D |-> AsDrawn(w)] /\ lookup' = LookupOf(D)
        /\ direction' = toward /\ pc = "draft"
        /\ pc' = (IF cuts = <<>> THEN "index" ELSE "cross") /\ crossing' = crossing
        /\ edges' = {OtherEdge(i, i) : i \in 1 .. Len(archs)}
        /\ switches' = switches \o [i \in 1 .. Len(archs) |-> Draft(i)]
        /\ archs' = archs /\ remap' = remap /\ remapped' = remapped
        /\ cuts' = cuts /\ quota' = quota /\ flatEdges' = flatEdges /\ builds' = builds
    BY DEF DraftGraph
  <1>2. DOMAIN nodes' = D /\ \A w \in D : nodes'[w] = AsDrawn(w)
    BY <1>1
  <1>3. \A w \in D : w \in Ids /\ IsWire(w)
    BY DrawnWires
  <1>4. crossing = {} /\ switches = <<>> /\ remap = <<>> /\ archs \in Seq(ArchSwitch)
    BY <1>1 DEF BuildInv, CrossingUnsplit, SwitchesInv, TypeOK
  <1>5. switches' = [i \in 1 .. Len(archs) |-> Draft(i)]
    BY <1>1, <1>4
  <1>6. Len(archs) \in Nat /\ Len(switches') = Len(archs)
    BY <1>4, <1>5
  <1>7. \A e \in edges' : \E i \in 1 .. Len(archs) : e = OtherEdge(i, i)
    BY <1>1
  <1>8. TypeOK'
    <2>1. \A id \in DOMAIN nodes' :
              nodes'[id] \in [low : Rows, high : Rows, track : 0 .. Tracks - 1 + XMax]
      BY <1>2, DrawnWires
    <2>2. lookup' \in [Slots -> Ids \cup {NoNode}]
      BY <1>1, DrawnLookup
    <2>3. switches' \in Seq([arch : Nat, loaded : BOOLEAN, times : {1, DelayIncrease}])
      BY <1>5, <1>6 DEF Draft, Copy
    <2>4. edges' \subseteq EdgeRecords
      <3> SUFFICES ASSUME NEW i \in 1 .. Len(archs)
                   PROVE  OtherEdge(i, i) \in EdgeRecords
        BY <1>7
      <3>1. i \in Nat
        BY <1>6
      <3> QED
        BY <3>1, EdgeIsRecord DEF OtherEdge
    <2>5. crossing' \subseteq DOMAIN nodes' /\ DOMAIN nodes' \subseteq Ids
      BY <1>1, <1>2, <1>3, <1>4
    <2> QED
      BY <1>1, <2>1, <2>2, <2>3, <2>4, <2>5 DEF BuildInv, TypeOK
  <1>9. WiresApart'
    BY <1>2, DrawnApart DEF WiresApart
  <1>10. PartsOfWires'
    <2> SUFFICES ASSUME NEW id \in D
                 PROVE  /\ Part(id, "wire") \in D
                        /\ IsWire(id)
                        /\ AsDrawn(id).track = id.track
                        /\ id.low <= AsDrawn(id).low
                        /\ AsDrawn(id).low <= AsDrawn(id).high
                        /\ AsDrawn(id).high <= id.high
      BY <1>2 DEF PartsOfWires, IsWire
    <2>1. id \in Ids /\ IsWire(id)
      BY <1>3
    <2>2. Part(id, "wire") = id
      BY <2>1, PartFacts DEF IsWire, Parts
    <2>3. id.low \in Nat /\ id.high \in Nat
      BY <2>1 DEF Ids, Rows
    <2> QED
      BY <2>1, <2>2, <2>3, DrawnWires
  <1>11. CrossingUnsplit'
    BY <1>1, <1>2, <1>3, <1>4 DEF CrossingUnsplit
  <1>12. EdgeEnds'
    BY <1>7 DEF EdgeEnds, OtherEdge, Edge
  <1>13. LookupFollowsTheSplit'
    <2>1. \A id \in D : \A s \in SlotsOf(id, AsDrawn(id)) : lookup'[s] = id
      BY <1>1, DrawnLookup DEF SlotsOf
    <2>2. \A s \in Slots : lookup'[s] # NoNode =>
              lookup'[s] \in D /\ s \in SlotsOf(lookup'[s], AsDrawn(lookup'[s]))
      BY <1>1, DrawnLookup
    <2> HIDE DEF D
    <2> QED
      BY <1>2, <2>1, <2>2 DEF LookupFollowsTheSplit
  <1>14. SplitsKeepTheSpan'
    <2> SUFFICES ASSUME NEW w \in D
                 PROVE  Part(w, "segment") \notin D
      BY <1>2 DEF SplitsKeepTheSpan
    <2> QED
      BY <1>3, PartFacts DEF Parts, IsWire
  <1>15. SwitchesInv'
    <2>1. \A i \in 1 .. Len(archs) : switches'[i].arch = i /\ switches'[i].times = 1
      BY <1>5 DEF Draft, Copy
    <2>0. archs' = archs
      BY <1>1
    <2>2. ArchSwitchesFirst'
      BY <1>6, <2>0, <2>1 DEF ArchSwitchesFirst
    <2>3. \A e \in edges' : Resolved(e)'
      BY <1>6, <1>7, <2>1 DEF Resolved, OtherEdge, Edge
    <2> QED
      BY <1>1, <1>4, <2>2, <2>3 DEF SwitchesInv
  <1> QED
    BY <1>8, <1>9, <1>10, <1>11, <1>12, <1>13, <1>14, <1>15 DEF BuildInv

-----------------------------------------------------------------------------
(* Splitting a wire. *)

\* Where a split leaves the wire, its segment and its interposer node.
LEMMA SplitShape ==
  ASSUME BuildInv, NEW w \in crossing, SplitWire(w)
  PROVE  LET seg == Part(w, "segment")
             int == Part(w, "interposer")
             cut == cuts[1]
             inc == direction[w.track] = "INC"
         IN  /\ w \in DOMAIN nodes /\ w \in Ids /\ IsWire(w) /\ seg \in Ids /\ int \in Ids
             /\ seg # w /\ int # w /\ seg # int
             /\ seg \notin DOMAIN nodes /\ int \notin DOMAIN nodes
             /\ nodes[w] = AsDrawn(w)
             /\ cut \in Nat /\ w.low <= cut /\ cut < w.high
             /\ DOMAIN nodes' = DOMAIN nodes \cup {seg, int}
             /\ \A id \in DOMAIN nodes : id # w => nodes'[id] = nodes[id]
             /\ nodes'[w] = Placed([low |-> IF inc THEN w.low ELSE cut + 1,
                                    high |-> IF inc THEN cut ELSE w.high], w.track)
             /\ nodes'[seg] = Placed([low |-> IF inc THEN cut + 1 ELSE w.low,
                                      high |-> IF inc THEN w.high ELSE cut], w.track)
             /\ nodes'[int] = Placed([low |-> cut, high |-> cut], w.track + XMax)
             /\ direction' = direction
  <1> DEFINE seg == Part(w, "segment")
             int == Part(w, "interposer")
             cut == cuts[1]
  <1>1. /\ pc = "split" /\ Crosses(nodes[w].low, nodes[w].high, cut)
        /\ nodes' = SplitNodes(w, cut) /\ direction' = direction
    BY DEF SplitWire
  <1>2. w \in DOMAIN nodes /\ DOMAIN nodes \subseteq Ids
    BY DEF BuildInv, TypeOK
  <1>3. IsWire(w) /\ seg \notin DOMAIN nodes
    BY DEF BuildInv, CrossingUnsplit
  <1>4. w \in Ids
    BY <1>2
  <1>5. /\ seg \in Ids /\ int \in Ids /\ seg.part = "segment" /\ int.part = "interposer"
        /\ Part(int, "segment") = seg
    BY <1>4, PartFacts DEF Parts
  <1>6. seg # w /\ int # w /\ seg # int
    BY <1>3, <1>5 DEF IsWire
  <1>7. int \notin DOMAIN nodes
    BY <1>3, <1>5 DEF BuildInv, PartsOfWires, IsWire
  <1>8. nodes[w] = AsDrawn(w)
    BY <1>2, <1>3 DEF BuildInv, SplitsKeepTheSpan, IsWire
  <1>9. nodes[w].low = w.low /\ nodes[w].high = w.high
    BY <1>8 DEF AsDrawn
  <1>10. cut \in Nat /\ w.low <= cut /\ cut < w.high
    <2>1. w.low <= cut /\ w.high > cut
      BY <1>1, <1>9 DEF Crosses
    <2>2. cuts # <<>>
      BY <1>1 DEF BuildInv, CrossingUnsplit
    <2>3. cuts \in Seq(1 .. Height - 1)
      BY DEF BuildInv, TypeOK
    <2>4. cut \in 1 .. Height - 1
      BY <2>2, <2>3
    <2> QED
      BY <2>1, <2>4
  <1>11. /\ DOMAIN nodes' = DOMAIN nodes \cup {seg, int}
         /\ \A id \in DOMAIN nodes : id # w => nodes'[id] = nodes[id]
         /\ nodes'[w] = Placed(KeptRows(w, cut), w.track)
         /\ nodes'[seg] = Placed(NewRows(w, cut), w.track)
         /\ nodes'[int] = Placed([low |-> cut, high |-> cut], w.track + XMax)
    BY <1>1, <1>2, <1>3, <1>6, <1>7 DEF SplitNodes
  <1>12. /\ KeptRows(w, cut) = [low |-> IF direction[w.track] = "INC" THEN w.low ELSE cut + 1,
                                high |-> IF direction[w.track] = "INC" THEN cut ELSE w.high]
         /\ NewRows(w, cut) = [low |-> IF direction[w.track] = "INC" THEN cut + 1 ELSE w.low,
                               high |-> IF direction[w.track] = "INC" THEN w.high ELSE cut]
    BY <1>9 DEF KeptRows, NewRows
  <1> QED
    BY <1>1, <1>2, <1>3, <1>4, <1>5, <1>6, <1>7, <1>8, <1>10, <1>11, <1>12

\* The lookup after a split, slot by slot.
LEMMA SplitSlots ==
  ASSUME BuildInv, NEW w \in crossing, SplitWire(w), NEW s \in Slots
  PROVE  LET seg == Part(w, "segment")
             int == Part(w, "interposer")
         IN  lookup'[s] =
               IF s \in SlotsOf(w, nodes'[w]) THEN w
               ELSE IF s \in SlotsOf(int, nodes'[int]) THEN int
               ELSE IF s \in SlotsOf(seg, nodes'[seg]) THEN seg
               ELSE IF s.x = w.x /\ s.y = w.low /\ s.track = w.track /\ lookup[s] = w
                    THEN NoNode
               ELSE lookup[s]
  <1> DEFINE seg == Part(w, "segment")
             int == Part(w, "interposer")
             placed == SplitNodes(w, cuts[1])
             one == Register(lookup, seg, placed[seg])
             two == Register(one, int, placed[int])
             three == Unregister(two, w, nodes[w].low)
  <1>1. /\ nodes' = placed /\ lookup' = Register(three, w, placed[w])
    BY DEF SplitWire, SplitLookup
  <1>2. nodes[w].low = w.low
    <2>1. nodes[w] = AsDrawn(w)
      BY SplitShape
    <2> QED
      BY <2>1 DEF AsDrawn
  <1>3. seg # w /\ int # w
    BY SplitShape
  <1>4. one[s] = IF s \in SlotsOf(seg, placed[seg]) THEN seg ELSE lookup[s]
    BY DEF Register
  <1>5. two[s] = IF s \in SlotsOf(int, placed[int]) THEN int ELSE one[s]
    BY DEF Register
  <1>6. three[s] = IF s.x = w.x /\ s.y = w.low /\ s.track = w.track /\ two[s] = w
                   THEN NoNode ELSE two[s]
    BY <1>2 DEF Unregister
  <1>7. lookup'[s] = IF s \in SlotsOf(w, placed[w]) THEN w ELSE three[s]
    BY <1>1 DEF Register
  <1> HIDE DEF placed, one, two, three, seg, int
  <1> QED
    BY <1>1, <1>3, <1>4, <1>5, <1>6, <1>7 DEF seg, int

\* The slots of the three parts: the wire and its segment share those of the
\* wire as drawn, and the interposer node has one at the cut.
LEMMA SplitRegions ==
  ASSUME BuildInv, NEW w \in crossing, SplitWire(w), NEW s \in Slots
  PROVE  LET seg == Part(w, "segment")
             int == Part(w, "interposer")
         IN  /\ s \in SlotsOf(w, nodes[w]) <=>
                    s \in SlotsOf(w, nodes'[w]) \/ s \in SlotsOf(seg, nodes'[seg])
             /\ ~ (s \in SlotsOf(w, nodes'[w]) /\ s \in SlotsOf(seg, nodes'[seg]))
             /\ s \in SlotsOf(int, nodes'[int]) =>
                    s.x = w.x /\ s.y = cuts[1] /\ s.track = w.track + XMax
             /\ s \in SlotsOf(w, nodes[w]) <=>
                    s.x = w.x /\ s.track = w.track /\ w.low <= s.y /\ s.y <= w.high
  <1> DEFINE seg == Part(w, "segment")
             int == Part(w, "interposer")
             cut == cuts[1]
             inc == direction[w.track] = "INC"
  <1>1. /\ w \in Ids /\ nodes[w] = AsDrawn(w)
        /\ cut \in Nat /\ w.low <= cut /\ cut < w.high
        /\ nodes'[w] = Placed([low |-> IF inc THEN w.low ELSE cut + 1,
                               high |-> IF inc THEN cut ELSE w.high], w.track)
        /\ nodes'[seg] = Placed([low |-> IF inc THEN cut + 1 ELSE w.low,
                                 high |-> IF inc THEN w.high ELSE cut], w.track)
        /\ nodes'[int] = Placed([low |-> cut, high |-> cut], w.track + XMax)
    BY SplitShape
  <1>2. seg.x = w.x /\ int.x = w.x
    BY <1>1, PartFacts DEF Parts
  <1>3. /\ s.y \in Nat /\ w.low \in Nat /\ w.high \in Nat /\ w.track \in 0 .. Tracks - 1
    BY <1>1 DEF Ids, Rows, Slots, TrackIds
  <1>4. s \in SlotsOf(w, nodes[w]) <=>
            s.x = w.x /\ s.track = w.track /\ w.low <= s.y /\ s.y <= w.high
    BY <1>1, <1>3 DEF SlotsOf, AsDrawn
  <1>5. s \in SlotsOf(w, nodes'[w]) <=>
            /\ s.x = w.x /\ s.track = w.track
            /\ (IF inc THEN w.low ELSE cut + 1) <= s.y
            /\ s.y <= (IF inc THEN cut ELSE w.high)
    BY <1>1, <1>3 DEF SlotsOf, Placed
  <1>6. s \in SlotsOf(seg, nodes'[seg]) <=>
            /\ s.x = w.x /\ s.track = w.track
            /\ (IF inc THEN cut + 1 ELSE w.low) <= s.y
            /\ s.y <= (IF inc THEN w.high ELSE cut)
    BY <1>1, <1>2, <1>3 DEF SlotsOf, Placed
  <1>7. s \in SlotsOf(int, nodes'[int]) <=>
            s.x = w.x /\ s.track = w.track + XMax /\ cut <= s.y /\ s.y <= cut
    BY <1>1, <1>2, <1>3 DEF SlotsOf, Placed
  <1> HIDE DEF seg, int, inc
  <1>8. s \in SlotsOf(int, nodes'[int]) =>
            s.x = w.x /\ s.y = cut /\ s.track = w.track + XMax
    BY <1>1, <1>3, <1>7
  <1>9. /\ s \in SlotsOf(w, nodes[w]) <=>
               s \in SlotsOf(w, nodes'[w]) \/ s \in SlotsOf(seg, nodes'[seg])
        /\ ~ (s \in SlotsOf(w, nodes'[w]) /\ s \in SlotsOf(seg, nodes'[seg]))
    BY <1>1, <1>3, <1>4, <1>5, <1>6
  <1> QED
    BY <1>4, <1>8, <1>9 DEF seg, int

IsInterposer(id) == id.part = "interposer"

\* A node of the same column and track as a wire being split is part of another
\* wire, and spans none of its rows.
LEMMA ApartFromCrossing ==
  ASSUME BuildInv, NEW w \in crossing, SplitWire(w), NEW id \in DOMAIN nodes,
         id # w, id.x = w.x, id.track = w.track, NEW y \in nodes[id].low .. nodes[id].high
  PROVE  y < w.low \/ w.high < y
  <1>1. /\ w \in Ids /\ w \in DOMAIN nodes /\ IsWire(w)
        /\ Part(w, "segment") \notin DOMAIN nodes
    BY SplitShape
  <1>2. id \in Ids /\ nodes[id] \in [low : Rows, high : Rows, track : 0 .. Tracks - 1 + XMax]
    BY DEF BuildInv, TypeOK
  <1>3. /\ id.low <= nodes[id].low /\ nodes[id].high <= id.high
        /\ Part(id, "wire") \in DOMAIN nodes
        /\ ~ IsWire(id) => Part(id, "segment") \in DOMAIN nodes
    BY DEF BuildInv, PartsOfWires
  <1> DEFINE v == Part(id, "wire")
  <1>4. /\ IsWire(v) /\ v.x = id.x /\ v.track = id.track /\ v.low = id.low /\ v.high = id.high
        /\ Part(v, "segment") = Part(id, "segment")
        /\ IsWire(id) => v = id
    BY <1>2, PartFacts DEF Parts, IsWire
  <1>5. v # w
    BY <1>1, <1>3, <1>4
  <1>6. v.high < w.low \/ w.high < v.low
    <2>1. WiresApart
      BY DEF BuildInv
    <2> QED
      BY <1>1, <1>3, <1>4, <1>5, <2>1 DEF WiresApart
  <1>7. /\ id.low \in Nat /\ id.high \in Nat /\ w.low \in Nat /\ w.high \in Nat
        /\ nodes[id].low \in Nat /\ nodes[id].high \in Nat
    BY <1>1, <1>2 DEF Ids, Rows
  <1> HIDE DEF v
  <1> QED
    BY <1>3, <1>4, <1>6, <1>7

\* Where a node shares a slot with a part of the wire being split, one of the
\* two is an interposer node.
LEMMA SharedSlots ==
  ASSUME BuildInv, NEW w \in crossing, SplitWire(w), NEW id \in DOMAIN nodes, id # w,
         NEW s \in SlotsOf(id, nodes[id])
  PROVE  /\ s \in SlotsOf(w, nodes[w]) => IsInterposer(id)
         /\ s \in SlotsOf(Part(w, "interposer"), nodes'[Part(w, "interposer")]) =>
                ~ IsInterposer(id)
  <1>1. /\ s \in Slots /\ s.x = id.x /\ s.track = nodes[id].track
        /\ s.y \in nodes[id].low .. nodes[id].high
    BY DEF SlotsOf
  <1>2. /\ w \in Ids /\ cuts[1] \in Nat /\ w.low <= cuts[1] /\ cuts[1] < w.high
    BY SplitShape
  <1>3. id \in Ids
    BY DEF BuildInv, TypeOK
  <1>4. /\ w.track \in Nat /\ id.track \in Nat /\ w.low \in Nat /\ w.high \in Nat
        /\ s.y \in Nat
    BY <1>1, <1>2, <1>3 DEF Ids, TrackIds, Rows, Slots
  <1>5. nodes[id].track = IF IsInterposer(id) THEN id.track + XMax ELSE id.track
    BY DEF BuildInv, PartsOfWires, IsInterposer
  <1>6. ASSUME s \in SlotsOf(w, nodes[w]), ~ IsInterposer(id)
        PROVE  FALSE
    <2>1. s.x = w.x /\ s.track = w.track /\ w.low <= s.y /\ s.y <= w.high
      BY <1>1, <1>6, SplitRegions
    <2>2. id.x = w.x /\ id.track = w.track
      BY <1>1, <1>5, <1>6, <2>1
    <2>3. s.y < w.low \/ w.high < s.y
      BY <1>1, <2>2, ApartFromCrossing
    <2> QED
      BY <1>4, <2>1, <2>3
  <1>7. ASSUME s \in SlotsOf(Part(w, "interposer"), nodes'[Part(w, "interposer")]),
               IsInterposer(id)
        PROVE  FALSE
    <2>1. s.x = w.x /\ s.y = cuts[1] /\ s.track = w.track + XMax
      BY <1>1, <1>7, SplitRegions
    <2>2. id.x = w.x /\ id.track = w.track
      BY <1>1, <1>4, <1>5, <1>7, <2>1
    <2>3. s.y < w.low \/ w.high < s.y
      BY <1>1, <2>2, ApartFromCrossing
    <2> QED
      BY <1>2, <1>4, <2>1, <2>3
  <1> QED
    BY <1>6, <1>7

LEMMA SplitKeepsLookup ==
  ASSUME BuildInv, NEW w \in crossing, SplitWire(w)
  PROVE  LookupFollowsTheSplit'
  <1> DEFINE seg == Part(w, "segment")
             int == Part(w, "interposer")
             on(id, s) == s \in SlotsOf(id, nodes'[id])
             before(id, s) == s \in SlotsOf(id, nodes[id])
  <1>1. /\ w \in DOMAIN nodes /\ seg # w /\ int # w /\ seg # int
        /\ w \in Ids /\ seg \in Ids /\ int \in Ids /\ IsWire(w)
        /\ DOMAIN nodes' = DOMAIN nodes \cup {seg, int}
        /\ \A id \in DOMAIN nodes : id # w => nodes'[id] = nodes[id]
    BY SplitShape
  <1>2. /\ \A id \in DOMAIN nodes, s \in Slots : before(id, s) =>
               \/ lookup[s] = id
               \/ lookup[s] # NoNode /\ IsInterposer(id) # IsInterposer(lookup[s])
        /\ \A s \in Slots : lookup[s] # NoNode =>
               lookup[s] \in DOMAIN nodes /\ before(lookup[s], s)
    BY DEF BuildInv, LookupFollowsTheSplit, IsInterposer
  <1>3. \A s \in Slots :
            lookup'[s] = IF on(w, s) THEN w
                         ELSE IF on(int, s) THEN int
                         ELSE IF on(seg, s) THEN seg
                         ELSE IF s.x = w.x /\ s.y = w.low /\ s.track = w.track
                                 /\ lookup[s] = w
                              THEN NoNode
                         ELSE lookup[s]
    BY SplitSlots
  <1>4. \A s \in Slots : /\ before(w, s) <=> on(w, s) \/ on(seg, s)
                         /\ ~ (on(w, s) /\ on(seg, s))
    BY SplitRegions
  <1>5. \A id \in DOMAIN nodes, s \in Slots : id # w /\ before(id, s) =>
            /\ before(w, s) => IsInterposer(id)
            /\ on(int, s) => ~ IsInterposer(id)
    BY SharedSlots
  <1>6. \A id, n : SlotsOf(id, n) \subseteq Slots
    BY DEF SlotsOf
  <1>7. w # NoNode /\ seg # NoNode /\ int # NoNode
    BY <1>1, NoNodeAssumption
  <1>8. ~ IsInterposer(w) /\ ~ IsInterposer(seg) /\ IsInterposer(int)
    BY <1>1, PartFacts DEF IsInterposer, IsWire, Parts
  <1>9. \A id \in DOMAIN nodes, s \in Slots : id # w => (on(id, s) <=> before(id, s))
    BY <1>1
  <1> HIDE DEF on, before, seg, int
  <1>10. ASSUME NEW id \in DOMAIN nodes', NEW s \in Slots, on(id, s)
         PROVE  \/ lookup'[s] = id
                \/ lookup'[s] # NoNode /\ IsInterposer(id) # IsInterposer(lookup'[s])
    <2>1. CASE id \in {w, seg, int}
      BY <1>3, <1>4, <1>7, <1>8, <1>10, <2>1
    <2>2. CASE id \in DOMAIN nodes /\ id # w
      <3>1. before(id, s)
        BY <1>9, <1>10, <2>2
      <3>2. CASE before(w, s)
        <4>1. IsInterposer(id) /\ ~ on(int, s)
          BY <1>5, <2>2, <3>1, <3>2
        <4>2. lookup'[s] \in {w, seg}
          BY <1>3, <1>4, <3>2, <4>1
        <4> QED
          BY <1>7, <1>8, <4>1, <4>2
      <3>3. CASE ~ before(w, s) /\ on(int, s)
        <4>1. lookup'[s] = int /\ ~ IsInterposer(id)
          BY <1>3, <1>4, <1>5, <2>2, <3>1, <3>3
        <4> QED
          BY <1>7, <1>8, <4>1
      <3>4. CASE ~ before(w, s) /\ ~ on(int, s)
        <4>1. lookup[s] # w
          BY <1>2, <1>7, <3>4
        <4>2. lookup'[s] = lookup[s]
          BY <1>3, <1>4, <3>4, <4>1
        <4> QED
          BY <1>2, <2>2, <3>1, <4>2
      <3> QED
        BY <3>2, <3>3, <3>4
    <2> QED
      BY <1>1, <2>1, <2>2
  <1>11. ASSUME NEW s \in Slots, lookup'[s] # NoNode
         PROVE  lookup'[s] \in DOMAIN nodes' /\ on(lookup'[s], s)
    <2>1. CASE on(w, s) \/ on(int, s) \/ on(seg, s)
      BY <1>1, <1>3, <2>1
    <2>2. CASE ~ on(w, s) /\ ~ on(int, s) /\ ~ on(seg, s)
      <3>1. lookup'[s] = lookup[s] /\ lookup[s] # NoNode
        BY <1>3, <1>11, <2>2
      <3>2. lookup[s] \in DOMAIN nodes /\ before(lookup[s], s)
        BY <1>2, <3>1
      <3>3. lookup[s] # w
        BY <1>4, <2>2, <3>2
      <3> QED
        BY <1>1, <1>9, <3>1, <3>2, <3>3
    <2> QED
      BY <2>1, <2>2
  <1> QED
    BY <1>6, <1>10, <1>11 DEF LookupFollowsTheSplit, IsInterposer, on

LEMMA SplitKeepsSpans ==
  ASSUME BuildInv, NEW w \in crossing, SplitWire(w)
  PROVE  SplitsKeepTheSpan'
  <1> DEFINE seg == Part(w, "segment")
             int == Part(w, "interposer")
             cut == cuts[1]
             inc == direction[w.track] = "INC"
  <1>1. /\ w \in DOMAIN nodes /\ w \in Ids /\ IsWire(w) /\ seg \in Ids /\ int \in Ids
        /\ seg # w /\ int # w /\ seg # int
        /\ seg \notin DOMAIN nodes /\ int \notin DOMAIN nodes
        /\ cut \in Nat /\ w.low <= cut /\ cut < w.high
        /\ DOMAIN nodes' = DOMAIN nodes \cup {seg, int}
        /\ \A id \in DOMAIN nodes : id # w => nodes'[id] = nodes[id]
        /\ nodes'[w] = Placed([low |-> IF inc THEN w.low ELSE cut + 1,
                               high |-> IF inc THEN cut ELSE w.high], w.track)
        /\ nodes'[seg] = Placed([low |-> IF inc THEN cut + 1 ELSE w.low,
                                 high |-> IF inc THEN w.high ELSE cut], w.track)
        /\ nodes'[int] = Placed([low |-> cut, high |-> cut], w.track + XMax)
        /\ direction' = direction
    BY SplitShape
  <1>2. SplitsKeepTheSpan /\ EdgeEnds /\ DOMAIN nodes \subseteq Ids
    BY DEF BuildInv, TypeOK
  <1>3. edges' = edges \cup SplitEdges(w)
    BY DEF SplitWire
  <1>4. seg.part = "segment" /\ int.part = "interposer"
    BY <1>1, PartFacts DEF Parts
  <1>5. \A e \in SplitEdges(w) :
            /\ e.times = DelayIncrease
            /\ e.to \in {seg, int}
            /\ e.to = int => e.from = w
            /\ e.to = seg => e.from = int
    BY <1>1 DEF SplitEdges, Edge
  <1>6. ASSUME NEW v \in DOMAIN nodes', v.part = "wire", v # w
        PROVE  IF Part(v, "segment") \in DOMAIN nodes'
               THEN /\ Part(v, "interposer") \in DOMAIN nodes'
                    /\ SharesRows(v)'
                    /\ OnlyThroughInterposer(v)'
               ELSE nodes'[v] = AsDrawn(v)
    <2>1. v \in DOMAIN nodes /\ v \in Ids
      BY <1>1, <1>2, <1>4, <1>6
    <2> DEFINE vs == Part(v, "segment")
               vi == Part(v, "interposer")
    <2>2. vs # seg /\ vs # int /\ vi # seg /\ vi # int /\ vs # w /\ vi # w
      <3>1. /\ Part(vs, "wire") = v /\ Part(vi, "wire") = v
            /\ Part(seg, "wire") = w /\ Part(int, "wire") = w
            /\ vs.part # "wire" /\ vi.part # "wire"
        <4>1. /\ Part(v, "wire") = v /\ Part(w, "wire") = w
          BY <1>1, <1>6, <2>1, PartFacts DEF Parts, IsWire
        <4> QED
          BY <1>1, <2>1, <4>1, PartFacts DEF Parts
      <3> QED
        BY <1>1, <1>6, <3>1 DEF IsWire
    <2>3. nodes'[v] = nodes[v]
      BY <1>1, <1>6, <2>1
    <2>4. CASE vs \in DOMAIN nodes'
      <3>1. vs \in DOMAIN nodes
        BY <1>1, <2>2, <2>4
      <3>2. vi \in DOMAIN nodes /\ SharesRows(v) /\ OnlyThroughInterposer(v)
        BY <1>2, <1>6, <2>1, <3>1 DEF SplitsKeepTheSpan
      <3>3. nodes'[vs] = nodes[vs] /\ nodes'[vi] = nodes[vi]
        BY <1>1, <2>2, <3>1, <3>2
      <3>4. SharesRows(v)'
        BY <1>1, <2>3, <3>2, <3>3 DEF SharesRows, RowsOf
      <3>5. OnlyThroughInterposer(v)'
        BY <1>3, <1>5, <2>2, <3>2 DEF OnlyThroughInterposer
      <3> QED
        BY <1>1, <2>4, <3>2, <3>4, <3>5
    <2>5. CASE vs \notin DOMAIN nodes'
      BY <1>1, <1>2, <1>6, <2>1, <2>3, <2>5 DEF SplitsKeepTheSpan
    <2> QED
      BY <2>4, <2>5
  <1>7. SharesRows(w)'
    <2>1. w.low \in Nat /\ w.high \in Nat
      BY <1>1 DEF Ids, Rows
    <2>2. /\ nodes'[w].low = (IF inc THEN w.low ELSE cut + 1)
          /\ nodes'[w].high = (IF inc THEN cut ELSE w.high)
          /\ nodes'[seg].low = (IF inc THEN cut + 1 ELSE w.low)
          /\ nodes'[seg].high = (IF inc THEN w.high ELSE cut)
          /\ nodes'[int].low = cut /\ nodes'[int].high = cut
      BY <1>1 DEF Placed
    <2>3. nodes'[int].low .. nodes'[int].high = {cut}
      BY <1>1, <2>2
    <2>4. CASE inc
      BY <1>1, <2>1, <2>2, <2>3, <2>4 DEF SharesRows, RowsOf
    <2>5. CASE ~ inc
      BY <1>1, <2>1, <2>2, <2>3, <2>5 DEF SharesRows, RowsOf
    <2> QED
      BY <2>4, <2>5
  <1>8. OnlyThroughInterposer(w)'
    <2>1. \A e \in edges : e.to \notin {seg, int}
      BY <1>1, <1>2, NoNodeAssumption DEF EdgeEnds
    <2> QED
      BY <1>3, <1>4, <1>5, <2>1 DEF OnlyThroughInterposer
  <1> QED
    BY <1>1, <1>6, <1>7, <1>8 DEF SplitsKeepTheSpan

LEMMA SplitKeepsInv ==
  ASSUME BuildInv, NEW w \in crossing, SplitWire(w)
  PROVE  BuildInv'
  <1> DEFINE seg == Part(w, "segment")
             int == Part(w, "interposer")
             cut == cuts[1]
             inc == direction[w.track] = "INC"
  <1>1. /\ w \in DOMAIN nodes /\ w \in Ids /\ IsWire(w) /\ seg \in Ids /\ int \in Ids
        /\ seg # w /\ int # w /\ seg # int
        /\ seg \notin DOMAIN nodes /\ int \notin DOMAIN nodes
        /\ cut \in Nat /\ w.low <= cut /\ cut < w.high
        /\ DOMAIN nodes' = DOMAIN nodes \cup {seg, int}
        /\ \A id \in DOMAIN nodes : id # w => nodes'[id] = nodes[id]
        /\ nodes'[w] = Placed([low |-> IF inc THEN w.low ELSE cut + 1,
                               high |-> IF inc THEN cut ELSE w.high], w.track)
        /\ nodes'[seg] = Placed([low |-> IF inc THEN cut + 1 ELSE w.low,
                                 high |-> IF inc THEN w.high ELSE cut], w.track)
        /\ nodes'[int] = Placed([low |-> cut, high |-> cut], w.track + XMax)
        /\ direction' = direction
    BY SplitShape
  <1>2. /\ pc = "split" /\ pc' = pc /\ quota > 0 /\ quota' = quota - 1
        /\ crossing' = crossing \ {w} /\ edges' = edges \cup SplitEdges(w)
        /\ cuts' = cuts /\ remapped' = remapped /\ archs' = archs
        /\ switches' = switches /\ remap' = remap
        /\ flatEdges' = flatEdges /\ builds' = builds
    BY DEF SplitWire
  <1>3. /\ seg.part = "segment" /\ int.part = "interposer"
        /\ seg.x = w.x /\ seg.track = w.track /\ seg.low = w.low /\ seg.high = w.high
        /\ int.x = w.x /\ int.track = w.track /\ int.low = w.low /\ int.high = w.high
        /\ Part(seg, "wire") = w /\ Part(int, "wire") = w
        /\ Part(seg, "segment") = seg /\ Part(seg, "interposer") = int
        /\ Part(int, "segment") = seg /\ Part(int, "interposer") = int
        /\ Part(w, "wire") = w
    BY <1>1, PartFacts DEF Parts, IsWire
  <1>4. /\ w.low \in Rows /\ w.high \in Rows /\ w.track \in 0 .. Tracks - 1
        /\ Tracks \in Nat /\ XMax \in Nat /\ Height \in Nat
    BY <1>1 DEF Ids, TrackIds
  <1>5. /\ nodes'[w].track = w.track /\ nodes'[seg].track = w.track
        /\ nodes'[int].track = w.track + XMax
        /\ nodes'[w].low = (IF inc THEN w.low ELSE cut + 1)
        /\ nodes'[w].high = (IF inc THEN cut ELSE w.high)
        /\ nodes'[seg].low = (IF inc THEN cut + 1 ELSE w.low)
        /\ nodes'[seg].high = (IF inc THEN w.high ELSE cut)
        /\ nodes'[int].low = cut /\ nodes'[int].high = cut
    BY <1>1 DEF Placed
  <1>6. TypeOK /\ SwitchesInv /\ PartsOfWires /\ WiresApart /\ EdgeEnds /\ CrossingUnsplit
    BY DEF BuildInv
  <1>7. /\ ValidDelayedSwitch \in 1 .. Len(switches)
        /\ switches[ValidDelayedSwitch].arch = 1
        /\ switches[ValidDelayedSwitch].times = DelayIncrease
        /\ \A e \in edges : Resolved(e)
        /\ Len(switches) \in Nat
    BY <1>2, <1>6 DEF SwitchesInv, TypeOK
  <1>8. TypeOK'
    <2>1. \A id \in DOMAIN nodes' :
              nodes'[id] \in [low : Rows, high : Rows, track : 0 .. Tracks - 1 + XMax]
      <3>1. nodes'[w] \in [low : Rows, high : Rows, track : 0 .. Tracks - 1 + XMax]
        BY <1>1, <1>4 DEF Placed, Rows
      <3>2. nodes'[seg] \in [low : Rows, high : Rows, track : 0 .. Tracks - 1 + XMax]
        BY <1>1, <1>4 DEF Placed, Rows
      <3>3. nodes'[int] \in [low : Rows, high : Rows, track : 0 .. Tracks - 1 + XMax]
        BY <1>1, <1>4 DEF Placed, Rows
      <3> QED
        BY <1>1, <1>6, <3>1, <3>2, <3>3 DEF TypeOK
    <2>2. lookup' \in [Slots -> Ids \cup {NoNode}]
      <3>1. lookup' = [s \in Slots |-> lookup'[s]]
        BY DEF SplitWire, SplitLookup, Register
      <3>2. \A s \in Slots : lookup'[s] \in Ids \cup {NoNode}
        <4> SUFFICES ASSUME NEW s \in Slots PROVE lookup'[s] \in Ids \cup {NoNode}
          OBVIOUS
        <4>1. lookup'[s] \in {w, int, seg, NoNode, lookup[s]}
          BY SplitSlots
        <4>2. lookup[s] \in Ids \cup {NoNode}
          BY <1>6 DEF TypeOK
        <4> QED
          BY <1>1, <4>1, <4>2
      <3> QED
        BY <3>1, <3>2
    <2>3. edges' \subseteq EdgeRecords
      <3>1. ValidDelayedSwitch \in Nat
        BY <1>7
      <3>2. SplitEdges(w) \subseteq EdgeRecords
        BY <1>1, <3>1, EdgeIsRecord DEF SplitEdges
      <3> QED
        BY <1>2, <1>6, <3>2 DEF TypeOK
    <2>4. quota' \in Nat
      BY <1>2, <1>6 DEF TypeOK
    <2>5. crossing' \subseteq DOMAIN nodes' /\ DOMAIN nodes' \subseteq Ids
      BY <1>1, <1>2, <1>6 DEF TypeOK
    <2> QED
      BY <1>1, <1>2, <1>6, <2>1, <2>2, <2>3, <2>4, <2>5 DEF TypeOK
  <1>9. WiresApart'
    BY <1>1, <1>3, <1>6 DEF WiresApart, IsWire
  <1>10. PartsOfWires'
    <2> SUFFICES ASSUME NEW id \in DOMAIN nodes'
                 PROVE  /\ Part(id, "wire") \in DOMAIN nodes'
                        /\ ~ IsWire(id) => /\ Part(id, "segment") \in DOMAIN nodes'
                                           /\ Part(id, "interposer") \in DOMAIN nodes'
                        /\ nodes'[id].track = IF id.part = "interposer"
                                              THEN id.track + XMax ELSE id.track
                        /\ id.low <= nodes'[id].low /\ nodes'[id].low <= nodes'[id].high
                        /\ nodes'[id].high <= id.high
      BY DEF PartsOfWires
    <2>1. w.low \in Nat /\ w.high \in Nat
      BY <1>4 DEF Rows
    <2>2. CASE id = w
      BY <1>1, <1>3, <1>5, <2>1, <2>2 DEF IsWire
    <2>3. CASE id = seg
      BY <1>1, <1>3, <1>5, <2>1, <2>3
    <2>4. CASE id = int
      BY <1>1, <1>3, <1>5, <2>1, <2>4
    <2>5. CASE id \in DOMAIN nodes /\ id # w
      BY <1>1, <1>6, <2>5 DEF PartsOfWires
    <2> QED
      BY <1>1, <2>2, <2>3, <2>4, <2>5
  <1>11. CrossingUnsplit'
    <2> SUFFICES ASSUME NEW v \in crossing, v # w
                 PROVE  IsWire(v) /\ Part(v, "segment") \notin DOMAIN nodes'
      BY <1>2, <1>6 DEF CrossingUnsplit
    <2>1. IsWire(v) /\ Part(v, "segment") \notin DOMAIN nodes /\ v \in Ids
      BY <1>6 DEF CrossingUnsplit, TypeOK
    <2>2. Part(Part(v, "segment"), "wire") = v /\ Part(v, "segment").part = "segment"
      BY <2>1, PartFacts DEF Parts, IsWire
    <2> QED
      BY <1>1, <1>3, <2>1, <2>2
  <1>12. EdgeEnds'
    BY <1>1, <1>2, <1>6 DEF EdgeEnds, SplitEdges, Edge
  <1>13. SwitchesInv'
    <2>1. \A e \in SplitEdges(w) : Resolved(e)
      BY <1>7 DEF SplitEdges, Edge, Resolved
    <2>2. \A e \in edges' : Resolved(e)'
      BY <1>2, <1>7, <2>1 DEF Resolved
    <2>3. ArchSwitchesFirst' /\ ValidDelayedSwitch' = ValidDelayedSwitch
      BY <1>2, <1>6 DEF SwitchesInv, ArchSwitchesFirst, ValidDelayedSwitch
    <2> QED
      BY <1>2, <1>6, <1>7, <2>2, <2>3 DEF SwitchesInv
  <1> QED
    BY <1>8, <1>9, <1>10, <1>11, <1>12, <1>13, SplitKeepsLookup, SplitKeepsSpans DEF BuildInv

-----------------------------------------------------------------------------
(* The steps that leave the nodes and the lookup alone. *)

\* Every edge runs between two nodes, by a switch slowed as much, that an edge
\* ran between before, or is about nodes left out.
SameEnds(after, before) ==
    \A e \in after :
        e.to = NoNode \/ \E f \in before : /\ e.from = f.from /\ e.to = f.to
                                           /\ e.times = f.times

LEMMA NodesKept ==
  ASSUME BuildInv, nodes' = nodes, lookup' = lookup, direction' = direction,
         SameEnds(edges', edges)
  PROVE  NodeInv'
  <1>1. WiresApart /\ PartsOfWires /\ EdgeEnds /\ LookupFollowsTheSplit /\ SplitsKeepTheSpan
        /\ DOMAIN nodes \subseteq Ids
    BY DEF BuildInv, TypeOK
  <1>2. WiresApart' /\ PartsOfWires' /\ LookupFollowsTheSplit'
    BY <1>1 DEF WiresApart, PartsOfWires, LookupFollowsTheSplit
  <1>3. EdgeEnds'
    BY <1>1 DEF EdgeEnds, SameEnds
  <1>4. SplitsKeepTheSpan'
    <2> SUFFICES ASSUME NEW w \in DOMAIN nodes, w.part = "wire"
                 PROVE  IF Part(w, "segment") \in DOMAIN nodes
                        THEN /\ Part(w, "interposer") \in DOMAIN nodes
                             /\ SharesRows(w)'
                             /\ OnlyThroughInterposer(w)'
                        ELSE nodes[w] = AsDrawn(w)
      BY DEF SplitsKeepTheSpan
    <2>1. CASE Part(w, "segment") \in DOMAIN nodes
      <3>1. Part(w, "interposer") \in DOMAIN nodes /\ SharesRows(w) /\ OnlyThroughInterposer(w)
        BY <1>1, <2>1 DEF SplitsKeepTheSpan
      <3>2. SharesRows(w)'
        BY <3>1 DEF SharesRows, RowsOf
      <3>3. Part(w, "interposer") # NoNode /\ Part(w, "segment") # NoNode
        BY <1>1, <2>1, <3>1
      <3>4. OnlyThroughInterposer(w)'
        BY <3>1, <3>3 DEF OnlyThroughInterposer, SameEnds
      <3> QED
        BY <2>1, <3>1, <3>2, <3>4
    <2>2. CASE Part(w, "segment") \notin DOMAIN nodes
      BY <1>1, <2>2 DEF SplitsKeepTheSpan
    <2> QED
      BY <2>1, <2>2
  <1> QED
    BY <1>2, <1>3, <1>4 DEF NodeInv

LEMMA SetupKeepsInv ==
  ASSUME BuildInv, NEW numCuts \in 0 .. MaxCuts, NEW lcm \in Rows,
         vpr_setup_interposer_cut_locations(numCuts, lcm)
  PROVE  BuildInv'
  <1>1. /\ pc = "setup" /\ pc' \in {"draft", "fatal"}
        /\ cuts' \in Seq(1 .. Height - 1)
    <2>1. CASE pc' = "fatal" /\ cuts' = cuts
      BY <2>1 DEF vpr_setup_interposer_cut_locations, BuildInv, TypeOK
    <2>2. CASE /\ pc' = "draft" /\ cuts' = CutLocations(numCuts, lcm)
               /\ ~ (numCuts > 0 /\ (\/ lcm >= Height
                                     \/ numCuts * SliceHeight(numCuts, lcm) >= Height))
      <3>1. numCuts \in Nat
        OBVIOUS
      <3>2. numCuts * SliceHeight(numCuts, lcm) \in Nat
        BY <3>1, SliceIsPositive
      <3>3. numCuts > 0 => numCuts * SliceHeight(numCuts, lcm) < Height
        BY <2>2, <3>2
      <3>4. cuts' \in Seq(1 .. Height - 1)
        BY <2>2, <3>1, <3>3, CutsAreRows
      <3> QED
        BY <2>2, <3>4 DEF vpr_setup_interposer_cut_locations
    <2> QED
      BY <2>1, <2>2 DEF vpr_setup_interposer_cut_locations
  <1>2. /\ nodes' = nodes /\ lookup' = lookup /\ direction' = direction /\ edges' = edges
        /\ crossing' = crossing /\ quota' = quota /\ remapped' = remapped
        /\ archs' = archs /\ switches' = switches /\ remap' = remap
        /\ flatEdges' = flatEdges /\ builds' = builds
    BY DEF vpr_setup_interposer_cut_locations
  <1>3. NodeInv'
    BY <1>2, NodesKept DEF SameEnds
  <1>4. TypeOK'
    BY <1>1, <1>2 DEF BuildInv, TypeOK
  <1>5. CrossingUnsplit'
    BY <1>1, <1>2 DEF BuildInv, CrossingUnsplit
  <1>6. SwitchesInv'
    BY <1>1, <1>2 DEF BuildInv, SwitchesInv
  <1> QED
    BY <1>3, <1>4, <1>5, <1>6 DEF BuildInv, NodeInv

LEMMA CollectKeepsInv ==
  ASSUME BuildInv, CollectCrossing
  PROVE  BuildInv'
  <1>1. /\ pc = "cross" /\ pc' = "split"
        /\ crossing' \subseteq DOMAIN nodes
        /\ quota' = (Cardinality(crossing') * PercentCut) \div 100
        /\ switches' = create_delayed_switches
        /\ cuts' = cuts /\ direction' = direction /\ nodes' = nodes /\ lookup' = lookup
        /\ edges' = edges /\ remapped' = remapped /\ archs' = archs /\ remap' = remap
        /\ flatEdges' = flatEdges /\ builds' = builds
    BY DEF CollectCrossing, graph
  <1>2. TypeOK /\ SwitchesInv /\ CrossingUnsplit
    BY DEF BuildInv
  <1>3. NodeInv'
    BY <1>1, NodesKept DEF SameEnds
  <1>4. /\ archs \in Seq(ArchSwitch) /\ archs # <<>> /\ Len(archs) \in Nat \ {0}
        /\ switches \in Seq([arch : Nat, loaded : BOOLEAN, times : {1, DelayIncrease}])
        /\ Len(switches) \in Nat
    BY <1>2 DEF TypeOK
  <1> DEFINE delayed == [i \in 1 .. Len(archs) |-> Copy(i, FALSE, DelayIncrease)]
             records == [arch : Nat, loaded : BOOLEAN, times : {1, DelayIncrease}]
  <1>5. /\ delayed \in Seq(records) /\ Len(delayed) = Len(archs)
        /\ delayed[1].arch = 1 /\ delayed[1].times = DelayIncrease
    BY <1>4 DEF Copy
  <1>6. switches' = switches \o delayed
    BY <1>1 DEF create_delayed_switches
  <1> HIDE DEF delayed, records
  <1>7. /\ switches' \in Seq(records) /\ Len(switches') = Len(switches) + Len(archs)
        /\ \A i \in 1 .. Len(switches) : switches'[i] = switches[i]
        /\ switches'[Len(switches) + 1] = delayed[1]
    <2>1. switches \in Seq(records)
      BY <1>4 DEF records
    <2>2. Len(delayed) \in Nat \ {0}
      BY <1>4, <1>5
    <2>3. switches \o delayed \in Seq(records)
      BY <1>5, <2>1
    <2>4. /\ Len(switches \o delayed) = Len(switches) + Len(delayed)
          /\ \A i \in 1 .. Len(switches) : (switches \o delayed)[i] = switches[i]
          /\ (switches \o delayed)[Len(switches) + 1] = delayed[1]
      BY <1>5, <2>1, <2>2
    <2> QED
      BY <1>5, <1>6, <2>3, <2>4
  <1>8. quota' \in Nat
    <2>1. IsFiniteSet(crossing')
      BY <1>1, <1>2, IdsAreFinite, FS_Subset DEF TypeOK
    <2>2. Cardinality(crossing') \in Nat
      BY <2>1, FS_CardinalityType
    <2> QED
      BY <1>1, <2>2 DEF PercentCut
  <1>9. TypeOK'
    BY <1>1, <1>2, <1>7, <1>8 DEF TypeOK, records
  <1>10. CrossingUnsplit'
    <2> SUFFICES ASSUME NEW w \in DOMAIN nodes
                 PROVE  IsWire(w) /\ Part(w, "segment") \notin DOMAIN nodes
      BY <1>1, <1>2 DEF CrossingUnsplit
    <2>1. \A id \in DOMAIN nodes : IsWire(id)
      BY <1>1, <1>2 DEF CrossingUnsplit
    <2>2. w \in Ids
      BY <1>2 DEF TypeOK
    <2>3. Part(w, "segment").part = "segment"
      BY <2>2, PartFacts DEF Parts
    <2> QED
      BY <2>1, <2>3 DEF IsWire
  <1>11. SwitchesInv'
    <2>1. ArchSwitchesFirst /\ \A e \in edges : Resolved(e)
      BY <1>1, <1>2 DEF SwitchesInv
    <2>2. ArchSwitchesFirst'
      <3>1. Len(archs) <= Len(switches) /\ Len(archs) <= Len(switches')
        BY <1>4, <1>7, <2>1 DEF ArchSwitchesFirst
      <3>2. ASSUME NEW i \in 1 .. Len(archs)
            PROVE  switches'[i].arch = i /\ switches'[i].times = 1
        <4>1. i \in 1 .. Len(switches)
          BY <1>4, <3>1
        <4> QED
          BY <1>7, <2>1, <4>1 DEF ArchSwitchesFirst
      <3>3. archs' = archs
        BY <1>1
      <3> QED
        BY <3>1, <3>2, <3>3 DEF ArchSwitchesFirst
    <2>3. ASSUME NEW e \in edges
          PROVE  Resolved(e)'
      <3>1. /\ e.switch \in 1 .. Len(switches)
            /\ switches[e.switch].arch = e.arch /\ switches[e.switch].times = e.times
        BY <2>1 DEF Resolved
      <3>2. e.switch \in 1 .. Len(switches') /\ switches'[e.switch] = switches[e.switch]
        BY <1>4, <1>7, <3>1
      <3> QED
        BY <3>1, <3>2 DEF Resolved
    <2>4. ValidDelayedSwitch' = Len(switches) + 1
      BY <1>1, <1>4, <1>7 DEF ValidDelayedSwitch
    <2>5. ValidDelayedSwitch' \in 1 .. Len(switches')
      BY <1>4, <1>7, <2>4
    <2> QED
      BY <1>1, <1>2, <1>5, <1>7, <2>2, <2>3, <2>4, <2>5 DEF SwitchesInv
  <1> QED
    BY <1>3, <1>9, <1>10, <1>11 DEF BuildInv, NodeInv

LEMMA LoopKeepsInv ==
  ASSUME BuildInv, EndSplitting \/ \E w \in crossing : PassOver(w)
  PROVE  BuildInv'
  <1>1. /\ pc = "split" /\ pc' \in {"split", "index"}
        /\ crossing' \subseteq crossing /\ quota' \in Nat
        /\ pc' = "index" => crossing' = {}
        /\ cuts' = cuts /\ direction' = direction /\ nodes' = nodes /\ lookup' = lookup
        /\ edges' = edges /\ remapped' = remapped /\ archs' = archs /\ remap' = remap
        /\ switches' = switches /\ flatEdges' = flatEdges /\ builds' = builds
    <2>1. CASE EndSplitting
      BY <2>1 DEF EndSplitting, graph
    <2>2. ASSUME NEW w \in crossing, PassOver(w) PROVE <1>1!:
      BY <2>2 DEF PassOver, graph, BuildInv, TypeOK
    <2> QED
      BY <2>1, <2>2
  <1>2. NodeInv'
    BY <1>1, NodesKept DEF SameEnds
  <1>3. TypeOK'
    BY <1>1 DEF BuildInv, TypeOK
  <1>4. CrossingUnsplit'
    BY <1>1 DEF BuildInv, CrossingUnsplit
  <1>5. SwitchesInv'
    BY <1>1 DEF BuildInv, SwitchesInv, ArchSwitchesFirst, Resolved, ValidDelayedSwitch
  <1> QED
    BY <1>2, <1>3, <1>4, <1>5 DEF BuildInv, NodeInv

LEMMA IndexKeepsInv ==
  ASSUME BuildInv, IndexEdges
  PROVE  BuildInv'
  <1>1. pc = "index" /\ remap = <<>>
    BY DEF IndexEdges, BuildInv, SwitchesInv
  <1>2. /\ pc' = "load" /\ remapped' = TRUE /\ edges' = edges
        /\ cuts' = cuts /\ direction' = direction /\ nodes' = nodes /\ lookup' = lookup
        /\ crossing' = crossing /\ quota' = quota /\ archs' = archs /\ remap' = remap
        /\ switches' = switches /\ flatEdges' = flatEdges /\ builds' = builds
    BY <1>1 DEF IndexEdges
  <1>3. NodeInv'
    BY <1>2, NodesKept DEF SameEnds
  <1>4. TypeOK'
    BY <1>2 DEF BuildInv, TypeOK
  <1>5. CrossingUnsplit'
    BY <1>1, <1>2 DEF BuildInv, CrossingUnsplit
  <1>6. SwitchesInv'
    BY <1>1, <1>2 DEF BuildInv, SwitchesInv, ArchSwitchesFirst, Resolved
  <1> QED
    BY <1>3, <1>4, <1>5, <1>6 DEF BuildInv, NodeInv

LEMMA LoadKeepsInv ==
  ASSUME BuildInv, LoadSwitches
  PROVE  BuildInv'
  <1>1. /\ pc = "load" /\ pc' \in {"asserted", "flat", "built"} /\ remapped' \in BOOLEAN
        /\ cuts' = cuts /\ direction' = direction /\ nodes' = nodes /\ lookup' = lookup
        /\ crossing' = crossing /\ quota' = quota /\ archs' = archs
        /\ flatEdges' = flatEdges /\ builds' = builds
    BY DEF LoadSwitches
  <1>2. edges' = IF pc' = "flat" THEN {[e EXCEPT !.remapped = TRUE] : e \in edges} ELSE edges
    BY DEF LoadSwitches
  <1>3. TypeOK /\ ArchSwitchesFirst /\ \A e \in edges : Resolved(e)
    BY <1>1 DEF BuildInv, SwitchesInv
  <1>4. /\ Len(archs) \in Nat /\ Len(switches) \in Nat /\ archs \in Seq(ArchSwitch)
        /\ switches \in Seq([arch : Nat, loaded : BOOLEAN, times : {1, DelayIncrease}])
    BY <1>3 DEF TypeOK
  <1>5. edges \subseteq EdgeRecords
    BY <1>3 DEF TypeOK
  <1>6. \A e \in edges' : \E f \in edges :
            /\ e.from = f.from /\ e.to = f.to /\ e.times = f.times
            /\ e.arch = f.arch /\ e.switch = f.switch
            /\ pc' = "flat" => e.remapped
    BY <1>2, <1>5 DEF EdgeRecords
  <1>7. NodeInv'
    BY <1>1, <1>6, NodesKept DEF SameEnds
  <1>8. edges' \subseteq EdgeRecords
    <2>1. ASSUME NEW e \in edges
          PROVE  [e EXCEPT !.remapped = TRUE] \in EdgeRecords
      BY <1>5 DEF EdgeRecords
    <2> QED
      BY <1>2, <1>5, <2>1
  <1>9. CrossingUnsplit'
    BY <1>1 DEF BuildInv, CrossingUnsplit
  <1>10. CASE pc' = "asserted"
    <2>1. switches' = switches /\ remap' = remap
      BY <1>10 DEF LoadSwitches
    <2>2. TypeOK'
      BY <1>1, <1>3, <1>8, <1>10, <2>1 DEF TypeOK
    <2>3. SwitchesInv'
      BY <1>10 DEF SwitchesInv
    <2> QED
      BY <1>7, <1>9, <2>2, <2>3 DEF BuildInv, NodeInv
  <1>11. CASE pc' # "asserted"
    <2>1. /\ switches' = [i \in 1 .. Len(switches) |->
                             IF i <= Len(archs) THEN Copy(i, TRUE, 1) ELSE switches[i]]
          /\ remap' = [i \in 1 .. Len(archs) |-> i]
      BY <1>11 DEF LoadSwitches
    <2>2. Len(switches') = Len(switches) /\ Len(remap') = Len(archs)
      BY <1>4, <2>1
    <2>3. ASSUME NEW i \in 1 .. Len(switches)
          PROVE  /\ switches'[i] \in [arch : Nat, loaded : BOOLEAN, times : {1, DelayIncrease}]
                 /\ switches'[i].arch = switches[i].arch
                 /\ switches'[i].times = switches[i].times
      <3>1. CASE i <= Len(archs)
        <4>1. i \in 1 .. Len(archs) /\ i \in Nat
          BY <1>4, <3>1
        <4>2. switches'[i] = Copy(i, TRUE, 1)
          BY <2>1, <3>1
        <4>3. switches[i].arch = i /\ switches[i].times = 1
          BY <1>3, <4>1 DEF ArchSwitchesFirst
        <4> QED
          BY <4>1, <4>2, <4>3 DEF Copy
      <3>2. CASE ~ (i <= Len(archs))
        <4>1. switches'[i] = switches[i]
          BY <2>1, <3>2
        <4>2. switches[i] \in [arch : Nat, loaded : BOOLEAN, times : {1, DelayIncrease}]
          BY <1>4, ElementOfSeq
        <4> QED
          BY <4>1, <4>2
      <3> QED
        BY <3>1, <3>2
    <2>4. switches' \in Seq([arch : Nat, loaded : BOOLEAN, times : {1, DelayIncrease}])
      <3>1. switches' = [i \in 1 .. Len(switches) |-> switches'[i]]
        BY <2>1
      <3> QED
        BY <1>4, <2>3, <3>1, SeqByElements
    <2>5. remap' \in Seq(Nat)
      BY <1>4, <2>1
    <2>6. TypeOK'
      BY <1>1, <1>3, <1>8, <2>4, <2>5 DEF TypeOK
    <2>7. \A e \in edges' : Resolved(e)'
      BY <1>3, <1>6, <2>2, <2>3 DEF Resolved
    <2>8. RemapCovers'
      <3> SUFFICES ASSUME NEW i \in 1 .. Len(archs)
                   PROVE  /\ remap'[i] \in 1 .. Len(switches')
                          /\ switches'[remap'[i]].arch = i /\ switches'[remap'[i]].times = 1
        BY <1>1, <2>2 DEF RemapCovers
      <3>1. remap'[i] = i
        BY <2>1
      <3>2. i \in 1 .. Len(switches)
        BY <1>3, <1>4 DEF ArchSwitchesFirst
      <3> QED
        BY <1>3, <2>2, <2>3, <3>1, <3>2 DEF ArchSwitchesFirst
    <2>9. SwitchesInv'
      BY <1>1, <1>6, <1>11, <2>7, <2>8 DEF SwitchesInv
    <2> QED
      BY <1>7, <1>9, <2>6, <2>9 DEF BuildInv, NodeInv
  <1> QED
    BY <1>10, <1>11

LEMMA ReuseKeepsInv ==
  ASSUME BuildInv, NEW delay \in InternalDelays, ReuseInternal(delay)
  PROVE  BuildInv'
  <1>1. PICK i \in 1 .. Len(archs) : edges' = edges \cup {OtherEdge(i, i)}
    BY DEF ReuseInternal, WithDelay
  <1>2. /\ pc = "flat" /\ pc' = pc /\ flatEdges < InternalEdges
        /\ flatEdges' = flatEdges + 1
        /\ cuts' = cuts /\ direction' = direction /\ nodes' = nodes /\ lookup' = lookup
        /\ crossing' = crossing /\ quota' = quota /\ remapped' = remapped
        /\ archs' = archs /\ switches' = switches /\ remap' = remap /\ builds' = builds
    BY DEF ReuseInternal
  <1>3. TypeOK /\ SwitchesInv
    BY DEF BuildInv
  <1>4. i \in Nat
    BY <1>3 DEF TypeOK
  <1>5. /\ OtherEdge(i, i).to = NoNode /\ OtherEdge(i, i).arch = i
        /\ OtherEdge(i, i).switch = i /\ OtherEdge(i, i).times = 1
        /\ OtherEdge(i, i).remapped = FALSE
    BY DEF OtherEdge, Edge
  <1>6. NodeInv'
    BY <1>1, <1>2, <1>5, NodesKept DEF SameEnds
  <1>7. TypeOK'
    <2>1. OtherEdge(i, i) \in EdgeRecords
      BY <1>4, EdgeIsRecord DEF OtherEdge
    <2>2. flatEdges' \in 0 .. InternalEdges
      BY <1>2, <1>3 DEF TypeOK
    <2> QED
      BY <1>1, <1>2, <1>3, <2>1, <2>2 DEF TypeOK
  <1>8. CrossingUnsplit'
    BY <1>2 DEF BuildInv, CrossingUnsplit
  <1>9. SwitchesInv'
    <2>1. RemapCovers'
      BY <1>2, <1>3 DEF SwitchesInv, RemapCovers
    <2> QED
      BY <1>1, <1>2, <1>3, <1>5, <2>1 DEF SwitchesInv, Resolved
  <1> QED
    BY <1>6, <1>7, <1>8, <1>9 DEF BuildInv, NodeInv

LEMMA CreateKeepsInv ==
  ASSUME BuildInv, NEW delay \in InternalDelays, CreateInternal(delay)
  PROVE  BuildInv'
  <1> DEFINE key == Len(archs) + 1
             new == [dependent |-> FALSE, internal |-> delay]
             records == [arch : Nat, loaded : BOOLEAN, times : {1, DelayIncrease}]
  <1>1. /\ pc = "flat" /\ pc' = pc /\ flatEdges < InternalEdges
        /\ flatEdges' = flatEdges + 1
        /\ archs' = Append(archs, new) /\ switches' = Append(switches, Draft(key))
        /\ remap' = Append(remap, Len(switches) + 1)
        /\ edges' = edges \cup {OtherEdge(key, key)}
        /\ cuts' = cuts /\ direction' = direction /\ nodes' = nodes /\ lookup' = lookup
        /\ crossing' = crossing /\ quota' = quota /\ remapped' = remapped
        /\ builds' = builds
    BY DEF CreateInternal
  <1>2. TypeOK /\ RemapCovers /\ SwitchesInv
    BY <1>1 DEF BuildInv, SwitchesInv
  <1>3. /\ archs \in Seq(ArchSwitch) /\ switches \in Seq(records) /\ remap \in Seq(Nat)
        /\ Len(archs) \in Nat /\ Len(switches) \in Nat /\ Len(remap) \in Nat
        /\ key \in Nat
    BY <1>2 DEF TypeOK
  <1>4. new \in ArchSwitch /\ Draft(key) \in records
    BY <1>3 DEF ArchSwitch, Draft, Copy
  <1>5. Draft(key).arch = key /\ Draft(key).times = 1
    BY DEF Draft, Copy
  <1> HIDE DEF new, records
  <1>6. /\ archs' \in Seq(ArchSwitch) /\ archs' # <<>> /\ Len(archs') = key
        /\ switches' \in Seq(records) /\ Len(switches') = Len(switches) + 1
        /\ \A i \in 1 .. Len(switches) : switches'[i] = switches[i]
        /\ switches'[Len(switches) + 1] = Draft(key)
        /\ remap' \in Seq(Nat) /\ Len(remap') = Len(remap) + 1
        /\ \A i \in 1 .. Len(remap) : remap'[i] = remap[i]
        /\ remap'[Len(remap) + 1] = Len(switches) + 1
    <2>1. archs' \in Seq(ArchSwitch) /\ archs' # <<>> /\ Len(archs') = key
      BY <1>1, <1>3, <1>4
    <2>2. /\ switches' \in Seq(records) /\ Len(switches') = Len(switches) + 1
          /\ \A i \in 1 .. Len(switches) : switches'[i] = switches[i]
          /\ switches'[Len(switches) + 1] = Draft(key)
      BY <1>1, <1>3, <1>4
    <2>3. /\ remap' \in Seq(Nat) /\ Len(remap') = Len(remap) + 1
          /\ \A i \in 1 .. Len(remap) : remap'[i] = remap[i]
          /\ remap'[Len(remap) + 1] = Len(switches) + 1
      BY <1>1, <1>3
    <2> QED
      BY <2>1, <2>2, <2>3
  <1>7. /\ OtherEdge(key, key).to = NoNode /\ OtherEdge(key, key).arch = key
        /\ OtherEdge(key, key).switch = key /\ OtherEdge(key, key).times = 1
        /\ OtherEdge(key, key).remapped = FALSE
    BY DEF OtherEdge, Edge
  <1>8. NodeInv'
    BY <1>1, <1>7, NodesKept DEF SameEnds
  <1>9. TypeOK'
    <2>1. OtherEdge(key, key) \in EdgeRecords
      BY <1>3, EdgeIsRecord DEF OtherEdge
    <2>2. flatEdges' \in 0 .. InternalEdges
      BY <1>1, <1>2 DEF TypeOK
    <2> QED
      BY <1>1, <1>2, <1>6, <2>1, <2>2 DEF TypeOK, records
  <1>10. CrossingUnsplit'
    BY <1>1 DEF BuildInv, CrossingUnsplit
  <1>11. RemapCovers'
    <2>1. Len(remap') = Len(archs')
      BY <1>2, <1>6 DEF RemapCovers
    <2>2. ASSUME NEW i \in 1 .. Len(archs')
          PROVE  /\ remap'[i] \in 1 .. Len(switches')
                 /\ switches'[remap'[i]].arch = i /\ switches'[remap'[i]].times = 1
      <3>1. CASE i \in 1 .. Len(archs)
        <4>1. /\ remap[i] \in 1 .. Len(switches)
              /\ switches[remap[i]].arch = i /\ switches[remap[i]].times = 1
              /\ remap'[i] = remap[i]
          BY <1>2, <1>6, <3>1 DEF RemapCovers
        <4>2. switches'[remap[i]] = switches[remap[i]]
          BY <1>6, <4>1
        <4>3. remap[i] \in 1 .. Len(switches')
          BY <1>3, <1>6, <4>1
        <4> QED
          BY <4>1, <4>2, <4>3
      <3>2. CASE i = key
        <4>1. remap'[i] = Len(switches) + 1
          BY <1>2, <1>6, <3>2 DEF RemapCovers
        <4> QED
          BY <1>3, <1>5, <1>6, <3>2, <4>1
      <3> QED
        BY <1>3, <1>6, <3>1, <3>2
    <2> QED
      BY <2>1, <2>2 DEF RemapCovers
  <1>12. ASSUME NEW e \in edges'
         PROVE  IF e.remapped THEN Resolved(e)'
                ELSE e.switch = e.arch /\ e.arch \in 1 .. Len(archs') /\ e.times = 1
    <2>1. CASE e = OtherEdge(key, key)
      BY <1>3, <1>6, <1>7, <2>1
    <2>2. CASE e \in edges
      <3>1. IF e.remapped THEN Resolved(e)
            ELSE e.switch = e.arch /\ e.arch \in 1 .. Len(archs) /\ e.times = 1
        BY <1>1, <1>2, <2>2 DEF SwitchesInv
      <3>2. CASE e.remapped
        BY <1>3, <1>6, <3>1, <3>2 DEF Resolved
      <3>3. CASE ~ e.remapped
        BY <1>3, <1>6, <3>1, <3>3
      <3> QED
        BY <3>2, <3>3
    <2> QED
      BY <1>1, <2>1, <2>2
  <1>13. SwitchesInv'
    BY <1>1, <1>11, <1>12 DEF SwitchesInv
  <1> QED
    BY <1>8, <1>9, <1>10, <1>13 DEF BuildInv, NodeInv

LEMMA EndFlatKeepsInv ==
  ASSUME BuildInv, EndFlat
  PROVE  BuildInv'
  <1>1. /\ pc = "flat" /\ pc' = "built" /\ edges' = RemapEdges /\ remapped' = TRUE
        /\ cuts' = cuts /\ direction' = direction /\ nodes' = nodes /\ lookup' = lookup
        /\ crossing' = crossing /\ quota' = quota /\ archs' = archs /\ remap' = remap
        /\ switches' = switches /\ flatEdges' = flatEdges /\ builds' = builds
    BY DEF EndFlat
  <1>2. /\ TypeOK /\ RemapCovers
        /\ \A e \in edges :
               IF e.remapped THEN Resolved(e)
               ELSE e.switch = e.arch /\ e.arch \in 1 .. Len(archs) /\ e.times = 1
    BY <1>1 DEF BuildInv, SwitchesInv
  <1>3. edges \subseteq EdgeRecords /\ switches \in Seq([arch : Nat, loaded : BOOLEAN, times : {1, DelayIncrease}])
        /\ Len(switches) \in Nat
    BY <1>2 DEF TypeOK
  <1>4. ASSUME NEW e \in edges'
        PROVE  /\ \E f \in edges : e.from = f.from /\ e.to = f.to /\ e.times = f.times
               /\ e \in EdgeRecords
               /\ Resolved(e)
    <2>1. PICK f \in edges : e = IF f.remapped THEN f
                                 ELSE [f EXCEPT !.switch = remap[f.switch], !.remapped = TRUE]
      BY <1>1 DEF RemapEdges
    <2>2. f \in EdgeRecords
      BY <1>3
    <2>3. CASE f.remapped
      BY <1>2, <2>1, <2>2, <2>3
    <2>4. CASE ~ f.remapped
      <3>1. /\ f.switch = f.arch /\ f.arch \in 1 .. Len(archs) /\ f.times = 1
            /\ remap[f.arch] \in 1 .. Len(switches)
            /\ switches[remap[f.arch]].arch = f.arch /\ switches[remap[f.arch]].times = 1
        BY <1>2, <2>4 DEF RemapCovers
      <3>2. e = [f EXCEPT !.switch = remap[f.switch], !.remapped = TRUE]
        BY <2>1, <2>4
      <3>3. /\ e.from = f.from /\ e.to = f.to /\ e.times = f.times /\ e.arch = f.arch
            /\ e.switch = remap[f.switch]
        BY <2>2, <3>2 DEF EdgeRecords
      <3>4. e \in EdgeRecords
        <4>1. remap[f.switch] \in Nat
          BY <1>3, <3>1
        <4> QED
          BY <2>2, <3>2, <4>1 DEF EdgeRecords
      <3> QED
        BY <3>1, <3>3, <3>4 DEF Resolved
    <2> QED
      BY <2>3, <2>4
  <1>5. NodeInv'
    BY <1>1, <1>4, NodesKept DEF SameEnds
  <1>6. TypeOK'
    BY <1>1, <1>2, <1>4 DEF TypeOK
  <1>7. CrossingUnsplit'
    BY <1>1 DEF BuildInv, CrossingUnsplit
  <1>8. SwitchesInv'
    BY <1>1, <1>4 DEF SwitchesInv, Resolved
  <1> QED
    BY <1>5, <1>6, <1>7, <1>8 DEF BuildInv, NodeInv

LEMMA FreeKeepsInv ==
  ASSUME BuildInv, free_rr_graph
  PROVE  BuildInv'
  <1>1. /\ pc = "built" /\ builds < MaxBuilds /\ pc' = "draft"
        /\ nodes' = NoNodes /\ lookup' = EmptyLookup /\ edges' = {} /\ remapped' = FALSE
        /\ switches' = <<>> /\ remap' = <<>> /\ flatEdges' = 0 /\ builds' = builds + 1
        /\ cuts' = cuts /\ direction' = direction /\ crossing' = crossing
        /\ quota' = quota /\ archs' = archs
    BY DEF free_rr_graph
  <1>2. DOMAIN nodes' = {} /\ crossing = {}
    BY <1>1 DEF NoNodes, BuildInv, CrossingUnsplit
  <1>3. TypeOK'
    <2>1. lookup' \in [Slots -> Ids \cup {NoNode}]
      BY <1>1 DEF EmptyLookup
    <2>2. builds' \in 0 .. MaxBuilds /\ flatEdges' \in 0 .. InternalEdges
      BY <1>1 DEF BuildInv, TypeOK
    <2>3. switches' \in Seq([arch : Nat, loaded : BOOLEAN, times : {1, DelayIncrease}])
          /\ remap' \in Seq(Nat)
      BY <1>1
    <2> QED
      BY <1>1, <1>2, <2>1, <2>2, <2>3 DEF BuildInv, TypeOK
  <1>4. LookupFollowsTheSplit'
    BY <1>1, <1>2 DEF LookupFollowsTheSplit, EmptyLookup
  <1> QED
    BY <1>1, <1>2, <1>3, <1>4 DEF BuildInv, WiresApart, PartsOfWires, CrossingUnsplit,
       EdgeEnds, SplitsKeepTheSpan, SwitchesInv

-----------------------------------------------------------------------------
LEMMA BuildStep == BuildInv /\ [Next]_vars => BuildInv'
  <1> SUFFICES ASSUME BuildInv, [Next]_vars PROVE BuildInv'
    OBVIOUS
  <1>1. CASE UNCHANGED vars
    <2>1. TypeOK'
      BY <1>1 DEF vars, BuildInv, TypeOK
    <2>2. NodeInv'
      BY <1>1, NodesKept DEF vars, SameEnds
    <2>3. CrossingUnsplit'
      BY <1>1 DEF vars, BuildInv, CrossingUnsplit
    <2>4. SwitchesInv'
      BY <1>1 DEF vars, BuildInv, SwitchesInv, ArchSwitchesFirst, RemapCovers,
         Resolved, ValidDelayedSwitch
    <2> QED
      BY <2>1, <2>2, <2>3, <2>4 DEF BuildInv, NodeInv
  <1>2. CASE Next
    BY <1>2, SetupKeepsInv, DraftKeepsInv, CollectKeepsInv, SplitKeepsInv, LoopKeepsInv,
       IndexKeepsInv, LoadKeepsInv, ReuseKeepsInv, CreateKeepsInv, EndFlatKeepsInv,
       FreeKeepsInv DEF Next
  <1> QED
    BY <1>1, <1>2

LEMMA BuildInvariant == Spec => []BuildInv
  BY BuildInit, BuildStep, PTL DEF Spec

\* The types of the state, for every grid and architecture.
THEOREM InterposerTypes == Spec => []TypeOK
  <1>1. BuildInv => TypeOK
    BY DEF BuildInv
  <1> QED
    BY <1>1, BuildInvariant, PTL

\* rr_graph_interposer.cpp and rr_spatial_lookup.cpp: while wires are split in
\* any number and order, whatever the widths of the channels, the lookup finds a
\* node at each slot that one spans, and nodes contend for a slot only where the
\* interposer node of one wire falls on the track of another.
THEOREM LookupFindsTheSpans == Spec => []LookupFollowsTheSplit
  <1>1. BuildInv => LookupFollowsTheSplit
    BY DEF BuildInv
  <1> QED
    BY <1>1, BuildInvariant, PTL

\* Too many tracks in the vertical channels are all that hides a node: with as
\* many in a horizontal one (chan_width.x_max) the interposer nodes have tracks
\* of their own.  init_chan does not see to it.
COROLLARY NothingHiddenOnTracksApart ==
  ASSUME XMax >= Tracks
  PROVE  Spec => []NoNodeIsHidden
  <1>1. ASSUME BuildInv, NEW id \in DOMAIN nodes, NEW s \in SlotsOf(id, nodes[id])
        PROVE  lookup[s] = id
    <2> DEFINE found == lookup[s]
    <2>1. s \in Slots /\ s.track = nodes[id].track
      BY DEF SlotsOf
    <2> SUFFICES ASSUME found # NoNode, IsInterposer(id) # IsInterposer(found)
                 PROVE  FALSE
      BY <1>1 DEF BuildInv, LookupFollowsTheSplit, IsInterposer
    <2>2. found \in DOMAIN nodes /\ s.track = nodes[found].track
      BY <1>1, <2>1 DEF BuildInv, LookupFollowsTheSplit, SlotsOf
    <2> HIDE DEF found
    <2>3. /\ id.track \in Nat /\ id.track < Tracks
          /\ found.track \in Nat /\ found.track < Tracks
      <3>1. id \in Ids /\ found \in Ids
        BY <1>1, <2>2 DEF BuildInv, TypeOK
      <3>2. id.track \in 0 .. Tracks - 1 /\ found.track \in 0 .. Tracks - 1
        BY <3>1 DEF Ids, TrackIds
      <3> QED
        BY <3>2
    <2>4. /\ nodes[id].track = IF IsInterposer(id) THEN id.track + XMax ELSE id.track
          /\ nodes[found].track = IF IsInterposer(found) THEN found.track + XMax
                                  ELSE found.track
      BY <1>1, <2>2 DEF BuildInv, PartsOfWires, IsInterposer
    <2>5. CASE IsInterposer(id)
      <3>1. id.track + XMax = found.track
        BY <2>1, <2>2, <2>4, <2>5
      <3> QED
        BY <2>3, <3>1
    <2>6. CASE IsInterposer(found)
      <3>1. found.track + XMax = id.track
        BY <2>1, <2>2, <2>4, <2>6
      <3> QED
        BY <2>3, <3>1
    <2> QED
      BY <2>5, <2>6 DEF IsInterposer
  <1>2. BuildInv => NoNodeIsHidden
    BY <1>1 DEF NoNodeIsHidden
  <1> QED
    BY <1>2, BuildInvariant, PTL

\* A split wire keeps its rows and its driven end, and hands its signal over
\* only through the interposer node.
THEOREM SplitsAreJoined == Spec => []SplitsKeepTheSpan
  <1>1. BuildInv => SplitsKeepTheSpan
    BY DEF BuildInv
  <1> QED
    BY <1>1, BuildInvariant, PTL

\* Once built, first or again, flat or not, every edge has its own switch.
THEOREM SwitchesStayPut == Spec => []EdgesKeepTheirSwitch
  <1>1. BuildInv => EdgesKeepTheirSwitch
    BY DEF BuildInv, SwitchesInv, EdgesKeepTheirSwitch, Resolved
  <1> QED
    BY <1>1, BuildInvariant, PTL

=============================================================================
