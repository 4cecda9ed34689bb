------------------------- MODULE ParallelRoutingProofs -------------------------
(* Proofs about ParallelRouting, for every device, every set of nets and every  *)
(* number of iterations: the nodes form a tree of regions, no net falls through *)
(* it, and, when boxes change only by a retry with the whole device, two nets   *)
(* that are routed at the same time touch disjoint regions.                     *)
EXTENDS ParallelRouting, FiniteSetTheorems, TLAPS

-------------------------------------------------------------------------------
(* Boxes *)

LEMMA DeviceIsBox == Device \in Box
  BY GridAssumption DEF Device, Box, Columns, Rows

LEMMA BoxWithinDevice ==
  ASSUME NEW b \in Box
  PROVE  Within(b, Device)
  BY GridAssumption DEF Within, Device, Box, Columns, Rows

LEMMA WithinItself ==
  ASSUME NEW b \in Box
  PROVE  Within(b, b)
  BY GridAssumption DEF Within, Box, Columns, Rows

LEMMA WithinTransitive ==
  ASSUME NEW a \in Box, NEW b \in Box, NEW c \in Box, Within(a, b), Within(b, c)
  PROVE  Within(a, c)
  BY GridAssumption DEF Within, Box, Columns, Rows

LEMMA WithinAntisymmetric ==
  ASSUME NEW a \in Box, NEW b \in Box, Within(a, b), Within(b, a)
  PROVE  a = b
  <1>1. a.xmin = b.xmin /\ a.xmax = b.xmax /\ a.ymin = b.ymin /\ a.ymax = b.ymax
    BY GridAssumption DEF Within, Box, Columns, Rows
  <1> QED
    BY <1>1 DEF Box

LEMMA DisjointSymmetric ==
  ASSUME NEW a, NEW b, Disjoint(a, b)
  PROVE  Disjoint(b, a)
  BY DEF Disjoint

LEMMA DisjointBelow ==
  ASSUME NEW a \in Box, NEW b \in Box, NEW c \in Box, Within(a, b), Disjoint(b, c)
  PROVE  Disjoint(a, c)
  BY GridAssumption DEF Within, Disjoint, Box, Columns, Rows

LEMMA WithinIsNotDisjoint ==
  ASSUME NEW a \in Box, NEW b \in Box, Within(a, b)
  PROVE  ~Disjoint(a, b)
  BY GridAssumption DEF Within, Disjoint, Box, Columns, Rows

\* A cutline makes two smaller boxes that share nothing, and each net that is not
\* cut lies in the box of its side.
LEMMA CutBoxes ==
  ASSUME NEW r \in Box, NEW c \in Cuts(r)
  PROVE  /\ LeftBox(r, c) \in Box /\ RightBox(r, c) \in Box
         /\ Within(LeftBox(r, c), r) /\ Within(RightBox(r, c), r)
         /\ LeftBox(r, c) # r /\ RightBox(r, c) # r
         /\ Disjoint(LeftBox(r, c), RightBox(r, c))
  <1>0. /\ r.xmin \in Int /\ r.xmax \in Int /\ r.ymin \in Int /\ r.ymax \in Int
        /\ 0 <= r.xmin /\ r.xmin <= r.xmax /\ r.xmax <= Width - 1
        /\ 0 <= r.ymin /\ r.ymin <= r.ymax /\ r.ymax <= Height - 1
        /\ r = [xmin |-> r.xmin, xmax |-> r.xmax, ymin |-> r.ymin, ymax |-> r.ymax]
    BY GridAssumption DEF Box, Columns, Rows
  <1>1. CASE c.axis = "x"
    <2>1. c.at \in r.xmin .. r.xmax - 1
      BY <1>1 DEF Cuts
    <2>2. /\ LeftBox(r, c) = [xmin |-> r.xmin, xmax |-> c.at, ymin |-> r.ymin, ymax |-> r.ymax]
          /\ RightBox(r, c) = [xmin |-> c.at + 1, xmax |-> r.xmax, ymin |-> r.ymin, ymax |-> r.ymax]
      BY <1>0, <1>1 DEF LeftBox, RightBox
    <2> QED
      BY <1>0, <2>1, <2>2, GridAssumption DEF Within, Disjoint, Box, Columns, Rows
  <1>2. CASE c.axis # "x"
    <2>1. c.at \in r.ymin .. r.ymax - 1
      BY <1>2 DEF Cuts
    <2>2. /\ LeftBox(r, c) = [xmin |-> r.xmin, xmax |-> r.xmax, ymin |-> r.ymin, ymax |-> c.at]
          /\ RightBox(r, c) = [xmin |-> r.xmin, xmax |-> r.xmax, ymin |-> c.at + 1, ymax |-> r.ymax]
      BY <1>0, <1>2 DEF LeftBox, RightBox
    <2> QED
      BY <1>0, <2>1, <2>2, GridAssumption DEF Within, Disjoint, Box, Columns, Rows
  <1> QED
    BY <1>1, <1>2

LEMMA SidesHoldNets ==
  ASSUME NEW r \in Box, NEW c \in Cuts(r), NEW nets, NEW boxes,
         NEW n, boxes[n] \in Box, Within(boxes[n], r)
  PROVE  /\ n \in LeftNets(nets, boxes, c) => Within(boxes[n], LeftBox(r, c))
         /\ n \in RightNets(nets, boxes, c) => Within(boxes[n], RightBox(r, c))
  <1>0. /\ r.xmin \in Int /\ r.xmax \in Int /\ r.ymin \in Int /\ r.ymax \in Int
        /\ r = [xmin |-> r.xmin, xmax |-> r.xmax, ymin |-> r.ymin, ymax |-> r.ymax]
        /\ boxes[n].xmin \in Int /\ boxes[n].xmax \in Int
        /\ boxes[n].ymin \in Int /\ boxes[n].ymax \in Int
    BY GridAssumption DEF Box, Columns, Rows
  <1>1. CASE c.axis = "x"
    <2>1. c.at \in Int
      BY <1>0, <1>1 DEF Cuts
    <2>2. /\ LeftBox(r, c) = [xmin |-> r.xmin, xmax |-> c.at, ymin |-> r.ymin, ymax |-> r.ymax]
          /\ RightBox(r, c) = [xmin |-> c.at + 1, xmax |-> r.xmax, ymin |-> r.ymin, ymax |-> r.ymax]
      BY <1>0, <1>1 DEF LeftBox, RightBox
    <2> QED
      BY <1>0, <1>1, <2>1, <2>2 DEF Within, LeftNets, RightNets, Low, High
  <1>2. CASE c.axis # "x"
    <2>1. c.at \in Int
      BY <1>0, <1>2 DEF Cuts
    <2>2. /\ LeftBox(r, c) = [xmin |-> r.xmin, xmax |-> r.xmax, ymin |-> r.ymin, ymax |-> c.at]
          /\ RightBox(r, c) = [xmin |-> r.xmin, xmax |-> r.xmax, ymin |-> c.at + 1, ymax |-> r.ymax]
      BY <1>0, <1>2 DEF LeftBox, RightBox
    <2> QED
      BY <1>0, <1>2, <2>1, <2>2 DEF Within, LeftNets, RightNets, Low, High
  <1> QED
    BY <1>1, <1>2

LEMMA LoadedIsBox ==
  ASSUME NEW t \in Box, NEW factor \in Nat
  PROVE  LoadBox(t, factor) \in Box
  BY GridAssumption DEF LoadBox, Lower, Upper, Box, Columns, Rows

\* With a factor of at least one, a loaded box is wider and higher than one tile.
LEMMA LoadedIsWide ==
  ASSUME NEW t \in Box, NEW factor \in Nat \ {0}, Width > 1, Height > 1
  PROVE  /\ LoadBox(t, factor).xmin < LoadBox(t, factor).xmax
         /\ LoadBox(t, factor).ymin < LoadBox(t, factor).ymax
  BY GridAssumption DEF LoadBox, Lower, Upper, Box, Columns, Rows

LEMMA ExpandedIsBox ==
  ASSUME NEW b \in Box, NEW h
  PROVE  Expand(b, h) \in Box
  <1>0. /\ b.xmin \in Int /\ b.xmax \in Int /\ b.ymin \in Int /\ b.ymax \in Int
        /\ 0 <= b.xmin /\ b.xmin <= b.xmax /\ b.xmax <= Width - 1
        /\ 0 <= b.ymin /\ b.ymin <= b.ymax /\ b.ymax <= Height - 1
    BY GridAssumption DEF Box, Columns, Rows
  <1>1. /\ Expand(b, h).xmin \in {Upper(b.xmin - 1, 0), b.xmin}
        /\ Expand(b, h).xmax \in {Lower(b.xmax + 1, Width - 1), b.xmax}
        /\ Expand(b, h).ymin \in {Upper(b.ymin - 1, 0), b.ymin}
        /\ Expand(b, h).ymax \in {Lower(b.ymax + 1, Height - 1), b.ymax}
        /\ Expand(b, h) = [xmin |-> Expand(b, h).xmin, xmax |-> Expand(b, h).xmax,
                           ymin |-> Expand(b, h).ymin, ymax |-> Expand(b, h).ymax]
    BY DEF Expand
  <1> QED
    BY <1>0, <1>1, GridAssumption DEF Lower, Upper, Box, Columns, Rows

-------------------------------------------------------------------------------
(* The tree *)

\* The regions of the nodes built so far and of those still to be built.
Regions == tree \union {j.box : j \in pending}

JobsInv ==
  /\ \A j \in pending : /\ j.box \in Box /\ j.nets \subseteq Nets
                        /\ \A n \in j.nets : Within(bb[n], j.box)
  /\ \A j, k \in pending : j = k \/ Disjoint(j.box, k.box)
  /\ \A j \in pending, r \in tree :
       Disjoint(j.box, r) \/ (Within(j.box, r) /\ j.box # r)

\* Every edge leads to a smaller region; siblings share nothing; whatever lies in
\* a region, and is not it, lies in one of its children.
TreeInv ==
  /\ tree \subseteq Box
  /\ tree = {} => pending \subseteq {[box |-> Device, nets |-> Nets]}
  /\ Regions # {} => Device \in Regions
  /\ \A r, s \in tree : Within(r, s) \/ Within(s, r) \/ Disjoint(r, s)
  /\ \A e \in edges : /\ e \in tree \X Regions
                      /\ Within(e[2], e[1]) /\ e[1] # e[2]
  /\ \A p, c, d \in Regions :
       <<p, c>> \in edges /\ <<p, d>> \in edges => c = d \/ Disjoint(c, d)
  /\ \A p, q, c \in Regions : <<p, c>> \in edges /\ <<q, c>> \in edges => p = q
  /\ \A c \in Regions \ {Device} : \E p \in tree : <<p, c>> \in edges
  /\ \A r \in tree, s \in Regions : s # r /\ Within(s, r) =>
       \E c \in Regions : <<r, c>> \in edges /\ Within(s, c)

\* build_helper makes a leaf: a region that was to be built becomes a node.
LEMMA LeafKeepsTree ==
  ASSUME JobsInv, TreeInv, NEW j \in pending,
         tree' = tree \union {j.box}, pending' = pending \ {j}, edges' = edges,
         bb' = bb
  PROVE  JobsInv' /\ TreeInv'
  <1>1. j.box \in Box
    BY DEF JobsInv
  <1>2. Regions' = Regions
    BY DEF Regions
  <1>3. \A k \in pending : k # j => k.box # j.box
    BY <1>1, WithinItself, WithinIsNotDisjoint DEF JobsInv
  <1>4. JobsInv'
    <2>1. \A k \in pending' : /\ k.box \in Box /\ k.nets \subseteq Nets
                              /\ \A n \in k.nets : Within(bb'[n], k.box)
      BY DEF JobsInv
    <2>2. \A k, l \in pending' : k = l \/ Disjoint(k.box, l.box)
      BY DEF JobsInv
    <2>3. \A k \in pending', r \in tree' :
            Disjoint(k.box, r) \/ (Within(k.box, r) /\ k.box # r)
      BY <2>2 DEF JobsInv
    <2> QED
      BY <2>1, <2>2, <2>3 DEF JobsInv
  <1>5. \A r, s \in tree' : Within(r, s) \/ Within(s, r) \/ Disjoint(r, s)
    BY <1>1, WithinItself, DisjointSymmetric DEF JobsInv, TreeInv
  <1>6. \A s \in Regions \ {j.box} : ~Within(s, j.box)
    <2>1. TAKE s \in Regions \ {j.box}
    <2>2. CASE s \in tree
      <3>1. CASE Disjoint(j.box, s)
        BY <1>1, <2>2, <3>1, DisjointSymmetric, WithinIsNotDisjoint DEF TreeInv
      <3>2. CASE Within(j.box, s)
        BY <1>1, <2>1, <2>2, <3>2, WithinAntisymmetric DEF TreeInv
      <3> QED
        BY <2>2, <3>1, <3>2 DEF JobsInv
    <2>3. CASE \E k \in pending : s = k.box
      BY <1>1, <2>1, <2>3, DisjointSymmetric, WithinIsNotDisjoint DEF JobsInv
    <2> QED
      BY <2>1, <2>2, <2>3 DEF Regions
  <1>7. TreeInv'
    <2>1. tree' \subseteq Box
      BY <1>1 DEF TreeInv
    <2>2. tree' # {}
      OBVIOUS
    <2>3. /\ \A e \in edges' : /\ e \in tree' \X Regions'
                               /\ Within(e[2], e[1]) /\ e[1] # e[2]
          /\ \A p, c, d \in Regions' :
               <<p, c>> \in edges' /\ <<p, d>> \in edges' => c = d \/ Disjoint(c, d)
          /\ \A p, q, c \in Regions' : <<p, c>> \in edges' /\ <<q, c>> \in edges' => p = q
          /\ \A c \in Regions' \ {Device} : \E p \in tree' : <<p, c>> \in edges'
          /\ Regions' # {} => Device \in Regions'
      BY <1>2 DEF TreeInv
    <2>4. \A r \in tree', s \in Regions' : s # r /\ Within(s, r) =>
            \E c \in Regions' : <<r, c>> \in edges' /\ Within(s, c)
      BY <1>2, <1>6 DEF TreeInv
    <2> QED
      BY <1>5, <2>1, <2>2, <2>3, <2>4 DEF TreeInv
  <1> QED
    BY <1>4, <1>7

\* build_helper cuts a region: those of the two sides are not there yet, and lie
\* apart from whatever the region they are cut from does.
LEMMA BranchKeepsTree ==
  ASSUME JobsInv, TreeInv, bb \in [Nets -> Box], NEW j \in pending,
         NEW c \in Cuts(j.box), NEW l, NEW r,
         l = [box |-> LeftBox(j.box, c), nets |-> LeftNets(j.nets, bb, c)],
         r = [box |-> RightBox(j.box, c), nets |-> RightNets(j.nets, bb, c)],
         tree' = tree \union {j.box}, pending' = (pending \ {j}) \union {l, r},
         edges' = edges \union {<<j.box, l.box>>, <<j.box, r.box>>}, bb' = bb
  PROVE  JobsInv' /\ TreeInv'
  <1>1. j.box \in Box
    BY DEF JobsInv
  <1>2. /\ l.box \in Box /\ r.box \in Box
        /\ Within(l.box, j.box) /\ Within(r.box, j.box)
        /\ l.box # j.box /\ r.box # j.box /\ l.box # r.box
        /\ Disjoint(l.box, r.box) /\ Disjoint(r.box, l.box)
    BY <1>1, CutBoxes, DisjointSymmetric, WithinItself, WithinIsNotDisjoint
  <1>3. \A s \in Regions : s \in Box /\ (s = j.box \/ Disjoint(j.box, s)
                                         \/ (s \in tree /\ Within(j.box, s)))
    BY <1>1 DEF JobsInv, TreeInv, Regions
  <1>4. \A s \in Regions \ {j.box}, x \in {l.box, r.box} :
          /\ Disjoint(x, s) \/ (s \in tree /\ Within(x, s) /\ Within(j.box, s))
          /\ x # s /\ ~Within(s, x) /\ ~Within(s, j.box)
    <2>1. TAKE s \in Regions \ {j.box}, x \in {l.box, r.box}
    <2>2. x \in Box /\ s \in Box /\ Within(x, j.box) /\ x # j.box
      BY <1>2, <1>3, <2>1
    <2>3. CASE Disjoint(j.box, s)
      <3>1. Disjoint(x, s)
        BY <1>1, <2>2, <2>3, DisjointBelow
      <3>2. ~Within(s, j.box) /\ ~Within(s, x)
        BY <1>1, <2>2, <2>3, <3>1, DisjointSymmetric, WithinIsNotDisjoint
      <3> QED
        BY <2>2, <3>1, <3>2, WithinItself
    <2>4. CASE s \in tree /\ Within(j.box, s)
      <3>1. Within(x, s)
        BY <1>1, <2>2, <2>4, WithinTransitive
      <3>2. ~Within(s, j.box)
        BY <1>1, <2>1, <2>2, <2>4, WithinAntisymmetric
      <3>3. ~Within(s, x)
        BY <1>1, <2>2, <3>2, WithinTransitive
      <3> QED
        BY <2>2, <2>4, <3>1, <3>3, <3>2, WithinItself
    <2> QED
      BY <1>3, <2>1, <2>3, <2>4
  <1>5. \A k \in pending \ {j} : k.box \in Regions \ {j.box} /\ k.box \notin tree
    <2>1. TAKE k \in pending \ {j}
    <2>2. k.box \in Box /\ Disjoint(k.box, j.box) /\ k.box \in Regions
      BY <2>1 DEF JobsInv, Regions
    <2>3. k.box # j.box
      BY <1>1, <2>2, WithinItself, WithinIsNotDisjoint
    <2>4. k.box \notin tree
      BY <2>1, <2>2, WithinItself, WithinIsNotDisjoint DEF JobsInv
    <2> QED
      BY <2>2, <2>3, <2>4
  <1>6. /\ j.box \in Regions /\ Regions' = Regions \union {l.box, r.box}
        /\ l.box \notin Regions /\ r.box \notin Regions
        /\ tree \subseteq Regions \ {j.box}
    <2>1. j.box \in Regions
      BY DEF Regions
    <2>2. Regions' = Regions \union {l.box, r.box}
      BY DEF Regions
    <2>3. l.box \notin Regions /\ r.box \notin Regions
      BY <1>2, <1>4
    <2>4. j.box \notin tree
      BY <1>1, WithinItself, WithinIsNotDisjoint DEF JobsInv
    <2> QED
      BY <2>1, <2>2, <2>3, <2>4 DEF Regions
  <1>7. JobsInv'
    <2>1. \A k \in pending' : /\ k.box \in Box /\ k.nets \subseteq Nets
                              /\ \A n \in k.nets : Within(bb'[n], k.box)
      <3>1. \A n \in j.nets : bb[n] \in Box /\ Within(bb[n], j.box)
        BY DEF JobsInv
      <3>2. /\ \A n \in l.nets : Within(bb[n], l.box)
            /\ \A n \in r.nets : Within(bb[n], r.box)
            /\ l.nets \subseteq j.nets /\ r.nets \subseteq j.nets
        BY <1>1, <3>1, SidesHoldNets DEF LeftNets, RightNets
      <3> QED
        BY <1>2, <3>2 DEF JobsInv
    <2>2. \A k \in pending \ {j}, x \in {l, r} : Disjoint(x.box, k.box)
      BY <1>4, <1>5
    <2>3. \A k, m \in pending' : k = m \/ Disjoint(k.box, m.box)
      BY <1>2, <2>2, DisjointSymmetric DEF JobsInv
    <2>4. \A k \in pending \ {j} : Disjoint(k.box, j.box)
      BY DEF JobsInv
    <2>5. \A k \in pending', s \in tree' :
            Disjoint(k.box, s) \/ (Within(k.box, s) /\ k.box # s)
      <3>1. \A k \in pending \ {j}, s \in tree' :
              Disjoint(k.box, s) \/ (Within(k.box, s) /\ k.box # s)
        BY <2>4 DEF JobsInv
      <3>2. \A k \in {l, r}, s \in tree' :
              Disjoint(k.box, s) \/ (Within(k.box, s) /\ k.box # s)
        BY <1>2, <1>4, <1>6
      <3> QED
        BY <3>1, <3>2
    <2> QED
      BY <2>1, <2>3, <2>5 DEF JobsInv
  <1>8. TreeInv'
    <2>1. tree' \subseteq Box /\ tree' # {}
      BY <1>1 DEF TreeInv
    <2>2. \A p, q \in tree' : Within(p, q) \/ Within(q, p) \/ Disjoint(p, q)
      BY <1>1, WithinItself, DisjointSymmetric DEF JobsInv, TreeInv
    <2>3. \A e \in edges' : /\ e \in tree' \X Regions'
                            /\ Within(e[2], e[1]) /\ e[1] # e[2]
      BY <1>2, <1>6 DEF TreeInv
    <2>4. \A p, d \in Regions' : <<p, d>> \in edges' =>
            \/ <<p, d>> \in edges /\ p \in tree /\ d \in Regions
            \/ p = j.box /\ d \in {l.box, r.box}
      BY DEF TreeInv
    <2>5. \A p, d, e \in Regions' :
            <<p, d>> \in edges' /\ <<p, e>> \in edges' => d = e \/ Disjoint(d, e)
      BY <1>2, <1>6, <2>4 DEF TreeInv
    <2>6. \A p, q, d \in Regions' : <<p, d>> \in edges' /\ <<q, d>> \in edges' => p = q
      BY <1>6, <2>4 DEF TreeInv
    <2>7. \A d \in Regions' \ {Device} : \E p \in tree' : <<p, d>> \in edges'
      BY <1>6 DEF TreeInv
    <2>8. \A p \in tree', s \in Regions' : s # p /\ Within(s, p) =>
            \E d \in Regions' : <<p, d>> \in edges' /\ Within(s, d)
      <3>1. TAKE p \in tree', s \in Regions'
      <3>2. HAVE s # p /\ Within(s, p)
      <3>3. CASE p \in tree /\ s \in Regions
        BY <1>6, <3>1, <3>2, <3>3 DEF TreeInv
      <3>4. CASE p \in tree /\ s \in {l.box, r.box}
        <4>1. p \in Regions \ {j.box} /\ p \in Box /\ s \in Box
          BY <1>2, <1>3, <1>6, <3>4
        <4>2. Within(j.box, p)
          BY <1>4, <3>2, <3>4, <4>1, WithinIsNotDisjoint
        <4> p # j.box /\ p \in tree /\ j.box \in Regions
          BY <1>6, <3>4, <4>1
        <4> HIDE DEF Regions
        <4>0. \A s1 \in Regions : s1 # p /\ Within(s1, p) =>
                \E d \in Regions : <<p, d>> \in edges /\ Within(s1, d)
          BY DEF TreeInv
        <4>3. PICK d \in Regions : <<p, d>> \in edges /\ Within(j.box, d)
          BY <4>0, <4>2
        <4>4. Within(s, d)
          BY <1>1, <1>2, <1>3, <3>4, <4>3, WithinTransitive
        <4> QED
          BY <1>6, <4>3, <4>4
      <3>5. CASE p = j.box
        <4>1. s \in {l.box, r.box}
          BY <1>4, <1>6, <3>1, <3>2, <3>5, <1>2
        <4> QED
          BY <1>2, <1>6, <3>5, <4>1, WithinItself
      <3> QED
        BY <1>6, <3>1, <3>3, <3>4, <3>5
    <2>9. Regions' # {} => Device \in Regions'
      BY <1>6 DEF TreeInv
    <2> QED
      BY <2>1, <2>2, <2>3, <2>5, <2>6, <2>7, <2>8, <2>9 DEF TreeInv
  <1> QED
    BY <1>7, <1>8

-------------------------------------------------------------------------------
(* The inductive invariant *)

Loaded == [n \in Nets |-> LoadBox(pins[n], bb_fac)]

\* What each phase of the main thread implies.  The tree is built in the first
\* iteration, from the boxes as they were loaded.
PhaseInv ==
  /\ phase \in {"route", "assess", "prepare"} => tree # {} /\ pending = {}
  /\ phase = "build" => /\ Regions # {} /\ results = NoResults
                        /\ visit = [n \in Nets |-> "waiting"]
  /\ pending # {} => phase \in {"build", "aborted"}
  /\ phase = "build" \/ tree = {} => bb = Loaded
  /\ phase \notin {"start", "success", "failure"} => itry <= MaxIterations
  /\ open # {} => phase = "route"
  /\ \A n \in Nets : visit[n] = "routing" => phase = "route" /\ home[n] \in open

\* Every net has a node, or a call of build_helper that will give it one.
HomeInv ==
  /\ phase = "build" =>
       \A n \in Nets : \/ \E j \in pending : n \in j.nets
                       \/ home[n] \in tree /\ Within(bb[n], home[n])
  /\ phase \notin {"build", "aborted"} /\ tree # {} => \A n \in Nets : home[n] \in tree

\* The nodes whose tasks run lie apart, a task routes one net at a time, and the
\* nets still to be visited are below nodes whose tasks run, as long as no net
\* was found unroutable.
TasksInv ==
  /\ \A r, s \in open : r = s \/ Disjoint(r, s)
  /\ \A m, n \in Nets : visit[m] = "routing" /\ visit[n] = "routing" /\ home[m] = home[n]
                          => m = n
  /\ phase \in {"route", "assess"} /\ results.routable =>
       \A n \in Nets : visit[n] # "visited" => \E r \in open : Within(home[n], r)

ResultsInv ==
  /\ phase \in {"route", "assess"} /\ results.routable =>
       \A n \in Nets : visit[n] = "visited" => complete[n] \/ n \in results.updated
  /\ phase \in {"build", "route", "assess", "prepare"} =>
       \A n \in results.updated : /\ bb[n] = Device /\ visit[n] = "visited"
                                  /\ n \notin results.rerouted
  /\ phase \in {"build", "route", "assess", "prepare"} =>
       \A n \in results.rerouted : visit[n] = "visited"

RouteInv == TypeOK /\ JobsInv /\ TreeInv /\ PhaseInv /\ HomeInv /\ TasksInv /\ ResultsInv

LEMMA TreeUnchanged ==
  ASSUME JobsInv, TreeInv, UNCHANGED treeVars, pending = {} \/ bb' = bb
  PROVE  JobsInv' /\ TreeInv' /\ Regions' = Regions
  <1>1. Regions' = Regions /\ tree' = tree /\ pending' = pending /\ edges' = edges
    BY DEF treeVars, Regions
  <1>2. JobsInv'
    BY <1>1 DEF JobsInv
  <1>3. TreeInv'
    <2>1. /\ tree' \subseteq Box
          /\ tree' = {} => pending' \subseteq {[box |-> Device, nets |-> Nets]}
          /\ Regions' # {} => Device \in Regions'
          /\ \A r, s \in tree' : Within(r, s) \/ Within(s, r) \/ Disjoint(r, s)
      BY <1>1 DEF TreeInv
    <2>2. \A e \in edges' : /\ e \in tree' \X Regions'
                            /\ Within(e[2], e[1]) /\ e[1] # e[2]
      BY <1>1 DEF TreeInv
    <2>3. /\ \A p, c, d \in Regions' :
               <<p, c>> \in edges' /\ <<p, d>> \in edges' => c = d \/ Disjoint(c, d)
          /\ \A p, q, c \in Regions' : <<p, c>> \in edges' /\ <<q, c>> \in edges' => p = q
      BY <1>1 DEF TreeInv
    <2>4. \A c \in Regions' \ {Device} : \E p \in tree' : <<p, c>> \in edges'
      BY <1>1 DEF TreeInv
    <2>5. \A r \in tree', s \in Regions' : s # r /\ Within(s, r) =>
            \E c \in Regions' : <<r, c>> \in edges' /\ Within(s, c)
      BY <1>1 DEF TreeInv
    <2> QED
      BY <2>1, <2>2, <2>3, <2>4, <2>5 DEF TreeInv
  <1> QED
    BY <1>1, <1>2, <1>3

LEMMA InitInv == Init => RouteInv
  <1> SUFFICES ASSUME Init PROVE RouteInv
    OBVIOUS
  <1>1. pins \in [Nets -> Box] /\ bb_fac \in Nat
    BY PlacementsAssumption, OptionsAssumption DEF Init
  <1>2. bb \in [Nets -> Box]
    BY <1>1, LoadedIsBox DEF Init
  <1>3. Cardinality({}) <= 1
    BY FS_EmptySet
  <1>4. TypeOK
    BY <1>1, <1>2, <1>3, DeviceIsBox, OptionsAssumption DEF Init, TypeOK, NoResults
  <1>5. JobsInv /\ TreeInv
    BY DEF Init, JobsInv, TreeInv, Regions
  <1>6. PhaseInv /\ HomeInv /\ TasksInv /\ ResultsInv
    BY OptionsAssumption DEF Init, PhaseInv, HomeInv, TasksInv, ResultsInv, Loaded
  <1> QED
    BY <1>4, <1>5, <1>6 DEF RouteInv

LEMMA StartKeeps ==
  ASSUME RouteInv, StartIteration
  PROVE  RouteInv'
  <1> USE DEF RouteInv
  <1>1. CASE tree = {}
    <2>1. /\ pending' = {[box |-> Device, nets |-> Nets]} /\ tree' = {} /\ edges' = edges
          /\ phase' = "build" /\ open' = open /\ bb' = bb /\ home' = home
          /\ results' = NoResults /\ visit' = [n \in Nets |-> "waiting"]
          /\ pins' = pins /\ bb_fac' = bb_fac /\ itry' = itry
          /\ phase = "start" /\ itry <= MaxIterations
      BY <1>1 DEF StartIteration, loopVars
    <2>2. pending = {} /\ open = {}
      BY <2>1 DEF PhaseInv
    <2>3. edges = {}
      BY <1>1 DEF TreeInv
    <2>4. TypeOK'
      BY <2>1, DeviceIsBox DEF TypeOK, NoResults, StartIteration, loopVars
    <2>5. JobsInv'
      <3>1. \A n \in Nets : Within(bb[n], Device)
        BY BoxWithinDevice DEF TypeOK
      <3> QED
        BY <2>1, <3>1, DeviceIsBox DEF JobsInv
    <2>6. Regions' = {Device}
      BY <2>1 DEF Regions
    <2>7. TreeInv'
      BY <2>1, <2>3, <2>6 DEF TreeInv
    <2>8. PhaseInv'
      BY <1>1, <2>1, <2>2, <2>6 DEF PhaseInv, Loaded
    <2>9. HomeInv' /\ TasksInv' /\ ResultsInv'
      BY <2>1, <2>2 DEF HomeInv, TasksInv, ResultsInv, NoResults
    <2> QED
      BY <2>4, <2>5, <2>7, <2>8, <2>9
  <1>2. CASE tree # {}
    <2>1. /\ UNCHANGED treeVars
          /\ phase' = "route" /\ open' = {Device} /\ bb' = bb /\ home' = home
          /\ results' = NoResults /\ visit' = [n \in Nets |-> "waiting"]
          /\ pins' = pins /\ bb_fac' = bb_fac /\ itry' = itry
          /\ phase = "start" /\ itry <= MaxIterations
      BY <1>2 DEF StartIteration, loopVars, treeVars
    <2>2. JobsInv' /\ TreeInv' /\ Regions' = Regions
      BY <2>1, TreeUnchanged
    <2>3. pending = {} /\ tree = Regions /\ Device \in tree
      BY <1>2, <2>1 DEF PhaseInv, Regions, TreeInv
    <2>4. TypeOK'
      BY <2>1, <2>3 DEF TypeOK, NoResults, StartIteration, loopVars, treeVars
    <2>5. PhaseInv'
      BY <1>2, <2>1, <2>3 DEF PhaseInv, treeVars
    <2>6. HomeInv'
      BY <1>2, <2>1 DEF HomeInv, treeVars
    <2>7. \A n \in Nets : Within(home[n], Device)
      BY BoxWithinDevice DEF TypeOK
    <2>8. TasksInv' /\ ResultsInv'
      BY <2>1, <2>7 DEF TasksInv, ResultsInv, NoResults
    <2> QED
      BY <2>2, <2>4, <2>5, <2>6, <2>8
  <1> QED
    BY <1>1, <1>2

LEMMA OutOfIterationsKeeps ==
  ASSUME RouteInv, OutOfIterations
  PROVE  RouteInv'
  <1> USE DEF RouteInv
  <1>1. /\ UNCHANGED treeVars
        /\ phase = "start" /\ phase' \in {"success", "failure"} /\ open' = open
        /\ bb' = bb /\ home' = home /\ results' = results /\ visit' = visit
        /\ pins' = pins /\ bb_fac' = bb_fac /\ itry' = itry
        /\ complete' = complete \/ complete' = [n \in Nets |-> n \in best]
    BY DEF OutOfIterations, Leave, loopVars
  <1>2. JobsInv' /\ TreeInv' /\ Regions' = Regions
    BY <1>1, TreeUnchanged
  <1>3. complete' \in [Nets -> BOOLEAN]
    <2>1. \A n \in Nets : (n \in best) \in BOOLEAN
      OBVIOUS
    <2>2. [n \in Nets |-> n \in best] \in [Nets -> BOOLEAN]
      BY <2>1, Zenon
    <2> QED
      BY <1>1, <2>2, Zenon DEF TypeOK
  <1>4. TypeOK'
    BY <1>1, <1>3 DEF TypeOK, OutOfIterations, loopVars, treeVars
  <1>5. PhaseInv' /\ HomeInv' /\ TasksInv' /\ ResultsInv'
    BY <1>1 DEF PhaseInv, HomeInv, TasksInv, ResultsInv, treeVars, Loaded
  <1> QED
    BY <1>2, <1>4, <1>5

LEMMA BuildLeafKeeps ==
  ASSUME RouteInv, phase = "build", NEW j \in pending, BuildLeaf(j)
  PROVE  RouteInv'
  <1> USE DEF RouteInv
  <1>1. /\ tree' = tree \union {j.box} /\ pending' = pending \ {j} /\ edges' = edges
        /\ home' = [n \in Nets |-> IF n \in j.nets THEN j.box ELSE home[n]]
        /\ phase' = phase /\ bb' = bb /\ open' = open /\ visit' = visit
        /\ results' = results /\ pins' = pins /\ bb_fac' = bb_fac /\ itry' = itry
        /\ complete' = complete
    BY DEF BuildLeaf, loopVars
  <1>2. JobsInv' /\ TreeInv'
    BY <1>1, LeafKeepsTree
  <1>3. j.box \in Box
    BY DEF JobsInv
  <1>4. home' \in [Nets -> Box]
    BY <1>1, <1>3 DEF TypeOK
  <1>5. TypeOK'
    <2>1. \A e \in edges : e \in tree' \X Box
      BY <1>1 DEF TypeOK
    <2> QED
      BY <1>1, <1>3, <1>4, <2>1 DEF TypeOK, BuildLeaf, loopVars
  <1>6. PhaseInv'
    <2>1. Regions' # {}
      BY <1>1 DEF Regions
    <2> QED
      BY <1>1, <2>1 DEF PhaseInv, Loaded
  <1>7. HomeInv'
    <2>1. \A n \in j.nets : Within(bb[n], j.box)
      BY DEF JobsInv
    <2> QED
      BY <1>1, <2>1 DEF HomeInv
  <1>8. TasksInv' /\ ResultsInv'
    BY <1>1 DEF TasksInv, ResultsInv, PhaseInv
  <1> QED
    BY <1>2, <1>5, <1>6, <1>7, <1>8

LEMMA BuildBranchKeeps ==
  ASSUME RouteInv, phase = "build", NEW j \in pending, BuildBranch(j)
  PROVE  RouteInv'
  <1> USE DEF RouteInv
  <1>1. CASE UsableCuts(j.nets, bb, j.box) = {}
    <2>1. /\ tree' = tree \union {j.box} /\ pending' = pending \ {j} /\ edges' = edges
          /\ home' = [n \in Nets |-> IF n \in j.nets THEN j.box ELSE home[n]]
          /\ phase' = phase /\ bb' = bb /\ open' = open /\ visit' = visit
          /\ results' = results /\ pins' = pins /\ bb_fac' = bb_fac /\ itry' = itry
          /\ complete' = complete
      BY <1>1 DEF BuildBranch, loopVars
    <2>2. JobsInv' /\ TreeInv'
      BY <2>1, LeafKeepsTree
    <2>3. j.box \in Box
      BY DEF JobsInv
    <2>4. home' \in [Nets -> Box]
      BY <2>1, <2>3 DEF TypeOK
    <2>5. TypeOK'
      <3>1. \A e \in edges : e \in tree' \X Box
        BY <2>1 DEF TypeOK
      <3> QED
        BY <2>1, <2>3, <2>4, <3>1 DEF TypeOK, BuildBranch, loopVars
    <2>6. PhaseInv'
      <3>1. Regions' # {}
        BY <2>1 DEF Regions
      <3> QED
        BY <2>1, <3>1 DEF PhaseInv, Loaded
    <2>7. HomeInv'
      <3>1. \A n \in j.nets : Within(bb[n], j.box)
        BY DEF JobsInv
      <3> QED
        BY <2>1, <3>1 DEF HomeInv
    <2>8. TasksInv' /\ ResultsInv'
      BY <2>1 DEF TasksInv, ResultsInv, PhaseInv
    <2> QED
      BY <2>2, <2>5, <2>6, <2>7, <2>8
  <1>2. CASE UsableCuts(j.nets, bb, j.box) # {}
    <2>1. PICK c \in BestCuts(j.nets, bb, j.box) :
            LET l == [box |-> LeftBox(j.box, c), nets |-> LeftNets(j.nets, bb, c)]
                r == [box |-> RightBox(j.box, c), nets |-> RightNets(j.nets, bb, c)]
            IN /\ home' = [n \in Nets |-> IF n \in CutNets(j.nets, bb, c)
                                            THEN j.box ELSE home[n]]
               /\ pending' = (pending \ {j}) \union {l, r}
               /\ edges' = edges \union {<<j.box, l.box>>, <<j.box, r.box>>}
      BY <1>2 DEF BuildBranch
    <2> DEFINE l == [box |-> LeftBox(j.box, c), nets |-> LeftNets(j.nets, bb, c)]
               r == [box |-> RightBox(j.box, c), nets |-> RightNets(j.nets, bb, c)]
    <2>2. /\ tree' = tree \union {j.box} /\ pending' = (pending \ {j}) \union {l, r}
          /\ edges' = edges \union {<<j.box, l.box>>, <<j.box, r.box>>}
          /\ home' = [n \in Nets |-> IF n \in CutNets(j.nets, bb, c)
                                       THEN j.box ELSE home[n]]
          /\ phase' = phase /\ bb' = bb /\ open' = open /\ visit' = visit
          /\ results' = results /\ pins' = pins /\ bb_fac' = bb_fac /\ itry' = itry
          /\ complete' = complete
      BY <2>1 DEF BuildBranch, loopVars
    <2>3. c \in Cuts(j.box)
      BY DEF BestCuts, UsableCuts
    <2>4. j.box \in Box /\ bb \in [Nets -> Box]
      BY DEF JobsInv, TypeOK
    <2>5. JobsInv' /\ TreeInv'
      BY <2>2, <2>3, <2>4, BranchKeepsTree
    <2>6. l.box \in Box /\ r.box \in Box
      BY <2>3, <2>4, CutBoxes
    <2>7. l.nets \subseteq Nets /\ r.nets \subseteq Nets
      BY DEF JobsInv, LeftNets, RightNets
    <2>8. TypeOK'
      <3>1. home' \in [Nets -> Box]
        BY <2>2, <2>4 DEF TypeOK
      <3>2. edges' \subseteq tree' \X Box
        BY <2>2, <2>6 DEF TypeOK
      <3>3. \A k \in pending' : k.box \in Box /\ k.nets \subseteq Nets
        BY <2>2, <2>6, <2>7 DEF TypeOK
      <3>4. tree' \subseteq Box /\ open' \subseteq tree'
        BY <2>2, <2>4 DEF TypeOK
      <3> QED
        BY <2>2, <3>1, <3>2, <3>3, <3>4 DEF TypeOK, BuildBranch, loopVars
    <2>9. PhaseInv'
      <3>1. Regions' # {}
        BY <2>2 DEF Regions
      <3> QED
        BY <2>2, <3>1 DEF PhaseInv, Loaded
    <2>10. HomeInv'
      <3>1. \A n \in j.nets : n \in l.nets \/ n \in r.nets \/ n \in CutNets(j.nets, bb, c)
        BY DEF CutNets
      <3>2. CutNets(j.nets, bb, c) \subseteq j.nets
        BY DEF CutNets
      <3>3. \A n \in j.nets : Within(bb[n], j.box)
        BY DEF JobsInv
      <3> HIDE DEF l, r
      <3>4. l \in pending' /\ r \in pending' /\ \A k \in pending \ {j} : k \in pending'
        BY <2>2
      <3>5. \A n \in Nets : \/ \E k \in pending' : n \in k.nets
                            \/ home'[n] \in tree' /\ Within(bb'[n], home'[n])
        <4>1. TAKE n \in Nets
        <4>2. CASE n \in CutNets(j.nets, bb, c)
          BY <2>2, <3>2, <3>3, <4>2
        <4>3. CASE n \in j.nets /\ n \notin CutNets(j.nets, bb, c)
          BY <3>1, <3>4, <4>3
        <4>4. CASE n \notin j.nets
          BY <2>2, <3>2, <3>4, <4>4 DEF HomeInv
        <4> QED
          BY <4>2, <4>3, <4>4
      <3> QED
        BY <2>2, <3>5 DEF HomeInv
    <2>11. TasksInv' /\ ResultsInv'
      BY <2>2 DEF TasksInv, ResultsInv, PhaseInv
    <2> QED
      BY <2>5, <2>8, <2>9, <2>10, <2>11
  <1> QED
    BY <1>1, <1>2

LEMMA BuildAssertsKeeps ==
  ASSUME RouteInv, phase = "build", NEW j \in pending, BuildAsserts(j)
  PROVE  RouteInv'
  <1> USE DEF RouteInv
  <1>1. /\ UNCHANGED treeVars
        /\ phase' = "aborted" /\ open' = open /\ bb' = bb /\ home' = home
        /\ results' = results /\ visit' = visit /\ complete' = complete
        /\ pins' = pins /\ bb_fac' = bb_fac /\ itry' = itry
    BY DEF BuildAsserts, loopVars
  <1>2. JobsInv' /\ TreeInv' /\ Regions' = Regions
    BY <1>1, TreeUnchanged
  <1>3. TypeOK'
    BY <1>1 DEF TypeOK, BuildAsserts, loopVars, treeVars
  <1>4. PhaseInv' /\ HomeInv' /\ TasksInv' /\ ResultsInv'
    BY <1>1 DEF PhaseInv, HomeInv, TasksInv, ResultsInv, treeVars, Loaded
  <1> QED
    BY <1>2, <1>3, <1>4

LEMMA BuildDoneKeeps ==
  ASSUME RouteInv, BuildDone
  PROVE  RouteInv'
  <1> USE DEF RouteInv
  <1>1. /\ UNCHANGED treeVars /\ pending = {}
        /\ phase = "build" /\ phase' = "route" /\ open' = {Device} /\ bb' = bb
        /\ home' = home /\ results' = results /\ visit' = visit /\ complete' = complete
        /\ pins' = pins /\ bb_fac' = bb_fac /\ itry' = itry
    BY DEF BuildDone, loopVars
  <1>2. JobsInv' /\ TreeInv' /\ Regions' = Regions
    BY <1>1, TreeUnchanged
  <1>3. tree = Regions /\ Device \in tree
    BY <1>1 DEF PhaseInv, Regions, TreeInv
  <1>4. TypeOK'
    BY <1>1, <1>3 DEF TypeOK, BuildDone, loopVars, treeVars
  <1>5. PhaseInv'
    BY <1>1, <1>3 DEF PhaseInv, treeVars
  <1>6. HomeInv'
    BY <1>1 DEF HomeInv, treeVars
  <1>7. \A n \in Nets : Within(home[n], Device)
    BY BoxWithinDevice DEF TypeOK
  <1>8. TasksInv' /\ ResultsInv'
    BY <1>1, <1>7 DEF TasksInv, ResultsInv, NoResults, PhaseInv
  <1> QED
    BY <1>2, <1>4, <1>5, <1>6, <1>8

\* Facts about a step of a net: the tree stays, the phase is "route".
LEMMA RoutingNet ==
  ASSUME RouteInv, NEW n \in Nets, visit[n] = "routing"
  PROVE  /\ phase = "route" /\ pending = {} /\ tree # {} /\ home[n] \in open
         /\ home[n] \in tree /\ bb[n] \in Box
         /\ n \notin results.updated /\ n \notin results.rerouted
  BY DEF RouteInv, PhaseInv, HomeInv, ResultsInv, TypeOK

LEMMA BeginNetKeeps ==
  ASSUME RouteInv, NEW n \in Nets, BeginNet(n)
  PROVE  RouteInv'
  <1> USE DEF RouteInv
  <1>1. /\ UNCHANGED treeVars /\ phase = "route" /\ home[n] \in open
        /\ visit[n] = "waiting" /\ visit' = [visit EXCEPT ![n] = "routing"]
        /\ \A m \in Nets : home[m] = home[n] => visit[m] # "routing"
        /\ phase' = phase /\ open' = open /\ bb' = bb /\ home' = home
        /\ results' = results /\ complete' = complete
        /\ pins' = pins /\ bb_fac' = bb_fac /\ itry' = itry
    BY DEF BeginNet, NetsOf, loopVars
  <1>2. JobsInv' /\ TreeInv' /\ Regions' = Regions
    BY <1>1, TreeUnchanged
  <1>3. TypeOK'
    BY <1>1 DEF TypeOK, BeginNet, loopVars, treeVars
  <1>4. \A m \in Nets : visit'[m] = IF m = n THEN "routing" ELSE visit[m]
    BY <1>1 DEF TypeOK
  <1>5. PhaseInv'
    BY <1>1, <1>2, <1>4 DEF PhaseInv, treeVars, Loaded
  <1>6. HomeInv'
    BY <1>1 DEF HomeInv, treeVars
  <1>7. TasksInv' /\ ResultsInv'
    BY <1>1, <1>4 DEF TasksInv, ResultsInv
  <1> QED
    BY <1>2, <1>3, <1>5, <1>6, <1>7

LEMMA SkipNetKeeps ==
  ASSUME RouteInv, NEW n \in Nets, SkipNet(n)
  PROVE  RouteInv'
  <1> USE DEF RouteInv
  <1>1. /\ UNCHANGED treeVars /\ visit[n] = "routing" /\ complete[n]
        /\ visit' = [visit EXCEPT ![n] = "visited"]
        /\ phase' = phase /\ open' = open /\ bb' = bb /\ home' = home
        /\ results' = results /\ complete' = complete
        /\ pins' = pins /\ bb_fac' = bb_fac /\ itry' = itry
    BY DEF SkipNet, loopVars
  <1>2. /\ phase = "route" /\ pending = {} /\ tree # {}
    BY <1>1, RoutingNet
  <1>3. JobsInv' /\ TreeInv' /\ Regions' = Regions
    BY <1>1, TreeUnchanged
  <1>4. TypeOK'
    BY <1>1 DEF TypeOK, SkipNet, loopVars, treeVars
  <1>5. \A m \in Nets : visit'[m] = IF m = n THEN "visited" ELSE visit[m]
    BY <1>1 DEF TypeOK
  <1>6. PhaseInv'
    BY <1>1, <1>2, <1>5 DEF PhaseInv, treeVars
  <1>7. HomeInv'
    BY <1>1 DEF HomeInv, treeVars
  <1>8. TasksInv' /\ ResultsInv'
    BY <1>1, <1>2, <1>5 DEF TasksInv, ResultsInv
  <1> QED
    BY <1>3, <1>4, <1>6, <1>7, <1>8

LEMMA HullsAreBoxes ==
  ASSUME TypeOK, NEW n \in Nets
  PROVE  Hulls(n) \subseteq Box
  BY DEF TypeOK, Hulls

\* The new route of a net is the hull it was routed in.
LEMMA RoutedTypes ==
  ASSUME TypeOK, NEW n \in Nets,
         \E h \in Hulls(n) : route' = [route EXCEPT ![n] = {h}]
  PROVE  \A m \in Nets : route'[m] \subseteq Box /\ Cardinality(route'[m]) <= 1
  <1>1. PICK h \in Hulls(n) : route' = [route EXCEPT ![n] = {h}]
    OBVIOUS
  <1>2. h \in Box /\ Cardinality({h}) = 1
    BY HullsAreBoxes, FS_Singleton
  <1>3. TAKE m \in Nets
  <1>4. route'[m] = {h} \/ route'[m] = route[m]
    <2>1. CASE n \in DOMAIN route
      BY <1>1, <2>1
    <2>2. CASE n \notin DOMAIN route
      BY <1>1, <2>2
    <2> QED
      BY <2>1, <2>2
  <1> QED
    BY <1>2, <1>3, <1>4 DEF TypeOK

LEMMA FinishNetKeeps ==
  ASSUME RouteInv, NEW n \in Nets, FinishNet(n)
  PROVE  RouteInv'
  <1> USE DEF RouteInv
  <1>1. /\ UNCHANGED treeVars /\ visit[n] = "routing"
        /\ \E h \in Hulls(n) : route' = [route EXCEPT ![n] = {h}]
        /\ visit' = [visit EXCEPT ![n] = "visited"]
        /\ complete' = [complete EXCEPT ![n] = TRUE]
        /\ results' = [results EXCEPT !.rerouted = @ \union {n}]
        /\ phase' = phase /\ open' = open /\ bb' = bb /\ home' = home
        /\ pins' = pins /\ UNCHANGED loopVars
    BY DEF FinishNet
  <1>2. /\ phase = "route" /\ pending = {} /\ tree # {} /\ n \notin results.updated
    BY <1>1, RoutingNet
  <1>3. JobsInv' /\ TreeInv' /\ Regions' = Regions
    BY <1>1, TreeUnchanged
  <1>4. /\ \A m \in Nets : visit'[m] = IF m = n THEN "visited" ELSE visit[m]
        /\ \A m \in Nets : m # n => complete'[m] = complete[m]
        /\ complete'[n] = TRUE
        /\ results'.updated = results.updated /\ results'.routable = results.routable
        /\ results'.rerouted = results.rerouted \union {n}
    BY <1>1 DEF TypeOK
  <1>5. TypeOK'
    <2>1. \A m \in Nets : route'[m] \subseteq Box /\ Cardinality(route'[m]) <= 1
      BY <1>1, RoutedTypes
    <2>2. /\ visit' \in [Nets -> {"waiting", "routing", "visited"}]
          /\ complete' \in [Nets -> BOOLEAN]
          /\ results' \in [routable: BOOLEAN, rerouted: SUBSET Nets, updated: SUBSET Nets]
      BY <1>1 DEF TypeOK
    <2> QED
      BY <1>1, <2>1, <2>2 DEF TypeOK, loopVars, treeVars
  <1>6. PhaseInv'
    BY <1>1, <1>2, <1>4 DEF PhaseInv, treeVars, loopVars
  <1>7. HomeInv'
    BY <1>1 DEF HomeInv, treeVars
  <1>8. TasksInv'
    BY <1>1, <1>2, <1>4 DEF TasksInv
  <1>9. ResultsInv'
    BY <1>1, <1>2, <1>4 DEF ResultsInv
  <1> QED
    BY <1>3, <1>5, <1>6, <1>7, <1>8, <1>9

LEMMA RetryNetKeeps ==
  ASSUME RouteInv, NEW n \in Nets, RetryNet(n)
  PROVE  RouteInv'
  <1> USE DEF RouteInv
  <1>1. /\ UNCHANGED treeVars /\ visit[n] = "routing"
        /\ \E h \in Hulls(n) : route' = [route EXCEPT ![n] = {h}]
        /\ visit' = [visit EXCEPT ![n] = "visited"]
        /\ complete' = [complete EXCEPT ![n] = FALSE]
        /\ bb' = [bb EXCEPT ![n] = Device]
        /\ results' = [results EXCEPT !.updated = @ \union {n}]
        /\ phase' = phase /\ open' = open /\ home' = home
        /\ pins' = pins /\ UNCHANGED loopVars
    BY DEF RetryNet
  <1>2. /\ phase = "route" /\ pending = {} /\ tree # {} /\ n \notin results.updated
    BY <1>1, RoutingNet
  <1>3. JobsInv' /\ TreeInv' /\ Regions' = Regions
    BY <1>1, <1>2, TreeUnchanged
  <1>4. /\ \A m \in Nets : visit'[m] = IF m = n THEN "visited" ELSE visit[m]
        /\ \A m \in Nets : m # n => complete'[m] = complete[m]
        /\ \A m \in Nets : bb'[m] = IF m = n THEN Device ELSE bb[m]
        /\ results'.updated = results.updated \union {n}
        /\ results'.routable = results.routable /\ results'.rerouted = results.rerouted
    BY <1>1 DEF TypeOK
  <1>5. TypeOK'
    <2>1. \A m \in Nets : route'[m] \subseteq Box /\ Cardinality(route'[m]) <= 1
      BY <1>1, RoutedTypes
    <2>2. /\ visit' \in [Nets -> {"waiting", "routing", "visited"}]
          /\ complete' \in [Nets -> BOOLEAN] /\ bb' \in [Nets -> Box]
          /\ results' \in [routable: BOOLEAN, rerouted: SUBSET Nets, updated: SUBSET Nets]
      BY <1>1, DeviceIsBox DEF TypeOK
    <2> QED
      BY <1>1, <2>1, <2>2 DEF TypeOK, loopVars, treeVars
  <1>6. PhaseInv'
    BY <1>1, <1>2, <1>4 DEF PhaseInv, treeVars, loopVars
  <1>7. HomeInv'
    BY <1>1, <1>2 DEF HomeInv, treeVars
  <1>8. TasksInv'
    BY <1>1, <1>2, <1>4 DEF TasksInv
  <1>9. ResultsInv'
    <2>1. n \notin results.rerouted
      BY <1>1, RoutingNet
    <2> QED
      BY <1>1, <1>2, <1>4, <2>1 DEF ResultsInv
  <1> QED
    BY <1>3, <1>5, <1>6, <1>7, <1>8, <1>9

LEMMA FailNetKeeps ==
  ASSUME RouteInv, NEW n \in Nets, FailNet(n)
  PROVE  RouteInv'
  <1> USE DEF RouteInv
  <1>1. /\ UNCHANGED treeVars /\ visit[n] = "routing"
        /\ \E h \in Hulls(n) : route' = [route EXCEPT ![n] = {h}]
        /\ visit' = [visit EXCEPT ![n] = "visited"]
        /\ complete' = [complete EXCEPT ![n] = FALSE]
        /\ open' = open \ {home[n]}
        /\ results' = [results EXCEPT !.routable = FALSE]
        /\ phase' = phase /\ bb' = bb /\ home' = home
        /\ pins' = pins /\ UNCHANGED loopVars
    BY DEF FailNet
  <1>2. /\ phase = "route" /\ pending = {} /\ tree # {} /\ n \notin results.updated
    BY <1>1, RoutingNet
  <1>3. JobsInv' /\ TreeInv' /\ Regions' = Regions
    BY <1>1, <1>2, TreeUnchanged
  <1>4. /\ \A m \in Nets : visit'[m] = IF m = n THEN "visited" ELSE visit[m]
        /\ results'.updated = results.updated
        /\ ~results'.routable /\ results'.rerouted = results.rerouted
    BY <1>1 DEF TypeOK
  <1>5. TypeOK'
    <2>1. \A m \in Nets : route'[m] \subseteq Box /\ Cardinality(route'[m]) <= 1
      BY <1>1, RoutedTypes
    <2>2. /\ visit' \in [Nets -> {"waiting", "routing", "visited"}]
          /\ complete' \in [Nets -> BOOLEAN]
          /\ results' \in [routable: BOOLEAN, rerouted: SUBSET Nets, updated: SUBSET Nets]
      BY <1>1 DEF TypeOK
    <2> QED
      BY <1>1, <2>1, <2>2 DEF TypeOK, loopVars, treeVars
  <1>6. PhaseInv'
    <2>1. \A m \in Nets : visit'[m] = "routing" => home'[m] \in open'
      BY <1>1, <1>4 DEF PhaseInv, TasksInv
    <2> QED
      BY <1>1, <1>2, <1>4, <2>1 DEF PhaseInv, treeVars, loopVars
  <1>7. HomeInv'
    BY <1>1 DEF HomeInv, treeVars
  <1>8. TasksInv'
    BY <1>1, <1>2, <1>4 DEF TasksInv
  <1>9. ResultsInv'
    BY <1>1, <1>2, <1>4 DEF ResultsInv
  <1> QED
    BY <1>3, <1>5, <1>6, <1>7, <1>8, <1>9

\* When a node is finished its children lie apart from each other and from every
\* other node whose task runs; what was below it is below one of them.
LEMMA FinishNodeKeeps ==
  ASSUME RouteInv, NEW r \in open, FinishNode(r)
  PROVE  RouteInv'
  <1> USE DEF RouteInv
  <1>1. /\ UNCHANGED treeVars /\ \A n \in Nets : home[n] = r => visit[n] = "visited"
        /\ open' = (open \ {r}) \union Children(r)
        /\ phase' = phase /\ bb' = bb /\ home' = home /\ visit' = visit
        /\ complete' = complete /\ results' = results
        /\ pins' = pins /\ UNCHANGED loopVars
    BY DEF FinishNode, NetsOf
  <1>2. phase = "route" /\ pending = {} /\ tree # {} /\ tree = Regions /\ r \in tree
    BY DEF PhaseInv, TypeOK, Regions
  <1>3. JobsInv' /\ TreeInv' /\ Regions' = Regions
    BY <1>1, <1>2, TreeUnchanged
  <1>4. \A c \in Children(r) : c \in tree /\ <<r, c>> \in edges /\ Within(c, r)
    BY <1>2 DEF Children, TreeInv
  <1>5. TypeOK'
    BY <1>1, <1>4 DEF TypeOK, FinishNode, loopVars, treeVars
  <1>6. PhaseInv'
    <2>1. \A n \in Nets : visit[n] = "routing" => home[n] \in open'
      BY <1>1 DEF PhaseInv
    <2> QED
      BY <1>1, <1>2, <2>1 DEF PhaseInv, treeVars, loopVars
  <1>7. HomeInv'
    BY <1>1 DEF HomeInv, treeVars
  <1>8. TasksInv'
    <2>1. tree \subseteq Box /\ open \subseteq tree
      BY DEF TypeOK
    <2>2. \A c, d \in Children(r) : c = d \/ Disjoint(c, d)
      BY <1>2, <1>4 DEF TreeInv
    <2>3. \A c \in Children(r), s \in open \ {r} : Disjoint(c, s) /\ Disjoint(s, c)
      BY <1>2, <1>4, <2>1, DisjointBelow, DisjointSymmetric DEF TasksInv
    <2>4. \A s, u \in open' : s = u \/ Disjoint(s, u)
      BY <1>1, <2>2, <2>3 DEF TasksInv
    <2>5. ASSUME results.routable, NEW n \in Nets, visit[n] # "visited"
          PROVE  \E s \in open' : Within(home[n], s)
      <3>1. PICK s \in open : Within(home[n], s)
        BY <1>2, <2>5 DEF TasksInv
      <3>2. CASE s # r
        BY <1>1, <3>1, <3>2
      <3>3. CASE s = r
        <4>1. home[n] # r /\ home[n] \in tree
          BY <1>1, <1>2, <2>5 DEF HomeInv
        <4>2. \A q \in Regions : q # r /\ Within(q, r) =>
                \E c \in Regions : <<r, c>> \in edges /\ Within(q, c)
          BY <1>2 DEF TreeInv
        <4>3. PICK c \in tree : <<r, c>> \in edges /\ Within(home[n], c)
          BY <1>2, <3>1, <3>3, <4>1, <4>2
        <4>4. c \in Children(r)
          BY <4>3 DEF Children
        <4> QED
          BY <1>1, <4>3, <4>4
      <3> QED
        BY <3>2, <3>3
    <2> QED
      BY <1>1, <2>4, <2>5 DEF TasksInv
  <1>9. ResultsInv'
    BY <1>1, <1>2 DEF ResultsInv
  <1> QED
    BY <1>3, <1>5, <1>6, <1>7, <1>8, <1>9

LEMMA WaitKeeps ==
  ASSUME RouteInv, WaitForTasks
  PROVE  RouteInv'
  <1> USE DEF RouteInv
  <1>1. /\ UNCHANGED treeVars /\ phase = "route" /\ phase' = "assess" /\ open = {}
        /\ open' = open /\ bb' = bb /\ home' = home /\ visit' = visit
        /\ complete' = complete /\ results' = results
        /\ pins' = pins /\ UNCHANGED loopVars
    BY DEF WaitForTasks
  <1>2. JobsInv' /\ TreeInv' /\ Regions' = Regions
    BY <1>1, TreeUnchanged
  <1>3. TypeOK'
    BY <1>1 DEF TypeOK, WaitForTasks, loopVars, treeVars
  <1>4. PhaseInv' /\ HomeInv' /\ TasksInv' /\ ResultsInv'
    BY <1>1 DEF PhaseInv, HomeInv, TasksInv, ResultsInv, treeVars, loopVars, Loaded
  <1> QED
    BY <1>2, <1>3, <1>4

LEMMA AssessKeeps ==
  ASSUME RouteInv, Assess
  PROVE  RouteInv'
  <1> USE DEF RouteInv
  <1>1. /\ UNCHANGED treeVars /\ phase = "assess"
        /\ phase' \in {"success", "failure", "prepare"}
        /\ open' = open /\ bb' = bb /\ home' = home /\ visit' = visit
        /\ results' = results /\ pins' = pins /\ route' = route
        /\ itry' = itry /\ bb_fac' = bb_fac /\ conflicted' = conflicted
    BY DEF Assess, Leave
  <1>2. JobsInv' /\ TreeInv' /\ Regions' = Regions
    BY <1>1, TreeUnchanged
  <1>3. best' = NoBest \/ best' \subseteq Nets
    BY DEF Assess, TypeOK
  <1>4. convergences' \in Nat
    BY DEF Assess, TypeOK
  <1>5. complete' \in [Nets -> BOOLEAN]
    <2>1. CASE complete' = complete
      BY <2>1 DEF TypeOK
    <2>2. CASE complete' # complete
      <3>1. PICK saved : complete' = [n \in Nets |-> n \in saved]
        BY <2>2 DEF Assess, Leave
      <3>2. \A n \in Nets : (n \in saved) \in BOOLEAN
        OBVIOUS
      <3>3. [n \in Nets |-> n \in saved] \in [Nets -> BOOLEAN]
        BY <3>2, Zenon
      <3> QED
        BY <3>1, <3>3
    <2> QED
      BY <2>1, <2>2
  <1>6. TypeOK'
    BY <1>1, <1>3, <1>4, <1>5 DEF TypeOK, treeVars
  <1>7. PhaseInv' /\ HomeInv' /\ TasksInv' /\ ResultsInv'
    BY <1>1 DEF PhaseInv, HomeInv, TasksInv, ResultsInv, treeVars, Loaded
  <1> QED
    BY <1>2, <1>6, <1>7

\* The boxes of the nets that move are the device's: they move to the root.
LEMMA NewHomeIsDevice ==
  ASSUME tree \subseteq Box, Device \in tree, NEW n \in Nets, home[n] \in tree,
         NEW boxes, boxes[n] = Device
  PROVE  NewHome(n, boxes) = Device
  <1>1. /\ Device \in tree /\ Within(home[n], Device) /\ Within(boxes[n], Device)
        /\ \A s \in tree : Within(home[n], s) /\ Within(boxes[n], s) => Within(Device, s)
    BY DeviceIsBox, BoxWithinDevice
  <1>2. /\ NewHome(n, boxes) \in tree
        /\ Within(boxes[n], NewHome(n, boxes))
    BY <1>1 DEF NewHome
  <1> QED
    BY <1>2, DeviceIsBox, BoxWithinDevice, WithinAntisymmetric

LEMMA PreparedHomes ==
  ASSUME RouteInv, phase = "prepare"
  PROVE  /\ DynamicBoxes \in [Nets -> Box]
         /\ \A n \in results.updated : /\ n \in Nets /\ DynamicBoxes[n] = Device
                                        /\ NewHome(n, DynamicBoxes) = Device
         /\ Device \in tree
  <1> USE DEF RouteInv
  <1>1. \A n \in Nets : DynamicBoxes[n] \in Box
    BY ExpandedIsBox DEF DynamicBoxes, TypeOK
  <1>2. DynamicBoxes \in [Nets -> Box]
    BY <1>1 DEF DynamicBoxes
  <1>3. tree = Regions /\ Device \in tree /\ tree \subseteq Box
    BY DEF PhaseInv, TreeInv, Regions
  <1>4. \A n \in results.updated : n \in Nets /\ DynamicBoxes[n] = Device
    BY DEF ResultsInv, DynamicBoxes, TypeOK
  <1>5. \A n \in Nets : home[n] \in tree
    BY <1>3 DEF HomeInv
  <1> HIDE DEF RouteInv
  <1>6. \A n \in results.updated : NewHome(n, DynamicBoxes) = Device
    BY <1>3, <1>4, <1>5, NewHomeIsDevice
  <1> QED
    BY <1>2, <1>3, <1>4, <1>6

LEMMA PrepareKeeps ==
  ASSUME RouteInv, Prepare
  PROVE  RouteInv'
  <1> USE DEF RouteInv
  <1>1. /\ UNCHANGED treeVars /\ phase = "prepare" /\ phase' = "start"
        /\ home' = [n \in Nets |-> IF n \in results.updated THEN NewHome(n, DynamicBoxes)
                                                           ELSE home[n]]
        /\ open' = open /\ visit' = visit /\ complete' = complete /\ route' = route
        /\ results' = results /\ pins' = pins /\ itry' = itry + 1
        /\ convergences' = convergences /\ best' = best
    BY DEF Prepare
  <1>2. /\ DynamicBoxes \in [Nets -> Box] /\ Device \in tree
        /\ \A n \in results.updated : NewHome(n, DynamicBoxes) = Device
    BY <1>1, PreparedHomes
  <1>3. pending = {} /\ tree # {} /\ itry <= MaxIterations /\ open = {}
    BY <1>1 DEF PhaseInv
  <1>4. JobsInv' /\ TreeInv' /\ Regions' = Regions
    BY <1>1, <1>3, TreeUnchanged
  <1>5. bb_fac' \in Nat /\ conflicted' \in Nat
    BY GridAssumption DEF Prepare, TypeOK, Lower, Upper, BBScaleFactor
  <1>6. bb' \in [Nets -> Box]
    BY <1>2, <1>5, LoadedIsBox DEF Prepare, TypeOK
  <1>7. \A n \in Nets : home'[n] = IF n \in results.updated THEN Device ELSE home[n]
    BY <1>1, <1>2
  <1>8. home' \in [Nets -> Box]
    BY <1>1, <1>2, DeviceIsBox DEF TypeOK
  <1>9. TypeOK'
    BY <1>1, <1>3, <1>5, <1>6, <1>8, OptionsAssumption DEF TypeOK, treeVars
  <1>10. PhaseInv'
    BY <1>1, <1>3 DEF PhaseInv, treeVars
  <1>11. HomeInv'
    BY <1>1, <1>2, <1>3, <1>7 DEF HomeInv, treeVars
  <1>12. TasksInv'
    BY <1>1, <1>3 DEF TasksInv, PhaseInv
  <1>13. ResultsInv'
    BY <1>1 DEF ResultsInv
  <1> QED
    BY <1>4, <1>9, <1>10, <1>11, <1>12, <1>13

LEMMA StutterKeeps ==
  ASSUME RouteInv, UNCHANGED vars
  PROVE  RouteInv'
  <1> USE DEF RouteInv, vars
  <1>1. JobsInv' /\ TreeInv' /\ Regions' = Regions
    BY TreeUnchanged
  <1>2. TypeOK'
    BY DEF TypeOK, treeVars, loopVars
  <1>3. PhaseInv' /\ HomeInv' /\ TasksInv' /\ ResultsInv'
    BY <1>1 DEF PhaseInv, HomeInv, TasksInv, ResultsInv, treeVars, loopVars, Loaded
  <1> QED
    BY <1>1, <1>2, <1>3

LEMMA RouteInvHolds == Spec => []RouteInv
  <1>1. RouteInv /\ [Next]_vars => RouteInv'
    <2> SUFFICES ASSUME RouteInv, [Next]_vars PROVE RouteInv'
      OBVIOUS
    <2>1. CASE StartIteration
      BY <2>1, StartKeeps
    <2>2. CASE OutOfIterations
      BY <2>2, OutOfIterationsKeeps
    <2>3. ASSUME phase = "build", NEW j \in pending, BuildStep(j) PROVE RouteInv'
      BY <2>3, BuildLeafKeeps, BuildBranchKeeps, BuildAssertsKeeps DEF BuildStep
    <2>4. CASE BuildDone
      BY <2>4, BuildDoneKeeps
    <2>5. ASSUME NEW n \in Nets, NetStep(n) PROVE RouteInv'
      BY <2>5, BeginNetKeeps, SkipNetKeeps, FinishNetKeeps, RetryNetKeeps, FailNetKeeps
         DEF NetStep
    <2>6. ASSUME NEW r \in open, FinishNode(r) PROVE RouteInv'
      BY <2>6, FinishNodeKeeps
    <2>7. CASE WaitForTasks
      BY <2>7, WaitKeeps
    <2>8. CASE Assess
      BY <2>8, AssessKeeps
    <2>9. CASE Prepare
      BY <2>9, PrepareKeeps
    <2>10. CASE Terminated \/ UNCHANGED vars
      BY <2>10, StutterKeeps DEF Terminated
    <2> QED
      BY <2>1, <2>2, <2>3, <2>4, <2>5, <2>6, <2>7, <2>8, <2>9, <2>10 DEF Next
  <1> QED
    BY <1>1, InitInv, PTL DEF Spec

-------------------------------------------------------------------------------
(* What follows for every way to update the boxes *)

\* The types of all variables: the root's box stays the device, a task is started
\* for a node only, a net has at most one route.
THEOREM RoutingTypes == Spec => []TypeOK
  BY RouteInvHolds, PTL DEF RouteInv

\* Two nodes are nested or disjoint, and each but the root has one parent, which
\* holds it: what build_helper and update_nets rely on.
THEOREM TreeIsOfRegions == Spec => []TreeOfRegions
  <1>1. RouteInv => TreeOfRegions
    <2> SUFFICES ASSUME RouteInv PROVE TreeOfRegions
      OBVIOUS
    <2>1. \A r, s \in tree : Within(r, s) \/ Within(s, r) \/ Disjoint(r, s)
      BY DEF RouteInv, TreeInv
    <2>2. ASSUME NEW c \in tree \ {Device}
          PROVE  \E p \in tree : /\ <<p, c>> \in edges /\ Within(c, p)
                                 /\ \A q \in tree : <<q, c>> \in edges => q = p
      <3>1. tree \subseteq Regions
        BY DEF Regions
      <3>2. PICK p \in tree : <<p, c>> \in edges
        BY <3>1 DEF RouteInv, TreeInv
      <3>3. Within(c, p)
        BY <3>2 DEF RouteInv, TreeInv
      <3>4. \A q \in tree : <<q, c>> \in edges => q = p
        BY <3>1, <3>2 DEF RouteInv, TreeInv
      <3> QED
        BY <3>2, <3>3, <3>4
    <2> QED
      BY <2>1, <2>2 DEF TreeOfRegions
  <1> QED
    BY <1>1, RouteInvHolds, PTL

\* No net falls through the tree: when the tasks of a routable iteration are over,
\* each net was visited.
THEOREM NetsAreVisited == Spec => []EveryNetVisited
  <1>1. RouteInv => EveryNetVisited
    BY DEF RouteInv, EveryNetVisited, TasksInv, PhaseInv
  <1> QED
    BY <1>1, RouteInvHolds, PTL

\* A net that ends a routable iteration with a sink unreached is reported.
THEOREM IncompleteAreReported == Spec => []IncompleteIsReported
  <1>1. RouteInv => IncompleteIsReported
    BY DEF RouteInv, IncompleteIsReported, TasksInv, PhaseInv, ResultsInv
  <1> QED
    BY <1>1, RouteInvHolds, PTL

\* build_helper's assertion fails under --bb_factor 0 only: the tree is built from
\* the boxes as loaded, which are wider than a tile otherwise.
THEOREM AssertsWhenTight ==
  ASSUME Width > 1, Height > 1
  PROVE  Spec => []AssertsOnlyWhenTight
  <1>1. Init => AssertsOnlyWhenTight
    BY DEF Init, AssertsOnlyWhenTight
  <1>2. RouteInv /\ AssertsOnlyWhenTight /\ [Next]_vars => AssertsOnlyWhenTight'
    <2> SUFFICES ASSUME RouteInv, AssertsOnlyWhenTight, [Next]_vars, phase' = "aborted"
                 PROVE  bb_fac' = 0
      BY DEF AssertsOnlyWhenTight
    <2>1. ASSUME phase = "build", NEW j \in pending, BuildAsserts(j) PROVE bb_fac' = 0
      <3>1. /\ j.nets \subseteq Nets /\ j.box \in Box
            /\ \A n \in j.nets : Within(bb[n], j.box)
        BY DEF RouteInv, JobsInv
      <3>2. j.nets # {}
        BY <2>1, FS_EmptySet, MinNetsAssumption DEF BuildAsserts
      <3>3. PICK n \in j.nets : n \in Nets
        BY <3>1, <3>2
      <3>4. /\ bb[n] = LoadBox(pins[n], bb_fac) /\ pins[n] \in Box /\ bb_fac \in Nat
            /\ bb[n] \in Box
        BY <2>1, <3>3 DEF RouteInv, PhaseInv, TypeOK, Loaded
      <3>5. bb_fac # 0 => bb[n].xmin < bb[n].xmax /\ bb[n].ymin < bb[n].ymax
        BY <3>4, LoadedIsWide
      <3>6. Within(bb[n], j.box)
        BY <3>1, <3>3
      <3>7. j.box.xmin = j.box.xmax \/ j.box.ymin = j.box.ymax
        BY <2>1 DEF BuildAsserts
      <3>8. bb_fac = 0
        BY <3>1, <3>4, <3>5, <3>6, <3>7, GridAssumption DEF Within, Box, Columns, Rows
      <3> QED
        BY <2>1, <3>8 DEF BuildAsserts, loopVars
    <2>2. ASSUME phase = "build", NEW j \in pending, BuildLeaf(j) \/ BuildBranch(j)
          PROVE  FALSE
      BY <2>2 DEF BuildLeaf, BuildBranch
    <2>3. ASSUME NEW n \in Nets, NetStep(n) PROVE FALSE
      <3>1. phase = "route"
        BY <2>3, RoutingNet DEF NetStep, BeginNet, SkipNet, FinishNet, RetryNet, FailNet
      <3> QED
        BY <2>3, <3>1 DEF NetStep, BeginNet, SkipNet, FinishNet, RetryNet, FailNet
    <2>4. ASSUME NEW r \in open, FinishNode(r) PROVE FALSE
      BY <2>4 DEF FinishNode, RouteInv, PhaseInv
    <2>5. CASE StartIteration \/ OutOfIterations \/ BuildDone \/ WaitForTasks \/ Assess \/ Prepare
      BY <2>5 DEF StartIteration, OutOfIterations, BuildDone, WaitForTasks, Assess, Prepare, Leave
    <2>6. CASE Terminated \/ UNCHANGED vars
      BY <2>6 DEF Terminated, vars, loopVars, AssertsOnlyWhenTight
    <2> QED
      BY <2>1, <2>2, <2>3, <2>4, <2>5, <2>6 DEF Next, BuildStep
  <1> QED
    BY <1>1, <1>2, RouteInvHolds, PTL DEF Spec

-------------------------------------------------------------------------------
(* When boxes change only by a retry with the whole device *)

Static == ~Dynamic /\ ConflictedAt > MaxIterations

\* A net's route lies in its box, and its box in the region of its node, unless the
\* box became the device's in this iteration.
BoxesInv ==
  /\ \A n \in Nets : \A h \in route[n] : h \in Box /\ Within(h, bb[n])
  /\ phase \in {"start", "route", "assess", "prepare"} /\ tree # {} =>
       \A n \in Nets : \/ Within(bb[n], home[n])
                       \/ phase # "start" /\ n \in results.updated

\* Where the route of a net goes: into the box it had.
LEMMA RoutedInBox ==
  ASSUME Static, RouteInv, BoxesInv, NEW n \in Nets,
         \E h \in Hulls(n) : route' = [route EXCEPT ![n] = {h}],
         \A m \in Nets : bb'[m] = bb[m] \/ bb'[m] = Device
  PROVE  \A m \in Nets : \A h \in route'[m] : h \in Box /\ Within(h, bb'[m])
  <1>1. bb \in [Nets -> Box]
    BY DEF RouteInv, TypeOK
  <1>2. route' = [route EXCEPT ![n] = {bb[n]}]
    BY DEF Static, Hulls
  <1>3. TAKE m \in Nets
  <1>4. route'[m] = route[m] \/ (m = n /\ route'[m] = {bb[n]})
    <2>1. CASE n \in DOMAIN route
      BY <1>2, <2>1
    <2>2. CASE n \notin DOMAIN route
      BY <1>2, <2>2
    <2> QED
      BY <2>1, <2>2
  <1>5. TAKE h \in route'[m]
  <1>6. h \in Box /\ Within(h, bb[m])
    BY <1>1, <1>3, <1>4, <1>5, WithinItself DEF BoxesInv
  <1> QED
    BY <1>3, <1>6, BoxWithinDevice

LEMMA BoxesInvHolds ==
  ASSUME Static
  PROVE  Spec => []BoxesInv
  <1>1. Init => BoxesInv
    BY DEF Init, BoxesInv
  <1>2. RouteInv /\ BoxesInv /\ [Next]_vars => BoxesInv'
    <2> SUFFICES ASSUME RouteInv, BoxesInv, [Next]_vars PROVE BoxesInv'
      OBVIOUS
    <2>1. CASE StartIteration
      BY <2>1 DEF StartIteration, BoxesInv, RouteInv, TypeOK, loopVars
    <2>2. CASE OutOfIterations \/ Assess
      BY <2>2 DEF OutOfIterations, Assess, Leave, BoxesInv, loopVars, treeVars
    <2>3. ASSUME phase = "build", NEW j \in pending, BuildStep(j) PROVE BoxesInv'
      BY <2>3 DEF BuildStep, BuildLeaf, BuildBranch, BuildAsserts, BoxesInv
    <2>4. CASE BuildDone
      BY <2>4 DEF BuildDone, BoxesInv, RouteInv, HomeInv, treeVars
    <2>5. ASSUME NEW n \in Nets, NetStep(n) PROVE BoxesInv'
      <3>1. CASE BeginNet(n) \/ SkipNet(n)
        BY <3>1 DEF BeginNet, SkipNet, BoxesInv, treeVars
      <3>2. CASE FinishNet(n)
        <4>1. \A m \in Nets : \A h \in route'[m] : h \in Box /\ Within(h, bb'[m])
          BY <3>2, RoutedInBox DEF FinishNet
        <4>2. results'.updated = results.updated
          BY <3>2 DEF FinishNet, RouteInv, TypeOK
        <4> QED
          BY <3>2, <4>1, <4>2 DEF FinishNet, BoxesInv, treeVars
      <3>3. CASE FailNet(n)
        <4>1. \A m \in Nets : \A h \in route'[m] : h \in Box /\ Within(h, bb'[m])
          BY <3>3, RoutedInBox DEF FailNet
        <4>2. results'.updated = results.updated
          BY <3>3 DEF FailNet, RouteInv, TypeOK
        <4> QED
          BY <3>3, <4>1, <4>2 DEF FailNet, BoxesInv, treeVars
      <3>4. CASE RetryNet(n)
        <4>0. /\ \A m \in Nets : bb'[m] = IF m = n THEN Device ELSE bb[m]
              /\ results'.updated = results.updated \union {n}
              /\ phase = "route" /\ phase' = phase /\ home' = home /\ tree' = tree
          BY <3>4, RoutingNet DEF RetryNet, RouteInv, TypeOK, treeVars
        <4>1. \A m \in Nets : \A h \in route'[m] : h \in Box /\ Within(h, bb'[m])
          BY <3>4, <4>0, RoutedInBox DEF RetryNet
        <4> QED
          BY <4>0, <4>1 DEF BoxesInv
      <3> QED
        BY <2>5, <3>1, <3>2, <3>3, <3>4 DEF NetStep
    <2>6. ASSUME NEW r \in open, FinishNode(r) PROVE BoxesInv'
      BY <2>6 DEF FinishNode, BoxesInv, treeVars
    <2>7. CASE WaitForTasks
      BY <2>7 DEF WaitForTasks, BoxesInv, treeVars
    <2>8. CASE Prepare
      <3>1. phase = "prepare" /\ itry \in Nat /\ itry <= MaxIterations /\ tree # {}
        BY <2>8, OptionsAssumption DEF Prepare, RouteInv, PhaseInv, TypeOK
      <3>2. ~(itry >= ConflictedAt)
        BY <3>1, OptionsAssumption DEF Static
      <3>3. DynamicBoxes = bb
        BY DEF Static, DynamicBoxes, RouteInv, TypeOK
      <3>4. /\ bb' = bb /\ route' = route /\ phase' = "start" /\ tree' = tree
            /\ home' = [n \in Nets |-> IF n \in results.updated
                                          THEN NewHome(n, DynamicBoxes) ELSE home[n]]
        BY <2>8, <3>2, <3>3 DEF Prepare, treeVars
      <3>5. \A n \in results.updated : NewHome(n, DynamicBoxes) = Device
        BY <3>1, PreparedHomes
      <3>6. \A n \in Nets : Within(bb'[n], home'[n])
        BY <3>1, <3>4, <3>5, BoxWithinDevice DEF BoxesInv, RouteInv, TypeOK
      <3> QED
        BY <3>4, <3>6 DEF BoxesInv
    <2>9. CASE Terminated \/ UNCHANGED vars
      BY <2>9 DEF Terminated, vars, BoxesInv, treeVars
    <2> QED
      BY <2>1, <2>2, <2>3, <2>4, <2>5, <2>6, <2>7, <2>8, <2>9 DEF Next
  <1> QED
    BY <1>1, <1>2, RouteInvHolds, PTL DEF Spec

\* The node a net waits in holds the net's box.
THEOREM HomesHoldBoxes ==
  ASSUME Static
  PROVE  Spec => []HomeHoldsBox
  <1>1. BoxesInv => HomeHoldsBox
    BY DEF BoxesInv, HomeHoldsBox
  <1> QED
    BY <1>1, BoxesInvHolds, PTL

\* Two nets that are routed at the same time touch disjoint regions: one net is
\* routed per task, the nodes of two tasks lie apart, and a net stays within the
\* region of its node.
THEOREM RoutingIsDisjoint ==
  ASSUME Static
  PROVE  Spec => []DisjointRouting
  <1>1. RouteInv /\ BoxesInv => DisjointRouting
    <2> SUFFICES ASSUME RouteInv, BoxesInv, NEW m \in Nets, NEW n \in Nets, m # n,
                        visit[m] = "routing", visit[n] = "routing",
                        NEW a \in Touched(m), NEW b \in Touched(n)
                 PROVE  Disjoint(a, b)
      BY DEF DisjointRouting
    <2>1. \A k \in {m, n} : /\ phase = "route" /\ tree # {} /\ home[k] \in open
                             /\ home[k] \in Box /\ bb[k] \in Box
                             /\ k \notin results.updated
      BY RoutingNet DEF RouteInv, TypeOK
    <2>2. \A k \in {m, n} : Within(bb[k], home[k])
      BY <2>1 DEF BoxesInv
    <2>3. Disjoint(home[m], home[n])
      BY <2>1 DEF RouteInv, TasksInv
    <2>4. a \in Box /\ Within(a, bb[m]) /\ b \in Box /\ Within(b, bb[n])
      BY <2>1, WithinItself DEF Touched, BoxesInv
    <2>5. Within(a, home[m]) /\ Within(b, home[n])
      BY <2>1, <2>2, <2>4, WithinTransitive
    <2>6. Disjoint(a, home[n])
      BY <2>1, <2>3, <2>4, <2>5, DisjointBelow
    <2> QED
      BY <2>1, <2>4, <2>5, <2>6, DisjointBelow, DisjointSymmetric
  <1> QED
    BY <1>1, BoxesInvHolds, RouteInvHolds, PTL
===============================================================================
