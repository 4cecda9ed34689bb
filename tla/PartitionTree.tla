----------------------------- MODULE PartitionTree -----------------------------
(* Bounding boxes of nets (route_common.cpp, route_utils.cpp) and the choice of *)
(* cutlines of the partition tree (route/partition_tree.cpp).  A box is a t_bb  *)
(* without its layers.  A node of the tree is named by its box: a cutline gives *)
(* each child a strictly smaller box, so no two nodes share one.                *)
EXTENDS Integers, FiniteSets, FiniteSetsExt

CONSTANTS
  Nets,
  Fanout,         \* net_sinks(net).size()
  Width, Height,  \* device_ctx.grid
  MinNets         \* MIN_NETS_TO_PARTITION

ASSUME NetsAssumption == IsFiniteSet(Nets) /\ Nets # {}
ASSUME FanoutAssumption == Fanout \in [Nets -> Nat]
ASSUME GridAssumption == Width \in Nat \ {0} /\ Height \in Nat \ {0}
ASSUME MinNetsAssumption == MinNets \in Nat \ {0}

Columns == 0 .. Width - 1
Rows    == 0 .. Height - 1

Box == {b \in [xmin: Columns, xmax: Columns, ymin: Rows, ymax: Rows] :
          b.xmin <= b.xmax /\ b.ymin <= b.ymax}

\* full_device_bb()
Device == [xmin |-> 0, xmax |-> Width - 1, ymin |-> 0, ymax |-> Height - 1]

\* net_in_ptree_node
Within(b, r) ==
  b.xmin >= r.xmin /\ b.xmax <= r.xmax /\ b.ymin >= r.ymin /\ b.ymax <= r.ymax

Disjoint(a, b) ==
  a.xmax < b.xmin \/ b.xmax < a.xmin \/ a.ymax < b.ymin \/ b.ymax < a.ymin

Lower(i, j) == IF i <= j THEN i ELSE j
Upper(i, j) == IF i >= j THEN i ELSE j

\* Mutant: the low sides are not clipped to the device.
LoadBox_Unclipped(t, factor) ==
  [xmin |-> t.xmin - 1 - factor, xmax |-> Lower(t.xmax + factor, Width - 1),
   ymin |-> t.ymin - 1 - factor, ymax |-> Lower(t.ymax + factor, Height - 1)]

\* load_net_route_bb: the box of the terminals, one channel more on the low
\* sides, bb_factor channels more on every side, clipped to the device.
LoadBox(t, factor) ==
  [xmin |-> Upper(t.xmin - 1 - factor, 0),
   xmax |-> Lower(t.xmax + factor, Width - 1),
   ymin |-> Upper(t.ymin - 1 - factor, 0),
   ymax |-> Lower(t.ymax + factor, Height - 1)]

\* dynamic_update_bounding_boxes for one net: each side the routing h touches
\* moves out by one, unless it is at the edge of the device.
Expand(b, h) ==
  [xmin |-> IF h.xmin <= b.xmin THEN Upper(b.xmin - 1, 0) ELSE b.xmin,
   xmax |-> IF h.xmax >= b.xmax THEN Lower(b.xmax + 1, Width - 1) ELSE b.xmax,
   ymin |-> IF h.ymin <= b.ymin THEN Upper(b.ymin - 1, 0) ELSE b.ymin,
   ymax |-> IF h.ymax >= b.ymax THEN Lower(b.ymax + 1, Height - 1) ELSE b.ymax]

-------------------------------------------------------------------------------
(* Cutlines.  [axis, at] lies between the coordinates at and at + 1.           *)

Cuts(r) == [axis: {"x"}, at: r.xmin .. r.xmax - 1]
             \union [axis: {"y"}, at: r.ymin .. r.ymax - 1]

Low(b, c)  == IF c.axis = "x" THEN b.xmin ELSE b.ymin
High(b, c) == IF c.axis = "x" THEN b.xmax ELSE b.ymax

\* Mutant: a net that ends just past the cutline goes left as well.
LeftNets_OffByOne(nets, bb, c) == {n \in nets : High(bb[n], c) <= c.at + 1}

LeftNets(nets, bb, c)  == {n \in nets : High(bb[n], c) <= c.at}
RightNets(nets, bb, c) == {n \in nets : Low(bb[n], c) > c.at}
CutNets(nets, bb, c)   == nets \ (LeftNets(nets, bb, c) \union RightNets(nets, bb, c))

LeftBox(r, c)  == IF c.axis = "x" THEN [r EXCEPT !.xmax = c.at]
                                  ELSE [r EXCEPT !.ymax = c.at]

\* Mutant: the two children share the coordinate before the cutline.
RightBox_Shared(r, c) == IF c.axis = "x" THEN [r EXCEPT !.xmin = c.at]
                                         ELSE [r EXCEPT !.ymin = c.at]

RightBox(r, c) == IF c.axis = "x" THEN [r EXCEPT !.xmin = c.at + 1]
                                  ELSE [r EXCEPT !.ymin = c.at + 1]

Work(nets) == MapThenSumSet(LAMBDA n : Fanout[n], nets)

\* Cutlines that leave work on both sides.
UsableCuts(nets, bb, r) ==
  {c \in Cuts(r) : /\ Work(LeftNets(nets, bb, c)) > 0
                   /\ Work(RightNets(nets, bb, c)) > 0}

Score(nets, bb, c) ==
  Work(CutNets(nets, bb, c))
    + Upper(Work(LeftNets(nets, bb, c)), Work(RightNets(nets, bb, c)))

\* X is scanned before Y and low positions first; only a lower score replaces.
Scanned(c) == IF c.axis = "x" THEN c.at ELSE Width + c.at

BestCuts(nets, bb, r) ==
  {c \in UsableCuts(nets, bb, r) :
    \A d \in UsableCuts(nets, bb, r) :
      \/ Score(nets, bb, c) < Score(nets, bb, d)
      \/ Score(nets, bb, c) = Score(nets, bb, d) /\ Scanned(c) <= Scanned(d)}
===============================================================================
