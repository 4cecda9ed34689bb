--------------------------- MODULE MCParallelRouting ---------------------------
(* Instances of ParallelRouting for TLC: four nets on a 5 x 5 device. *)
EXTENDS ParallelRouting, TLC

CONSTANTS n1, n2, n3, n4

At(x1, x2, y1, y2) == [xmin |-> x1, xmax |-> x2, ymin |-> y1, ymax |-> y2]

OneSink == [n \in Nets |-> 1]

\* A vertical cutline, then a horizontal one on its left; n3 is cut by the first.
ThreeLevels == n1 :> At(0, 0, 0, 0) @@ n2 :> At(4, 4, 0, 0)
                 @@ n3 :> At(2, 2, 2, 2) @@ n4 :> At(0, 0, 4, 4)

\* Nothing can be cut, and every net already has the whole device.
Crowded == [n \in Nets |-> At(1, 3, 1, 3)]

\* With --bb_factor 0, two nets in a region one tile wide.
Edge == n1 :> At(0, 0, 0, 0) @@ n2 :> At(0, 0, 0, 0)
          @@ n3 :> At(4, 4, 0, 0) @@ n4 :> At(4, 4, 0, 0)

AllPlacements == {ThreeLevels, Crowded, Edge}
TreePlacement == {ThreeLevels}
===============================================================================
