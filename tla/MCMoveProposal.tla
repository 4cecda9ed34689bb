---------------------------- MODULE MCMoveProposal ----------------------------
(* Two columns of logic tiles and two I/O tiles of two sub-tiles; two macros    *)
(* that are carry chains, a single block, and one that is fixed.                 *)
EXTENDS MoveProposal, TLC

CONSTANTS
  Height, a1, a2, b1, b2, b3, s1, f1, A, B,
  StepB, Down,        \* the y_offset of the direct connections of B; is it negative?
  LabRows, NotInLab   \* rows of the columns that have another type of tile; who does not fit it

MCLocs == [x : {0, 1}, y : 0 .. Height - 1, sub : {0}] \union [x : {2}, y : {0, 1}, sub : {0, 1}]
MCTileOf  == [l \in MCLocs |-> <<l.x, l.y>>]
MCSubTile == [l \in MCLocs |-> l.sub]
MCTiles   == {MCTileOf[l] : l \in MCLocs}
MCKind    == [t \in MCTiles |-> CASE t[1] = 2 -> "io"
                                   [] t[1] < 2 /\ t[2] \in LabRows -> "lab"
                                   [] OTHER -> "clb"]

MCMembers == A :> <<a1, a2>> @@ B :> <<b1, b2, b3>>
MCStep    == A :> 1 @@ B :> IF Down THEN -StepB ELSE StepB
MCOffset  == [m \in {A, B} |->
               [i \in DOMAIN MCMembers[m] |-> [x |-> 0, y |-> (i - 1) * MCStep[m], sub |-> 0]]]
MCFits(b, l) == LET kind == MCKind[MCTileOf[l]]
                IN  (kind = "io" => b = s1) /\ (kind = "lab" => b \notin NotInLab)

\* Every initial placement is reached by moves from this one; it is also the one worth a
\* checkpoint.
At(x, y, sub) == [x |-> x, y |-> y, sub |-> sub]
HeadB == IF Down THEN 2 * StepB ELSE 0
MCPlacements == {a1 :> At(0, 0, 0) @@ a2 :> At(0, 1, 0)
                 @@ b1 :> At(1, HeadB, 0) @@ b2 :> At(1, HeadB + MCStep[B], 0)
                 @@ b3 :> At(1, HeadB + 2 * MCStep[B], 0)
                 @@ s1 :> At(2, 0, 0) @@ f1 :> At(1, Height - 1, 0)}

ASSUME s1 \in NotInLab \/ AlikeTiles
===============================================================================
