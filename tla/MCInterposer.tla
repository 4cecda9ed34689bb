---------------------------- MODULE MCInterposer ----------------------------
(* Instances of Interposer for TLC. *)
EXTENDS Interposer

\* Wires of one length that start a row later on every other pair of tracks.
Staggered(length, shift) ==
    [t \in TrackIds |->
        LET starts == {y \in Rows : y = 1 \/ (y + (t \div 2) + shift) % length = 0}
        IN  {r \in starts \X Rows :
                /\ r[1] <= r[2]
                /\ r[1] + 1 .. r[2] \cap starts = {}
                /\ r[2] = Height \/ r[2] + 1 \in starts}]

MCLayouts == {Staggered(2, 0), Staggered(3, 0), Staggered(3, 1), Staggered(6, 0)}

MCDirections == {[t \in TrackIds |-> IF t % 2 = 0 THEN "INC" ELSE "DEC"],
                 [t \in TrackIds |-> "BIDIR"]}

Plain == [dependent |-> FALSE, internal |-> None]
Dependent == [dependent |-> TRUE, internal |-> None]
Fast == [dependent |-> FALSE, internal |-> "fast"]

MCArchitectures == {<<Plain, Plain>>, <<Plain, Fast>>, <<Plain, Dependent>>}
=============================================================================
