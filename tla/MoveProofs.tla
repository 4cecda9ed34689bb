-------------------------------- MODULE MoveProofs -------------------------------
(* What holds of the moves of the placer, whatever the device, the blocks, the  *)
(* macros and the moves that are tried.                                         *)
(*                                                                             *)
(* The first part is about MoveTransaction.  Between two moves the grid is the  *)
(* inverse of the block locations, and at every step of a commit the usage of a *)
(* tile is the number of its places that are taken.  GridIsInverse says nothing *)
(* of a move under way.  What makes it come true again is AtPlace: at index c   *)
(* of a commit, each block of the move is in the grid at its new place if it    *)
(* was reached, and otherwise at its old one, unless a block that was reached   *)
(* has taken that.                                                             *)
(*                                                                             *)
(* The second part is about MoveProposal.  The moves recorded so far are read   *)
(* as a placement, Recorded, in which those blocks are where they go and the    *)
(* others where they are.  While macros walk, that placement differs from the   *)
(* one of the blocks by exchanges of two (Swaps), and every call has taken the  *)
(* members before the one it is at along its offset (Walked), and none after    *)
(* (Untouched); what it still has to do some call above it does (Will).  When   *)
(* the last call returns, a macro that moved has moved as a whole (Finished).   *)
(* While macros shift over themselves, each member of an affected macro has     *)
(* been explored, or a walk that is under way comes to it, or a member that     *)
(* cannot move will abort the proposal (IdentifyInv, ShiftInv); at the end all  *)
(* members are recorded (DisplaceInv), also those whose record was refused: they *)
(* had been recorded before.                                                   *)
EXTENDS MoveProposal, FunctionTheorems, FiniteSetTheorems, TLAPS

-------------------------------------------------------------------------------
(* The grid as a whole *)

\* The usage of every tile is the number of its places that are taken.
Counts(g, u) == \A t \in Tiles : u[t] = Cardinality(Occupied(g, t))

\* The grid is the inverse of the block locations.
SettledGrid(f, g) == \A b \in Blocks, l \in Locs : g[l] = b <=> f[b] = l

Placing == [Blocks -> Locs]
Grids  == [Locs -> Blocks \union {NoBlock}]
Usages == [Tiles -> Nat]

\* The places of a tile that are taken can be counted.
LEMMA OccupiedFinite ==
  ASSUME NEW g, NEW t
  PROVE  IsFiniteSet(Occupied(g, t)) /\ Cardinality(Occupied(g, t)) \in Nat
<1>1. Occupied(g, t) \in SUBSET Locs
  BY DEF Occupied
<1> QED
  BY <1>1, LocsAssumption, FS_Subset, FS_CardinalityType

\* Taking a block out of its place, as commit_move_blocks does, keeps the counts.
LEMMA PlaceEmptied ==
  ASSUME NEW g \in Grids, NEW u \in Usages, NEW l \in Locs, g[l] # NoBlock, Counts(g, u)
  PROVE  LET h == [g EXCEPT ![l] = NoBlock]
             v == [u EXCEPT ![TileOf[l]] = @ - 1]
         IN  h \in Grids /\ v \in Usages /\ Counts(h, v)
<1> DEFINE h == [g EXCEPT ![l] = NoBlock]
           v == [u EXCEPT ![TileOf[l]] = @ - 1]
<1>1. TileOf[l] \in Tiles
  BY LocsAssumption
<1>2. h \in Grids
  BY DEF Grids
<1>3. Occupied(h, TileOf[l]) = Occupied(g, TileOf[l]) \ {l} /\ l \in Occupied(g, TileOf[l])
  BY DEF Occupied, Grids
<1>4. Cardinality(Occupied(h, TileOf[l])) = Cardinality(Occupied(g, TileOf[l])) - 1
  BY <1>3, OccupiedFinite, FS_RemoveElement
<1>5. \A t \in Tiles : t # TileOf[l] => Occupied(h, t) = Occupied(g, t)
  BY DEF Occupied, Grids
<1>6. v[TileOf[l]] = u[TileOf[l]] - 1 /\ \A t \in Tiles : t # TileOf[l] => v[t] = u[t]
  BY <1>1 DEF Usages
<1>7. Counts(h, v)
  BY <1>1, <1>4, <1>5, <1>6 DEF Counts
<1>8. \A t \in Tiles : v[t] \in Nat
  BY <1>7, OccupiedFinite DEF Counts
<1>9. v \in Usages
  BY <1>1, <1>6, <1>8 DEF Usages
<1> QED
  BY <1>2, <1>7, <1>9

\* So does putting one into a place that is free.
LEMMA Filled ==
  ASSUME NEW g \in Grids, NEW u \in Usages, NEW l \in Locs, NEW b \in Blocks,
         g[l] = NoBlock, Counts(g, u)
  PROVE  LET h == [g EXCEPT ![l] = b]
             v == [u EXCEPT ![TileOf[l]] = @ + 1]
         IN  h \in Grids /\ v \in Usages /\ Counts(h, v)
<1> DEFINE h == [g EXCEPT ![l] = b]
           v == [u EXCEPT ![TileOf[l]] = @ + 1]
<1>1. TileOf[l] \in Tiles /\ b # NoBlock
  BY LocsAssumption, BlocksAssumption
<1>2. h \in Grids
  BY DEF Grids
<1>3. Occupied(h, TileOf[l]) = Occupied(g, TileOf[l]) \union {l} /\ l \notin Occupied(g, TileOf[l])
  BY <1>1 DEF Occupied, Grids
<1>4. Cardinality(Occupied(h, TileOf[l])) = Cardinality(Occupied(g, TileOf[l])) + 1
  BY <1>3, OccupiedFinite, FS_AddElement
<1>5. \A t \in Tiles : t # TileOf[l] => Occupied(h, t) = Occupied(g, t)
  BY DEF Occupied, Grids
<1>6. v[TileOf[l]] = u[TileOf[l]] + 1 /\ \A t \in Tiles : t # TileOf[l] => v[t] = u[t]
  BY <1>1 DEF Usages
<1>7. Counts(h, v)
  BY <1>1, <1>4, <1>5, <1>6 DEF Counts
<1>8. v \in Usages
  BY <1>1 DEF Usages
<1> QED
  BY <1>2, <1>7, <1>8

\* Putting one over another changes no count.
LEMMA Replaced ==
  ASSUME NEW g \in Grids, NEW u \in Usages, NEW l \in Locs, NEW b \in Blocks,
         g[l] # NoBlock, Counts(g, u)
  PROVE  LET h == [g EXCEPT ![l] = b] IN h \in Grids /\ Counts(h, u)
<1> DEFINE h == [g EXCEPT ![l] = b]
<1>1. b # NoBlock
  BY BlocksAssumption
<1>2. \A t \in Tiles : Occupied(h, t) = Occupied(g, t)
  BY <1>1 DEF Occupied, Grids
<1> QED
  BY <1>2 DEF Grids, Counts

\* Loading the grid from a placement gives its inverse, with the usages that belong to it.
LEMMA Loaded ==
  ASSUME NEW f \in [Blocks -> Locs], OwnPlaces(f)
  PROVE  /\ LoadedGrid(f) \in Grids /\ LoadedUsage(f) \in Usages
         /\ SettledGrid(f, LoadedGrid(f)) /\ Counts(LoadedGrid(f), LoadedUsage(f))
<1> DEFINE g == LoadedGrid(f)
           On(t) == {b \in Blocks : TileOf[f[b]] = t}
<1>1. g \in Grids
  BY DEF LoadedGrid, Grids
<1>2. ASSUME NEW b \in Blocks PROVE g[f[b]] = b
  BY DEF LoadedGrid, OwnPlaces
<1>3. ASSUME NEW l \in Locs, g[l] # NoBlock PROVE g[l] \in Blocks /\ f[g[l]] = l
  BY <1>3 DEF LoadedGrid
<1>4. SettledGrid(f, g)
  BY <1>2, <1>3, BlocksAssumption DEF SettledGrid
<1>5. ASSUME NEW t \in Tiles
      PROVE  /\ Cardinality(On(t)) = Cardinality(Occupied(g, t))
             /\ Cardinality(On(t)) \in Nat
  <2> DEFINE F == [b \in On(t) |-> f[b]]
  <2>1. F \in [On(t) -> Occupied(g, t)]
    BY <1>2, BlocksAssumption DEF Occupied
  <2>2. \A a, b \in On(t) : F[a] = F[b] => a = b
    BY DEF OwnPlaces
  <2>3. \A l \in Occupied(g, t) : \E b \in On(t) : F[b] = l
    BY <1>3 DEF Occupied
  <2>4. F \in Bijection(On(t), Occupied(g, t))
    BY <2>1, <2>2, <2>3 DEF Bijection, Injection, Surjection, IsInjective
  <2>5. IsFiniteSet(On(t))
    BY BlocksAssumption, FS_Subset
  <2> QED
    BY <2>4, <2>5, FS_Bijection, FS_CardinalityType DEF ExistsBijection
<1>6. LoadedUsage(f) \in Usages
  BY <1>5 DEF LoadedUsage, Usages
<1> QED
  BY <1>1, <1>4, <1>5, <1>6 DEF LoadedUsage, Counts

-------------------------------------------------------------------------------
(* The inductive invariant *)

\* Between two moves
Settled == pc \in {"idle", "clear", "restored", "done"}

\* The move under way is one that IsProposal allowed.
Consistent ==
  /\ k \in DOMAIN moved
  /\ \A i, j \in DOMAIN moved :
       (\/ moved[i].block_num = moved[j].block_num
        \/ moved[i].old_loc = moved[j].old_loc
        \/ moved[i].new_loc = moved[j].new_loc) => i = j
  /\ \A b \in Blocks : ~IsRecorded(b) =>
       \A i \in DOMAIN moved : block_locs[b] \notin {moved[i].old_loc, moved[i].new_loc}

\* Which blocks of the move are at their new places in block_locs.
Reached(i) == CASE pc = "apply"  -> i < k
                [] pc = "revert" -> i >= k
                [] OTHER         -> TRUE

\* block_locs is as far as the phase of the move is.
Located ==
  \A i \in DOMAIN moved :
    block_locs[moved[i].block_num] = IF Reached(i) THEN moved[i].new_loc ELSE moved[i].old_loc

\* What the grid is when the moves before c are in it.
AtPlace(c) ==
  /\ \A i \in DOMAIN moved, l \in Locs :
       grid_blocks[l] = moved[i].block_num <=>
         IF i < c THEN l = moved[i].new_loc
                  ELSE l = moved[i].old_loc /\ \A j \in DOMAIN moved : j < c => moved[j].new_loc # l
  /\ \A b \in Blocks, l \in Locs : ~IsRecorded(b) => (grid_blocks[l] = b <=> block_locs[b] = l)

Committed == IF pc = "commit" THEN k ELSE 1

UnderWay == Consistent /\ Located /\ AtPlace(Committed) /\ (pc = "assess" => k = 1)

\* The inductive invariant of MoveTransaction
GridInv ==
  /\ TypeOK
  /\ Counts(grid_blocks, usage)
  /\ \A f \in saved : OwnPlaces(f)
  /\ Settled => k = 1 /\ SettledGrid(block_locs, grid_blocks)
  /\ ~Settled => UnderWay

LEMMA InverseOwnPlaces ==
  ASSUME NEW f \in [Blocks -> Locs], NEW g, SettledGrid(f, g)
  PROVE  OwnPlaces(f)
BY DEF SettledGrid, OwnPlaces

LEMMA GridInvInit == Init => GridInv
<1> SUFFICES ASSUME Init PROVE GridInv
  OBVIOUS
<1>1. /\ grid_blocks \in Grids /\ usage \in Usages
      /\ SettledGrid(block_locs, grid_blocks) /\ Counts(grid_blocks, usage)
  BY Loaded DEF Init
<1>2. TypeOK
  BY <1>1 DEF Init, TypeOK, Grids, Usages
<1> QED
  BY <1>1, <1>2 DEF Init, GridInv, Settled

\* The state while no block is at a place the grid does not know of.
Still ==
  /\ block_locs \in Placing /\ grid_blocks \in Grids /\ usage \in Usages /\ DOMAIN pins = Blocks
  /\ k = 1 /\ saved \subseteq Placing
  /\ SettledGrid(block_locs, grid_blocks) /\ Counts(grid_blocks, usage)
  /\ \A f \in saved : OwnPlaces(f)

\* However it was recorded, a move that IsProposal allows can be applied.
LEMMA ApplyBegins ==
  ASSUME Still, IsProposal(moved'), pc' = "apply",
         UNCHANGED <<block_locs, grid_blocks, usage, pins, k, saved>>
  PROVE  GridInv'
<1> USE DEF IsProposal
<1>1. /\ SettledGrid(block_locs, grid_blocks) /\ k = 1
      /\ OwnPlaces(block_locs)
      /\ block_locs \in [Blocks -> Locs] /\ grid_blocks \in [Locs -> Blocks \union {NoBlock}]
      /\ usage \in [Tiles -> Nat] /\ DOMAIN pins = Blocks /\ saved \subseteq [Blocks -> Locs]
      /\ Counts(grid_blocks, usage) /\ \A f \in saved : OwnPlaces(f)
  BY InverseOwnPlaces DEF Still, Placing, Grids, Usages
<1>2. /\ moved' \in Seq(Move) /\ moved' # <<>>
      /\ \A i \in DOMAIN moved' : moved'[i] \in Move
      /\ 1 \in DOMAIN moved' /\ k' \in DOMAIN moved'
  BY <1>1
<1>3. TypeOK'
  BY <1>1, <1>2 DEF TypeOK
<1>4. ASSUME NEW i \in DOMAIN moved', NEW j \in DOMAIN moved',
             moved'[i].old_loc = moved'[j].old_loc
      PROVE  i = j
  BY <1>1, <1>2, <1>4 DEF OwnPlaces, Move
<1>5. ASSUME NEW b \in Blocks, ~IsRecorded(b)', NEW i \in DOMAIN moved'
      PROVE  block_locs[b] \notin {moved'[i].old_loc, moved'[i].new_loc}
  <2>1. block_locs[b] # moved'[i].old_loc
    BY <1>1, <1>2, <1>5 DEF OwnPlaces, Move, IsRecorded
  <2>2. ASSUME block_locs[b] = moved'[i].new_loc PROVE FALSE
    <3>1. grid_blocks[moved'[i].new_loc] = b
      BY <1>1, <1>2, <2>2 DEF SettledGrid, Move
    <3> QED
      BY <3>1, <1>5, BlocksAssumption DEF IsRecorded
  <2> QED
    BY <2>1, <2>2
<1>6. Consistent'
  BY <1>2, <1>4, <1>5 DEF Consistent
<1>7. Located'
  BY <1>1 DEF Located, Reached
<1>8. AtPlace(1)'
  <2>1. ASSUME NEW i \in DOMAIN moved', NEW l \in Locs
        PROVE  grid_blocks[l] = moved'[i].block_num <=> l = moved'[i].old_loc
    BY <1>1, <1>2 DEF SettledGrid, Move
  <2>2. \A i \in DOMAIN moved' : ~(i < 1)
    BY <1>2
  <2> QED
    BY <1>1, <2>1, <2>2 DEF AtPlace, SettledGrid
<1>9. UnderWay'
  BY <1>6, <1>7, <1>8 DEF UnderWay, Committed
<1> QED
  BY <1>1, <1>3, <1>9 DEF GridInv, Settled, Counts

LEMMA ProposeStep == GridInv /\ Propose => GridInv'
<1> SUFFICES ASSUME GridInv, Propose PROVE GridInv'
  OBVIOUS
<1>1. Still
  BY DEF GridInv, Settled, Propose, TypeOK, Still, Placing, Grids, Usages
<1> QED
  BY <1>1, ApplyBegins DEF Propose

\* A step of a loop: the index it is at, and the index and the phase after it.
LEMMA IterateFacts ==
  ASSUME TypeOK, Consistent, NEW here, NEW next, Iterate(here, next)
  PROVE  /\ k \in 1 .. Len(moved) /\ Len(moved) \in Nat
         /\ moved[k] \in Move /\ \A i \in DOMAIN moved : moved[i] \in Move /\ i \in 1 .. Len(moved)
         /\ pc = here
         /\ \/ k = Len(moved) /\ pc' = next /\ k' = 1 /\ 1 \in DOMAIN moved
            \/ k < Len(moved) /\ pc' = here /\ k' = k + 1 /\ k + 1 \in DOMAIN moved
BY DEF TypeOK, Consistent, Iterate

LEMMA ApplyStep == GridInv /\ ApplyBlock => GridInv'
<1> SUFFICES ASSUME GridInv, ApplyBlock PROVE GridInv'
  OBVIOUS
<1> USE DEF ApplyBlock, Relocate
<1>1. /\ TypeOK /\ pc = "apply" /\ Consistent /\ Located /\ AtPlace(1)
      /\ Iterate("apply", "assess")
  BY DEF GridInv, Settled, Iterate, UnderWay, Committed
<1>2. /\ k \in 1 .. Len(moved) /\ Len(moved) \in Nat
      /\ moved[k] \in Move /\ \A i \in DOMAIN moved : moved[i] \in Move /\ i \in 1 .. Len(moved)
      /\ \/ k = Len(moved) /\ pc' = "assess" /\ k' = 1 /\ 1 \in DOMAIN moved
         \/ k < Len(moved) /\ pc' = "apply" /\ k' = k + 1 /\ k + 1 \in DOMAIN moved
  BY <1>1, IterateFacts
<1>3. /\ block_locs' \in [Blocks -> Locs]
      /\ block_locs'[moved[k].block_num] = moved[k].new_loc
      /\ \A b \in Blocks : b # moved[k].block_num => block_locs'[b] = block_locs[b]
  BY <1>1, <1>2 DEF TypeOK, Move
<1>4. TypeOK'
  <2>1. pc' \in {"assess", "apply"} /\ k' \in 1 .. Len(moved) + 1
    BY <1>2
  <2>2. DOMAIN pins' = Blocks
    BY <1>1 DEF TypeOK
  <2> QED
    BY <1>1, <1>3, <2>1, <2>2 DEF TypeOK
<1>5. Consistent'
  BY <1>1, <1>2, <1>3 DEF Consistent, IsRecorded
<1>6. Located'
  <2> SUFFICES ASSUME NEW i \in DOMAIN moved
               PROVE  block_locs'[moved[i].block_num] =
                        IF Reached(i)' THEN moved[i].new_loc ELSE moved[i].old_loc
    BY DEF Located
  <2>1. CASE i = k
    BY <1>2, <1>3, <2>1 DEF Reached
  <2>2. CASE i # k
    <3>1. moved[i].block_num # moved[k].block_num /\ moved[i].block_num \in Blocks
      BY <1>1, <1>2, <2>2 DEF Consistent, Move
    <3>2. Reached(i)' <=> Reached(i)
      BY <1>1, <1>2, <2>2 DEF Reached
    <3> QED
      BY <1>1, <1>3, <3>1, <3>2 DEF Located
  <2> QED
    BY <2>1, <2>2
<1>7. AtPlace(1)'
  BY <1>1, <1>2, <1>3 DEF AtPlace, IsRecorded, Consistent
<1>8. UnderWay'
  BY <1>2, <1>5, <1>6, <1>7 DEF UnderWay, Committed
<1> QED
  BY <1>2, <1>4, <1>8 DEF GridInv, Settled

LEMMA AssessStep == GridInv /\ Assess => GridInv'
<1> SUFFICES ASSUME GridInv, Assess PROVE GridInv'
  OBVIOUS
<1> USE DEF Assess
<1>1. TypeOK /\ Consistent /\ Located /\ AtPlace(1) /\ k = 1 /\ pc = "assess"
  BY DEF GridInv, Settled, UnderWay, Committed
<1>2. TypeOK'
  BY <1>1 DEF TypeOK
<1>3. \A i \in DOMAIN moved : i \in Nat /\ i >= 1
  BY <1>1 DEF TypeOK
<1>4. Consistent' /\ AtPlace(1)'
  BY <1>1 DEF Consistent, AtPlace, IsRecorded
<1>5. Located'
  BY <1>1, <1>3 DEF Located, Reached
<1>6. UnderWay'
  BY <1>1, <1>4, <1>5 DEF UnderWay, Committed
<1> QED
  BY <1>2, <1>6 DEF GridInv, Settled

LEMMA RevertStep == GridInv /\ RevertBlock => GridInv'
<1> SUFFICES ASSUME GridInv, RevertBlock PROVE GridInv'
  OBVIOUS
<1>1. /\ TypeOK /\ pc = "revert" /\ Consistent /\ Located /\ AtPlace(1)
      /\ Iterate("revert", "clear")
  BY DEF GridInv, Settled, Iterate, UnderWay, Committed, RevertBlock
<1>2. /\ k \in 1 .. Len(moved) /\ Len(moved) \in Nat
      /\ moved[k] \in Move /\ \A i \in DOMAIN moved : moved[i] \in Move /\ i \in 1 .. Len(moved)
      /\ \/ k = Len(moved) /\ pc' = "clear" /\ k' = 1 /\ 1 \in DOMAIN moved
         \/ k < Len(moved) /\ pc' = "revert" /\ k' = k + 1 /\ k + 1 \in DOMAIN moved
  BY <1>1, IterateFacts
<1>3. /\ block_locs' \in [Blocks -> Locs]
      /\ block_locs'[moved[k].block_num] = moved[k].old_loc
      /\ \A b \in Blocks : b # moved[k].block_num => block_locs'[b] = block_locs[b]
      /\ UNCHANGED <<grid_blocks, usage, moved, saved>>
  BY <1>1, <1>2 DEF TypeOK, Move, RevertBlock, Relocate
<1>4. TypeOK'
  <2>1. pc' \in {"clear", "revert"} /\ k' \in 1 .. Len(moved) + 1
    BY <1>2
  <2>2. DOMAIN pins' = Blocks
    BY <1>1 DEF TypeOK, RevertBlock, Relocate
  <2> QED
    BY <1>1, <1>3, <2>1, <2>2 DEF TypeOK
<1>5. ASSUME NEW i \in DOMAIN moved
      PROVE  block_locs'[moved[i].block_num] = IF i > k THEN moved[i].new_loc ELSE moved[i].old_loc
  <2>1. CASE i = k
    <3>1. ~(i > k)
      BY <1>2, <2>1
    <3> QED
      BY <1>3, <2>1, <3>1
  <2>2. CASE i # k
    <3>1. moved[i].block_num # moved[k].block_num /\ moved[i].block_num \in Blocks
      BY <1>1, <1>2, <2>2 DEF Consistent, Move
    <3>2. block_locs[moved[i].block_num] = IF i >= k THEN moved[i].new_loc ELSE moved[i].old_loc
      BY <1>1 DEF Located, Reached
    <3>3. i > k <=> i >= k
      BY <1>2, <2>2
    <3> QED
      BY <1>3, <3>1, <3>2, <3>3
  <2> QED
    BY <2>1, <2>2
<1>6. CASE k < Len(moved)
  <2>1. Consistent'
    BY <1>1, <1>2, <1>3, <1>6 DEF Consistent, IsRecorded
  <2>2. Located'
    BY <1>2, <1>3, <1>5, <1>6 DEF Located, Reached
  <2>3. AtPlace(1)'
    BY <1>1, <1>2, <1>3 DEF AtPlace, IsRecorded, Consistent
  <2>4. UnderWay'
    BY <1>2, <1>6, <2>1, <2>2, <2>3 DEF UnderWay, Committed
  <2> QED
    BY <1>2, <1>3, <1>4, <1>6, <2>4 DEF GridInv, Settled, Counts
<1>7. CASE k = Len(moved)
  <2>1. \A i \in DOMAIN moved : block_locs'[moved[i].block_num] = moved[i].old_loc
    BY <1>2, <1>5, <1>7
  <2>2. ASSUME NEW b \in Blocks, NEW l \in Locs
        PROVE  grid_blocks[l] = b <=> block_locs'[b] = l
    <3>1. CASE IsRecorded(b)
      <4>1. PICK i \in DOMAIN moved : moved[i].block_num = b
        BY <3>1 DEF IsRecorded
      <4>2. ~(i < 1) /\ \A j \in DOMAIN moved : ~(j < 1)
        BY <1>2
      <4>3. grid_blocks[l] = b <=> l = moved[i].old_loc
        BY <1>1, <4>1, <4>2 DEF AtPlace
      <4> QED
        BY <2>1, <4>1, <4>3
    <3>2. CASE ~IsRecorded(b)
      BY <1>1, <1>2, <1>3, <3>2 DEF AtPlace, IsRecorded, Consistent
    <3> QED
      BY <3>1, <3>2
  <2>3. SettledGrid(block_locs', grid_blocks')
    BY <1>3, <2>2 DEF SettledGrid
  <2> QED
    BY <1>2, <1>3, <1>4, <1>7, <2>3 DEF GridInv, Settled, Counts
<1> QED
  BY <1>2, <1>6, <1>7

\* One step of commit_move_blocks, on the grid
LEMMA CommitGrid ==
  ASSUME TypeOK, Consistent, Counts(grid_blocks, usage), CommitBlock
  PROVE  /\ grid_blocks' \in Grids /\ usage' \in Usages /\ Counts(grid_blocks', usage')
         /\ grid_blocks'[moved[k].new_loc] = moved[k].block_num
         /\ \A l \in Locs \ {moved[k].new_loc} :
              grid_blocks'[l] =
                IF l = moved[k].old_loc /\ grid_blocks[l] = moved[k].block_num
                  THEN NoBlock ELSE grid_blocks[l]
<1> DEFINE m       == moved[k]
           leaving == grid_blocks[m.old_loc] = m.block_num
           g == IF leaving THEN [grid_blocks EXCEPT ![m.old_loc] = NoBlock] ELSE grid_blocks
           u == IF leaving THEN [usage EXCEPT ![TileOf[m.old_loc]] = @ - 1] ELSE usage
<1>1. /\ m.block_num \in Blocks /\ m.old_loc \in Locs /\ m.new_loc \in Locs
      /\ m.block_num # NoBlock /\ grid_blocks \in Grids /\ usage \in Usages
  <2>1. m \in Move
    BY DEF TypeOK, Consistent
  <2> QED
    BY <2>1, BlocksAssumption DEF TypeOK, Move, Grids, Usages
<1>2. g \in Grids /\ u \in Usages /\ Counts(g, u)
  <2>1. CASE leaving
    BY <1>1, <2>1, PlaceEmptied
  <2>2. CASE ~leaving
    BY <1>1, <2>2
  <2> QED
    BY <2>1, <2>2
<1>3. /\ usage' = IF g[m.new_loc] = NoBlock THEN [u EXCEPT ![TileOf[m.new_loc]] = @ + 1] ELSE u
      /\ grid_blocks' = [g EXCEPT ![m.new_loc] = m.block_num]
  BY DEF CommitBlock
<1>4. grid_blocks' \in Grids /\ usage' \in Usages /\ Counts(grid_blocks', usage')
  <2> HIDE DEF m, g, u
  <2>1. CASE g[m.new_loc] = NoBlock
    BY <1>1, <1>2, <1>3, <2>1, Filled
  <2>2. CASE g[m.new_loc] # NoBlock
    BY <1>1, <1>2, <1>3, <2>2, Replaced
  <2> QED
    BY <2>1, <2>2
<1>5. \A l \in Locs : g[l] = IF l = m.old_loc /\ leaving THEN NoBlock ELSE grid_blocks[l]
  BY <1>1 DEF Grids
<1>6. \A l \in Locs : grid_blocks'[l] = IF l = m.new_loc THEN m.block_num ELSE g[l]
  BY <1>1, <1>2, <1>3 DEF Grids
<1> HIDE DEF g
<1> QED
  BY <1>1, <1>4, <1>5, <1>6

\* After that step the grid is as AtPlace says for the next index.
LEMMA CommitPlaces ==
  ASSUME TypeOK, Consistent, Counts(grid_blocks, usage), AtPlace(k), CommitBlock
  PROVE  /\ \A i \in DOMAIN moved, l \in Locs :
              grid_blocks'[l] = moved[i].block_num <=>
                IF i < k + 1 THEN l = moved[i].new_loc
                ELSE l = moved[i].old_loc /\ \A j \in DOMAIN moved : j < k + 1 => moved[j].new_loc # l
         /\ \A b \in Blocks, l \in Locs :
              ~IsRecorded(b) => (grid_blocks'[l] = b <=> block_locs[b] = l)
<1>1. /\ grid_blocks'[moved[k].new_loc] = moved[k].block_num
      /\ \A l \in Locs \ {moved[k].new_loc} :
           grid_blocks'[l] = IF l = moved[k].old_loc /\ grid_blocks[l] = moved[k].block_num
                               THEN NoBlock ELSE grid_blocks[l]
  BY CommitGrid
<1>2. /\ k \in DOMAIN moved /\ k \in Nat
      /\ \A i \in DOMAIN moved : moved[i] \in Move /\ i \in Nat
  BY DEF TypeOK, Consistent
<1>3. \A i \in DOMAIN moved : i # k => /\ moved[i].block_num # moved[k].block_num
                                       /\ moved[i].old_loc # moved[k].old_loc
                                       /\ moved[i].new_loc # moved[k].new_loc
  BY <1>2 DEF Consistent
<1>4. \A i \in DOMAIN moved : /\ moved[i].block_num \in Blocks /\ moved[i].block_num # NoBlock
                              /\ moved[i].old_loc \in Locs /\ moved[i].new_loc \in Locs
  BY <1>2, BlocksAssumption DEF Move
<1>5. ASSUME NEW i \in DOMAIN moved, NEW l \in Locs
      PROVE  grid_blocks'[l] = moved[i].block_num <=>
               IF i < k + 1 THEN l = moved[i].new_loc
               ELSE l = moved[i].old_loc /\ \A j \in DOMAIN moved : j < k + 1 => moved[j].new_loc # l
  <2>1. grid_blocks[l] = moved[i].block_num <=>
          IF i < k THEN l = moved[i].new_loc
          ELSE l = moved[i].old_loc /\ \A j \in DOMAIN moved : j < k => moved[j].new_loc # l
    BY DEF AtPlace
  <2>2. \A j \in DOMAIN moved : j < k + 1 <=> j < k \/ j = k
    BY <1>2
  <2>3. CASE i = k
    <3>1. ASSUME l # moved[k].new_loc PROVE grid_blocks'[l] # moved[k].block_num
      <4>1. grid_blocks[l] = moved[k].block_num => l = moved[k].old_loc
        BY <1>2, <2>1, <2>3
      <4> QED
        BY <1>1, <1>2, <1>4, <3>1, <4>1
    <3> QED
      BY <1>1, <1>2, <2>2, <2>3, <3>1
  <2>4. CASE i # k
    <3>1. CASE l = moved[k].new_loc
      BY <1>1, <1>2, <1>3, <2>2, <2>4, <3>1
    <3>2. CASE l # moved[k].new_loc
      <4>1. grid_blocks'[l] = moved[i].block_num <=> grid_blocks[l] = moved[i].block_num
        BY <1>1, <1>3, <1>4, <2>4, <3>2
      <4> QED
        BY <1>2, <2>1, <2>2, <2>4, <3>2, <4>1
    <3> QED
      BY <3>1, <3>2
  <2> QED
    BY <2>3, <2>4
<1>6. ASSUME NEW b \in Blocks, ~IsRecorded(b), NEW l \in Locs
      PROVE  grid_blocks'[l] = b <=> block_locs[b] = l
  <2>1. grid_blocks[l] = b <=> block_locs[b] = l
    BY <1>6 DEF AtPlace
  <2>2. b # moved[k].block_num /\ b # NoBlock /\ block_locs[b] # moved[k].new_loc
    BY <1>2, <1>6, BlocksAssumption DEF IsRecorded, Consistent
  <2> QED
    BY <1>1, <2>1, <2>2
<1> QED
  BY <1>5, <1>6

LEMMA CommitStep == GridInv /\ CommitBlock => GridInv'
<1> SUFFICES ASSUME GridInv, CommitBlock PROVE GridInv'
  OBVIOUS
<1>1. /\ TypeOK /\ pc = "commit" /\ Consistent /\ Located /\ AtPlace(k)
      /\ Iterate("commit", "clear") /\ Counts(grid_blocks, usage)
  BY DEF GridInv, Settled, Iterate, UnderWay, Committed, CommitBlock
<1>2. /\ k \in 1 .. Len(moved) /\ Len(moved) \in Nat
      /\ moved[k] \in Move /\ \A i \in DOMAIN moved : moved[i] \in Move /\ i \in 1 .. Len(moved)
      /\ \/ k = Len(moved) /\ pc' = "clear" /\ k' = 1 /\ 1 \in DOMAIN moved
         \/ k < Len(moved) /\ pc' = "commit" /\ k' = k + 1 /\ k + 1 \in DOMAIN moved
  BY <1>1, IterateFacts
<1>3. UNCHANGED <<block_locs, pins, moved, saved>>
  BY DEF CommitBlock
<1>4. grid_blocks' \in Grids /\ usage' \in Usages /\ Counts(grid_blocks', usage')
  BY <1>1, CommitGrid
<1>5. TypeOK'
  <2>1. pc' \in {"clear", "commit"} /\ k' \in 1 .. Len(moved) + 1
    BY <1>2
  <2> QED
    BY <1>1, <1>3, <1>4, <2>1 DEF TypeOK, Grids, Usages
<1>6. CASE k < Len(moved)
  <2>1. Consistent' /\ Located'
    BY <1>1, <1>2, <1>3, <1>6 DEF Consistent, Located, Reached, IsRecorded
  <2>2. AtPlace(k)'
    <3>1. k' = k + 1
      BY <1>2, <1>6
    <3>2. \A b \in Blocks : IsRecorded(b)' <=> IsRecorded(b)
      BY <1>3 DEF IsRecorded
    <3> QED
      BY <1>1, <1>3, <3>1, <3>2, CommitPlaces DEF AtPlace
  <2>3. UnderWay'
    BY <1>2, <1>6, <2>1, <2>2 DEF UnderWay, Committed
  <2> QED
    BY <1>2, <1>3, <1>4, <1>5, <1>6, <2>3 DEF GridInv, Settled
<1>7. CASE k = Len(moved)
  <2>1. ASSUME NEW b \in Blocks, NEW l \in Locs
        PROVE  grid_blocks'[l] = b <=> block_locs[b] = l
    <3>1. CASE IsRecorded(b)
      <4>1. PICK i \in DOMAIN moved : moved[i].block_num = b
        BY <3>1 DEF IsRecorded
      <4>2. i < k + 1
        BY <1>2, <1>7
      <4>3. block_locs[b] = moved[i].new_loc
        BY <1>1, <4>1 DEF Located, Reached
      <4>4. grid_blocks'[l] = moved[i].block_num <=> l = moved[i].new_loc
        BY <1>1, <4>2, CommitPlaces
      <4> QED
        BY <4>1, <4>3, <4>4
    <3>2. CASE ~IsRecorded(b)
      BY <1>1, <3>2, CommitPlaces
    <3> QED
      BY <3>1, <3>2
  <2>2. SettledGrid(block_locs', grid_blocks')
    BY <1>3, <2>1 DEF SettledGrid
  <2> QED
    BY <1>2, <1>3, <1>4, <1>5, <1>7, <2>2 DEF GridInv, Settled
<1> QED
  BY <1>2, <1>6, <1>7

\* The steps between moves
LEMMA SettledStep ==
  ASSUME GridInv, AbortProposal \/ ClearMove \/ SaveCheckpoint \/ SyncPins \/ UNCHANGED vars
  PROVE  GridInv'
<1>1. TypeOK
  BY DEF GridInv
<1>2. CASE AbortProposal
  <2>1. TypeOK'
    BY <1>1, <1>2 DEF AbortProposal, GridInv, Settled, TypeOK
  <2> QED
    BY <1>2, <2>1 DEF AbortProposal, GridInv, Settled, Counts, SettledGrid
<1>3. CASE ClearMove
  <2>1. TypeOK'
    BY <1>1, <1>3 DEF ClearMove, GridInv, Settled, TypeOK, Move
  <2> QED
    BY <1>3, <2>1 DEF ClearMove, GridInv, Settled, Counts, SettledGrid
<1>4. CASE SaveCheckpoint
  <2>1. TypeOK'
    BY <1>1, <1>4 DEF SaveCheckpoint, TypeOK
  <2>2. OwnPlaces(block_locs)
    BY <1>1, <1>4, InverseOwnPlaces DEF SaveCheckpoint, GridInv, Settled, TypeOK
  <2> QED
    BY <1>4, <2>1, <2>2 DEF SaveCheckpoint, GridInv, Settled, Counts, SettledGrid
<1>5. CASE SyncPins
  <2>1. TypeOK'
    BY <1>1, <1>5 DEF SyncPins, TypeOK
  <2> QED
    BY <1>5, <2>1 DEF SyncPins, GridInv, Settled, Counts, SettledGrid
<1>6. CASE UNCHANGED vars
  <2>1. TypeOK'
    BY <1>1, <1>6 DEF vars, TypeOK
  <2>2. UnderWay' <=> UnderWay
    BY <1>6 DEF vars, UnderWay, Consistent, Located, Reached, AtPlace, Committed, IsRecorded
  <2> QED
    BY <1>6, <2>1, <2>2 DEF vars, GridInv, Settled, Counts, SettledGrid
<1> QED
  BY <1>2, <1>3, <1>4, <1>5, <1>6

LEMMA RestoreStep == GridInv /\ RestoreCheckpoint => GridInv'
<1> SUFFICES ASSUME GridInv, RestoreCheckpoint PROVE GridInv'
  OBVIOUS
<1>1. TypeOK /\ k = 1 /\ \A f \in saved : OwnPlaces(f)
  BY DEF GridInv, Settled, RestoreCheckpoint
<1>2. PICK f \in saved : /\ block_locs' = f
                         /\ grid_blocks' = LoadedGrid(f) /\ usage' = LoadedUsage(f)
  BY DEF RestoreCheckpoint
<1>3. f \in [Blocks -> Locs] /\ OwnPlaces(f)
  BY <1>1 DEF TypeOK
<1>4. /\ grid_blocks' \in Grids /\ usage' \in Usages
      /\ SettledGrid(block_locs', grid_blocks') /\ Counts(grid_blocks', usage')
  BY <1>2, <1>3, Loaded
<1>5. pc' = "restored" /\ UNCHANGED <<pins, moved, k, saved>>
  BY DEF RestoreCheckpoint
<1>6. TypeOK'
  BY <1>1, <1>2, <1>3, <1>4, <1>5 DEF TypeOK, Grids, Usages
<1> QED
  BY <1>1, <1>4, <1>5, <1>6 DEF GridInv, Settled

\* The invariant above holds in every state, whatever moves are proposed.
THEOREM GridInvariant == Spec => []GridInv
<1>1. ASSUME GridInv, [Next]_vars PROVE GridInv'
  <2>1. CASE Propose
    BY <1>1, <2>1, ProposeStep
  <2>2. CASE ApplyBlock
    BY <1>1, <2>2, ApplyStep
  <2>3. CASE Assess
    BY <1>1, <2>3, AssessStep
  <2>4. CASE CommitBlock
    BY <1>1, <2>4, CommitStep
  <2>5. CASE RevertBlock
    BY <1>1, <2>5, RevertStep
  <2>6. CASE RestoreCheckpoint
    BY <1>1, <2>6, RestoreStep
  <2>7. CASE AbortProposal \/ ClearMove \/ SaveCheckpoint \/ SyncPins \/ UNCHANGED vars
    BY <1>1, <2>7, SettledStep
  <2> QED
    BY <1>1, <2>1, <2>2, <2>3, <2>4, <2>5, <2>6, <2>7 DEF Next, Transaction, Terminated
<1> QED
  BY GridInvInit, <1>1, PTL DEF Spec

-------------------------------------------------------------------------------
(* The theorems *)

\* Every variable keeps its type; in particular the usage of a tile, which the code
\* counts down and up, never goes below zero.
THEOREM TypeCorrect == Spec => []TypeOK
BY GridInvariant, PTL DEF GridInv

\* After every move, accepted, rejected or given up, and after a checkpoint is restored,
\* the grid is the inverse of the block locations: no block is lost or doubled, however
\* the blocks of the move stood in each other's places.
THEOREM GridStaysInverse == Spec => []GridIsInverse
<1>1. GridInv => GridIsInverse
  BY DEF GridInv, GridIsInverse, Settled, SettledGrid
<1> QED
  BY GridInvariant, <1>1, PTL

\* The usage of a tile counts its places that are taken, at every step of a commit.
THEOREM UsageStaysCounted == Spec => []UsageCounts
<1>1. GridInv => UsageCounts
  BY DEF GridInv, UsageCounts, Counts
<1> QED
  BY GridInvariant, <1>1, PTL

\* A block has pins of the type of tile it is on, although they are computed anew only
\* when a move changes the type: the place a move goes from is the one the block is at.
PinInv == pc # "restored" => \A b \in Blocks : pins[b].kind = Kind[TileOf[block_locs[b]]]

\* Taking a block to another place keeps that, if it was at the place named.
LEMMA RelocatePins ==
  ASSUME TypeOK, PinInv, pc # "restored", NEW b \in Blocks, NEW to \in Locs,
         Relocate(b, block_locs[b], to)
  PROVE  PinInv'
<1>1. /\ block_locs'[b] = to /\ \A a \in Blocks : a # b => block_locs'[a] = block_locs[a]
      /\ \A a \in Blocks : a # b => pins'[a] = pins[a]
  BY DEF Relocate, TypeOK
<1>2. pins'[b].kind = Kind[TileOf[to]]
  <2>1. PinsAt(to).kind = Kind[TileOf[to]]
    BY DEF PinsAt
  <2>2. pins[b].kind = Kind[TileOf[block_locs[b]]]
    BY DEF PinInv
  <2>3. CASE Kind[TileOf[block_locs[b]]] # Kind[TileOf[to]]
    BY <2>1, <2>3 DEF Relocate, TypeOK
  <2>4. CASE Kind[TileOf[block_locs[b]]] = Kind[TileOf[to]]
    BY <2>2, <2>4 DEF Relocate
  <2> QED
    BY <2>3, <2>4
<1> QED
  BY <1>1, <1>2 DEF PinInv

\* No step breaks that.
LEMMA PinsStep ==
  ASSUME GridInv, PinInv, [Next]_vars
  PROVE  PinInv'
<1>1. TypeOK
  BY DEF GridInv
<1>2. CASE ApplyBlock
  <2>1. /\ moved[k].block_num \in Blocks /\ moved[k].new_loc \in Locs /\ pc # "restored"
        /\ block_locs[moved[k].block_num] = moved[k].old_loc
    <3>1. Located /\ k \in DOMAIN moved /\ pc = "apply"
      BY <1>2 DEF ApplyBlock, Iterate, GridInv, Settled, UnderWay, Consistent
    <3>2. moved[k] \in Move /\ ~Reached(k)
      BY <1>1, <3>1 DEF TypeOK, Reached
    <3> QED
      BY <3>1, <3>2 DEF Located, Move
  <2> QED
    BY <1>1, <1>2, <2>1, RelocatePins DEF ApplyBlock
<1>3. CASE RevertBlock
  <2>1. /\ moved[k].block_num \in Blocks /\ moved[k].old_loc \in Locs /\ pc # "restored"
        /\ block_locs[moved[k].block_num] = moved[k].new_loc
    <3>1. Located /\ k \in DOMAIN moved /\ pc = "revert"
      BY <1>3 DEF RevertBlock, Iterate, GridInv, Settled, UnderWay, Consistent
    <3>2. moved[k] \in Move /\ Reached(k)
      BY <1>1, <3>1 DEF TypeOK, Reached
    <3> QED
      BY <3>1, <3>2 DEF Located, Move
  <2> QED
    BY <1>1, <1>3, <2>1, RelocatePins DEF RevertBlock
<1>4. CASE SyncPins
  BY <1>4 DEF SyncPins, PinInv, PinsAt
<1>5. CASE RestoreCheckpoint
  BY <1>5 DEF RestoreCheckpoint, PinInv
<1>6. CASE \/ Propose \/ AbortProposal \/ Assess \/ CommitBlock \/ ClearMove
           \/ SaveCheckpoint \/ UNCHANGED vars
  <2>1. UNCHANGED <<block_locs, pins>> /\ (pc = "restored" => pc' = "restored")
    BY <1>6 DEF Propose, AbortProposal, Assess, CommitBlock, Iterate, ClearMove,
                SaveCheckpoint, vars
  <2> QED
    BY <2>1 DEF PinInv
<1> QED
  BY <1>2, <1>3, <1>4, <1>5, <1>6 DEF Next, Transaction, Terminated

LEMMA PinsBegin == Init => PinInv
BY DEF Init, PinInv, PinsAt

\* Whatever moves are proposed, accepted and rejected, the pins of a block are those of
\* the type of tile it is on.
THEOREM PinsStayMatched == Spec => []PinsMatchTile
<1>1. PinInv => PinsMatchTile
  BY DEF PinInv, PinsMatchTile
<1>2. GridInv /\ PinInv /\ [Next]_vars => PinInv'
  BY PinsStep
<1> QED
  BY GridInvariant, PinsBegin, <1>1, <1>2, PTL DEF Spec

-------------------------------------------------------------------------------
(* Offsets *)

Zero == [x |-> 0, y |-> 0, sub |-> 0]

\* What the provers need of places and offsets: they are records of three integers,
\* and + and - on them are those of a commutative group.
LEMMA VectorIsRecord ==
  ASSUME NEW l \in Vectors
  PROVE  l = [x |-> l.x, y |-> l.y, sub |-> l.sub] /\ l.x \in Int /\ l.y \in Int /\ l.sub \in Int
BY DEF Vectors

LEMMA VectorTypes ==
  ASSUME NEW l \in Vectors, NEW o \in Vectors
  PROVE  Plus(l, o) \in Vectors /\ Minus(l, o) \in Vectors /\ Opposite(o) \in Vectors
BY DEF Vectors, Plus, Minus, Opposite

LEMMA PlusOpposite ==
  ASSUME NEW l \in Vectors, NEW o \in Vectors
  PROVE  Plus(Plus(l, o), Opposite(o)) = l /\ Opposite(Opposite(o)) = o
BY VectorIsRecord DEF Plus, Opposite

LEMMA PlusMinus ==
  ASSUME NEW l \in Vectors, NEW n \in Vectors
  PROVE  Plus(l, Minus(n, l)) = n
BY VectorIsRecord DEF Plus, Minus

LEMMA PlusInjective ==
  ASSUME NEW l \in Vectors, NEW n \in Vectors, NEW o \in Vectors, NEW p \in Vectors
  PROVE  /\ Plus(l, o) = Plus(l, p) => o = p
         /\ Plus(l, o) = Plus(n, o) => l = n
<1>1. /\ Minus(Plus(l, o), l) = o /\ Minus(Plus(l, p), l) = p
      /\ Minus(Plus(l, o), o) = l /\ Minus(Plus(n, o), o) = n
  BY VectorIsRecord DEF Plus, Minus
<1> QED
  BY <1>1

LEMMA PlusZero ==
  ASSUME NEW l \in Vectors, NEW o \in Vectors
  PROVE  Plus(l, o) = l <=> o = Zero
<1>1. Minus(Plus(l, o), l) = o /\ Minus(l, l) = Zero
  BY VectorIsRecord DEF Plus, Minus, Zero
<1>2. Plus(l, Zero) = l
  BY VectorIsRecord DEF Plus, Zero
<1> QED
  BY <1>1, <1>2

LEMMA OppositeZero ==
  ASSUME NEW o \in Vectors, o # Zero
  PROVE  Opposite(o) # Zero
<1>1. Opposite(Zero) = Zero
  BY DEF Opposite, Zero
<1> QED
  BY <1>1, PlusOpposite

LEMMA PlusCommutes ==
  ASSUME NEW l \in Vectors, NEW o \in Vectors, NEW p \in Vectors
  PROVE  /\ Plus(Plus(l, o), p) = Plus(Plus(l, p), o)
         /\ Plus(l, Plus(o, p)) = Plus(Plus(l, o), p)
         /\ Plus(o, p) = Plus(p, o)
BY VectorIsRecord DEF Plus

-------------------------------------------------------------------------------
(* Macros *)

\* A block is a member of one macro, once.
LEMMA MemberTypes ==
  ASSUME NEW m \in Macros
  PROVE  /\ Members[m] \in Seq(Blocks) /\ Len(Members[m]) \in Nat /\ Len(Members[m]) >= 1
         /\ DOMAIN Members[m] = 1 .. Len(Members[m]) /\ 1 \in DOMAIN Members[m]
         /\ \A i \in DOMAIN Members[m] : i \in Nat /\ i >= 1 /\ Members[m][i] \in Blocks
BY MacrosAssumption

LEMMA MembersDiffer ==
  ASSUME NEW m \in Macros, NEW n \in Macros, NEW i \in DOMAIN Members[m], NEW j \in DOMAIN Members[n],
         Members[m][i] = Members[n][j]
  PROVE  m = n /\ i = j
BY MacrosAssumption

\* get_imacro_from_iblk finds the macro of a member, and nothing for any other block.
LEMMA MacroOfMember ==
  ASSUME NEW m \in Macros, NEW i \in DOMAIN Members[m]
  PROVE  MacroOf(Members[m][i]) = m
<1>1. IsMember(Members[m][i], m)
  BY DEF IsMember
<1>2. \A n \in Macros : IsMember(Members[m][i], n) => n = m
  BY MembersDiffer DEF IsMember
<1> QED
  BY <1>1, <1>2 DEF MacroOf

LEMMA MacroOfOther ==
  ASSUME NEW b
  PROVE  \/ MacroOf(b) = NoMacro /\ \A m \in Macros : \A i \in DOMAIN Members[m] : Members[m][i] # b
         \/ MacroOf(b) \in Macros /\ \E i \in DOMAIN Members[MacroOf(b)] : Members[MacroOf(b)][i] = b
<1>1. CASE \E m \in Macros : IsMember(b, m)
  BY <1>1 DEF MacroOf, IsMember
<1>2. CASE ~\E m \in Macros : IsMember(b, m)
  BY <1>2 DEF MacroOf, IsMember
<1> QED
  BY <1>1, <1>2

-------------------------------------------------------------------------------
(* A placement f against the one of the blocks, loc *)

\* Block b moves; it moves by offset o.
Moves(loc, f, b) == f[b] # loc[b]
By(loc, f, b, o) == f[b] = Plus(loc[b], o)

\* Who takes the place of another block gives it its own.
Swaps(loc, f) ==
  \A b, c \in Blocks : Moves(loc, f, b) /\ f[b] = loc[c] => f[c] = loc[b]
\* No fixed block moves, and each goes to a place it fits on.
Allowed(loc, f) ==
  \A b \in Blocks : Moves(loc, f, b) => b \notin Fixed /\ Fits(b, f[b])
\* Of a macro the members move from the head on.
InOrder(loc, f) ==
  \A m \in Macros : \A i, j \in DOMAIN Members[m] :
    i < j /\ Moves(loc, f, Members[m][j]) => Moves(loc, f, Members[m][i])
\* All members of a macro that move go the same way.
Together(loc, f) ==
  \A m \in Macros : \A i, j \in DOMAIN Members[m] : \A o \in Vectors :
    Moves(loc, f, Members[m][i]) /\ Moves(loc, f, Members[m][j])
      => (By(loc, f, Members[m][i], o) => By(loc, f, Members[m][j], o))

Call == [macro: Macros, next: Nat, offset: Vectors]

\* Every member the call has to take is on its way by the offset of the call.
Done(loc, f, c) == \A i \in DOMAIN Members[c.macro] : By(loc, f, Members[c.macro][i], c.offset)
Walked(loc, f, c) ==
  \A i \in DOMAIN Members[c.macro] : i < c.next => By(loc, f, Members[c.macro][i], c.offset)
\* Nobody has moved the member a call is at, unless it is the head.
Untouched(loc, f, c) ==
  c.next \in DOMAIN Members[c.macro] /\ c.next > 1 => ~Moves(loc, f, Members[c.macro][c.next])
Whole(loc, f, m) == \A i \in DOMAIN Members[m] : Moves(loc, f, Members[m][i])
\* A call that takes all members of macro m that move
Takes(loc, f, c, m) ==
  /\ c.macro = m
  /\ \A i \in DOMAIN Members[m] : Moves(loc, f, Members[m][i]) => By(loc, f, Members[m][i], c.offset)
\* A macro that moves does so as a whole, or some call carries it along.
Carried(loc, f, cs) ==
  \A m \in Macros : \A i \in DOMAIN Members[m] :
    Moves(loc, f, Members[m][i]) => Whole(loc, f, m) \/ \E t \in DOMAIN cs : Takes(loc, f, cs[t], m)
\* The member call c is at lands on the macro that the next call e moves the other way.
Blocked(loc, f, c, e) ==
  /\ c.next \in DOMAIN Members[c.macro] /\ e.offset = Opposite(c.offset)
  /\ ~By(loc, f, Members[c.macro][c.next], c.offset)
  /\ \E j \in DOMAIN Members[e.macro] :
       Plus(loc[Members[c.macro][c.next]], c.offset) = loc[Members[e.macro][j]]
\* Call t will have taken all members of its macro: it has, or a later call of the same
\* macro and offset does it, or the next call moves the macro that is in its way.
Will(loc, f, cs, t) ==
  \/ Done(loc, f, cs[t])
  \/ \E u \in DOMAIN cs : u > t /\ cs[u].macro = cs[t].macro /\ cs[u].offset = cs[t].offset
  \/ Blocked(loc, f, cs[t], cs[t + 1])
\* The head of the macro has been taken along by the call below: this one gets
\* nowhere, as no block is recorded twice.
Doomed(loc, f, c) == c.next = 1 /\ By(loc, f, Members[c.macro][1], c.offset)

\* What holds of the calls at any time
Calls(cs) ==
  /\ cs \in Seq(Call) /\ cs # <<>>
  /\ \A t \in DOMAIN cs : cs[t].offset # Zero /\ cs[t].next \in 1 .. Len(Members[cs[t].macro]) + 1

\* The part of the invariant that every phase of the walk shares
Walk(loc, f, cs) ==
  /\ Swaps(loc, f) /\ OwnPlaces(f) /\ Allowed(loc, f) /\ InOrder(loc, f) /\ Together(loc, f)
  /\ Calls(cs) /\ Carried(loc, f, cs) /\ \A t \in DOMAIN cs : Walked(loc, f, cs[t])

LEMMA CallTypes ==
  ASSUME NEW cs, Calls(cs)
  PROVE  /\ cs \in Seq(Call) /\ Len(cs) \in Nat /\ Len(cs) >= 1 /\ DOMAIN cs = 1 .. Len(cs)
         /\ Len(cs) \in DOMAIN cs
         /\ \A t \in DOMAIN cs : /\ t \in Nat /\ t >= 1 /\ cs[t] \in Call
                                 /\ cs[t].macro \in Macros /\ cs[t].offset \in Vectors
                                 /\ Opposite(cs[t].offset) \in Vectors
                                 /\ cs[t].offset # Zero /\ cs[t].next \in Nat /\ cs[t].next >= 1
                                 /\ cs[t].next <= Len(Members[cs[t].macro]) + 1
<1>1. cs \in Seq(Call) /\ Len(cs) \in Nat /\ Len(cs) >= 1 /\ DOMAIN cs = 1 .. Len(cs) /\ Len(cs) \in DOMAIN cs
  BY DEF Calls
<1>2. ASSUME NEW t \in DOMAIN cs
      PROVE  /\ t \in Nat /\ t >= 1 /\ cs[t] \in Call
                                 /\ cs[t].macro \in Macros /\ cs[t].offset \in Vectors
                                 /\ Opposite(cs[t].offset) \in Vectors
                                 /\ cs[t].offset # Zero /\ cs[t].next \in Nat /\ cs[t].next >= 1
                                 /\ cs[t].next <= Len(Members[cs[t].macro]) + 1
  <2>1. t \in Nat /\ t >= 1 /\ cs[t] \in Call /\ cs[t].offset # Zero /\ cs[t].next \in 1 .. Len(Members[cs[t].macro]) + 1
    BY <1>1 DEF Calls
  <2>2. cs[t].macro \in Macros /\ cs[t].offset \in Vectors /\ cs[t].next \in Nat
    BY <2>1 DEF Call
  <2>3. Len(Members[cs[t].macro]) \in Nat
    BY <2>2, MemberTypes
  <2> QED
    BY <2>1, <2>2, <2>3, VectorTypes
<1> QED
  BY <1>1, <1>2

LEMMA PlaceTypes ==
  ASSUME NEW f \in Placing, NEW b \in Blocks
  PROVE  f[b] \in Locs /\ f[b] \in Vectors
BY PlacesAssumption DEF Placing

\* A block that is displaced by an offset does move, and by no other.
LEMMA ByMoves ==
  ASSUME NEW loc \in Placing, NEW f, NEW b \in Blocks, NEW o \in Vectors, By(loc, f, b, o)
  PROVE  /\ o # Zero => Moves(loc, f, b)
         /\ \A p \in Vectors : By(loc, f, b, p) => o = p
<1>1. loc[b] \in Vectors
  BY PlaceTypes
<1> QED
  BY <1>1, PlusZero, PlusInjective DEF By, Moves

\* Exchange: record_single_block_swap
Exchanged(loc, f, b, to) ==
  [a \in Blocks |-> IF a = b THEN to ELSE IF loc[a] = to THEN loc[b] ELSE f[a]]

\* Neither of the two moves yet, and nobody goes to either place.
CanExchange(loc, f, b, to) ==
  /\ b \in Blocks /\ to \in Locs /\ to # loc[b] /\ ~Moves(loc, f, b)
  /\ \A a \in Blocks : Moves(loc, f, a) => f[a] # to
  /\ \A c \in Blocks : loc[c] = to => /\ ~Moves(loc, f, c)
                                      /\ \A a \in Blocks : Moves(loc, f, a) => f[a] # loc[b]

\* After an exchange the two are in each other's places, and all others where they were.
LEMMA ExchangeFacts ==
  ASSUME NEW loc \in Placing, NEW f \in Placing, NEW b, NEW to,
         OwnPlaces(loc), CanExchange(loc, f, b, to)
  PROVE  LET g == Exchanged(loc, f, b, to) IN
         /\ g \in Placing /\ g[b] = to
         /\ \A a \in Blocks : a # b /\ loc[a] = to => g[a] = loc[b]
         /\ \A a \in Blocks : a # b /\ loc[a] # to => g[a] = f[a]
         /\ \A a \in Blocks : Moves(loc, f, a) => g[a] = f[a]
BY DEF Placing, Exchanged, CanExchange, Moves

LEMMA ExchangeSwaps ==
  ASSUME NEW loc \in Placing, NEW f \in Placing, NEW b, NEW to, OwnPlaces(loc),
         CanExchange(loc, f, b, to), Swaps(loc, f), OwnPlaces(f)
  PROVE  Swaps(loc, Exchanged(loc, f, b, to)) /\ OwnPlaces(Exchanged(loc, f, b, to))
<1> DEFINE g == Exchanged(loc, f, b, to)
<1>0. b \in Blocks /\ to \in Locs /\ to # loc[b] /\ f[b] = loc[b]
  BY DEF CanExchange, Moves
<1>1. /\ g[b] = to
      /\ \A a \in Blocks : a # b /\ loc[a] = to => g[a] = loc[b]
      /\ \A a \in Blocks : a # b /\ loc[a] # to => g[a] = f[a]
      /\ \A a \in Blocks : Moves(loc, f, a) => g[a] = f[a]
  BY ExchangeFacts
<1> HIDE DEF g
<1>2. ASSUME NEW a \in Blocks, NEW c \in Blocks, Moves(loc, g, a), g[a] = loc[c] PROVE g[c] = loc[a]
  <2>1. CASE a = b
    BY <1>0, <1>1, <1>2, <2>1 DEF Moves
  <2>2. CASE a # b /\ loc[a] = to
    BY <1>0, <1>1, <1>2, <2>2 DEF OwnPlaces
  <2>3. CASE a # b /\ loc[a] # to
    <3>1. g[a] = f[a] /\ Moves(loc, f, a) /\ f[c] = loc[a]
      BY <1>1, <1>2, <2>3 DEF Moves, Swaps
    <3>2. c # b
      BY <1>0, <2>3, <3>1 DEF Swaps, OwnPlaces
    <3>3. loc[c] # to
      BY <1>2, <3>1 DEF CanExchange
    <3> QED
      BY <1>1, <3>1, <3>2, <3>3
  <2> QED
    BY <2>1, <2>2, <2>3
<1>3. ASSUME NEW a \in Blocks, NEW c \in Blocks, g[a] = g[c], a # c PROVE FALSE
  <2>1. ASSUME NEW e \in Blocks, e # b, g[e] = to PROVE FALSE
    BY <1>0, <1>1, <2>1 DEF CanExchange, Moves
  <2>2. ASSUME NEW e \in Blocks, NEW h \in Blocks, e # b, h # b, e # h, g[e] = g[h] PROVE FALSE
    <3>1. CASE loc[e] = to
      BY <1>0, <1>1, <2>2, <3>1 DEF CanExchange, Moves, OwnPlaces
    <3>2. CASE loc[h] = to
      BY <1>0, <1>1, <2>2, <3>2 DEF CanExchange, Moves, OwnPlaces
    <3>3. CASE loc[e] # to /\ loc[h] # to
      BY <1>1, <2>2, <3>3 DEF OwnPlaces
    <3> QED
      BY <3>1, <3>2, <3>3
  <2> QED
    BY <1>1, <1>3, <2>1, <2>2
<1> QED
  BY <1>2, <1>3 DEF g, Swaps, OwnPlaces

LEMMA ExchangeAllowed ==
  ASSUME NEW loc \in Placing, NEW f \in Placing, NEW b, NEW to, OwnPlaces(loc),
         CanExchange(loc, f, b, to), Allowed(loc, f), b \notin Fixed, Fits(b, to),
         \A c \in Blocks : loc[c] = to => c \notin Fixed /\ Fits(c, loc[b])
  PROVE  Allowed(loc, Exchanged(loc, f, b, to))
<1> DEFINE g == Exchanged(loc, f, b, to)
<1>1. /\ g[b] = to
      /\ \A a \in Blocks : a # b /\ loc[a] = to => g[a] = loc[b]
      /\ \A a \in Blocks : a # b /\ loc[a] # to => g[a] = f[a]
  BY ExchangeFacts
<1> HIDE DEF g
<1> SUFFICES ASSUME NEW a \in Blocks, Moves(loc, g, a) PROVE a \notin Fixed /\ Fits(a, g[a])
  BY DEF g, Allowed
<1>2. CASE a = b
  BY <1>1, <1>2
<1>3. CASE a # b /\ loc[a] = to
  BY <1>1, <1>3
<1>4. CASE a # b /\ loc[a] # to
  <2>1. g[a] = f[a] /\ Moves(loc, f, a)
    BY <1>1, <1>4 DEF Moves
  <2> QED
    BY <2>1 DEF Allowed
<1> QED
  BY <1>2, <1>3, <1>4

-------------------------------------------------------------------------------
(* Calls that get on *)

\* Some calls, those of A, get on by one member.
Advances(loc, f, g, c) ==
  /\ c.next \in DOMAIN Members[c.macro]
  /\ ~Moves(loc, f, Members[c.macro][c.next]) /\ By(loc, g, Members[c.macro][c.next], c.offset)

Onwards(cs, ds, A) ==
  /\ Len(ds) = Len(cs) /\ A \subseteq DOMAIN cs
  /\ \A t \in DOMAIN cs : /\ t \in A => ds[t] = [cs[t] EXCEPT !.next = @ + 1]
                          /\ t \notin A => ds[t] = cs[t]

\* From placement f to g only the members move that the calls of A are at.
Advance(loc, f, g, cs, A) ==
  /\ \A b \in Blocks : Moves(loc, f, b) => g[b] = f[b]
  /\ \A t \in A : Advances(loc, f, g, cs[t])
  /\ \A m \in Macros : \A i \in DOMAIN Members[m] :
       \/ g[Members[m][i]] = f[Members[m][i]]
       \/ \E t \in A : cs[t].macro = m /\ cs[t].next = i

LEMMA OnwardsFacts ==
  ASSUME NEW cs, NEW ds, NEW A, Calls(cs), Calls(ds), Onwards(cs, ds, A)
  PROVE  /\ DOMAIN ds = DOMAIN cs /\ A \subseteq DOMAIN cs
         /\ \A t \in DOMAIN cs : ds[t].macro = cs[t].macro /\ ds[t].offset = cs[t].offset
<1>1. DOMAIN ds = DOMAIN cs /\ A \subseteq DOMAIN cs
  BY CallTypes DEF Onwards
<1>2. ASSUME NEW t \in DOMAIN cs PROVE ds[t].macro = cs[t].macro /\ ds[t].offset = cs[t].offset
  <2>1. cs[t] \in Call
    BY CallTypes
  <2> QED
    BY <1>1, <1>2, <2>1 DEF Onwards, Call
<1> QED
  BY <1>1, <1>2

\* What is displaced stays so.
LEMMA ByStays ==
  ASSUME NEW loc \in Placing, NEW f, NEW g, \A b \in Blocks : Moves(loc, f, b) => g[b] = f[b],
         NEW b \in Blocks, NEW o \in Vectors, o # Zero, By(loc, f, b, o)
  PROVE  By(loc, g, b, o) /\ Moves(loc, f, b)
BY ByMoves DEF By

LEMMA DoneStays ==
  ASSUME NEW loc \in Placing, NEW f, NEW g, \A b \in Blocks : Moves(loc, f, b) => g[b] = f[b],
         NEW c \in Call, c.offset # Zero
  PROVE  /\ Done(loc, f, c) => Done(loc, g, c)
         /\ Walked(loc, f, c) => Walked(loc, g, c)
<1>1. c.macro \in Macros /\ c.offset \in Vectors
  BY DEF Call
<1>2. \A i \in DOMAIN Members[c.macro] :
        By(loc, f, Members[c.macro][i], c.offset) => By(loc, g, Members[c.macro][i], c.offset)
  BY <1>1, ByStays, MemberTypes
<1> QED
  BY <1>2 DEF Done, Walked

\* Macros still move from the head on.
LEMMA AdvanceInOrder ==
  ASSUME NEW loc \in Placing, NEW f \in Placing, NEW g \in Placing, NEW cs, NEW A,
         Walk(loc, f, cs), A \subseteq DOMAIN cs, Advance(loc, f, g, cs, A)
  PROVE  InOrder(loc, g)
<1> SUFFICES ASSUME NEW m \in Macros, NEW i \in DOMAIN Members[m], NEW j \in DOMAIN Members[m],
                    i < j, Moves(loc, g, Members[m][j])
             PROVE  Moves(loc, g, Members[m][i])
  BY DEF InOrder
<1>1. /\ \A b \in Blocks : Moves(loc, f, b) => Moves(loc, g, b)
      /\ Members[m][i] \in Blocks /\ Members[m][j] \in Blocks
  BY MemberTypes DEF Advance, Moves
<1>2. CASE g[Members[m][j]] = f[Members[m][j]]
  <2>1. Moves(loc, f, Members[m][i])
    BY <1>2 DEF Walk, InOrder, Moves
  <2> QED
    BY <1>1, <2>1
<1>3. CASE g[Members[m][j]] # f[Members[m][j]]
  <2>1. PICK t \in A : cs[t].macro = m /\ cs[t].next = j
    BY <1>3 DEF Advance
  <2>2. By(loc, f, Members[m][i], cs[t].offset) /\ cs[t].offset # Zero /\ cs[t].offset \in Vectors
    BY <2>1, CallTypes DEF Walk, Walked
  <2>3. Moves(loc, f, Members[m][i])
    BY <1>1, <2>2, ByMoves
  <2> QED
    BY <1>1, <2>3
<1> QED
  BY <1>2, <1>3

\* Their members still go the same way.
LEMMA AdvanceTogether ==
  ASSUME NEW loc \in Placing, NEW f \in Placing, NEW g \in Placing, NEW cs, NEW A,
         Walk(loc, f, cs), A \subseteq DOMAIN cs, Advance(loc, f, g, cs, A)
  PROVE  Together(loc, g)
<1> SUFFICES ASSUME NEW m \in Macros, NEW i \in DOMAIN Members[m], NEW j \in DOMAIN Members[m],
                    NEW o \in Vectors, Moves(loc, g, Members[m][i]), Moves(loc, g, Members[m][j]),
                    By(loc, g, Members[m][i], o), i # j
             PROVE  By(loc, g, Members[m][j], o)
  BY DEF Together
<1>1. /\ Members[m][i] \in Blocks /\ Members[m][j] \in Blocks
      /\ i \in Nat /\ j \in Nat
  BY MemberTypes
\* A call that gets on at member h has taken all members before it, and none after.
<1>2. ASSUME NEW t \in A, NEW h \in DOMAIN Members[m], NEW e \in DOMAIN Members[m],
             cs[t].macro = m, cs[t].next = h
      PROVE  /\ By(loc, g, Members[m][h], cs[t].offset)
             /\ cs[t].offset \in Vectors /\ cs[t].offset # Zero
             /\ ~Moves(loc, f, Members[m][h])
             /\ e < h => Moves(loc, f, Members[m][e]) /\ By(loc, g, Members[m][e], cs[t].offset)
             /\ e > h => ~Moves(loc, f, Members[m][e])
  <2>1. cs[t].offset \in Vectors /\ cs[t].offset # Zero
    BY CallTypes DEF Walk
  <2>2. By(loc, g, Members[m][h], cs[t].offset) /\ ~Moves(loc, f, Members[m][h])
    BY <1>2 DEF Advance, Advances
  <2>3. ASSUME e < h PROVE By(loc, f, Members[m][e], cs[t].offset)
    BY <1>2, <2>3 DEF Walk, Walked
  <2>4. ASSUME e < h PROVE Moves(loc, f, Members[m][e]) /\ By(loc, g, Members[m][e], cs[t].offset)
    BY <2>1, <2>3, <2>4, ByStays, MemberTypes DEF Advance
  <2>5. e > h => ~Moves(loc, f, Members[m][e])
    BY <2>2, MemberTypes DEF Walk, InOrder
  <2> QED
    BY <2>1, <2>2, <2>4, <2>5
<1>3. CASE g[Members[m][i]] = f[Members[m][i]] /\ g[Members[m][j]] = f[Members[m][j]]
  BY <1>3 DEF Walk, Together, Moves, By
<1>4. CASE g[Members[m][i]] # f[Members[m][i]]
  <2>1. PICK t \in A : cs[t].macro = m /\ cs[t].next = i
    BY <1>4 DEF Advance
  <2>2. o = cs[t].offset
    BY <1>1, <1>2, <2>1, ByMoves
  <2>3. CASE j < i
    BY <1>2, <2>1, <2>2, <2>3
  <2>4. CASE j > i
    <3>1. g[Members[m][j]] # f[Members[m][j]]
      BY <1>2, <2>1, <2>4 DEF Moves
    <3>2. PICK u \in A : cs[u].macro = m /\ cs[u].next = j
      BY <3>1 DEF Advance
    <3>3. Moves(loc, f, Members[m][i])
      BY <1>2, <2>4, <3>2
    <3> QED
      BY <1>2, <2>1, <3>3
  <2> QED
    BY <1>1, <2>3, <2>4
<1>5. CASE g[Members[m][i]] = f[Members[m][i]] /\ g[Members[m][j]] # f[Members[m][j]]
  <2>1. PICK t \in A : cs[t].macro = m /\ cs[t].next = j
    BY <1>5 DEF Advance
  <2>2. Moves(loc, f, Members[m][i])
    BY <1>5 DEF Moves
  <2>3. i < j
    BY <1>1, <1>2, <2>1, <2>2
  <2>4. By(loc, g, Members[m][i], cs[t].offset) /\ By(loc, g, Members[m][j], cs[t].offset)
    BY <1>2, <2>1, <2>3
  <2>5. o = cs[t].offset
    BY <1>1, <1>2, <2>1, <2>4, ByMoves
  <2> QED
    BY <2>4, <2>5
<1> QED
  BY <1>3, <1>4, <1>5

\* Macros are still carried along.
LEMMA AdvanceCarried ==
  ASSUME NEW loc \in Placing, NEW f \in Placing, NEW g \in Placing, NEW cs, NEW ds, NEW A,
         Walk(loc, f, cs), Onwards(cs, ds, A), Calls(ds), Advance(loc, f, g, cs, A)
  PROVE  Carried(loc, g, ds)
<1> SUFFICES ASSUME NEW m \in Macros, NEW i \in DOMAIN Members[m], Moves(loc, g, Members[m][i])
             PROVE  Whole(loc, g, m) \/ \E t \in DOMAIN ds : Takes(loc, g, ds[t], m)
  BY DEF Carried
<1>1. DOMAIN ds = DOMAIN cs /\ A \subseteq DOMAIN cs
  BY CallTypes DEF Walk, Onwards
<1>2. \A t \in DOMAIN cs : ds[t].macro = cs[t].macro /\ ds[t].offset = cs[t].offset
  BY OnwardsFacts DEF Walk
<1>3. CASE \E t \in A : cs[t].macro = m
  <2>1. PICK t \in A : cs[t].macro = m
    BY <1>3
  <2>2. /\ cs[t].next \in DOMAIN Members[m] /\ By(loc, g, Members[m][cs[t].next], cs[t].offset)
        /\ cs[t].offset \in Vectors /\ cs[t].offset # Zero /\ t \in DOMAIN cs
    BY <1>1, <2>1, CallTypes DEF Walk, Advance, Advances
  <2>3. Moves(loc, g, Members[m][cs[t].next])
    BY <2>2, ByMoves, MemberTypes
  <2>4. Takes(loc, g, ds[t], m)
    BY <1>2, <2>1, <2>2, <2>3, AdvanceTogether, <1>1 DEF Together, Takes
  <2> QED
    BY <1>1, <2>2, <2>4
<1>4. CASE ~\E t \in A : cs[t].macro = m
  <2>1. \A j \in DOMAIN Members[m] : g[Members[m][j]] = f[Members[m][j]]
    BY <1>4 DEF Advance
  <2>2. Whole(loc, f, m) \/ \E t \in DOMAIN cs : Takes(loc, f, cs[t], m)
    BY <2>1 DEF Walk, Carried, Moves
  <2>3. Whole(loc, f, m) => Whole(loc, g, m)
    BY <2>1 DEF Whole, Moves
  <2>4. \A t \in DOMAIN cs : Takes(loc, f, cs[t], m) => Takes(loc, g, ds[t], m)
    BY <1>2, <2>1 DEF Takes, Moves, By
  <2> QED
    BY <1>1, <2>2, <2>3, <2>4
<1> QED
  BY <1>3, <1>4

\* An exchange of the members that the calls of A are at keeps the invariant of the walk.
LEMMA AdvanceWalk ==
  ASSUME NEW loc \in Placing, NEW f \in Placing, NEW g \in Placing, NEW cs, NEW ds, NEW A,
         Walk(loc, f, cs), Onwards(cs, ds, A), Calls(ds), Advance(loc, f, g, cs, A),
         Swaps(loc, g), OwnPlaces(g), Allowed(loc, g)
  PROVE  Walk(loc, g, ds) /\ \A t \in A : Untouched(loc, g, ds[t])
<1>1. DOMAIN ds = DOMAIN cs /\ A \subseteq DOMAIN cs
  BY CallTypes DEF Walk, Onwards
<1>2. ASSUME NEW t \in DOMAIN cs PROVE Walked(loc, g, ds[t])
  <2>1. /\ cs[t] \in Call /\ cs[t].offset # Zero /\ Walked(loc, f, cs[t])
        /\ cs[t].next \in Nat /\ cs[t].macro \in Macros
    BY CallTypes DEF Walk
  <2>2. Walked(loc, g, cs[t])
    BY <2>1, DoneStays DEF Advance
  <2>3. CASE t \in A
    <3>1. ds[t].macro = cs[t].macro /\ ds[t].offset = cs[t].offset /\ ds[t].next = cs[t].next + 1
      BY <2>1, <2>3 DEF Onwards, Call
    <3>2. By(loc, g, Members[cs[t].macro][cs[t].next], cs[t].offset)
      BY <2>3 DEF Advance, Advances
    <3>3. \A i \in DOMAIN Members[cs[t].macro] : i < cs[t].next + 1 <=> i < cs[t].next \/ i = cs[t].next
      BY <2>1, MemberTypes
    <3> QED
      BY <2>2, <3>1, <3>2, <3>3 DEF Walked
  <2>4. CASE t \notin A
    BY <2>2, <2>4 DEF Onwards
  <2> QED
    BY <2>3, <2>4
<1>3. ASSUME NEW t \in A PROVE Untouched(loc, g, ds[t])
  <2>1. /\ cs[t].macro \in Macros /\ cs[t].next \in Nat /\ cs[t] \in Call
    BY <1>1, CallTypes DEF Walk
  <2>2. ds[t].macro = cs[t].macro /\ ds[t].next = cs[t].next + 1
    BY <1>1, <2>1 DEF Onwards, Call
  <2>3. SUFFICES ASSUME cs[t].next + 1 \in DOMAIN Members[cs[t].macro],
                        Moves(loc, g, Members[cs[t].macro][cs[t].next + 1])
                 PROVE  FALSE
    BY <2>2 DEF Untouched
  <2>4. cs[t].next \in DOMAIN Members[cs[t].macro] /\ ~Moves(loc, f, Members[cs[t].macro][cs[t].next])
    BY DEF Advance, Advances
  <2>5. ~Moves(loc, f, Members[cs[t].macro][cs[t].next + 1])
    BY <2>1, <2>3, <2>4 DEF Walk, InOrder
  <2>6. PICK u \in A : cs[u].macro = cs[t].macro /\ cs[u].next = cs[t].next + 1
    BY <2>1, <2>3, <2>5 DEF Advance, Moves
  <2>7. By(loc, f, Members[cs[t].macro][cs[t].next], cs[u].offset) /\ cs[u].offset \in Vectors /\ cs[u].offset # Zero
    <3>1. Walked(loc, f, cs[u]) /\ cs[u].offset \in Vectors /\ cs[u].offset # Zero
      BY <1>1, CallTypes DEF Walk
    <3> QED
      BY <2>1, <2>4, <2>6, <3>1 DEF Walked
  <2> QED
    BY <2>1, <2>4, <2>7, ByMoves, MemberTypes
<1> QED
  BY <1>1, <1>2, <1>3, AdvanceInOrder, AdvanceTogether, AdvanceCarried DEF Walk

\* A call below does not lose what it waits for.
LEMMA WillStays ==
  ASSUME NEW loc \in Placing, NEW f \in Placing, NEW g \in Placing, NEW cs, NEW ds, NEW A,
         Walk(loc, f, cs), Onwards(cs, ds, A), Calls(ds), Advance(loc, f, g, cs, A),
         NEW t \in DOMAIN cs, t + 1 \in DOMAIN cs, \A u \in A : u > t, Will(loc, f, cs, t)
  PROVE  Will(loc, g, ds, t)
<1>1. DOMAIN ds = DOMAIN cs /\ A \subseteq DOMAIN cs /\ t \in Nat
  BY CallTypes DEF Walk, Onwards
<1>2. \A u \in DOMAIN cs : ds[u].macro = cs[u].macro /\ ds[u].offset = cs[u].offset
  BY OnwardsFacts DEF Walk
<1>3. ds[t] = cs[t] /\ cs[t] \in Call /\ cs[t].offset # Zero /\ cs[t].macro \in Macros /\ cs[t].offset \in Vectors
  BY <1>1, CallTypes DEF Walk, Onwards
<1>4. CASE Done(loc, f, cs[t])
  BY <1>3, <1>4, DoneStays DEF Will, Advance
<1>5. CASE \E u \in DOMAIN cs : u > t /\ cs[u].macro = cs[t].macro /\ cs[u].offset = cs[t].offset
  BY <1>1, <1>2, <1>5 DEF Will
<1>6. CASE Blocked(loc, f, cs[t], cs[t + 1])
  <2> DEFINE m == cs[t].macro
             i == cs[t].next
  <2>1. i \in DOMAIN Members[m] /\ ~By(loc, f, Members[m][i], cs[t].offset)
    BY <1>6 DEF Blocked
  <2>2. CASE By(loc, g, Members[m][i], cs[t].offset)
    <3>1. PICK u \in A : cs[u].macro = m /\ cs[u].next = i
      BY <1>3, <2>1, <2>2 DEF Advance, By
    <3>2. By(loc, g, Members[m][i], cs[u].offset) /\ cs[u].offset \in Vectors
      BY <1>1, <3>1, CallTypes DEF Walk, Advance, Advances
    <3>3. cs[u].offset = cs[t].offset
      BY <1>3, <2>1, <2>2, <3>2, ByMoves, MemberTypes
    <3> QED
      BY <1>1, <1>2, <3>1, <3>3 DEF Will
  <2>3. CASE ~By(loc, g, Members[m][i], cs[t].offset)
    BY <1>2, <1>3, <1>6, <2>3 DEF Will, Blocked
  <2> QED
    BY <2>2, <2>3
<1> QED
  BY <1>4, <1>5, <1>6 DEF Will

-------------------------------------------------------------------------------
(* The walk along a macro *)

\* Every call below n will have taken its macro.
AllWill(loc, f, cs, n) == \A t \in DOMAIN cs : t < n => Will(loc, f, cs, t)

\* From the member that met it, the macro of c overlaps the one of e from its head on.
Meets(loc, c, e) ==
  /\ c.macro # e.macro /\ e.offset = Opposite(c.offset)
  /\ \E h \in DOMAIN Members[c.macro] :
       /\ h + e.next = c.next + 1
       /\ Plus(loc[Members[c.macro][h]], c.offset) = loc[Members[e.macro][1]]

Last(cs)  == cs[Len(cs)]
Prior(cs) == cs[Len(cs) - 1]

\* In record_macro_swaps; in record_macro_macro_swaps, with the two topmost calls going on
\* member by member; and while calls return.
WalkPhase(loc, f, cs) ==
  /\ Walk(loc, f, cs) /\ Untouched(loc, f, Last(cs))
  /\ Doomed(loc, f, Last(cs)) \/ AllWill(loc, f, cs, Len(cs))

OverlapPhase(loc, f, cs) ==
  /\ Walk(loc, f, cs) /\ Len(cs) > 1 /\ Meets(loc, Prior(cs), Last(cs))
  /\ Untouched(loc, f, Prior(cs)) /\ Untouched(loc, f, Last(cs))
  /\ (Doomed(loc, f, Prior(cs)) /\ Last(cs).next = 1) \/ AllWill(loc, f, cs, Len(cs) - 1)

ReturnPhase(loc, f, cs) ==
  Walk(loc, f, cs) /\ Done(loc, f, Last(cs)) /\ AllWill(loc, f, cs, Len(cs))

\* The first call, with nothing recorded
LEMMA FirstWalk ==
  ASSUME NEW loc \in Placing, OwnPlaces(loc), NEW m \in Macros, NEW o \in Vectors, o # Zero
  PROVE  WalkPhase(loc, loc, <<Frame(m, 1, o)>>)
<1> DEFINE cs == <<Frame(m, 1, o)>>
<1>1. Frame(m, 1, o) \in Call
  BY DEF Frame, Call
<1>2. /\ cs \in Seq(Call) /\ cs # <<>> /\ Len(cs) = 1 /\ DOMAIN cs = {1} /\ cs[1] = Frame(m, 1, o)
  BY <1>1
<1>3. Calls(cs)
  BY <1>2, MemberTypes DEF Calls, Frame
<1>4. /\ Swaps(loc, loc) /\ Allowed(loc, loc) /\ InOrder(loc, loc) /\ Together(loc, loc)
      /\ Carried(loc, loc, cs)
  BY DEF Swaps, Allowed, InOrder, Together, Carried, Moves
<1>5. Walked(loc, loc, cs[1])
  BY <1>2, MemberTypes DEF Walked, Frame
<1>6. Untouched(loc, loc, Last(cs)) /\ AllWill(loc, loc, cs, Len(cs))
  BY <1>2 DEF Untouched, AllWill, Last, Frame
<1> QED
  BY <1>2, <1>3, <1>4, <1>5, <1>6 DEF WalkPhase, Walk

\* A call goes on to its next member.
LEMMA CallOn ==
  ASSUME NEW cs, Calls(cs), NEW n \in DOMAIN cs, cs[n].next \in DOMAIN Members[cs[n].macro]
  PROVE  LET ds == [cs EXCEPT ![n].next = @ + 1]
         IN  Calls(ds) /\ Onwards(cs, ds, {n})
<1> DEFINE ds == [cs EXCEPT ![n].next = @ + 1]
           c == cs[n]
           d == [c EXCEPT !.next = @ + 1]
<1>1. /\ cs \in Seq(Call) /\ DOMAIN cs = 1 .. Len(cs) /\ Len(cs) \in Nat /\ n \in Nat /\ Len(cs) >= 1
      /\ c \in Call /\ c.macro \in Macros /\ c.next \in Nat /\ c.offset \in Vectors /\ c.offset # Zero
  BY CallTypes
<1>2. d \in Call /\ d.macro = c.macro /\ d.offset = c.offset /\ d.next = c.next + 1
  <2> HIDE DEF c
  <2> QED
    BY <1>1 DEF Call
<1>3. ds = [cs EXCEPT ![n] = d]
  OBVIOUS
<1> HIDE DEF ds, d
<1>4. /\ ds \in Seq(Call) /\ Len(ds) = Len(cs) /\ DOMAIN ds = DOMAIN cs /\ ds # <<>>
      /\ ds[n] = d
      /\ \A t \in DOMAIN cs : t # n => ds[t] = cs[t]
  BY <1>1, <1>2, <1>3
<1>5. d.next \in 1 .. Len(Members[d.macro]) + 1
  BY <1>1, <1>2, MemberTypes
<1>6. Calls(ds)
  BY <1>1, <1>2, <1>4, <1>5 DEF Calls
<1>7. Onwards(cs, ds, {n})
  BY <1>4 DEF Onwards, d
<1> QED
  BY <1>6, <1>7 DEF ds

\* Block b is the member call c is at, and goes to place to.
IsNext(loc, c, b, to) ==
  c.next \in DOMAIN Members[c.macro] /\ b = Members[c.macro][c.next] /\ to = Plus(loc[b], c.offset)

\* The topmost call exchanges its member for a single block.
LEMMA SingleStep ==
  ASSUME NEW loc \in Placing, NEW f \in Placing, NEW cs, OwnPlaces(loc), WalkPhase(loc, f, cs),
         NEW b, NEW to, IsNext(loc, Last(cs), b, to),
         CanExchange(loc, f, b, to), Allowed(loc, Exchanged(loc, f, b, to)),
         \A c \in Blocks : loc[c] = to => MacroOf(c) = NoMacro
  PROVE  WalkPhase(loc, Exchanged(loc, f, b, to), [cs EXCEPT ![Len(cs)].next = @ + 1])
<1> DEFINE g == Exchanged(loc, f, b, to)
           ds == [cs EXCEPT ![Len(cs)].next = @ + 1]
<1>7. /\ g \in Placing /\ g[b] = to
      /\ \A a \in Blocks : a # b /\ loc[a] # to => g[a] = f[a]
      /\ \A a \in Blocks : Moves(loc, f, a) => g[a] = f[a]
  BY ExchangeFacts
<1> HIDE DEF g, ds
<1>1. Walk(loc, f, cs) /\ Calls(cs)
  BY DEF WalkPhase, Walk
<1>2. PICK n \in Nat : n = Len(cs)
  BY <1>1, CallTypes
<1>3. PICK c \in Call : c = cs[n]
  BY <1>1, <1>2, CallTypes
<1>4. /\ n >= 1 /\ DOMAIN cs = 1 .. n /\ n \in DOMAIN cs
      /\ c.macro \in Macros /\ c.next \in Nat /\ c.offset \in Vectors /\ c.offset # Zero
  BY <1>1, <1>2, <1>3, CallTypes
<1>5. /\ Last(cs) = c /\ c.next \in DOMAIN Members[c.macro] /\ b = Members[c.macro][c.next]
      /\ to = Plus(loc[b], c.offset)
  BY <1>2, <1>3 DEF Last, IsNext
<1>6. Calls(ds) /\ Onwards(cs, ds, {n})
  BY <1>1, <1>2, <1>3, <1>4, <1>5, CallOn DEF ds
<1>8. Advance(loc, f, g, cs, {n})
  <2>1. Advances(loc, f, g, c)
    BY <1>5, <1>7 DEF Advances, CanExchange, By
  <2>2. ASSUME NEW m \in Macros, NEW i \in DOMAIN Members[m], g[Members[m][i]] # f[Members[m][i]]
        PROVE  c.macro = m /\ c.next = i
    <3>1. MacroOf(Members[m][i]) # NoMacro /\ Members[m][i] \in Blocks
      BY MacroOfMember, MacrosAssumption, MemberTypes
    <3>2. Members[m][i] = b
      BY <1>7, <2>2, <3>1
    <3> QED
      BY <1>4, <1>5, <3>2, MembersDiffer
  <2> QED
    BY <1>3, <1>7, <2>1, <2>2 DEF Advance
<1>9. Walk(loc, g, ds) /\ Untouched(loc, g, ds[n])
  <2>1. Swaps(loc, g) /\ OwnPlaces(g) /\ Allowed(loc, g)
    BY <1>1, ExchangeSwaps DEF g, Walk
  <2> QED
    BY <1>1, <1>6, <1>7, <1>8, <2>1, AdvanceWalk
<1>10. ~Doomed(loc, f, c)
  <2>1. b \in Blocks /\ ~Moves(loc, f, b)
    BY DEF CanExchange
  <2>2. c.next = 1 => ~By(loc, f, Members[c.macro][1], c.offset)
    BY <1>4, <1>5, <2>1, ByMoves
  <2> QED
    BY <2>2 DEF Doomed
<1>11. AllWill(loc, g, ds, n)
  <2>0. DOMAIN ds = DOMAIN cs
    BY <1>1, <1>6, OnwardsFacts
  <2> SUFFICES ASSUME NEW t \in DOMAIN cs, t < n PROVE Will(loc, g, ds, t)
    BY <2>0 DEF AllWill
  <2>1. Will(loc, f, cs, t)
    BY <1>2, <1>5, <1>10 DEF WalkPhase, AllWill
  <2>2. t + 1 \in DOMAIN cs /\ \A u \in {n} : u > t
    BY <1>4
  <2> QED
    BY <1>1, <1>6, <1>7, <1>8, <2>1, <2>2, WillStays
<1>12. Len(ds) = n
  BY <1>2, <1>6 DEF Onwards
<1> QED
  BY <1>9, <1>11, <1>12 DEF WalkPhase, Last, g, ds

\* The topmost call meets another macro, at its member j.
LEMMA MeetStep ==
  ASSUME NEW loc \in Placing, NEW f \in Placing, NEW cs, WalkPhase(loc, f, cs),
         NEW b, Last(cs).next \in DOMAIN Members[Last(cs).macro],
         b = Members[Last(cs).macro][Last(cs).next],
         NEW m \in Macros, m # Last(cs).macro, NEW j \in DOMAIN Members[m],
         loc[Members[m][j]] = Plus(loc[b], Last(cs).offset)
  PROVE  LET ds == Append(cs, Frame(m, 1, Opposite(Last(cs).offset)))
         IN  /\ j = 1 => OverlapPhase(loc, f, ds)
             /\ j # 1 => WalkPhase(loc, f, ds)
<1> DEFINE n == Len(cs)
           c == cs[n]
           e == Frame(m, 1, Opposite(c.offset))
           ds == Append(cs, e)
<1>1. Walk(loc, f, cs) /\ Calls(cs)
  BY DEF WalkPhase, Walk
<1>2. /\ n \in Nat /\ n >= 1 /\ DOMAIN cs = 1 .. n /\ n \in DOMAIN cs /\ cs \in Seq(Call)
      /\ c \in Call /\ c.macro \in Macros /\ c.next \in Nat /\ c.offset \in Vectors
      /\ c.offset # Zero /\ Opposite(c.offset) \in Vectors
      /\ Last(cs) = c
  BY <1>1, CallTypes DEF Last
<1>3. /\ e \in Call /\ e.macro = m /\ e.next = 1 /\ e.offset = Opposite(c.offset) /\ e.offset # Zero
  BY <1>2, OppositeZero DEF Frame, Call
<1> HIDE DEF e
<1>4. /\ ds \in Seq(Call) /\ Len(ds) = n + 1 /\ DOMAIN ds = 1 .. n + 1 /\ ds # <<>>
      /\ ds[n + 1] = e
      /\ \A t \in DOMAIN cs : ds[t] = cs[t]
  BY <1>2, <1>3
<1> HIDE DEF ds
<1>5. Calls(ds)
  <2>1. e.next \in 1 .. Len(Members[e.macro]) + 1
    BY <1>3, MemberTypes
  <2>2. \A t \in DOMAIN cs : cs[t].offset # Zero /\ cs[t].next \in 1 .. Len(Members[cs[t].macro]) + 1
    BY <1>1 DEF Calls
  <2>3. \A t \in DOMAIN ds : ds[t].offset # Zero /\ ds[t].next \in 1 .. Len(Members[ds[t].macro]) + 1
    BY <1>2, <1>3, <1>4, <2>1, <2>2
  <2> QED
    BY <1>4, <2>3 DEF Calls
<1>6. Walk(loc, f, ds)
  <2>1. Carried(loc, f, ds)
    <3>1. \A t \in DOMAIN cs : t \in DOMAIN ds /\ ds[t] = cs[t]
      BY <1>2, <1>4
    <3> QED
      BY <1>1, <3>1 DEF Walk, Carried
  <2>2. Walked(loc, f, e)
    BY <1>3, MemberTypes DEF Walked
  <2>3. ASSUME NEW t \in DOMAIN ds PROVE Walked(loc, f, ds[t])
    <3>1. CASE t = n + 1
      BY <1>4, <2>2, <3>1
    <3>2. CASE t # n + 1
      <4>1. t \in DOMAIN cs
        BY <1>2, <1>4, <3>2
      <4> QED
        BY <1>1, <1>4, <4>1 DEF Walk
    <3> QED
      BY <3>1, <3>2
  <2> QED
    BY <1>1, <1>5, <2>1, <2>3 DEF Walk
<1>7. Untouched(loc, f, e)
  BY <1>3 DEF Untouched
\* What the calls before wait for did not change.
<1>8. ASSUME NEW t \in DOMAIN cs, t < n, Will(loc, f, cs, t) PROVE Will(loc, f, ds, t)
  <2>1. t \in Nat /\ t + 1 \in DOMAIN cs /\ ds[t] = cs[t] /\ ds[t + 1] = cs[t + 1]
    BY <1>2, <1>4, <1>8
  <2>2. \A u \in DOMAIN cs : u \in DOMAIN ds /\ ds[u] = cs[u]
    BY <1>2, <1>4
  <2> QED
    BY <1>8, <2>1, <2>2 DEF Will
<1>9. CASE j = 1
  <2>1. Len(ds) > 1 /\ Prior(ds) = c /\ Last(ds) = e /\ Len(ds) - 1 = n
    BY <1>2, <1>4 DEF Prior, Last
  <2>2. Meets(loc, c, e)
    BY <1>2, <1>3, <1>9 DEF Meets
  <2>3. Untouched(loc, f, c)
    BY <1>2 DEF WalkPhase
  <2>4. ASSUME AllWill(loc, f, cs, n) PROVE AllWill(loc, f, ds, n)
    BY <1>2, <1>4, <1>8, <2>4 DEF AllWill
  <2>5. (Doomed(loc, f, c) /\ e.next = 1) \/ AllWill(loc, f, ds, n)
    BY <1>2, <1>3, <2>4 DEF WalkPhase
  <2>6. OverlapPhase(loc, f, ds)
    BY <1>6, <1>7, <2>1, <2>2, <2>3, <2>5 DEF OverlapPhase
  <2> QED
    BY <1>2, <1>9, <2>6 DEF ds, e
<1>10. CASE j # 1
  <2>1. Last(ds) = e /\ Len(ds) = n + 1 /\ ds[n] = c /\ n \in DOMAIN ds
    BY <1>2, <1>4 DEF Last
  <2>2. CASE By(loc, f, b, c.offset)
    <3>1. /\ b \in Blocks /\ Members[m][j] \in Blocks /\ Members[m][1] \in Blocks /\ 1 \in DOMAIN Members[m]
          /\ 1 < j
      BY <1>2, <1>10, MemberTypes
    <3>2. Moves(loc, f, b)
      BY <1>2, <2>2, <3>1, ByMoves
    <3>3. f[Members[m][j]] = loc[b]
      BY <1>1, <1>2, <2>2, <3>1, <3>2 DEF Walk, Swaps, By
    <3>4. By(loc, f, Members[m][j], e.offset)
      <4>1. loc[b] \in Vectors
        BY <3>1, PlaceTypes
      <4> QED
        BY <1>2, <1>3, <3>3, <4>1, PlusOpposite DEF By
    <3>5. Moves(loc, f, Members[m][j]) /\ e.offset \in Vectors
      BY <1>2, <1>3, <3>1, <3>4, ByMoves
    <3>6. Moves(loc, f, Members[m][1])
      BY <1>1, <3>1, <3>5 DEF Walk, InOrder
    <3>7. By(loc, f, Members[m][1], e.offset)
      BY <1>1, <3>1, <3>4, <3>5, <3>6 DEF Walk, Together
    <3>8. Doomed(loc, f, e)
      BY <1>3, <3>7 DEF Doomed
    <3>9. WalkPhase(loc, f, ds)
      BY <1>6, <1>7, <2>1, <3>8 DEF WalkPhase
    <3> QED
      BY <1>2, <1>10, <3>9 DEF ds, e
  <2>3. CASE ~By(loc, f, b, c.offset)
    <3>1. ~Doomed(loc, f, c)
      BY <1>2, <2>3 DEF Doomed
    <3>2. Blocked(loc, f, c, e)
      BY <1>2, <1>3, <2>3 DEF Blocked
    <3>3. Will(loc, f, ds, n)
      BY <1>2, <1>4, <2>1, <3>2 DEF Will
    <3>4. AllWill(loc, f, cs, n)
      BY <1>2, <3>1 DEF WalkPhase
    <3>5. AllWill(loc, f, ds, n + 1)
      <4> SUFFICES ASSUME NEW t \in DOMAIN ds, t < n + 1 PROVE Will(loc, f, ds, t)
        BY DEF AllWill
      <4>1. CASE t = n
        BY <3>3, <4>1
      <4>2. CASE t # n
        <5>1. t \in DOMAIN cs /\ t < n
          BY <1>2, <1>4, <4>2
        <5>2. Will(loc, f, cs, t)
          BY <3>4, <5>1 DEF AllWill
        <5> QED
          BY <1>8, <5>1, <5>2
      <4> QED
        BY <4>1, <4>2
    <3>6. WalkPhase(loc, f, ds)
      BY <1>6, <1>7, <2>1, <3>5 DEF WalkPhase
    <3> QED
      BY <1>2, <1>10, <3>6 DEF ds, e
  <2> QED
    BY <2>2, <2>3
<1> QED
  BY <1>9, <1>10

-------------------------------------------------------------------------------
(* Two macros that overlap *)

LEMMA LastTwo ==
  ASSUME NEW cs, Calls(cs), Len(cs) > 1
  PROVE  /\ Len(cs) \in Nat /\ DOMAIN cs = 1 .. Len(cs) /\ Len(cs) - 1 \in DOMAIN cs /\ Len(cs) \in DOMAIN cs
         /\ \A c \in {Last(cs), Prior(cs)} :
              /\ c \in Call /\ c.macro \in Macros /\ c.next \in Nat /\ c.next >= 1
              /\ c.offset \in Vectors /\ c.offset # Zero /\ Opposite(c.offset) \in Vectors
              /\ c.next <= Len(Members[c.macro]) + 1
<1>1. Len(cs) \in Nat /\ DOMAIN cs = 1 .. Len(cs) /\ Len(cs) - 1 \in DOMAIN cs /\ Len(cs) \in DOMAIN cs
  BY CallTypes
<1> QED
  BY <1>1, CallTypes DEF Last, Prior

\* The places the two macros exchange next are opposite each other.
LEMMA Opposed ==
  ASSUME NEW loc \in Placing, InShape(loc), NEW c \in Call, NEW e \in Call, Meets(loc, c, e),
         NEW b, NEW to, IsNext(loc, c, b, to), e.next \in DOMAIN Members[e.macro],
         Offset[c.macro][c.next] =
           Plus(Offset[e.macro][e.next], Offset[c.macro][c.next - e.next + 1])
  PROVE  to = loc[Members[e.macro][e.next]]
<1>1. c.macro \in Macros /\ e.macro \in Macros /\ c.offset \in Vectors /\ c.next \in Nat /\ e.next \in Nat
  BY DEF Call
<1>2. PICK h \in DOMAIN Members[c.macro] :
        h + e.next = c.next + 1 /\ Plus(loc[Members[c.macro][h]], c.offset) = loc[Members[e.macro][1]]
  BY DEF Meets
<1>3. h = c.next - e.next + 1
  <2>1. h \in Nat
    BY <1>1, MemberTypes
  <2> QED
    BY <1>1, <1>2, <2>1
<1> DEFINE C == Members[c.macro]
           E == Members[e.macro]
           oh == Offset[c.macro][h]
           oj == Offset[e.macro][e.next]
           d == c.offset
<1>4. c.next \in DOMAIN C /\ b = C[c.next] /\ to = Plus(loc[b], d)
  BY DEF IsNext
<1>5. /\ C[1] \in Blocks /\ C[h] \in Blocks /\ E[1] \in Blocks /\ E[e.next] \in Blocks /\ b \in Blocks
  BY <1>1, <1>4, MemberTypes
<1>6. /\ loc[C[1]] \in Vectors /\ loc[E[1]] \in Vectors /\ oh \in Vectors /\ oj \in Vectors /\ d \in Vectors
  BY <1>1, <1>5, PlaceTypes, MacrosAssumption
<1>7. /\ loc[b] = Plus(loc[C[1]], Plus(oj, oh)) /\ loc[C[h]] = Plus(loc[C[1]], oh)
      /\ loc[E[e.next]] = Plus(loc[E[1]], oj)
  BY <1>1, <1>3, <1>4 DEF InShape
<1>8. PICK p \in Vectors : p = loc[C[1]]
  BY <1>6
<1> HIDE DEF C, E, oh, oj, d
<1>9. Plus(Plus(p, Plus(oj, oh)), d) = Plus(Plus(Plus(p, oh), d), oj)
  BY <1>6, VectorIsRecord DEF Plus
<1>10. to = Plus(Plus(p, Plus(oj, oh)), d)
  BY <1>4, <1>7, <1>8
<1>11. Plus(loc[C[h]], d) = loc[E[1]]
  BY <1>2 DEF C, E, d
<1>12. loc[E[e.next]] = Plus(Plus(Plus(p, oh), d), oj)
  BY <1>7, <1>8, <1>11
<1> QED
  BY <1>9, <1>10, <1>12 DEF E

LEMMA BothOn ==
  ASSUME NEW cs \in Seq(Call), NEW n \in DOMAIN cs, NEW p \in DOMAIN cs, n # p
  PROVE  [[cs EXCEPT ![n].next = @ + 1] EXCEPT ![p].next = @ + 1]
           = [cs EXCEPT ![n].next = @ + 1, ![p].next = @ + 1]
BY DEF Call

\* The two macros exchange one member each.
LEMMA OverlapStep ==
  ASSUME NEW loc \in Placing, NEW f \in Placing, NEW cs, OwnPlaces(loc), InShape(loc),
         OverlapPhase(loc, f, cs), NEW b, NEW to, IsNext(loc, Prior(cs), b, to),
         Last(cs).next \in DOMAIN Members[Last(cs).macro],
         Offset[Prior(cs).macro][Prior(cs).next] =
           Plus(Offset[Last(cs).macro][Last(cs).next],
                Offset[Prior(cs).macro][Prior(cs).next - Last(cs).next + 1]),
         CanExchange(loc, f, b, to), Allowed(loc, Exchanged(loc, f, b, to))
  PROVE  OverlapPhase(loc, Exchanged(loc, f, b, to),
                      [cs EXCEPT ![Len(cs)].next = @ + 1, ![Len(cs) - 1].next = @ + 1])
<1> DEFINE g == Exchanged(loc, f, b, to)
           es == [cs EXCEPT ![Len(cs)].next = @ + 1]
           ds == [es EXCEPT ![Len(cs) - 1].next = @ + 1]
<1>1. /\ g \in Placing /\ g[b] = to
      /\ \A a \in Blocks : a # b /\ loc[a] = to => g[a] = loc[b]
      /\ \A a \in Blocks : a # b /\ loc[a] # to => g[a] = f[a]
      /\ \A a \in Blocks : Moves(loc, f, a) => g[a] = f[a]
  BY ExchangeFacts
<1> HIDE DEF g, es, ds
<1>3. Walk(loc, f, cs) /\ Calls(cs) /\ Len(cs) > 1
  BY DEF OverlapPhase, Walk
<1>4. PICK n \in Nat : n = Len(cs)
  BY <1>3, LastTwo
<1>5. PICK c \in Call : c = Prior(cs)
  BY <1>3, LastTwo
<1>6. PICK e \in Call : e = Last(cs)
  BY <1>3, LastTwo
<1>7. /\ n > 1 /\ DOMAIN cs = 1 .. n /\ n - 1 \in DOMAIN cs /\ n \in DOMAIN cs
      /\ cs[n - 1] = c /\ cs[n] = e
  BY <1>3, <1>4, <1>5, <1>6, LastTwo DEF Last, Prior
<1>2. ds = [cs EXCEPT ![Len(cs)].next = @ + 1, ![Len(cs) - 1].next = @ + 1]
  <2>1. cs \in Seq(Call) /\ n # n - 1
    BY <1>3, <1>4 DEF Calls
  <2> QED
    BY <1>4, <1>7, <2>1, BothOn DEF ds, es
<1>8. /\ c.macro \in Macros /\ c.next \in Nat /\ c.offset \in Vectors /\ c.offset # Zero
      /\ e.macro \in Macros /\ e.next \in Nat /\ e.offset \in Vectors /\ e.offset # Zero
  BY <1>3, <1>5, <1>6, LastTwo
<1>9. /\ c.next \in DOMAIN Members[c.macro] /\ b = Members[c.macro][c.next] /\ to = Plus(loc[b], c.offset)
      /\ e.next \in DOMAIN Members[e.macro] /\ Meets(loc, c, e)
  BY <1>5, <1>6 DEF IsNext, OverlapPhase
<1>10. to = loc[Members[e.macro][e.next]]
  BY <1>5, <1>6, <1>9, Opposed
<1>11. Calls(es) /\ Onwards(cs, es, {n})
  BY <1>3, <1>4, <1>7, <1>9, CallOn DEF es
<1>12. es[n - 1] = c /\ DOMAIN es = DOMAIN cs
  <2>1. n - 1 \notin {n}
    BY <1>4
  <2> QED
    BY <1>3, <1>7, <1>11, <2>1, OnwardsFacts DEF Onwards
<1>13. Calls(ds) /\ Onwards(es, ds, {n - 1})
  BY <1>4, <1>7, <1>9, <1>11, <1>12, CallOn DEF ds
<1>14. Onwards(cs, ds, {n - 1, n})
  <2>1. Len(ds) = Len(cs) /\ {n - 1, n} \subseteq DOMAIN cs
    BY <1>7, <1>11, <1>13 DEF Onwards
  <2>2. ds[n - 1] = [cs[n - 1] EXCEPT !.next = @ + 1]
    BY <1>7, <1>12, <1>13 DEF Onwards
  <2>4. n \notin {n - 1}
    BY <1>4
  <2>5. ds[n] = [cs[n] EXCEPT !.next = @ + 1]
    BY <1>7, <1>11, <1>12, <1>13, <2>4 DEF Onwards
  <2>3. \A t \in DOMAIN cs : t \notin {n - 1, n} => ds[t] = cs[t]
    BY <1>11, <1>12, <1>13 DEF Onwards
  <2>6. ASSUME NEW t \in DOMAIN cs
        PROVE  /\ t \in {n - 1, n} => ds[t] = [cs[t] EXCEPT !.next = @ + 1]
               /\ t \notin {n - 1, n} => ds[t] = cs[t]
    <3>1. CASE t = n
      BY <2>5, <3>1
    <3>2. CASE t = n - 1
      BY <2>2, <3>2
    <3>3. CASE t \notin {n - 1, n}
      BY <2>3, <3>3
    <3> QED
      BY <3>1, <3>2, <3>3
  <2> QED
    BY <2>1, <2>6 DEF Onwards
<1>15. /\ DOMAIN ds = DOMAIN cs /\ Len(ds) = n
       /\ ds[n - 1].macro = c.macro /\ ds[n - 1].offset = c.offset /\ ds[n - 1].next = c.next + 1
       /\ ds[n].macro = e.macro /\ ds[n].offset = e.offset /\ ds[n].next = e.next + 1
  <2>1. Len(ds) = n /\ ds[n - 1] = [c EXCEPT !.next = @ + 1] /\ ds[n] = [e EXCEPT !.next = @ + 1]
    BY <1>4, <1>7, <1>14 DEF Onwards
  <2> QED
    BY <1>3, <1>13, <1>14, <2>1, OnwardsFacts DEF Call
<1>16. Members[e.macro][e.next] \in Blocks /\ b \in Blocks /\ Members[e.macro][e.next] # b
  BY <1>8, <1>9, MemberTypes, MembersDiffer DEF Meets
<1>17. Advance(loc, f, g, cs, {n - 1, n})
  <2>1. Advances(loc, f, g, c)
    BY <1>1, <1>9 DEF Advances, CanExchange, By
  <2>2. Advances(loc, f, g, e)
    <3>1. ~Moves(loc, f, Members[e.macro][e.next])
      BY <1>10, <1>16 DEF CanExchange
    <3>2. g[Members[e.macro][e.next]] = loc[b]
      BY <1>1, <1>10, <1>16
    <3>3. loc[b] = Plus(to, Opposite(c.offset))
      BY <1>8, <1>9, <1>16, PlaceTypes, PlusOpposite
    <3> QED
      BY <1>9, <1>10, <3>1, <3>2, <3>3 DEF Advances, By, Meets
  <2>3. ASSUME NEW m \in Macros, NEW i \in DOMAIN Members[m], g[Members[m][i]] # f[Members[m][i]]
        PROVE  (c.macro = m /\ c.next = i) \/ (e.macro = m /\ e.next = i)
    <3>1. Members[m][i] \in Blocks
      BY MemberTypes
    <3>2. Members[m][i] = b \/ Members[m][i] = Members[e.macro][e.next]
      BY <1>1, <1>10, <1>16, <2>3, <3>1 DEF OwnPlaces
    <3>3. CASE Members[m][i] = b
      <4>1. Members[m][i] = Members[c.macro][c.next]
        BY <1>9, <3>3
      <4> QED
        BY <1>8, <1>9, <4>1, MembersDiffer
    <3>4. CASE Members[m][i] = Members[e.macro][e.next]
      BY <1>8, <1>9, <3>4, MembersDiffer
    <3> QED
      BY <3>2, <3>3, <3>4
  <2> QED
    BY <1>1, <1>7, <2>1, <2>2, <2>3 DEF Advance
<1>18. Walk(loc, g, ds) /\ Untouched(loc, g, ds[n - 1]) /\ Untouched(loc, g, ds[n])
  <2>1. Swaps(loc, g) /\ OwnPlaces(g) /\ Allowed(loc, g)
    BY <1>3, ExchangeSwaps DEF g, Walk
  <2> QED
    BY <1>1, <1>3, <1>13, <1>14, <1>17, <2>1, AdvanceWalk
<1>19. Meets(loc, ds[n - 1], ds[n])
  <2>1. PICK h \in DOMAIN Members[c.macro] :
          h + e.next = c.next + 1 /\ Plus(loc[Members[c.macro][h]], c.offset) = loc[Members[e.macro][1]]
    BY <1>9 DEF Meets
  <2>3. h \in Nat
    BY <1>8, MemberTypes
  <2>2. h + (e.next + 1) = (c.next + 1) + 1
    BY <1>8, <2>1, <2>3
  <2> QED
    BY <1>9, <1>15, <2>1, <2>2 DEF Meets
<1>20. AllWill(loc, g, ds, n - 1)
  <2>1. ~Doomed(loc, f, c)
    <3>1. ~Moves(loc, f, b)
      BY DEF CanExchange
    <3>2. c.next = 1 => ~By(loc, f, Members[c.macro][1], c.offset)
      BY <1>8, <1>9, <1>16, <3>1, ByMoves
    <3> QED
      BY <3>2 DEF Doomed
  <2>2. AllWill(loc, f, cs, n - 1)
    BY <1>4, <1>5, <2>1 DEF OverlapPhase
  <2> SUFFICES ASSUME NEW t \in DOMAIN cs, t < n - 1 PROVE Will(loc, g, ds, t)
    BY <1>15 DEF AllWill
  <2>3. Will(loc, f, cs, t)
    BY <2>2 DEF AllWill
  <2>4. t + 1 \in DOMAIN cs /\ \A u \in {n - 1, n} : u > t
    BY <1>7
  <2> QED
    BY <1>1, <1>3, <1>13, <1>14, <1>17, <2>3, <2>4, WillStays
<1> QED
  <2>1. Len(ds) > 1 /\ Prior(ds) = ds[n - 1] /\ Last(ds) = ds[n]
    BY <1>7, <1>15 DEF Prior, Last
  <2>2. OverlapPhase(loc, g, ds)
    BY <1>15, <1>18, <1>19, <1>20, <2>1 DEF OverlapPhase
  <2> QED
    BY <1>2, <2>2 DEF g

\* A call at the end of its macro is done.
LEMMA WalkedAll ==
  ASSUME NEW loc, NEW f, NEW c \in Call, Walked(loc, f, c), c.next > Len(Members[c.macro])
  PROVE  Done(loc, f, c) /\ ~Doomed(loc, f, c)
<1>1. c.macro \in Macros /\ c.next \in Nat
  BY DEF Call
<1>2. c.next # 1 /\ \A i \in DOMAIN Members[c.macro] : i < c.next
  BY <1>1, MemberTypes
<1> QED
  BY <1>2 DEF Walked, Done, Doomed

\* The call that made the last one can go on without it.
LEMMA Popped ==
  ASSUME NEW loc \in Placing, NEW f \in Placing, NEW cs, Walk(loc, f, cs), Len(cs) > 1,
         Done(loc, f, Last(cs)), AllWill(loc, f, cs, Len(cs) - 1)
  PROVE  LET ds == SubSeq(cs, 1, Len(cs) - 1)
         IN  /\ Walk(loc, f, ds) /\ Len(ds) = Len(cs) - 1 /\ Last(ds) = Prior(cs)
             /\ AllWill(loc, f, ds, Len(ds))
<1> DEFINE ds == SubSeq(cs, 1, Len(cs) - 1)
<1>1. Calls(cs) /\ cs \in Seq(Call)
  BY DEF Walk, Calls
<1>2. PICK n \in Nat : n = Len(cs)
  BY <1>1, LastTwo
<1>3. /\ n > 1 /\ DOMAIN cs = 1 .. n /\ n \in DOMAIN cs
      /\ Last(cs) = cs[n]
      /\ \A t \in DOMAIN cs : cs[t] \in Call /\ cs[t].macro \in Macros /\ cs[t].offset \in Vectors /\ cs[t].offset # Zero
  BY <1>1, <1>2, LastTwo, CallTypes DEF Last
<1>4. /\ ds \in Seq(Call) /\ Len(ds) = n - 1 /\ DOMAIN ds = 1 .. n - 1 /\ ds # <<>>
      /\ \A t \in DOMAIN ds : ds[t] = cs[t] /\ t \in DOMAIN cs
  BY <1>1, <1>2, <1>3
<1>5. \A t \in DOMAIN cs : t \in DOMAIN ds \/ t = n
  BY <1>3, <1>4
<1> HIDE DEF ds
<1>6. Calls(ds)
  BY <1>1, <1>4 DEF Calls
<1>7. Carried(loc, f, ds)
  <2> SUFFICES ASSUME NEW m \in Macros, NEW i \in DOMAIN Members[m], Moves(loc, f, Members[m][i])
               PROVE  Whole(loc, f, m) \/ \E t \in DOMAIN ds : Takes(loc, f, ds[t], m)
    BY DEF Carried
  <2>1. Takes(loc, f, cs[n], m) => Whole(loc, f, m)
    BY <1>3, ByMoves, MemberTypes DEF Takes, Done, Whole
  <2>2. Whole(loc, f, m) \/ \E t \in DOMAIN cs : Takes(loc, f, cs[t], m)
    BY DEF Walk, Carried
  <2> QED
    BY <1>4, <1>5, <2>1, <2>2
<1>8. Walk(loc, f, ds)
  BY <1>4, <1>6, <1>7 DEF Walk
<1>9. ASSUME NEW t \in DOMAIN ds, t < n - 1 PROVE Will(loc, f, ds, t)
  <2>1. Will(loc, f, cs, t)
    BY <1>2, <1>4, <1>9 DEF AllWill
  <2>2. t + 1 \in DOMAIN ds /\ ds[t + 1] = cs[t + 1] /\ ds[t] = cs[t]
    BY <1>2, <1>4, <1>9
  <2>3. CASE Done(loc, f, cs[t])
    BY <2>2, <2>3 DEF Will
  <2>4. CASE \E u \in DOMAIN cs : u > t /\ cs[u].macro = cs[t].macro /\ cs[u].offset = cs[t].offset
    <3>1. PICK u \in DOMAIN cs : u > t /\ cs[u].macro = cs[t].macro /\ cs[u].offset = cs[t].offset
      BY <2>4
    <3>2. CASE u = n
      BY <1>3, <2>2, <3>1, <3>2 DEF Will, Done
    <3>3. CASE u # n
      BY <1>4, <1>5, <2>2, <3>1, <3>3 DEF Will
    <3> QED
      BY <3>2, <3>3
  <2>5. CASE Blocked(loc, f, cs[t], cs[t + 1])
    BY <2>2, <2>5 DEF Will
  <2> QED
    BY <2>1, <2>3, <2>4, <2>5 DEF Will
<1>10. Last(ds) = Prior(cs)
  BY <1>2, <1>3, <1>4 DEF Last, Prior
<1> QED
  BY <1>2, <1>4, <1>8, <1>9, <1>10 DEF AllWill, ds

\* When one of the two ends, the rest of the other walks on.
LEMMA OverlapEnds ==
  ASSUME NEW loc \in Placing, NEW f \in Placing, NEW cs, OverlapPhase(loc, f, cs)
  PROVE  /\ Last(cs).next > Len(Members[Last(cs).macro])
              => WalkPhase(loc, f, SubSeq(cs, 1, Len(cs) - 1))
         /\ Prior(cs).next > Len(Members[Prior(cs).macro]) => WalkPhase(loc, f, cs)
<1>1. /\ Walk(loc, f, cs) /\ Calls(cs) /\ Len(cs) > 1
      /\ (Doomed(loc, f, Prior(cs)) /\ Last(cs).next = 1) \/ AllWill(loc, f, cs, Len(cs) - 1)
  BY DEF OverlapPhase, Walk
<1>2. /\ Len(cs) \in Nat /\ DOMAIN cs = 1 .. Len(cs) /\ Len(cs) - 1 \in DOMAIN cs /\ Len(cs) \in DOMAIN cs
      /\ Last(cs) \in Call /\ Prior(cs) \in Call /\ Last(cs).macro \in Macros
  BY <1>1, LastTwo
<1>3. Walked(loc, f, Last(cs)) /\ Walked(loc, f, Prior(cs))
  BY <1>1, <1>2 DEF Walk, Last, Prior
<1>4. ASSUME Last(cs).next > Len(Members[Last(cs).macro])
      PROVE  WalkPhase(loc, f, SubSeq(cs, 1, Len(cs) - 1))
  <2> DEFINE ds == SubSeq(cs, 1, Len(cs) - 1)
  <2>1. Done(loc, f, Last(cs)) /\ Last(cs).next # 1
    BY <1>2, <1>3, <1>4, WalkedAll, MemberTypes
  <2>2. Walk(loc, f, ds) /\ Last(ds) = Prior(cs) /\ AllWill(loc, f, ds, Len(ds))
    BY <1>1, <2>1, Popped
  <2> HIDE DEF ds
  <2>3. WalkPhase(loc, f, ds)
    BY <2>2 DEF WalkPhase, OverlapPhase
  <2> QED
    BY <2>3 DEF ds
<1>5. ASSUME Prior(cs).next > Len(Members[Prior(cs).macro]) PROVE WalkPhase(loc, f, cs)
  <2>1. Done(loc, f, Prior(cs)) /\ ~Doomed(loc, f, Prior(cs))
    BY <1>2, <1>3, <1>5, WalkedAll
  <2>2. Will(loc, f, cs, Len(cs) - 1)
    BY <2>1 DEF Will, Prior
  <2>3. ASSUME NEW t \in DOMAIN cs, t < Len(cs) PROVE t = Len(cs) - 1 \/ t < Len(cs) - 1
    BY <1>2, <2>3
  <2>4. AllWill(loc, f, cs, Len(cs))
    BY <1>1, <2>1, <2>2, <2>3 DEF AllWill
  <2> QED
    BY <1>1, <2>4 DEF WalkPhase, OverlapPhase
<1> QED
  BY <1>4, <1>5

\* When the walk ends, the call returns.
LEMMA WalkEnds ==
  ASSUME NEW loc \in Placing, NEW f \in Placing, NEW cs, WalkPhase(loc, f, cs),
         Last(cs).next > Len(Members[Last(cs).macro])
  PROVE  ReturnPhase(loc, f, cs)
<1>1. Walk(loc, f, cs) /\ Calls(cs)
  BY DEF WalkPhase, Walk
<1>2. Last(cs) \in Call /\ Walked(loc, f, Last(cs))
  BY <1>1, CallTypes DEF Walk, Last
<1> QED
  BY <1>1, <1>2, WalkedAll DEF WalkPhase, ReturnPhase

\* When a call returns, the one that made it is done as well: it had nothing else to do,
\* or was moved by the call of its own macro above, or is out of the way now.
LEMMA ReturnStep ==
  ASSUME NEW loc \in Placing, NEW f \in Placing, NEW cs, ReturnPhase(loc, f, cs), Len(cs) > 1
  PROVE  ReturnPhase(loc, f, SubSeq(cs, 1, Len(cs) - 1))
<1> DEFINE ds == SubSeq(cs, 1, Len(cs) - 1)
           c == Prior(cs)
           e == Last(cs)
<1>1. Walk(loc, f, cs) /\ Calls(cs) /\ Done(loc, f, e) /\ AllWill(loc, f, cs, Len(cs))
  BY DEF ReturnPhase, Walk
<1>2. /\ Len(cs) \in Nat /\ DOMAIN cs = 1 .. Len(cs) /\ Len(cs) - 1 \in DOMAIN cs /\ Len(cs) \in DOMAIN cs
      /\ c.macro \in Macros /\ e.macro \in Macros /\ c.offset \in Vectors /\ c.next \in Nat
      /\ e.offset \in Vectors /\ e.offset # Zero /\ c.offset # Zero
  BY <1>1, LastTwo
<1>3. AllWill(loc, f, cs, Len(cs) - 1) /\ Will(loc, f, cs, Len(cs) - 1)
  BY <1>1, <1>2 DEF AllWill
<1>4. Walk(loc, f, ds) /\ Last(ds) = c /\ AllWill(loc, f, ds, Len(ds))
  BY <1>1, <1>3, Popped
<1> HIDE DEF ds
<1>5. cs[Len(cs) - 1] = c /\ cs[(Len(cs) - 1) + 1] = e
  BY <1>2 DEF Last, Prior
<1>6. CASE \E u \in DOMAIN cs : u > Len(cs) - 1 /\ cs[u].macro = c.macro /\ cs[u].offset = c.offset
  <2>1. e.macro = c.macro /\ e.offset = c.offset
    BY <1>2, <1>6 DEF Last
  <2> QED
    BY <1>1, <1>4, <2>1 DEF Done, ReturnPhase, ds
<1>7. CASE Blocked(loc, f, c, e)
  <2>1. PICK j \in DOMAIN Members[e.macro] :
          Plus(loc[Members[c.macro][c.next]], c.offset) = loc[Members[e.macro][j]]
    BY <1>7 DEF Blocked
  <2>2. /\ c.next \in DOMAIN Members[c.macro] /\ e.offset = Opposite(c.offset)
        /\ ~By(loc, f, Members[c.macro][c.next], c.offset)
    BY <1>7 DEF Blocked
  <2> DEFINE b == Members[c.macro][c.next]
             a == Members[e.macro][j]
  <2>3. b \in Blocks /\ a \in Blocks /\ loc[b] \in Vectors
    BY <1>2, <2>1, <2>2, MemberTypes, PlaceTypes
  <2>4. By(loc, f, a, e.offset)
    BY <1>1 DEF Done
  <2>5. Moves(loc, f, a)
    BY <1>2, <2>3, <2>4, ByMoves
  <2>6. f[a] = loc[b]
    BY <1>2, <2>1, <2>2, <2>3, <2>4, PlusOpposite DEF By
  <2>7. f[b] = loc[a]
    BY <1>1, <2>3, <2>5, <2>6 DEF Walk, Swaps
  <2> QED
    BY <2>1, <2>2, <2>7 DEF By
<1>8. CASE Done(loc, f, c)
  BY <1>4, <1>8 DEF ReturnPhase, ds
<1> QED
  BY <1>3, <1>5, <1>6, <1>7, <1>8 DEF Will

\* A macro whose members all go the same way keeps its shape.
LEMMA ShapeStays ==
  ASSUME NEW loc \in Placing, NEW f \in Placing, InShape(loc), NEW m \in Macros,
         NEW o \in Vectors, \A i \in DOMAIN Members[m] : By(loc, f, Members[m][i], o),
         NEW i \in DOMAIN Members[m]
  PROVE  f[Members[m][i]] = Plus(f[Members[m][1]], Offset[m][i])
<1>1. Members[m][i] \in Blocks /\ Members[m][1] \in Blocks /\ 1 \in DOMAIN Members[m]
  BY MemberTypes
<1>2. loc[Members[m][1]] \in Vectors /\ Offset[m][i] \in Vectors
  BY <1>1, PlaceTypes, MacrosAssumption
<1>3. loc[Members[m][i]] = Plus(loc[Members[m][1]], Offset[m][i])
  BY DEF InShape
<1>4. Plus(Plus(loc[Members[m][1]], Offset[m][i]), o) = Plus(Plus(loc[Members[m][1]], o), Offset[m][i])
  BY <1>2, PlusCommutes
<1> QED
  BY <1>1, <1>3, <1>4 DEF By

\* When the first call returns, all macros have kept their shape.
LEMMA Finished ==
  ASSUME NEW loc \in Placing, NEW f \in Placing, NEW cs, InShape(loc), ReturnPhase(loc, f, cs),
         Len(cs) = 1
  PROVE  InShape(f) /\ \E b \in Blocks : Moves(loc, f, b)
<1>1. /\ Walk(loc, f, cs) /\ Calls(cs) /\ DOMAIN cs = {1} /\ Done(loc, f, cs[1]) /\ cs[1] \in Call
      /\ cs[1].macro \in Macros /\ cs[1].offset \in Vectors /\ cs[1].offset # Zero
  BY CallTypes DEF ReturnPhase, Walk, Last
<1>2. ASSUME NEW m \in Macros, NEW i \in DOMAIN Members[m]
      PROVE  f[Members[m][i]] = Plus(f[Members[m][1]], Offset[m][i])
  <2>1. CASE \A j \in DOMAIN Members[m] : ~Moves(loc, f, Members[m][j])
    BY <2>1, MemberTypes DEF InShape, Moves
  <2>2. CASE \E j \in DOMAIN Members[m] : Moves(loc, f, Members[m][j])
    <3>1. Whole(loc, f, m) \/ Takes(loc, f, cs[1], m)
      BY <1>1, <2>2 DEF Walk, Carried
    <3>2. CASE Takes(loc, f, cs[1], m)
      BY <1>1, <3>2, ShapeStays DEF Takes, Done
    <3>3. CASE Whole(loc, f, m)
      <4> DEFINE b == Members[m][1]
                 o == Minus(f[b], loc[b])
      <4>1. 1 \in DOMAIN Members[m] /\ b \in Blocks /\ f[b] \in Vectors /\ loc[b] \in Vectors
        BY MemberTypes, PlaceTypes
      <4>2. o \in Vectors /\ By(loc, f, b, o)
        BY <4>1, VectorTypes, PlusMinus DEF By
      <4>3. \A j \in DOMAIN Members[m] : By(loc, f, Members[m][j], o)
        <5> HIDE DEF o
        <5> QED
          BY <1>1, <3>3, <4>1, <4>2 DEF Walk, Together, Whole
      <4> QED
        BY <4>2, <4>3, ShapeStays
    <3> QED
      BY <3>1, <3>2, <3>3
  <2> QED
    BY <2>1, <2>2
<1>3. Moves(loc, f, Members[cs[1].macro][1]) /\ Members[cs[1].macro][1] \in Blocks
  BY <1>1, ByMoves, MemberTypes DEF Done
<1> QED
  BY <1>2, <1>3 DEF InShape

-------------------------------------------------------------------------------
(* What is recorded, as a placement *)

\* Block b is recorded.
Names(mv, b) == \E i \in DOMAIN mv : mv[i].block_num = b

\* The placement that the moves mv lead to from loc
DestOf(loc, mv) ==
  [b \in Blocks |-> IF Names(mv, b) THEN mv[CHOOSE i \in DOMAIN mv : mv[i].block_num = b].new_loc
                    ELSE loc[b]]

\* What is always true of moves that were recorded
Register(loc, mv) ==
  /\ mv \in Seq(Move)
  /\ \A i, j \in DOMAIN mv :
       mv[i].block_num = mv[j].block_num \/ mv[i].new_loc = mv[j].new_loc => i = j
  /\ \A i \in DOMAIN mv : mv[i].old_loc = loc[mv[i].block_num] /\ mv[i].new_loc # mv[i].old_loc

LEMMA RegisterTypes ==
  ASSUME NEW loc, NEW mv, Register(loc, mv)
  PROVE  /\ Len(mv) \in Nat /\ DOMAIN mv = 1 .. Len(mv)
         /\ \A i \in DOMAIN mv : /\ mv[i] \in Move /\ mv[i].block_num \in Blocks
                                 /\ mv[i].old_loc \in Locs /\ mv[i].new_loc \in Locs
<1>1. mv \in Seq(Move) /\ Len(mv) \in Nat /\ DOMAIN mv = 1 .. Len(mv)
  BY DEF Register
<1>2. \A i \in DOMAIN mv : mv[i] \in Move
  BY <1>1
<1> QED
  BY <1>1, <1>2 DEF Move

\* The placement they lead to moves the blocks they name, each to its place.
LEMMA DestFacts ==
  ASSUME NEW loc \in Placing, NEW mv, Register(loc, mv)
  PROVE  LET f == DestOf(loc, mv)
         IN  /\ f \in Placing
             /\ \A i \in DOMAIN mv : f[mv[i].block_num] = mv[i].new_loc
             /\ \A b \in Blocks : Moves(loc, f, b) <=> Names(mv, b)
             /\ \A b, c \in Blocks : Moves(loc, f, b) /\ Moves(loc, f, c) /\ f[b] = f[c] => b = c
<1> DEFINE f == DestOf(loc, mv)
<1>1. ASSUME NEW i \in DOMAIN mv PROVE f[mv[i].block_num] = mv[i].new_loc /\ mv[i].block_num \in Blocks
  <2> DEFINE b == mv[i].block_num
             h == CHOOSE j \in DOMAIN mv : mv[j].block_num = b
  <2>1. b \in Blocks
    BY RegisterTypes
  <2>2. h \in DOMAIN mv /\ mv[h].block_num = b
    OBVIOUS
  <2>3. h = i
    BY <2>2 DEF Register
  <2>4. f[b] = mv[h].new_loc
    BY <2>1 DEF DestOf, Names
  <2> QED
    BY <2>1, <2>3, <2>4
<1>2. ASSUME NEW b \in Blocks, ~Names(mv, b) PROVE f[b] = loc[b]
  BY <1>2 DEF DestOf
<1> HIDE DEF f
<1>3. ASSUME NEW b \in Blocks PROVE f[b] \in Locs
  BY <1>1, <1>2, RegisterTypes DEF Names, Placing
<1>4. f \in Placing
  BY <1>3 DEF f, DestOf, Placing
<1>5. ASSUME NEW b \in Blocks PROVE Moves(loc, f, b) <=> Names(mv, b)
  BY <1>1, <1>2 DEF Names, Moves, Register
<1>6. ASSUME NEW b \in Blocks, NEW c \in Blocks, Moves(loc, f, b), Moves(loc, f, c), f[b] = f[c] PROVE b = c
  <2>1. PICK i \in DOMAIN mv : mv[i].block_num = b
    BY <1>5, <1>6 DEF Names
  <2>2. PICK j \in DOMAIN mv : mv[j].block_num = c
    BY <1>5, <1>6 DEF Names
  <2> QED
    BY <1>1, <1>6, <2>1, <2>2 DEF Register
<1> QED
  BY <1>1, <1>4, <1>5, <1>6 DEF f

LEMMA EmptyRegister ==
  ASSUME NEW loc \in Placing
  PROVE  Register(loc, <<>>) /\ DestOf(loc, <<>>) = loc
<1>1. Register(loc, <<>>)
  BY DEF Register
<1>2. DestOf(loc, <<>>) = [b \in Blocks |-> loc[b]]
  BY DEF DestOf, Names
<1> QED
  BY <1>1, <1>2 DEF Placing

LEMMA AppendFacts ==
  ASSUME NEW S, NEW s \in Seq(S), NEW x \in S
  PROVE  LET t == Append(s, x)
         IN  /\ t \in Seq(S) /\ t # <<>> /\ Len(t) = Len(s) + 1 /\ DOMAIN t = 1 .. Len(s) + 1
             /\ t[Len(s) + 1] = x /\ \A i \in DOMAIN s : t[i] = s[i]
OBVIOUS

\* Recording one more block sends it to its place, and no other.
LEMMA OneMore ==
  ASSUME NEW loc \in Placing, NEW mv, Register(loc, mv), NEW b \in Blocks, NEW to \in Locs,
         to # loc[b], ~Names(mv, b), \A i \in DOMAIN mv : mv[i].new_loc # to
  PROVE  LET nv == Append(mv, [block_num |-> b, old_loc |-> loc[b], new_loc |-> to])
             f  == DestOf(loc, mv)
             g  == DestOf(loc, nv)
         IN  /\ Register(loc, nv) /\ nv # <<>>
             /\ g[b] = to /\ \A a \in Blocks : a # b => g[a] = f[a]
             /\ \A a : Names(nv, a) <=> Names(mv, a) \/ a = b
             /\ \A i \in DOMAIN nv : (i \in DOMAIN mv /\ nv[i] = mv[i]) \/ nv[i].new_loc = to
<1> DEFINE x  == [block_num |-> b, old_loc |-> loc[b], new_loc |-> to]
           nv == Append(mv, x)
           f  == DestOf(loc, mv)
           g  == DestOf(loc, nv)
<1>1. x \in Move /\ x.block_num = b /\ x.old_loc = loc[b] /\ x.new_loc = to
  BY DEF Move, Placing
<1>2. mv \in Seq(Move) /\ Len(mv) \in Nat /\ DOMAIN mv = 1 .. Len(mv)
  BY RegisterTypes DEF Register
<1> HIDE DEF x
<1>3. /\ nv \in Seq(Move) /\ nv # <<>> /\ Len(nv) = Len(mv) + 1 /\ DOMAIN nv = 1 .. Len(mv) + 1
      /\ nv[Len(mv) + 1] = x /\ \A i \in DOMAIN mv : nv[i] = mv[i]
  BY <1>1, <1>2, AppendFacts
<1> HIDE DEF nv
<1>4. /\ \A i \in DOMAIN nv : i \in DOMAIN mv \/ i = Len(mv) + 1
      /\ \A i \in DOMAIN mv : i \in DOMAIN nv
      /\ Len(mv) + 1 \in DOMAIN nv
  BY <1>2, <1>3
<1>5. Register(loc, nv)
  <2>1. ASSUME NEW i \in DOMAIN nv, NEW j \in DOMAIN nv,
               nv[i].block_num = nv[j].block_num \/ nv[i].new_loc = nv[j].new_loc
        PROVE  i = j
    <3>1. CASE i \in DOMAIN mv /\ j \in DOMAIN mv
      BY <1>3, <2>1, <3>1 DEF Register
    <3>2. CASE i = Len(mv) + 1 /\ j \in DOMAIN mv
      BY <1>1, <1>3, <2>1, <3>2 DEF Names
    <3>3. CASE j = Len(mv) + 1 /\ i \in DOMAIN mv
      BY <1>1, <1>3, <2>1, <3>3 DEF Names
    <3> QED
      BY <1>4, <3>1, <3>2, <3>3
  <2>2. ASSUME NEW i \in DOMAIN nv
        PROVE  nv[i].old_loc = loc[nv[i].block_num] /\ nv[i].new_loc # nv[i].old_loc
    <3>1. CASE i \in DOMAIN mv
      BY <1>3, <3>1 DEF Register
    <3>2. CASE i = Len(mv) + 1
      BY <1>1, <1>3, <3>2
    <3> QED
      BY <1>4, <3>1, <3>2
  <2> QED
    BY <1>3, <2>1, <2>2 DEF Register
<1>6. \A a : Names(nv, a) <=> Names(mv, a) \/ a = b
  BY <1>1, <1>3, <1>4 DEF Names
<1>7. g[b] = to
  <2>1. g[nv[Len(mv) + 1].block_num] = nv[Len(mv) + 1].new_loc
    BY <1>4, <1>5, DestFacts
  <2> QED
    BY <1>1, <1>3, <2>1
<1>8. ASSUME NEW a \in Blocks, a # b PROVE g[a] = f[a]
  <2>1. CASE Names(mv, a)
    <3>1. PICK i \in DOMAIN mv : mv[i].block_num = a
      BY <2>1 DEF Names
    <3>2. i \in DOMAIN nv /\ nv[i] = mv[i]
      BY <1>3, <1>4
    <3>3. f[mv[i].block_num] = mv[i].new_loc
      BY DestFacts
    <3>4. g[nv[i].block_num] = nv[i].new_loc
      BY <1>5, <3>2, DestFacts
    <3> QED
      BY <3>1, <3>2, <3>3, <3>4
  <2>2. CASE ~Names(mv, a)
    <3>1. ~Names(nv, a)
      BY <1>6, <1>8, <2>2
    <3> QED
      BY <2>2, <3>1 DEF DestOf
  <2> QED
    BY <2>1, <2>2
<1>9. \A i \in DOMAIN nv : (i \in DOMAIN mv /\ nv[i] = mv[i]) \/ nv[i].new_loc = to
  BY <1>1, <1>3, <1>4
<1> QED
  BY <1>3, <1>5, <1>6, <1>7, <1>8, <1>9 DEF nv, x

-------------------------------------------------------------------------------
(* The state while a move is recorded *)

\* The placement that what is recorded leads to
Recorded == DestOf(block_locs, moved)

\* While nothing is applied the grid says who is where.
LEMMA GridFacts ==
  ASSUME Still
  PROVE  /\ block_locs \in Placing /\ OwnPlaces(block_locs)
         /\ \A l \in Locs : /\ grid_blocks[l] = NoBlock => \A b \in Blocks : block_locs[b] # l
                            /\ grid_blocks[l] # NoBlock => /\ grid_blocks[l] \in Blocks
                                                           /\ block_locs[grid_blocks[l]] = l
         /\ \A b \in Blocks, l \in Locs : grid_blocks[l] = b <=> block_locs[b] = l
<1>1. block_locs \in Placing /\ OwnPlaces(block_locs)
  BY InverseOwnPlaces DEF Still, Placing
<1>2. \A b \in Blocks, l \in Locs : grid_blocks[l] = b <=> block_locs[b] = l
  BY DEF Still, SettledGrid
<1>3. \A l \in Locs : grid_blocks[l] # NoBlock => grid_blocks[l] \in Blocks
  BY DEF Still, Grids
<1> QED
  BY <1>1, <1>2, <1>3, BlocksAssumption

\* A block that record_block_move accepts was not recorded, nor was its place taken.
LEMMA CanRecordFacts ==
  ASSUME Still, Register(block_locs, moved), NEW b \in Blocks, NEW to, CanRecord(b, to)
  PROVE  ~Names(moved, b) /\ \A i \in DOMAIN moved : moved[i].new_loc # to
BY DEF CanRecord, Names, Register

\* Recording a block swap is an exchange.
LEMMA Swapped ==
  ASSUME Still, Register(block_locs, moved), NEW b \in Blocks, NEW to \in Locs,
         to # block_locs[b], CanSwap(b, to), SingleBlockSwap(b, to)
  PROVE  /\ Register(block_locs, moved') /\ moved' # <<>>
         /\ DestOf(block_locs, moved') = Exchanged(block_locs, Recorded, b, to)
         /\ CanExchange(block_locs, Recorded, b, to)
<1> DEFINE loc == block_locs
           f == Recorded
           mv == moved
           o == grid_blocks[to]
           x == MoveOf(b, to)
           y == MoveOf(o, loc[b])
<1>1. /\ loc \in Placing /\ OwnPlaces(loc) /\ loc[b] \in Locs
      /\ o = NoBlock => \A c \in Blocks : loc[c] # to
      /\ o # NoBlock => o \in Blocks /\ loc[o] = to
      /\ \A c \in Blocks : o = c <=> loc[c] = to
  BY GridFacts DEF Placing
<1>2. /\ f \in Placing
      /\ \A i \in DOMAIN mv : f[mv[i].block_num] = mv[i].new_loc
      /\ \A c \in Blocks : Moves(loc, f, c) <=> Names(mv, c)
  BY <1>1, DestFacts DEF Recorded
<1>3. ASSUME NEW c \in Blocks, NEW l \in Locs, CanRecord(c, l)
      PROVE  /\ ~Names(mv, c) /\ \A i \in DOMAIN mv : mv[i].new_loc # l
             /\ ~Moves(loc, f, c) /\ \A a \in Blocks : Moves(loc, f, a) => f[a] # l
  <2>1. ~Names(mv, c) /\ \A i \in DOMAIN mv : mv[i].new_loc # l
    BY <1>3, CanRecordFacts
  <2> QED
    BY <1>2, <2>1 DEF Names
<1>4. CanRecord(b, to) /\ (o # NoBlock => CanRecord(o, loc[b]))
  BY DEF CanSwap
<1>5. CanExchange(loc, f, b, to)
  <2>1. ASSUME NEW c \in Blocks, loc[c] = to
        PROVE  ~Moves(loc, f, c) /\ \A a \in Blocks : Moves(loc, f, a) => f[a] # loc[b]
    <3>1. o = c /\ o # NoBlock
      BY <1>1, <2>1, BlocksAssumption
    <3> QED
      BY <1>1, <1>3, <1>4, <3>1
  <2> QED
    BY <1>3, <1>4, <2>1 DEF CanExchange
<1>6. Register(loc, mv) /\ ~Names(mv, b) /\ \A i \in DOMAIN mv : mv[i].new_loc # to
  BY <1>3, <1>4
<1> DEFINE nv == Append(mv, x)
           g  == DestOf(loc, nv)
<1>7. /\ Register(loc, nv) /\ nv # <<>>
      /\ g[b] = to /\ \A a \in Blocks : a # b => g[a] = f[a]
      /\ \A a : Names(nv, a) <=> Names(mv, a) \/ a = b
      /\ \A i \in DOMAIN nv : (i \in DOMAIN mv /\ nv[i] = mv[i]) \/ nv[i].new_loc = to
  BY <1>1, <1>6, OneMore DEF Recorded, MoveOf
<1>8. x \in Move /\ mv \in Seq(Move)
  BY <1>1 DEF MoveOf, Move, Register
<1>9. CASE o = NoBlock
  <2>1. moved' = nv
    BY <1>8, <1>9 DEF SingleBlockSwap
  <2>2. \A a \in Blocks : g[a] = Exchanged(loc, f, b, to)[a]
    BY <1>1, <1>7, <1>9 DEF Exchanged
  <2>3. g = Exchanged(loc, f, b, to)
    <3>1. g \in Placing /\ Exchanged(loc, f, b, to) \in Placing
      BY <1>1, <1>2, <1>5, <1>7, DestFacts, ExchangeFacts
    <3> HIDE DEF g
    <3> QED
      BY <2>2, <3>1 DEF Placing
  <2> QED
    BY <1>5, <1>7, <2>1, <2>3
<1>10. CASE o # NoBlock
  <2> DEFINE pv == Append(nv, y)
             h  == DestOf(loc, pv)
  <2>1. o \in Blocks /\ loc[o] = to /\ o # b /\ ~Names(mv, o) /\ \A i \in DOMAIN mv : mv[i].new_loc # loc[b]
    BY <1>1, <1>3, <1>4, <1>10
  <2>2. ~Names(nv, o) /\ \A i \in DOMAIN nv : nv[i].new_loc # loc[b]
    BY <1>7, <2>1
  <2> HIDE DEF nv
  <2>3. /\ Register(loc, pv) /\ pv # <<>> /\ h[o] = loc[b] /\ \A a \in Blocks : a # o => h[a] = g[a]
    BY <1>1, <1>7, <2>1, <2>2, OneMore DEF MoveOf
  <2>4. moved' = pv
    <3>1. y \in Move
      BY <1>1, <2>1 DEF MoveOf, Move
    <3>2. mv \o <<x, y>> = Append(Append(mv, x), y)
      <4> HIDE DEF x, y
      <4> QED
        BY <1>8, <3>1
    <3> QED
      BY <1>10, <3>2 DEF SingleBlockSwap, nv
  <2>5. \A a \in Blocks : h[a] = Exchanged(loc, f, b, to)[a]
    BY <1>1, <1>7, <2>1, <2>3 DEF Exchanged
  <2>6. h = Exchanged(loc, f, b, to)
    <3>1. h \in Placing /\ Exchanged(loc, f, b, to) \in Placing
      BY <1>1, <1>2, <1>5, <2>3, DestFacts, ExchangeFacts
    <3> HIDE DEF h
    <3> QED
      BY <2>5, <3>1 DEF Placing
  <2> QED
    BY <1>5, <2>3, <2>4, <2>6
<1> QED
  BY <1>9, <1>10

-------------------------------------------------------------------------------
(* The invariant, and how a proposal starts and ends *)

\* A placement that a move may start from or lead to
Good(f) == InShape(f) /\ (AlikeTiles => \A b \in Blocks : Fits(b, f[b]))

\* A checkpoint is one, and has the fixed blocks where they are.
SavedGood == \A g \in saved : Good(g) /\ \A b \in Fixed : g[b] = block_locs[b]

\* The placement a move under way started from
OriginOf(loc, mv) ==
  [b \in Blocks |-> IF Names(mv, b) THEN mv[CHOOSE i \in DOMAIN mv : mv[i].block_num = b].old_loc
                    ELSE loc[b]]

\* The invariant while nothing is being recorded
MoveInv ==
  /\ GridInv /\ calls = <<>> /\ affected = <<>> /\ search = <<>> /\ SavedGood
  /\ pc = "idle" => moved = <<>>
  /\ Settled => Good(block_locs)
  /\ ~Settled => /\ Good(OriginOf(block_locs, moved)) /\ Good(DestOf(block_locs, moved))
                 /\ \A i \in DOMAIN moved : moved[i].block_num \notin Fixed

\* What holds while a move is being recorded
Started == Still /\ Good(block_locs) /\ SavedGood /\ Register(block_locs, moved)

\* The invariant of record_macro_swaps and record_macro_macro_swaps
WalkInv ==
  /\ Started /\ affected = <<>> /\ search = <<>>
  /\ pc = "macro"   => WalkPhase(block_locs, Recorded, calls)
  /\ pc = "overlap" => OverlapPhase(block_locs, Recorded, calls)
  /\ pc = "return"  => ReturnPhase(block_locs, Recorded, calls)

LEMMA StillStays ==
  ASSUME Still, SavedGood, Good(block_locs), UNCHANGED Placement
  PROVE  Still' /\ SavedGood' /\ Good(block_locs)'
<1>1. UNCHANGED <<block_locs, grid_blocks, usage, pins, k, saved>>
  BY DEF Placement
<1>2. SavedGood' /\ Good(block_locs)'
  <2>1. \A f : Good(f)' <=> Good(f)
    OBVIOUS
  <2> QED
    BY <1>1, <2>1 DEF SavedGood
<1> QED
  BY <1>1, <1>2 DEF Still, Counts

\* A proposal may be given up at any time.
LEMMA AbortEnds ==
  ASSUME Started, Abort
  PROVE  MoveInv'
<1>1. UNCHANGED <<block_locs, grid_blocks, usage, pins, k, saved, moved>>
  BY DEF Abort, Placement
<1>2. Still' /\ SavedGood' /\ Good(block_locs)'
  BY StillStays DEF Abort, Started
<1>3. TypeOK'
  BY <1>1 DEF Abort, Started, Still, Placing, Grids, Usages, Register, TypeOK
<1>4. GridInv'
  BY <1>2, <1>3 DEF GridInv, Still, Settled, Abort
<1> QED
  BY <1>2, <1>4 DEF MoveInv, Abort, Settled

\* A proposal may be applied when the placement it leads to is good, nobody fixed moves and
\* whoever is in the way does.
LEMMA ValidBegins ==
  ASSUME Still, Good(block_locs), SavedGood, Valid, Register(block_locs, moved'), moved' # <<>>,
         NEW f, f = DestOf(block_locs, moved'), Good(f),
         \A b \in Blocks : Moves(block_locs, f, b) => b \notin Fixed,
         \A b, c \in Blocks : Moves(block_locs, f, b) /\ f[b] = block_locs[c] => Moves(block_locs, f, c)
  PROVE  MoveInv' /\ IsProposal(moved') /\ pc' = "apply"
<1>1. UNCHANGED <<block_locs, grid_blocks, usage, pins, k, saved>> /\ pc' = "apply"
  BY DEF Valid, Placement
<1>2. block_locs \in Placing
  BY DEF Still
<1>3. /\ \A i \in DOMAIN moved' : f[moved'[i].block_num] = moved'[i].new_loc
      /\ \A b \in Blocks : Moves(block_locs, f, b) <=> Names(moved', b)
  BY <1>2, DestFacts
<1>4. \A i \in DOMAIN moved' : /\ moved'[i].block_num \in Blocks /\ moved'[i].new_loc \in Locs
                               /\ moved'[i].old_loc = block_locs[moved'[i].block_num]
                               /\ Moves(block_locs, f, moved'[i].block_num)
  BY <1>3, RegisterTypes DEF Register, Names
<1>5. IsProposal(moved')
  <2>1. ASSUME NEW i \in DOMAIN moved', grid_blocks[moved'[i].new_loc] # NoBlock
        PROVE  \E j \in DOMAIN moved' : moved'[j].block_num = grid_blocks[moved'[i].new_loc]
    <3>1. /\ grid_blocks[moved'[i].new_loc] \in Blocks
          /\ block_locs[grid_blocks[moved'[i].new_loc]] = moved'[i].new_loc
      BY <1>4, <2>1, GridFacts
    <3>2. Moves(block_locs, f, grid_blocks[moved'[i].new_loc])
      BY <1>3, <1>4, <3>1
    <3> QED
      BY <1>3, <3>1, <3>2 DEF Names
  <2> QED
    BY <2>1 DEF IsProposal, Register
<1>6. GridInv'
  BY <1>1, <1>5, ApplyBegins
<1>7. SavedGood' /\ Good(block_locs)'
  BY StillStays DEF Valid
<1>8. OriginOf(block_locs, moved') = block_locs
  <2>1. \A b \in Blocks : OriginOf(block_locs, moved')[b] = block_locs[b]
    <3> SUFFICES ASSUME NEW b \in Blocks, Names(moved', b)
                 PROVE  moved'[CHOOSE i \in DOMAIN moved' : moved'[i].block_num = b].old_loc = block_locs[b]
      BY DEF OriginOf
    <3>1. PICK i \in DOMAIN moved' : i = CHOOSE h \in DOMAIN moved' : moved'[h].block_num = b
      BY DEF Names
    <3>2. moved'[i].block_num = b
      BY <3>1 DEF Names
    <3> QED
      BY <1>4, <3>1, <3>2
  <2> QED
    BY <1>2, <2>1 DEF OriginOf, Placing
<1>9. Good(OriginOf(block_locs', moved')) /\ Good(DestOf(block_locs', moved'))
  BY <1>1, <1>8
<1>10. \A i \in DOMAIN moved' : moved'[i].block_num \notin Fixed
  BY <1>4
<1>11. MoveInv'
  BY <1>1, <1>6, <1>7, <1>9, <1>10 DEF MoveInv, Settled, Valid
<1> QED
  BY <1>1, <1>5, <1>11

\* What is recorded by a block swap is legal, if the block may go there.
LEMMA SwapAllowed ==
  ASSUME Still, NEW f \in Placing, Allowed(block_locs, f), NEW b \in Blocks, NEW to \in Locs,
         CanSwap(b, to), Fits(b, to), CanExchange(block_locs, f, b, to)
  PROVE  Allowed(block_locs, Exchanged(block_locs, f, b, to))
<1>1. block_locs \in Placing /\ OwnPlaces(block_locs)
  BY GridFacts
<1>2. b \notin Fixed
  BY DEF CanSwap
<1>3. ASSUME NEW c \in Blocks, block_locs[c] = to PROVE c \notin Fixed /\ Fits(c, block_locs[b])
  <2>1. grid_blocks[to] = c /\ c # NoBlock
    BY <1>3, GridFacts, BlocksAssumption
  <2> QED
    BY <2>1 DEF CanSwap, LegalSwap
<1> QED
  BY <1>1, <1>2, <1>3, ExchangeAllowed

\* Who takes a place makes the one who is there move.
LEMMA SwapsMove ==
  ASSUME NEW loc, NEW f, Swaps(loc, f), NEW b \in Blocks, NEW c \in Blocks,
         Moves(loc, f, b), f[b] = loc[c]
  PROVE  Moves(loc, f, c)
BY DEF Swaps, Moves

LEMMA IdleStill ==
  ASSUME MoveInv, Settled
  PROVE  Still /\ Good(block_locs) /\ SavedGood
BY DEF MoveInv, GridInv, TypeOK, Still, Placing, Grids, Usages

\* A macro starts to walk.
LEMMA StartStep ==
  ASSUME MoveInv, pc = "idle", NEW m \in Macros, NEW o \in Vectors, o # Zero, StartMacro(m, o)
  PROVE  WalkInv' /\ moved' = <<>> /\ UNCHANGED block_locs
<1>1. Still /\ Good(block_locs) /\ SavedGood /\ moved = <<>> /\ affected = <<>> /\ search = <<>>
  BY IdleStill DEF MoveInv, Settled
<1>2. block_locs \in Placing /\ OwnPlaces(block_locs)
  BY <1>1, GridFacts
<1>3. Still' /\ Good(block_locs)' /\ SavedGood' /\ moved' = <<>> /\ affected' = <<>> /\ search' = <<>>
  BY <1>1, StillStays DEF StartMacro
<1>4. block_locs' = block_locs
  BY DEF StartMacro, Placement
<1>5. Register(block_locs', moved') /\ Recorded' = block_locs'
  BY <1>2, <1>3, <1>4, EmptyRegister DEF Recorded
<1>6. WalkPhase(block_locs, block_locs, <<Frame(m, 1, o)>>)
  BY <1>2, FirstWalk
<1>7. WalkPhase(block_locs', Recorded', calls') /\ pc' = "macro"
  BY <1>4, <1>5, <1>6 DEF StartMacro
<1> QED
  BY <1>3, <1>4, <1>5, <1>7 DEF WalkInv, Started

\* create_move starts a walk, records two single blocks, or gives up.
LEMMA CreateStep ==
  ASSUME MoveInv, CreateMove
  PROVE  \/ WalkInv' /\ pc' = "macro" /\ moved' = <<>>
         \/ MoveInv' /\ pc' = "clear" /\ moved' \in Seq(Move)
         \/ MoveInv' /\ pc' = "apply" /\ IsProposal(moved')
<1>1. pc = "idle" /\ Still /\ Good(block_locs) /\ SavedGood /\ moved = <<>> 
  BY IdleStill DEF MoveInv, Settled, CreateMove
<1>2. PICK b \in Blocks \ Fixed, to \in Locs :
         Fits(b, to) /\ TileOf[to] # TileOf[block_locs[b]] /\ FindAffectedBlocks(b, to)
  BY DEF CreateMove
<1> DEFINE b_to == grid_blocks[to]
<1>3. /\ block_locs \in Placing /\ OwnPlaces(block_locs) /\ to # block_locs[b]
      /\ to \in Vectors /\ block_locs[b] \in Vectors
  BY <1>1, <1>2, GridFacts, PlaceTypes, PlacesAssumption
<1>4. CASE MacroOf(b) # NoMacro /\ StartMacro(MacroOf(b), Minus(to, block_locs[b]))
  <2>1. MacroOf(b) \in Macros
    BY <1>4, MacroOfOther
  <2>2. Minus(to, block_locs[b]) \in Vectors /\ Minus(to, block_locs[b]) # Zero
    BY <1>3, VectorTypes, PlusMinus, PlusZero
  <2> QED
    BY <1>1, <1>4, <2>1, <2>2, StartStep DEF StartMacro
<1>5. CASE MacroOf(b_to) # NoMacro /\ StartMacro(MacroOf(b_to), Minus(block_locs[b], block_locs[b_to]))
  <2>1. MacroOf(b_to) \in Macros /\ b_to \in Blocks
    BY <1>5, MacroOfOther, MemberTypes
  <2>2. block_locs[b_to] = to
    BY <1>1, <2>1, GridFacts, BlocksAssumption
  <2>3. Minus(block_locs[b], to) \in Vectors /\ Minus(block_locs[b], to) # Zero
    <3>1. Minus(block_locs[b], to) \in Vectors /\ Plus(to, Minus(block_locs[b], to)) = block_locs[b]
      BY <1>3, VectorTypes, PlusMinus
    <3> QED
      BY <1>3, <3>1, PlusZero
  <2> QED
    BY <1>1, <1>5, <2>1, <2>2, <2>3, StartStep DEF StartMacro
<1>6. CASE /\ MacroOf(b) = NoMacro /\ MacroOf(b_to) = NoMacro
           /\ CanSwap(b, to) /\ SingleBlockSwap(b, to) /\ Valid
  <2> DEFINE f == Exchanged(block_locs, block_locs, b, to)
  <2>1. Register(block_locs, moved) /\ Recorded = block_locs
    BY <1>1, <1>3, EmptyRegister DEF Recorded
  <2>2. /\ Register(block_locs, moved') /\ moved' # <<>> /\ DestOf(block_locs, moved') = f
        /\ CanExchange(block_locs, block_locs, b, to)
    BY <1>1, <1>3, <1>6, <2>1, Swapped
  <2>3. Swaps(block_locs, f) /\ Allowed(block_locs, f)
    <3>1. Swaps(block_locs, block_locs) /\ Allowed(block_locs, block_locs)
      BY DEF Swaps, Allowed, Moves
    <3> QED
      BY <1>1, <1>2, <1>3, <1>6, <2>2, <3>1, ExchangeSwaps, SwapAllowed
  <2>4. ASSUME NEW c \in Blocks, MacroOf(c) # NoMacro PROVE f[c] = block_locs[c]
    <3>1. c # b /\ block_locs[c] # to
      BY <1>1, <1>6, <2>4, GridFacts
    <3> QED
      BY <3>1 DEF Exchanged
  <2>5. InShape(f)
    <3>1. \A m \in Macros : \A i \in DOMAIN Members[m] : f[Members[m][i]] = block_locs[Members[m][i]]
      BY <2>4, MacroOfMember, MacrosAssumption, MemberTypes
    <3> HIDE DEF f
    <3> QED
      BY <1>1, <3>1, MemberTypes DEF Good, InShape
  <2> HIDE DEF f
  <2>6. Good(f)
    BY <1>1, <2>3, <2>5 DEF Good, Allowed, Moves
  <2>7. \A c \in Blocks : Moves(block_locs, f, c) => c \notin Fixed
    BY <2>3 DEF Allowed
  <2>8. \A a, c \in Blocks : Moves(block_locs, f, a) /\ f[a] = block_locs[c] => Moves(block_locs, f, c)
    BY <2>3, SwapsMove
  <2> QED
    BY <1>1, <1>6, <2>2, <2>6, <2>7, <2>8, ValidBegins
<1>7. CASE Abort
  <2>1. Started
    BY <1>1, <1>3, EmptyRegister DEF Started
  <2>2. moved' \in Seq(Move) /\ pc' = "clear"
    BY <1>1, <1>7 DEF Abort
  <2> QED
    BY <1>7, <2>1, <2>2, AbortEnds
<1> QED
  BY <1>2, <1>4, <1>5, <1>6, <1>7 DEF FindAffectedBlocks

-------------------------------------------------------------------------------
(* The steps of record_macro_swaps and record_macro_macro_swaps *)

\* The topmost call is one, and is at a member while it walks.
LEMMA TopFacts ==
  ASSUME Calls(calls)
  PROVE  /\ Top = Last(calls) /\ Top \in Call /\ Top.macro \in Macros /\ Top.next \in Nat /\ Top.next >= 1
         /\ Top.offset \in Vectors /\ Top.offset # Zero
         /\ Walking => Top.next \in DOMAIN Members[Top.macro]
<1>1. Top = Last(calls)
  BY DEF Top, Last
<1>2. Len(calls) \in DOMAIN calls
  BY CallTypes
<1>3. /\ Top \in Call /\ Top.macro \in Macros /\ Top.next \in Nat /\ Top.next >= 1
      /\ Top.offset \in Vectors /\ Top.offset # Zero
  BY <1>2, CallTypes DEF Top
<1>4. Walking => Top.next \in DOMAIN Members[Top.macro]
  BY <1>3, MemberTypes DEF Walking
<1> QED
  BY <1>1, <1>3, <1>4

\* A member goes to another place than its own.
LEMMA TargetFacts ==
  ASSUME Still, NEW b \in Blocks, NEW o \in Vectors, o # Zero
  PROVE  Plus(block_locs[b], o) # block_locs[b]
<1>1. block_locs[b] \in Vectors
  BY GridFacts, PlaceTypes
<1> QED
  BY <1>1, PlusZero

LEMMA RecordedTypes ==
  ASSUME Started
  PROVE  /\ block_locs \in Placing /\ Recorded \in Placing /\ OwnPlaces(block_locs) /\ InShape(block_locs)
         /\ Register(block_locs, moved) /\ Still
BY GridFacts, DestFacts DEF Started, Recorded, Good

\* The walk goes on past single blocks.
LEMMA SwapSingleStep == WalkInv /\ SwapSingle => WalkInv'
<1> SUFFICES ASSUME WalkInv, SwapSingle PROVE WalkInv'
  OBVIOUS
<1> DEFINE b  == Walker
           to == Target(Walker)
           f  == Recorded
           loc == block_locs
<1>1. /\ WalkPhase(loc, f, calls) /\ Walk(loc, f, calls) /\ Calls(calls) /\ Started /\ Walking
      /\ pc = "macro" /\ pc' = "macro" /\ affected' = <<>> /\ search' = <<>>
  BY DEF WalkInv, SwapSingle, Walking, WalkPhase, Walk
<1>2. /\ loc \in Placing /\ f \in Placing /\ OwnPlaces(loc) /\ Still /\ Register(loc, moved)
  BY <1>1, RecordedTypes
<1>3. b \in Blocks /\ to # loc[b] /\ to \in Locs /\ Fits(b, to)
  <2>1. b \in Blocks
    BY <1>1, TopFacts, MemberTypes DEF Walker
  <2>2. to # loc[b]
    BY <1>1, <1>2, <2>1, TopFacts, TargetFacts DEF Target
  <2> QED
    BY <2>1, <2>2 DEF SwapSingle, LegalSwap
<1>4. /\ Register(loc, moved') /\ DestOf(loc, moved') = Exchanged(loc, f, b, to)
      /\ CanExchange(loc, f, b, to)
  BY <1>2, <1>3, Swapped DEF SwapSingle
<1>5. Allowed(loc, Exchanged(loc, f, b, to))
  BY <1>1, <1>2, <1>3, <1>4, SwapAllowed DEF SwapSingle, Walk
<1>6. \A c \in Blocks : loc[c] = to => MacroOf(c) = NoMacro
  <2>1. \A c \in Blocks : loc[c] = to => grid_blocks[to] = c
    BY <1>2, <1>3, GridFacts
  <2> QED
    BY <2>1 DEF SwapSingle, Met
<1>7. IsNext(loc, Last(calls), b, to)
  BY <1>1, TopFacts DEF IsNext, Walker, Target
<1> HIDE DEF b, to
<1>8. WalkPhase(loc, Exchanged(loc, f, b, to), [calls EXCEPT ![Len(calls)].next = @ + 1])
  BY <1>1, <1>2, <1>4, <1>5, <1>6, <1>7, SingleStep
<1>9. block_locs' = block_locs /\ calls' = [calls EXCEPT ![Len(calls)].next = @ + 1]
  BY DEF SwapSingle, Placement
<1>10. Still' /\ SavedGood' /\ Good(block_locs)'
  BY <1>1, StillStays DEF Started, SwapSingle
<1>11. WalkPhase(block_locs', Recorded', calls') /\ Register(block_locs', moved')
  BY <1>4, <1>8, <1>9 DEF Recorded
<1> QED
  BY <1>1, <1>10, <1>11 DEF WalkInv, Started

\* Steps that record nothing.
LEMMA NothingRecorded ==
  ASSUME WalkInv, UNCHANGED <<moved, affected, search, Placement>>
  PROVE  /\ Started' /\ affected' = <<>> /\ search' = <<>>
         /\ block_locs' = block_locs /\ Recorded' = Recorded
<1>1. block_locs' = block_locs /\ moved' = moved /\ affected' = <<>> /\ search' = <<>>
  BY DEF WalkInv, Placement
<1>2. Started'
  BY <1>1, StillStays DEF WalkInv, Started
<1> QED
  BY <1>1, <1>2 DEF Recorded

\* It meets another macro.
LEMMA MeetMacroStep == WalkInv /\ MeetMacro => WalkInv'
<1> SUFFICES ASSUME WalkInv, MeetMacro PROVE WalkInv'
  OBVIOUS
<1> DEFINE b  == Walker
           to == Target(Walker)
           f  == Recorded
           loc == block_locs
           c  == grid_blocks[to]
<1>1. /\ WalkPhase(loc, f, calls) /\ Calls(calls) /\ Started /\ Walking
  BY DEF WalkInv, MeetMacro, Walking, WalkPhase, Walk
<1>2. /\ loc \in Placing /\ f \in Placing /\ Still
  BY <1>1, RecordedTypes
<1>3. Met \in Macros /\ \E i \in DOMAIN Members[Met] : Members[Met][i] = c
  BY MacroOfOther DEF MeetMacro, Met
<1>4. PICK j \in DOMAIN Members[Met] : Members[Met][j] = c
  BY <1>3
<1>5. c \in Blocks /\ to \in Locs
  BY <1>3, <1>4, MemberTypes DEF MeetMacro, LegalSwap
<1>6. loc[c] = to
  BY <1>2, <1>5, GridFacts
<1>7. /\ Last(calls) = Top /\ Top.next \in DOMAIN Members[Top.macro] /\ b = Members[Top.macro][Top.next]
      /\ Met # Top.macro /\ to = Plus(loc[b], Top.offset)
  BY <1>1, TopFacts DEF Walker, Target, MeetMacro
<1> HIDE DEF b, to, c
<1> DEFINE ds == Append(calls, Frame(Met, 1, Opposite(Last(calls).offset)))
<1>8. /\ j = 1 => OverlapPhase(loc, f, ds)
      /\ j # 1 => WalkPhase(loc, f, ds)
  BY <1>1, <1>2, <1>3, <1>4, <1>6, <1>7, MeetStep
<1>9. calls' = ds /\ pc' = IF Members[Met][1] = c THEN "overlap" ELSE "macro"
  BY <1>7 DEF MeetMacro, c, to
<1>10. Members[Met][1] = c <=> j = 1
  BY <1>3, <1>4, MembersDiffer, MemberTypes
<1> HIDE DEF ds
<1>11. Started' /\ affected' = <<>> /\ search' = <<>> /\ block_locs' = block_locs /\ Recorded' = Recorded
  BY NothingRecorded DEF MeetMacro
<1> QED
  BY <1>8, <1>9, <1>10, <1>11 DEF WalkInv

\* Two macros that overlap exchange one member each.
LEMMA SwapMembersStep == WalkInv /\ SwapMembers => WalkInv'
<1> SUFFICES ASSUME WalkInv, SwapMembers PROVE WalkInv'
  OBVIOUS
<1> DEFINE b  == Members[Below.macro][Below.next]
           to == Plus(block_locs[b], Below.offset)
           f  == Recorded
           loc == block_locs
<1>1. /\ OverlapPhase(loc, f, calls) /\ Walk(loc, f, calls) /\ Calls(calls) /\ Started /\ Len(calls) > 1
      /\ pc = "overlap" /\ pc' = "overlap" /\ affected' = <<>> /\ search' = <<>>
  BY DEF WalkInv, SwapMembers, Overlapping, OverlapPhase, Walk
<1>2. /\ loc \in Placing /\ f \in Placing /\ OwnPlaces(loc) /\ Still /\ Register(loc, moved) /\ InShape(loc)
  BY <1>1, RecordedTypes
<1>3. /\ Below = Prior(calls) /\ Top = Last(calls)
      /\ Below.macro \in Macros /\ Below.next \in DOMAIN Members[Below.macro]
      /\ Below.offset \in Vectors /\ Below.offset # Zero
      /\ Top.next \in DOMAIN Members[Top.macro]
  <2>1. Below = Prior(calls) /\ Top = Last(calls)
    BY DEF Below, Prior, Top, Last
  <2>2. \A c \in {Below, Top} : /\ c.macro \in Macros /\ c.next \in Nat /\ c.next >= 1 /\ c.offset \in Vectors
                                /\ c.offset # Zero
    BY <1>1, <2>1, LastTwo
  <2> QED
    BY <2>1, <2>2, MemberTypes DEF SwapMembers, Overlapping
<1>4. b \in Blocks /\ to # loc[b] /\ to \in Locs /\ Fits(b, to)
  <2>1. b \in Blocks
    BY <1>3, MemberTypes
  <2>2. to # loc[b]
    BY <1>2, <1>3, <2>1, TargetFacts
  <2> QED
    BY <2>1, <2>2 DEF SwapMembers, CanSwapMembers, LegalSwap
<1>5. CanSwap(b, to) /\ SingleBlockSwap(b, to)
  BY DEF SwapMembers, CanSwapMembers
<1>6. Offset[Prior(calls).macro][Prior(calls).next] =
           Plus(Offset[Last(calls).macro][Last(calls).next],
                Offset[Prior(calls).macro][Prior(calls).next - Last(calls).next + 1])
  BY <1>3 DEF SwapMembers, CanSwapMembers
<1>7. IsNext(loc, Prior(calls), b, to)
  BY <1>3 DEF IsNext
<1> HIDE DEF b, to
<1>8. /\ Register(loc, moved') /\ DestOf(loc, moved') = Exchanged(loc, f, b, to)
      /\ CanExchange(loc, f, b, to)
  BY <1>2, <1>4, <1>5, Swapped
<1>9. Allowed(loc, Exchanged(loc, f, b, to))
  BY <1>1, <1>2, <1>4, <1>5, <1>8, SwapAllowed DEF Walk
<1>10. OverlapPhase(loc, Exchanged(loc, f, b, to),
                    [calls EXCEPT ![Len(calls)].next = @ + 1, ![Len(calls) - 1].next = @ + 1])
  BY <1>1, <1>2, <1>3, <1>6, <1>7, <1>8, <1>9, OverlapStep
<1>11. /\ block_locs' = block_locs
       /\ calls' = [calls EXCEPT ![Len(calls)].next = @ + 1, ![Len(calls) - 1].next = @ + 1]
  BY DEF SwapMembers, Placement
<1>12. Still' /\ SavedGood' /\ Good(block_locs)'
  BY <1>1, StillStays DEF Started, SwapMembers
<1>13. OverlapPhase(block_locs', Recorded', calls') /\ Register(block_locs', moved')
  BY <1>8, <1>10, <1>11 DEF Recorded
<1> QED
  BY <1>1, <1>12, <1>13 DEF WalkInv, Started

\* One of the two ends.
LEMMA EndOverlapStep == WalkInv /\ EndOverlap => WalkInv'
<1> SUFFICES ASSUME WalkInv, EndOverlap PROVE WalkInv'
  OBVIOUS
<1>1. /\ OverlapPhase(block_locs, Recorded, calls) /\ Calls(calls) /\ Started /\ Len(calls) > 1
      /\ pc = "overlap" /\ pc' = "macro"
  BY DEF WalkInv, EndOverlap, OverlapPhase, Walk
<1>2. block_locs \in Placing /\ Recorded \in Placing
  BY <1>1, RecordedTypes
<1>3. Started' /\ affected' = <<>> /\ search' = <<>> /\ block_locs' = block_locs /\ Recorded' = Recorded
  BY NothingRecorded DEF EndOverlap
<1>4. Below = Prior(calls) /\ Top = Last(calls)
  BY DEF Below, Prior, Top, Last
<1>5. \A c \in {Prior(calls), Last(calls)} : c.next \in Nat /\ Len(Members[c.macro]) \in Nat
  BY <1>1, LastTwo, MemberTypes
<1>6. CASE Top.next <= Len(Members[Top.macro])
  <2>1. Prior(calls).next > Len(Members[Prior(calls).macro]) /\ calls' = calls
    BY <1>1, <1>4, <1>5, <1>6 DEF EndOverlap, Overlapping
  <2> QED
    BY <1>1, <1>2, <1>3, <2>1, OverlapEnds DEF WalkInv
<1>7. CASE ~(Top.next <= Len(Members[Top.macro]))
  <2>1. Last(calls).next > Len(Members[Last(calls).macro]) /\ calls' = SubSeq(calls, 1, Len(calls) - 1)
    BY <1>4, <1>5, <1>7 DEF EndOverlap
  <2> QED
    BY <1>1, <1>2, <1>3, <2>1, OverlapEnds DEF WalkInv
<1> QED
  BY <1>6, <1>7

\* The walk ends.
LEMMA EndWalkStep == WalkInv /\ EndWalk => WalkInv'
<1> SUFFICES ASSUME WalkInv, EndWalk PROVE WalkInv'
  OBVIOUS
<1>1. /\ WalkPhase(block_locs, Recorded, calls) /\ Calls(calls) /\ Started
      /\ pc = "macro" /\ pc' = "return" /\ calls' = calls
  BY DEF WalkInv, EndWalk, locals, WalkPhase, Walk
<1>2. block_locs \in Placing /\ Recorded \in Placing
  BY <1>1, RecordedTypes
<1>3. Started' /\ affected' = <<>> /\ search' = <<>> /\ block_locs' = block_locs /\ Recorded' = Recorded
  BY NothingRecorded DEF EndWalk, locals
<1>4. Last(calls).next > Len(Members[Last(calls).macro])
  <2>1. Top = Last(calls) /\ Top.next \in Nat /\ Len(Members[Top.macro]) \in Nat
    BY <1>1, TopFacts, MemberTypes
  <2>2. ~(Top.next <= Len(Members[Top.macro]))
    BY <1>1 DEF EndWalk, Walking
  <2> QED
    BY <2>1, <2>2
<1> QED
  BY <1>1, <1>2, <1>3, <1>4, WalkEnds DEF WalkInv

\* A call returns; the first one hands over a move that can be committed.
LEMMA ReturnStays ==
  ASSUME WalkInv, Return
  PROVE  \/ WalkInv' /\ pc' = "return"
         \/ MoveInv' /\ pc' = "apply" /\ IsProposal(moved')
<1>1. /\ ReturnPhase(block_locs, Recorded, calls) /\ Calls(calls) /\ Started /\ pc = "return"
      /\ Walk(block_locs, Recorded, calls)
  BY DEF WalkInv, Return, ReturnPhase, Walk
<1>2. block_locs \in Placing /\ Recorded \in Placing
  BY <1>1, RecordedTypes
<1>3. CASE Len(calls) # 1
  <2>1. Len(calls) > 1
    <3>1. Len(calls) \in Nat /\ Len(calls) >= 1
      BY <1>1, CallTypes
    <3> QED
      BY <1>3, <3>1
  <2>2. Started' /\ affected' = <<>> /\ search' = <<>> /\ block_locs' = block_locs /\ Recorded' = Recorded
    BY <1>3, NothingRecorded DEF Return
  <2>3. ReturnPhase(block_locs', Recorded', calls') /\ pc' = "return"
    <3>1. calls' = SubSeq(calls, 1, Len(calls) - 1) /\ pc' = "return"
      BY <1>1, <1>3 DEF Return
    <3>2. ReturnPhase(block_locs, Recorded, SubSeq(calls, 1, Len(calls) - 1))
      BY <1>1, <1>2, <2>1, ReturnStep
    <3> QED
      BY <2>2, <3>1, <3>2
  <2> QED
    BY <2>2, <2>3 DEF WalkInv
<1>4. CASE Len(calls) = 1
  <2>1. Valid /\ moved' = moved
    BY <1>4 DEF Return
  <2>2. InShape(Recorded) /\ \E b \in Blocks : Moves(block_locs, Recorded, b)
    BY <1>1, <1>2, <1>4, Finished DEF Started, Good
  <2>3. Register(block_locs, moved') /\ Recorded = DestOf(block_locs, moved')
    BY <1>1, <2>1 DEF Started, Recorded
  <2>4. moved' # <<>>
    <3>1. \E b \in Blocks : Names(moved', b)
      BY <1>2, <2>2, <2>3, DestFacts
    <3> QED
      BY <3>1 DEF Names
  <2>5. Good(Recorded)
    BY <1>1, <2>2 DEF Good, Walk, Allowed, Moves, Started
  <2>6. \A b \in Blocks : Moves(block_locs, Recorded, b) => b \notin Fixed
    BY <1>1 DEF Walk, Allowed
  <2>7. \A b, c \in Blocks : Moves(block_locs, Recorded, b) /\ Recorded[b] = block_locs[c]
                               => Moves(block_locs, Recorded, c)
    BY <1>1, SwapsMove DEF Walk
  <2> QED
    BY <1>1, <2>1, <2>3, <2>4, <2>5, <2>6, <2>7, ValidBegins DEF Started
<1> QED
  BY <1>3, <1>4

-------------------------------------------------------------------------------
(* Macros that would land on themselves *)

\* Macro m is affected.
In(aff, m) == \E i \in DOMAIN aff : aff[i] = m

Legal(n, h)   == LegalSwap(Members[n][h], Target(Members[n][h]))
\* What the member h of macro n would land on
Meeting(n, h) == MacroOf(grid_blocks[Target(Members[n][h])])

\* It may go there, and a macro that is there is affected too.
Explored(aff, n, h) == Legal(n, h) /\ (Meeting(n, h) = NoMacro \/ In(aff, Meeting(n, h)))
\* A walk that is not over will come to it.
Ahead(sr, n, h) == \E s \in DOMAIN sr : sr[s].macro = n /\ sr[s].next <= h
\* Some member of an affected macro cannot move: the proposal will be given up.
Bad(aff) == \E n \in Macros : In(aff, n) /\ \E h \in DOMAIN Members[n] : ~Legal(n, h)

\* Single blocks fit either both of two places or none.
Alike(p, q) == \A b \in Blocks : MacroOf(b) = NoMacro => (Fits(b, p) <=> Fits(b, q))

\* No affected macro is fixed, and all are on places like those of the first one.
Closure(aff) ==
  \A n \in Macros : In(aff, n) =>
    /\ \A h \in DOMAIN Members[n] : Members[n][h] \notin Fixed
    /\ AlikeTiles => Alike(block_locs[Members[n][1]], block_locs[Members[Top.macro][1]])

\* Block b is a member of an affected macro, and recorded to move by the offset.
Shifted(f, aff, b) ==
  \E n \in Macros : In(aff, n) /\ \E h \in DOMAIN Members[n] :
    b = Members[n][h] /\ By(block_locs, f, b, Top.offset) /\ Legal(n, h)

\* It is a single block that gave way to an affected macro, to a place one leaves.
Gave(f, aff, b) ==
  /\ MacroOf(b) = NoMacro /\ b \notin Fixed /\ (AlikeTiles => Fits(b, f[b]))
  /\ \E n \in Macros : In(aff, n) /\ \E h \in DOMAIN Members[n] : f[b] = block_locs[Members[n][h]]
  /\ \E c \in Blocks : Moves(block_locs, f, c) /\ f[c] = block_locs[b]

\* While affected macros are identified: each member of each of them has been explored, or
\* will be, unless the proposal is going to be given up.
IdentifyInv(aff, sr) ==
  /\ Closure(aff) /\ sr # <<>> /\ sr[Len(sr)].macro = Top.macro
  /\ \A s \in DOMAIN sr : s # Len(sr) => In(aff, sr[s].macro)
  /\ \E h \in DOMAIN Members[Top.macro] : Meeting(Top.macro, h) = Top.macro
  /\ \A n \in Macros : In(aff, n) \/ n = Top.macro =>
       \A h \in DOMAIN Members[n] : Bad(aff) \/ Explored(aff, n, h) \/ Ahead(sr, n, h)

\* While they are recorded: only their members are, and each is or will be.
ShiftInv(f, aff, sr) ==
  /\ Closure(aff) /\ aff # <<>> /\ \A s \in DOMAIN sr : In(aff, sr[s].macro)
  /\ \A b \in Blocks : Moves(block_locs, f, b) => Shifted(f, aff, b)
  /\ \A n \in Macros : In(aff, n) => \A h \in DOMAIN Members[n] :
       /\ Bad(aff) \/ Explored(aff, n, h)
       /\ Shifted(f, aff, Members[n][h]) \/ Ahead(sr, n, h)

\* While blocks give way: all members are recorded.
DisplaceInv(f, aff) ==
  /\ Closure(aff) /\ aff # <<>>
  /\ \A b \in Blocks : Moves(block_locs, f, b) => Shifted(f, aff, b) \/ Gave(f, aff, b)
  /\ \A n \in Macros : In(aff, n) => \A h \in DOMAIN Members[n] :
       Explored(aff, n, h) /\ Shifted(f, aff, Members[n][h])

Visit == [macro: Macros, next: Nat \ {0}]

\* The invariant of record_macro_self_swaps
SelfInv ==
  /\ Started /\ Calls(calls) /\ affected \in Seq(Macros) /\ search \in Seq(Visit)
  /\ pc = "identify" => moved = <<>> /\ IdentifyInv(affected, search)
  /\ pc = "shift"    => ShiftInv(Recorded, affected, search)
  /\ pc = "displace" => DisplaceInv(Recorded, affected)

\* None of this depends on what a step that records changes.
LEMMA SameBefore ==
  ASSUME UNCHANGED <<calls, Placement>>
  PROVE  /\ \A aff, sr : IdentifyInv(aff, sr)' <=> IdentifyInv(aff, sr)
         /\ \A f, aff, sr : ShiftInv(f, aff, sr)' <=> ShiftInv(f, aff, sr)
         /\ \A f, aff : DisplaceInv(f, aff)' <=> DisplaceInv(f, aff)
         /\ block_locs' = block_locs
<1>1. block_locs' = block_locs /\ grid_blocks' = grid_blocks /\ calls' = calls
  BY DEF Placement
<1>2. Top' = Top
  BY <1>1 DEF Top
<1>3. \A n, h : Legal(n, h)' <=> Legal(n, h)
  BY <1>1, <1>2 DEF Legal, LegalSwap, Target
<1>4. \A n, h : Meeting(n, h)' = Meeting(n, h)
  BY <1>1, <1>2 DEF Meeting, Target
<1>5. \A aff : Bad(aff)' <=> Bad(aff)
  BY <1>3 DEF Bad
<1>6. \A aff, n, h : Explored(aff, n, h)' <=> Explored(aff, n, h)
  BY <1>3, <1>4 DEF Explored
<1>7. \A aff : Closure(aff)' <=> Closure(aff)
  BY <1>1, <1>2 DEF Closure
<1>8. \A f, aff, b : Shifted(f, aff, b)' <=> Shifted(f, aff, b)
  BY <1>1, <1>2, <1>3 DEF Shifted
<1>9. \A f, aff, b : Gave(f, aff, b)' <=> Gave(f, aff, b)
  BY <1>1 DEF Gave
<1>10. \A aff, sr : IdentifyInv(aff, sr)' <=> IdentifyInv(aff, sr)
  BY <1>2, <1>4, <1>5, <1>6, <1>7 DEF IdentifyInv
<1>11. \A f, aff, sr : ShiftInv(f, aff, sr)' <=> ShiftInv(f, aff, sr)
  BY <1>1, <1>5, <1>6, <1>7, <1>8 DEF ShiftInv
<1>12. \A f, aff : DisplaceInv(f, aff)' <=> DisplaceInv(f, aff)
  BY <1>1, <1>6, <1>7, <1>8, <1>9 DEF DisplaceInv
<1> QED
  BY <1>1, <1>10, <1>11, <1>12

-------------------------------------------------------------------------------
(* The macros still to be walked *)

\* The topmost walk goes on; a walk starts; the topmost one ends, or is broken off.
LEMMA VisitOn ==
  ASSUME NEW sr \in Seq(Visit), sr # <<>>
  PROVE  LET on == [sr EXCEPT ![1].next = @ + 1]
         IN  /\ on \in Seq(Visit) /\ on # <<>> /\ Len(on) = Len(sr)
             /\ \A s \in DOMAIN sr : on[s].macro = sr[s].macro
             /\ \A n : \A h \in Nat : Ahead(sr, n, h) =>
                  Ahead(on, n, h) \/ (n = sr[1].macro /\ h = sr[1].next)
<1> DEFINE v == [sr[1] EXCEPT !.next = @ + 1]
           on == [sr EXCEPT ![1] = v]
<1>0. on = [sr EXCEPT ![1].next = @ + 1]
  OBVIOUS
<1>1. /\ Len(sr) \in Nat /\ Len(sr) >= 1 /\ DOMAIN sr = 1 .. Len(sr) /\ 1 \in DOMAIN sr
      /\ \A s \in DOMAIN sr : sr[s] \in Visit
  OBVIOUS
<1>2. /\ v \in Visit /\ v.macro = sr[1].macro /\ v.next = sr[1].next + 1
  <2>1. PICK x \in Visit : x = sr[1]
    BY <1>1
  <2>2. [x EXCEPT !.next = @ + 1] \in Visit /\ x.macro = [x EXCEPT !.next = @ + 1].macro
        /\ [x EXCEPT !.next = @ + 1].next = x.next + 1
    BY DEF Visit
  <2> QED
    BY <2>1, <2>2
<1> HIDE DEF v
<1>3. /\ on \in Seq(Visit) /\ Len(on) = Len(sr) /\ DOMAIN on = DOMAIN sr /\ on # <<>>
      /\ on[1] = v /\ \A s \in DOMAIN sr : s # 1 => on[s] = sr[s]
  BY <1>1, <1>2
<1> HIDE DEF on
<1>4. ASSUME NEW n, NEW h \in Nat, Ahead(sr, n, h)
      PROVE  Ahead(on, n, h) \/ (n = sr[1].macro /\ h = sr[1].next)
  <2>1. PICK s \in DOMAIN sr : sr[s].macro = n /\ sr[s].next <= h
    BY <1>4 DEF Ahead
  <2>2. CASE s = 1
    <3>1. sr[1].next \in Nat
      BY <1>1 DEF Visit
    <3>2. v.next <= h \/ h = sr[1].next
      BY <1>2, <2>1, <2>2, <3>1
    <3> QED
      BY <1>1, <1>2, <1>3, <2>1, <2>2, <3>2 DEF Ahead
  <2>3. CASE s # 1
    BY <1>3, <2>1, <2>3 DEF Ahead
  <2> QED
    BY <2>2, <2>3
<1>5. \A s \in DOMAIN sr : on[s].macro = sr[s].macro
  BY <1>2, <1>3
<1> QED
  BY <1>0, <1>3, <1>4, <1>5

LEMMA VisitFirst ==
  ASSUME NEW sr \in Seq(Visit), NEW x \in Visit
  PROVE  LET t == <<x>> \o sr
         IN  /\ t \in Seq(Visit) /\ t # <<>> /\ Len(t) = Len(sr) + 1 /\ DOMAIN t = 1 .. Len(sr) + 1
             /\ t[1] = x /\ \A s \in DOMAIN sr : t[s + 1] = sr[s]
             /\ \A n, h : Ahead(sr, n, h) => Ahead(t, n, h)
<1> DEFINE t == <<x>> \o sr
<1>1. /\ t \in Seq(Visit) /\ t # <<>> /\ Len(t) = Len(sr) + 1 /\ DOMAIN t = 1 .. Len(sr) + 1
      /\ t[1] = x /\ \A s \in DOMAIN sr : t[s + 1] = sr[s]
  OBVIOUS
<1>2. \A s \in DOMAIN sr : s + 1 \in DOMAIN t
  BY <1>1
<1> HIDE DEF t
<1>3. \A n, h : Ahead(sr, n, h) => Ahead(t, n, h)
  BY <1>1, <1>2 DEF Ahead
<1> QED
  BY <1>1, <1>3 DEF t

LEMMA VisitTail ==
  ASSUME NEW sr \in Seq(Visit), sr # <<>>
  PROVE  LET t == Tail(sr)
         IN  /\ t \in Seq(Visit) /\ Len(t) = Len(sr) - 1 /\ DOMAIN t = 1 .. Len(sr) - 1
             /\ \A s \in DOMAIN t : s + 1 \in DOMAIN sr /\ t[s] = sr[s + 1]
             /\ \A n, h : Ahead(sr, n, h) => Ahead(t, n, h) \/ (n = sr[1].macro /\ sr[1].next <= h)
<1> DEFINE t == Tail(sr)
<1>1. /\ t \in Seq(Visit) /\ Len(t) = Len(sr) - 1 /\ DOMAIN t = 1 .. Len(sr) - 1
      /\ \A s \in DOMAIN t : s + 1 \in DOMAIN sr /\ t[s] = sr[s + 1]
  OBVIOUS
<1> HIDE DEF t
<1>2. ASSUME NEW n, NEW h, Ahead(sr, n, h)
      PROVE  Ahead(t, n, h) \/ (n = sr[1].macro /\ sr[1].next <= h)
  <2>1. PICK s \in DOMAIN sr : sr[s].macro = n /\ sr[s].next <= h
    BY <1>2 DEF Ahead
  <2>2. CASE s # 1
    <3>1. s - 1 \in DOMAIN t /\ (s - 1) + 1 = s
      BY <1>1, <2>2
    <3> QED
      BY <1>1, <2>1, <3>1 DEF Ahead
  <2> QED
    BY <2>1, <2>2
<1> QED
  BY <1>1, <1>2 DEF t

LEMMA VisitSkip ==
  ASSUME NEW sr \in Seq(Visit), sr # <<>>, NEW v \in Nat \ {0}
  PROVE  LET t == [sr EXCEPT ![1].next = v]
         IN  /\ t \in Seq(Visit) /\ t # <<>> /\ Len(t) = Len(sr)
             /\ \A s \in DOMAIN sr : t[s].macro = sr[s].macro
<1> DEFINE y == [sr[1] EXCEPT !.next = v]
           t == [sr EXCEPT ![1] = y]
<1>0. t = [sr EXCEPT ![1].next = v]
  OBVIOUS
<1>1. /\ Len(sr) \in Nat /\ Len(sr) >= 1 /\ DOMAIN sr = 1 .. Len(sr) /\ 1 \in DOMAIN sr
      /\ \A s \in DOMAIN sr : sr[s] \in Visit
  OBVIOUS
<1>2. y \in Visit /\ y.macro = sr[1].macro
  <2>1. PICK x \in Visit : x = sr[1]
    BY <1>1
  <2>2. [x EXCEPT !.next = v] \in Visit /\ x.macro = [x EXCEPT !.next = v].macro
    BY DEF Visit
  <2> QED
    BY <2>1, <2>2
<1> HIDE DEF y
<1>3. /\ t \in Seq(Visit) /\ Len(t) = Len(sr) /\ t # <<>>
      /\ t[1] = y /\ \A s \in DOMAIN sr : s # 1 => t[s] = sr[s]
  BY <1>1, <1>2
<1> QED
  BY <1>0, <1>2, <1>3

LEMMA InAppend ==
  ASSUME NEW aff \in Seq(Macros), NEW n \in Macros
  PROVE  /\ Append(aff, n) \in Seq(Macros) /\ Append(aff, n) # <<>>
         /\ \A m : In(Append(aff, n), m) <=> In(aff, m) \/ m = n
<1>1. LET t == Append(aff, n)
      IN  /\ t \in Seq(Macros) /\ t # <<>> /\ Len(t) = Len(aff) + 1 /\ DOMAIN t = 1 .. Len(aff) + 1
          /\ t[Len(aff) + 1] = n /\ \A i \in DOMAIN aff : t[i] = aff[i]
  BY AppendFacts
<1>2. /\ \A i \in DOMAIN Append(aff, n) : i \in DOMAIN aff \/ i = Len(aff) + 1
      /\ \A i \in DOMAIN aff : i \in DOMAIN Append(aff, n)
      /\ Len(aff) + 1 \in DOMAIN Append(aff, n)
  BY <1>1
<1> QED
  BY <1>1, <1>2 DEF In

-------------------------------------------------------------------------------
(* Tiles alike *)

\* On tiles that are alike, all members of a macro are on places like one another.
LEMMA AlikePlaces ==
  ASSUME NEW loc \in Placing, Good(loc), AlikeTiles, NEW m \in Macros, NEW i \in DOMAIN Members[m]
  PROVE  /\ \A j \in DOMAIN Members[m] : Alike(loc[Members[m][i]], loc[Members[m][j]])
         /\ \A to \in Locs : Fits(Members[m][i], to) => Alike(loc[Members[m][i]], to)
<1>1. \A j \in DOMAIN Members[m] : /\ Members[m][j] \in Blocks /\ loc[Members[m][j]] \in Locs
                                   /\ Fits(Members[m][j], loc[Members[m][j]])
  BY MemberTypes, PlaceTypes DEF Good
<1>2. \A to \in Locs : Fits(Members[m][i], to) => Alike(loc[Members[m][i]], to)
  BY <1>1 DEF AlikeTiles, Alike
<1>3. ASSUME NEW j \in DOMAIN Members[m] PROVE Fits(Members[m][i], loc[Members[m][j]])
  BY <1>1 DEF AlikeTiles
<1> QED
  BY <1>1, <1>2, <1>3

\* A macro that an affected one, or the first one, would land on joins them.
LEMMA ClosureGrows ==
  ASSUME Started, Calls(calls), NEW aff \in Seq(Macros), Closure(aff),
         NEW m \in Macros, In(aff, m) \/ m = Top.macro, NEW h \in DOMAIN Members[m], Legal(m, h),
         Meeting(m, h) # NoMacro
  PROVE  Meeting(m, h) \in Macros /\ Closure(Append(aff, Meeting(m, h)))
<1> DEFINE b  == Members[m][h]
           to == Target(b)
           c  == grid_blocks[to]
           n  == Meeting(m, h)
           loc == block_locs
<1>1. n \in Macros /\ \E j \in DOMAIN Members[n] : Members[n][j] = c
  BY MacroOfOther DEF Meeting
<1>2. PICK j \in DOMAIN Members[n] : Members[n][j] = c
  BY <1>1
<1>3. to \in Locs /\ Fits(b, to) /\ c \notin Fixed
  BY DEF Legal, LegalSwap
<1>4. loc \in Placing /\ Still /\ Good(loc)
  BY RecordedTypes DEF Started
<1>5. c \in Blocks /\ loc[c] = to
  BY <1>1, <1>2, <1>3, <1>4, MemberTypes, GridFacts
<1>6. \A i \in DOMAIN Members[n] : Members[n][i] \notin Fixed
  BY <1>1, <1>2, <1>3, MacrosAssumption
<1>7. ASSUME AlikeTiles PROVE Alike(loc[Members[n][1]], loc[Members[Top.macro][1]])
  <2>1. 1 \in DOMAIN Members[m] /\ 1 \in DOMAIN Members[n]
    BY <1>1, MemberTypes
  <2>2. Alike(loc[Members[m][1]], loc[Members[Top.macro][1]])
    <3>1. In(aff, m) => Alike(loc[Members[m][1]], loc[Members[Top.macro][1]])
      BY <1>7 DEF Closure
    <3>2. m = Top.macro => Alike(loc[Members[m][1]], loc[Members[Top.macro][1]])
      BY DEF Alike
    <3> QED
      BY <3>1, <3>2
  <2>3. Alike(loc[b], loc[Members[m][1]]) /\ Alike(loc[b], to)
    BY <1>3, <1>4, <1>7, <2>1, AlikePlaces
  <2>4. Alike(to, loc[Members[n][1]])
    <3>1. Alike(loc[Members[n][j]], loc[Members[n][1]])
      BY <1>1, <1>4, <1>7, <2>1, AlikePlaces
    <3> QED
      BY <1>2, <1>5, <3>1
  <2> QED
    BY <2>2, <2>3, <2>4 DEF Alike
<1>8. \A k1 : In(Append(aff, n), k1) <=> In(aff, k1) \/ k1 = n
  BY <1>1, InAppend
<1> HIDE DEF n
<1>9. Closure(Append(aff, n))
  BY <1>6, <1>7, <1>8 DEF Closure
<1> QED
  BY <1>1, <1>9 DEF n

-------------------------------------------------------------------------------
(* The steps of record_macro_self_swaps *)

\* What is to be shown of a step
LEMMA SelfFrame ==
  ASSUME SelfInv, UNCHANGED <<calls, Placement>>, Register(block_locs, moved'),
         affected' \in Seq(Macros), search' \in Seq(Visit),
         pc' = "identify" => moved' = <<>> /\ IdentifyInv(affected', search'),
         pc' = "shift"    => ShiftInv(DestOf(block_locs, moved'), affected', search'),
         pc' = "displace" => DisplaceInv(DestOf(block_locs, moved'), affected')
  PROVE  SelfInv'
<1>1. block_locs' = block_locs /\ calls' = calls
  BY DEF Placement
<1>2. Started'
  BY <1>1, StillStays DEF SelfInv, Started
<1>3. Calls(calls') <=> Calls(calls)
  BY <1>1
<1>4. pc' = "identify" => moved' = <<>> /\ IdentifyInv(affected, search)'
  BY SameBefore
<1>5. pc' = "shift" => ShiftInv(Recorded, affected, search)'
  BY <1>1, SameBefore DEF Recorded
<1>6. pc' = "displace" => DisplaceInv(Recorded, affected)'
  BY <1>1, SameBefore DEF Recorded
<1> QED
  BY <1>2, <1>3, <1>4, <1>5, <1>6 DEF SelfInv

\* A macro that meets itself is the first to be explored.
LEMMA MeetItselfStep ==
  ASSUME WalkInv, MeetItself
  PROVE  SelfInv' /\ pc' = "identify" /\ moved' = <<>>
<1>1. /\ Started /\ Calls(calls) /\ Walking /\ affected = <<>> /\ pc' = "identify" /\ moved' = <<>>
      /\ affected' = <<>> /\ search' = <<[macro |-> Top.macro, next |-> 1]>>
      /\ UNCHANGED <<calls, Placement>> /\ block_locs' = block_locs
  BY DEF WalkInv, MeetItself, Walking, WalkPhase, Walk, Placement
<1>2. block_locs \in Placing /\ Top.macro \in Macros /\ Top.next \in DOMAIN Members[Top.macro]
  BY <1>1, RecordedTypes, TopFacts
<1>3. Register(block_locs, moved')
  BY <1>1, <1>2, EmptyRegister
<1> DEFINE sr == <<[macro |-> Top.macro, next |-> 1]>>
<1>4. sr \in Seq(Visit) /\ sr # <<>> /\ Len(sr) = 1 /\ DOMAIN sr = {1} /\ sr[1].macro = Top.macro /\ sr[1].next = 1
  <2>1. [macro |-> Top.macro, next |-> 1] \in Visit
    BY <1>2 DEF Visit
  <2> QED
    BY <2>1
<1> HIDE DEF sr
<1>5. IdentifyInv(<<>>, sr)
  <2>1. ~\E m : In(<<>>, m)
    BY DEF In
  <2>2. Meeting(Top.macro, Top.next) = Top.macro
    BY <1>1 DEF MeetItself, Met, Walker, Meeting
  <2>3. \A h \in DOMAIN Members[Top.macro] : Ahead(sr, Top.macro, h)
    BY <1>2, <1>4, MemberTypes DEF Ahead
  <2> QED
    BY <1>2, <1>4, <2>1, <2>2, <2>3 DEF IdentifyInv, Closure
<1>6. IdentifyInv(affected', search')
  BY <1>1, <1>5 DEF sr
<1>7. Started' /\ affected' \in Seq(Macros) /\ search' \in Seq(Visit)
  BY <1>1, <1>3, <1>4, StillStays DEF Started, sr
<1>8. Calls(calls')
  BY <1>1
<1> QED
  BY <1>1, <1>6, <1>7, <1>8, SameBefore DEF SelfInv

LEMMA VisitTypes ==
  ASSUME NEW sr \in Seq(Visit), sr # <<>>
  PROVE  /\ Len(sr) \in Nat /\ Len(sr) >= 1 /\ DOMAIN sr = 1 .. Len(sr) /\ 1 \in DOMAIN sr
         /\ sr[1].macro \in Macros /\ sr[1].next \in Nat /\ sr[1].next >= 1
         /\ Len(Members[sr[1].macro]) \in Nat
         /\ sr[1].next <= Len(Members[sr[1].macro]) => sr[1].next \in DOMAIN Members[sr[1].macro]
<1>1. Len(sr) \in Nat /\ Len(sr) >= 1 /\ DOMAIN sr = 1 .. Len(sr) /\ 1 \in DOMAIN sr /\ sr[1] \in Visit
  OBVIOUS
<1>2. sr[1].macro \in Macros /\ sr[1].next \in Nat /\ sr[1].next >= 1
  BY <1>1 DEF Visit
<1> QED
  BY <1>1, <1>2, MemberTypes

\* A member is explored: what it meets joins the affected macros, or the proposal is or will
\* be given up.
LEMMA IdentifyStep ==
  ASSUME SelfInv, Identify
  PROVE  \/ SelfInv' /\ pc' = "identify"
         \/ MoveInv' /\ pc' = "clear" /\ moved' = moved
<1>1. /\ pc = "identify" /\ moved = <<>> /\ IdentifyInv(affected, search) /\ Started /\ Calls(calls)
      /\ affected \in Seq(Macros) /\ search \in Seq(Visit) /\ search # <<>>
  BY DEF SelfInv, Identify, IdentifyInv
<1> DEFINE s  == search[1]
           b  == Members[s.macro][s.next]
           n  == MacroOf(grid_blocks[Target(b)])
           on == [search EXCEPT ![1].next = @ + 1]
<1>2. /\ Len(search) \in Nat /\ Len(search) >= 1 /\ DOMAIN search = 1 .. Len(search) /\ 1 \in DOMAIN search
      /\ s.macro \in Macros /\ s.next \in Nat
      /\ s.next <= Len(Members[s.macro]) /\ s.next \in DOMAIN Members[s.macro]
  BY <1>1, VisitTypes DEF Identify
<1>3. /\ Closure(affected) /\ search[Len(search)].macro = Top.macro
      /\ \A t \in DOMAIN search : t # Len(search) => In(affected, search[t].macro)
      /\ \E h \in DOMAIN Members[Top.macro] : Meeting(Top.macro, h) = Top.macro
      /\ \A m \in Macros : In(affected, m) \/ m = Top.macro =>
           \A h \in DOMAIN Members[m] : Bad(affected) \/ Explored(affected, m, h) \/ Ahead(search, m, h)
  BY <1>1 DEF IdentifyInv
<1>4. In(affected, s.macro) \/ s.macro = Top.macro
  BY <1>2, <1>3
<1>5. Legal(s.macro, s.next) <=> LegalSwap(b, Target(b))
  BY DEF Legal
<1>6. Meeting(s.macro, s.next) = n
  BY DEF Meeting
<1>7. /\ on \in Seq(Visit) /\ on # <<>> /\ Len(on) = Len(search)
      /\ \A t \in DOMAIN search : on[t].macro = search[t].macro
      /\ \A m : \A h \in Nat : Ahead(search, m, h) => Ahead(on, m, h) \/ (m = s.macro /\ h = s.next)
  BY <1>1, VisitOn
<1> HIDE DEF on
<1>8. DOMAIN on = DOMAIN search /\ DOMAIN on = 1 .. Len(search)
  BY <1>2, <1>7
<1>9. \A m \in Macros : \A h \in DOMAIN Members[m] : h \in Nat /\ h >= 1
  BY MemberTypes
\* The next member can move, and lands on no further macro.
<1>10. CASE LegalSwap(b, Target(b)) /\ (n = NoMacro \/ In(affected, n))
  <2>1. /\ search' = on /\ affected' = affected /\ UNCHANGED <<pc, moved, calls, Placement>>
    BY <1>10 DEF Identify, IsAffected, In, on
  <2>2. Explored(affected, s.macro, s.next)
    BY <1>5, <1>6, <1>10 DEF Explored
  <2>3. ASSUME NEW m \in Macros, In(affected, m) \/ m = Top.macro, NEW h \in DOMAIN Members[m]
        PROVE  Bad(affected) \/ Explored(affected, m, h) \/ Ahead(on, m, h)
    BY <1>3, <1>7, <1>9, <2>2, <2>3
  <2>4. IdentifyInv(affected, on)
    BY <1>3, <1>7, <1>8, <2>3 DEF IdentifyInv
  <2> QED
    BY <1>1, <1>7, <2>1, <2>4, SelfFrame DEF Started
\* It lands on one that has to move as well.
<1>11. CASE LegalSwap(b, Target(b)) /\ ~(n = NoMacro \/ In(affected, n))
  <2> DEFINE t   == <<[macro |-> n, next |-> 1]>> \o on
             aff == Append(affected, n)
  <2>1. /\ search' = t /\ affected' = aff /\ UNCHANGED <<pc, moved, calls, Placement>>
    BY <1>11 DEF Identify, IsAffected, In, on
  <2>2. n \in Macros /\ Closure(aff)
    BY <1>1, <1>2, <1>3, <1>4, <1>5, <1>6, <1>11, ClosureGrows
  <2>3. aff \in Seq(Macros) /\ \A m : In(aff, m) <=> In(affected, m) \/ m = n
    BY <1>1, <2>2, InAppend
  <2>4. /\ t \in Seq(Visit) /\ t # <<>> /\ Len(t) = Len(on) + 1 /\ DOMAIN t = 1 .. Len(on) + 1
        /\ t[1] = [macro |-> n, next |-> 1] /\ \A u \in DOMAIN on : t[u + 1] = on[u]
        /\ \A m, h : Ahead(on, m, h) => Ahead(t, m, h)
    <3>1. [macro |-> n, next |-> 1] \in Visit
      BY <2>2 DEF Visit
    <3> QED
      BY <1>7, <3>1, VisitFirst
  <2> HIDE DEF t, aff, n
  <2>5. Bad(affected) => Bad(aff)
    BY <2>3 DEF Bad
  <2>6. \A m, h : Explored(affected, m, h) => Explored(aff, m, h)
    BY <2>3 DEF Explored
  <2>7. Explored(aff, s.macro, s.next)
    BY <1>5, <1>6, <1>11, <2>3 DEF Explored
  <2>8. ASSUME NEW m \in Macros, In(aff, m) \/ m = Top.macro, NEW h \in DOMAIN Members[m]
        PROVE  Bad(aff) \/ Explored(aff, m, h) \/ Ahead(t, m, h)
    <3>1. CASE In(affected, m) \/ m = Top.macro
      BY <1>3, <1>7, <1>9, <2>4, <2>5, <2>6, <2>7, <3>1
    <3>2. CASE m = n
      <4>1. 1 \in DOMAIN t /\ t[1].macro = m /\ t[1].next <= h
        BY <1>2, <1>7, <1>9, <2>4, <3>2
      <4> QED
        BY <4>1 DEF Ahead
    <3> QED
      BY <2>3, <2>8, <3>1, <3>2
  <2>9. t[Len(t)].macro = Top.macro
    <3>1. Len(on) \in DOMAIN on /\ Len(t) = Len(on) + 1
      BY <1>2, <1>7, <1>8, <2>4
    <3> QED
      BY <1>2, <1>3, <1>7, <2>4, <3>1
  <2>10. ASSUME NEW u \in DOMAIN t, u # Len(t) PROVE In(aff, t[u].macro)
    <3>1. CASE u = 1
      BY <2>3, <2>4, <3>1
    <3>2. CASE u # 1
      <4>1. u - 1 \in DOMAIN on /\ (u - 1) + 1 = u /\ u - 1 # Len(search)
        BY <1>2, <1>7, <1>8, <2>4, <2>10, <3>2
      <4>2. t[u].macro = search[u - 1].macro /\ In(affected, search[u - 1].macro)
        BY <1>3, <1>7, <1>8, <2>4, <4>1
      <4> QED
        BY <2>3, <4>2
    <3> QED
      BY <3>1, <3>2
  <2>11. IdentifyInv(aff, t)
    BY <1>3, <2>2, <2>4, <2>8, <2>9, <2>10 DEF IdentifyInv
  <2> QED
    BY <1>1, <2>1, <2>3, <2>4, <2>11, SelfFrame DEF Started
\* It cannot move: the whole move is given up, or the macro is left as it is for now.
<1>12. CASE ~LegalSwap(b, Target(b)) /\ Len(search) = 1
  <2>1. Abort
    BY <1>12 DEF Identify
  <2> QED
    BY <1>1, <2>1, AbortEnds DEF Abort
<1>13. CASE ~LegalSwap(b, Target(b)) /\ Len(search) # 1
  <2> DEFINE v == Len(Members[search[2].macro]) + 1
             q == Tail(search)
             t == [q EXCEPT ![1].next = v]
  <2>1. /\ search' = t /\ affected' = affected /\ UNCHANGED <<pc, moved, calls, Placement>>
    BY <1>13 DEF Identify
  <2>2. /\ q \in Seq(Visit) /\ Len(q) = Len(search) - 1 /\ DOMAIN q = 1 .. Len(search) - 1
        /\ \A u \in DOMAIN q : u + 1 \in DOMAIN search /\ q[u] = search[u + 1]
    BY <1>1, VisitTail
  <2> HIDE DEF q
  <2>3. q # <<>> /\ Len(search) - 1 \in DOMAIN q
    <3>1. Len(search) > 1
      BY <1>2, <1>13
    <3>2. Len(q) >= 1
      BY <1>2, <2>2, <3>1
    <3> QED
      BY <1>2, <2>2, <3>1, <3>2
  <2>4. v \in Nat \ {0}
    <3>1. 2 \in DOMAIN search
      BY <1>2, <1>13
    <3>2. search[2] \in Visit
      BY <1>1, <3>1
    <3>3. search[2].macro \in Macros
      BY <3>2 DEF Visit
    <3>4. Len(Members[search[2].macro]) \in Nat
      BY <3>3, MemberTypes
    <3> QED
      BY <3>4
  <2> HIDE DEF v
  <2>5. /\ t \in Seq(Visit) /\ t # <<>> /\ Len(t) = Len(q)
        /\ \A u \in DOMAIN q : t[u].macro = q[u].macro
    BY <2>2, <2>3, <2>4, VisitSkip
  <2> HIDE DEF t
  <2>6. In(affected, s.macro)
    BY <1>2, <1>3, <1>13
  <2>7. Bad(affected)
    BY <1>2, <1>5, <1>13, <2>6 DEF Bad
  <2>8. DOMAIN t = DOMAIN q
    BY <2>2, <2>5
  <2>9. t[Len(t)].macro = Top.macro
    <3>1. Len(t) = Len(search) - 1 /\ (Len(search) - 1) + 1 = Len(search)
      BY <1>2, <2>2, <2>5
    <3> QED
      BY <1>3, <2>2, <2>3, <2>5, <3>1
  <2>10. ASSUME NEW u \in DOMAIN t, u # Len(t) PROVE In(affected, t[u].macro)
    <3>1. u + 1 \in DOMAIN search /\ t[u].macro = search[u + 1].macro
      BY <2>2, <2>5, <2>8
    <3>2. u + 1 # Len(search)
      BY <1>2, <2>2, <2>5, <2>8, <2>10
    <3> QED
      BY <1>3, <3>1, <3>2
  <2>11. IdentifyInv(affected, t)
    BY <1>3, <2>5, <2>7, <2>9, <2>10 DEF IdentifyInv
  <2> QED
    BY <1>1, <2>1, <2>5, <2>11, SelfFrame DEF Started
<1> QED
  BY <1>10, <1>11, <1>12, <1>13

\* When the first walk has ended, all members of all affected macros have been explored.
LEMMA EndIdentifyStep ==
  ASSUME SelfInv, EndIdentify
  PROVE  SelfInv' /\ pc' \in {"identify", "shift"}
<1>1. /\ pc = "identify" /\ moved = <<>> /\ IdentifyInv(affected, search) /\ Started /\ Calls(calls)
      /\ affected \in Seq(Macros) /\ search \in Seq(Visit) /\ search # <<>>
      /\ UNCHANGED <<moved, calls, affected, Placement>>
      /\ search[1].next > Len(Members[search[1].macro])
  BY DEF SelfInv, EndIdentify, IdentifyInv
<1>2. /\ Len(search) \in Nat /\ Len(search) >= 1 /\ DOMAIN search = 1 .. Len(search) /\ 1 \in DOMAIN search
      /\ search[1].macro \in Macros /\ search[1].next \in Nat /\ Len(Members[search[1].macro]) \in Nat
  BY <1>1, VisitTypes
<1>3. /\ Closure(affected) /\ search[Len(search)].macro = Top.macro
      /\ \A t \in DOMAIN search : t # Len(search) => In(affected, search[t].macro)
      /\ \E h \in DOMAIN Members[Top.macro] : Meeting(Top.macro, h) = Top.macro
      /\ \A m \in Macros : In(affected, m) \/ m = Top.macro =>
           \A h \in DOMAIN Members[m] : Bad(affected) \/ Explored(affected, m, h) \/ Ahead(search, m, h)
  BY <1>1 DEF IdentifyInv
<1>4. \A m \in Macros : \A h \in DOMAIN Members[m] : h \in Nat /\ h >= 1 /\ h <= Len(Members[m])
  BY MemberTypes
<1>5. block_locs \in Placing /\ Top.macro \in Macros
  BY <1>1, RecordedTypes, TopFacts
<1>6. CASE Len(search) = 1
  <2>1. pc' = "shift" /\ search' = Walks
    BY <1>6 DEF EndIdentify
  <2>2. \A m, h : Ahead(search, m, h) => m = search[1].macro /\ search[1].next <= h
    BY <1>2, <1>6 DEF Ahead
  <2>3. \A m \in Macros : \A h \in DOMAIN Members[m] : ~Ahead(search, m, h)
    BY <1>1, <1>2, <1>4, <2>2
  <2>4. \A i \in DOMAIN affected : affected[i] \in Macros
    BY <1>1
  <2>5. /\ Walks \in Seq(Visit) /\ DOMAIN Walks = DOMAIN affected
        /\ \A i \in DOMAIN affected : Walks[i].macro = affected[i] /\ Walks[i].next = 1
    <3>1. \A i \in DOMAIN affected : [macro |-> affected[i], next |-> 1] \in Visit
      BY <2>4 DEF Visit
    <3>2. DOMAIN affected = 1 .. Len(affected) /\ Len(affected) \in Nat
      BY <1>1
    <3>3. Walks \in [1 .. Len(affected) -> Visit]
      BY <3>1, <3>2 DEF Walks
    <3> QED
      BY <3>2, <3>3 DEF Walks
  <2>6. \A m \in Macros : In(affected, m) => \A h \in DOMAIN Members[m] : Ahead(Walks, m, h)
    BY <1>4, <2>5 DEF In, Ahead
  <2>7. affected # <<>>
    <3>1. ~\E m : In(<<>>, m)
      BY DEF In
    <3>2. \E m \in Macros : In(affected, m)
      BY <1>3, <1>5, <2>3, MacrosAssumption DEF Bad, Explored
    <3> QED
      BY <3>1, <3>2
  <2>8. DestOf(block_locs, moved') = block_locs /\ Register(block_locs, moved')
    BY <1>1, <1>5, EmptyRegister
  <2>9. ShiftInv(block_locs, affected, Walks)
    <3>1. \A u \in DOMAIN Walks : In(affected, Walks[u].macro)
      BY <2>5 DEF In
    <3> QED
      BY <1>3, <2>3, <2>6, <2>7, <3>1 DEF ShiftInv, Moves
  <2> QED
    BY <1>1, <2>1, <2>5, <2>8, <2>9, SelfFrame
<1>7. CASE Len(search) # 1
  <2> DEFINE t == Tail(search)
  <2>1. pc' = "identify" /\ search' = t
    BY <1>1, <1>7 DEF EndIdentify
  <2>2. /\ t \in Seq(Visit) /\ Len(t) = Len(search) - 1 /\ DOMAIN t = 1 .. Len(search) - 1
        /\ \A u \in DOMAIN t : u + 1 \in DOMAIN search /\ t[u] = search[u + 1]
        /\ \A m, h : Ahead(search, m, h) => Ahead(t, m, h) \/ (m = search[1].macro /\ search[1].next <= h)
    BY <1>1, VisitTail
  <2> HIDE DEF t
  <2>3. t # <<>> /\ Len(t) \in DOMAIN t /\ Len(t) + 1 = Len(search)
    BY <1>2, <1>7, <2>2
  <2>4. \A m \in Macros : \A h \in DOMAIN Members[m] : Ahead(search, m, h) => Ahead(t, m, h)
    BY <1>1, <1>2, <1>4, <2>2
  <2>5. t[Len(t)].macro = Top.macro
    BY <1>3, <2>2, <2>3
  <2>6. ASSUME NEW u \in DOMAIN t, u # Len(t) PROVE In(affected, t[u].macro)
    <3>1. u + 1 \in DOMAIN search /\ t[u] = search[u + 1]
      BY <2>2
    <3>2. u + 1 # Len(search)
      BY <1>2, <2>2, <2>6
    <3> QED
      BY <1>3, <3>1, <3>2
  <2>7. IdentifyInv(affected, t)
    BY <1>3, <2>3, <2>4, <2>5, <2>6 DEF IdentifyInv
  <2> QED
    BY <1>1, <2>1, <2>2, <2>7, SelfFrame DEF Started
<1> QED
  BY <1>6, <1>7

\* A block that is recorded stays shifted when another one is recorded.
LEMMA ShiftedStays ==
  ASSUME NEW f, NEW g, NEW aff, NEW b \in Blocks, Shifted(f, aff, b), g[b] = f[b]
  PROVE  Shifted(g, aff, b)
BY DEF Shifted, By

\* One more block is recorded.
LEMMA OneMoveMore ==
  ASSUME Started, NEW b \in Blocks, NEW to \in Locs, to # block_locs[b], ~Names(moved, b),
         \A i \in DOMAIN moved : moved[i].new_loc # to, moved' = Append(moved, MoveOf(b, to))
  PROVE  /\ Register(block_locs, moved') /\ DestOf(block_locs, moved')[b] = to
         /\ \A a \in Blocks : a # b => DestOf(block_locs, moved')[a] = Recorded[a]
<1>1. block_locs \in Placing /\ Register(block_locs, moved)
  BY RecordedTypes
<1>2. moved' = Append(moved, [block_num |-> b, old_loc |-> block_locs[b], new_loc |-> to])
  BY DEF MoveOf
<1> QED
  BY <1>1, <1>2, OneMore DEF Recorded

\* The record of a member is accepted, or it was recorded before: only this member can go
\* to its target, and only by its own record can its place be left.
LEMMA ShiftStep ==
  ASSUME SelfInv, Shift
  PROVE  \/ SelfInv' /\ pc' = "shift"
         \/ MoveInv' /\ pc' = "clear" /\ moved' = moved
<1>1. /\ pc = "shift" /\ ShiftInv(Recorded, affected, search) /\ Started /\ Calls(calls)
      /\ affected \in Seq(Macros) /\ search \in Seq(Visit) /\ search # <<>>
  BY DEF SelfInv, Shift
<1> DEFINE s  == search[1]
           b  == Members[s.macro][s.next]
           to == Target(b)
           on == [search EXCEPT ![1].next = @ + 1]
           f  == Recorded
           loc == block_locs
<1>2. /\ 1 \in DOMAIN search /\ s.macro \in Macros /\ s.next \in Nat /\ s.next \in DOMAIN Members[s.macro]
  BY <1>1, VisitTypes DEF Shift
<1>3. /\ Closure(affected) /\ affected # <<>> /\ \A u \in DOMAIN search : In(affected, search[u].macro)
      /\ \A a \in Blocks : Moves(loc, f, a) => Shifted(f, affected, a)
      /\ \A n \in Macros : In(affected, n) => \A h \in DOMAIN Members[n] :
           /\ Bad(affected) \/ Explored(affected, n, h)
           /\ Shifted(f, affected, Members[n][h]) \/ Ahead(search, n, h)
  BY <1>1 DEF ShiftInv
<1>4. /\ on \in Seq(Visit) /\ on # <<>> /\ Len(on) = Len(search)
      /\ \A t \in DOMAIN search : on[t].macro = search[t].macro
      /\ \A m : \A h \in Nat : Ahead(search, m, h) => Ahead(on, m, h) \/ (m = s.macro /\ h = s.next)
  BY <1>1, VisitOn
<1>5. DOMAIN on = DOMAIN search
  <2>1. DOMAIN search = 1 .. Len(search) /\ DOMAIN on = 1 .. Len(on)
    BY <1>1, <1>4, VisitTypes
  <2> QED
    BY <1>4, <2>1
<1> HIDE DEF on
<1>6. /\ loc \in Placing /\ OwnPlaces(loc) /\ Register(loc, moved) /\ Still
      /\ Top.offset \in Vectors /\ Top.offset # Zero /\ b \in Blocks /\ loc[b] \in Vectors
      /\ to = Plus(loc[b], Top.offset) /\ to # loc[b]
  <2>1. b \in Blocks /\ to = Plus(loc[b], Top.offset)
    BY <1>2, MemberTypes DEF Target
  <2>2. loc \in Placing /\ OwnPlaces(loc) /\ Register(loc, moved) /\ Still
    BY <1>1, RecordedTypes
  <2>3. Top.offset \in Vectors /\ Top.offset # Zero
    BY <1>1, TopFacts
  <2> QED
    BY <2>1, <2>2, <2>3, TargetFacts, PlaceTypes
<1>7. /\ \A i \in DOMAIN moved : f[moved[i].block_num] = moved[i].new_loc
      /\ \A a \in Blocks : Moves(loc, f, a) <=> Names(moved, a)
  BY <1>6, DestFacts DEF Recorded
<1>8. \A m \in Macros : \A h \in DOMAIN Members[m] : h \in Nat /\ Members[m][h] \in Blocks
  BY MemberTypes
\* What the next placement g is like decides.
<1>9. ASSUME LegalSwap(b, to), NEW g, g = DestOf(loc, moved'), Register(loc, moved'), g[b] = to,
             \A a \in Blocks : a # b => g[a] = f[a]
      PROVE  SelfInv' /\ pc' = "shift"
  <2>1. search' = on /\ UNCHANGED <<pc, calls, affected, Placement>>
    BY <1>9 DEF Shift, on
  <2>2. Shifted(g, affected, b)
    BY <1>2, <1>3, <1>6, <1>9 DEF Shifted, By, Legal
  <2>3. \A a \in Blocks : Shifted(f, affected, a) => Shifted(g, affected, a)
    BY <1>9, <2>2, ShiftedStays
  <2>4. \A a \in Blocks : Moves(loc, g, a) => Shifted(g, affected, a)
    BY <1>3, <1>9, <2>2, <2>3 DEF Moves
  <2>5. \A n \in Macros : In(affected, n) => \A h \in DOMAIN Members[n] :
          Shifted(g, affected, Members[n][h]) \/ Ahead(on, n, h)
    BY <1>3, <1>4, <1>8, <2>2, <2>3
  <2>6. ShiftInv(g, affected, on)
    BY <1>3, <1>4, <1>5, <2>4, <2>5 DEF ShiftInv
  <2> QED
    BY <1>1, <1>4, <1>9, <2>1, <2>6, SelfFrame
<1>10. CASE LegalSwap(b, to) /\ CanRecord(b, to)
  <2>1. moved' = Append(moved, MoveOf(b, to))
    BY <1>10 DEF Shift
  <2>2. ~Names(moved, b) /\ \A i \in DOMAIN moved : moved[i].new_loc # to
    BY <1>6, <1>10, CanRecordFacts
  <2>3. to \in Locs
    BY <1>10 DEF LegalSwap
  <2>4. /\ Register(loc, moved') /\ DestOf(loc, moved')[b] = to
        /\ \A a \in Blocks : a # b => DestOf(loc, moved')[a] = f[a]
    <3> HIDE DEF b, to
    <3> QED
      BY <1>1, <1>6, <2>1, <2>2, <2>3, OneMoveMore
  <2> QED
    BY <1>9, <1>10, <2>1, <2>4
\* A block that was recorded before is where it goes.
<1>11. CASE LegalSwap(b, to) /\ ~CanRecord(b, to)
  <2>1. moved' = moved
    BY <1>11 DEF Shift
  <2>2. PICK i \in DOMAIN moved : moved[i].new_loc = to \/ moved[i].old_loc = loc[b]
    BY <1>11 DEF CanRecord
  <2> DEFINE a == moved[i].block_num
  <2>3. a \in Blocks /\ Names(moved, a) /\ moved[i].old_loc = loc[a] /\ f[a] = moved[i].new_loc
    BY <1>6, <1>7, RegisterTypes DEF Names, Register
  <2>4. By(loc, f, a, Top.offset)
    BY <1>3, <1>7, <2>3 DEF Shifted
  <2>5. loc[a] = loc[b]
    <3>1. loc[a] \in Vectors
      BY <1>6, <2>3, PlaceTypes
    <3>2. moved[i].new_loc = Plus(loc[a], Top.offset)
      BY <2>3, <2>4 DEF By
    <3>3. Plus(loc[a], Top.offset) = Plus(loc[b], Top.offset) => loc[a] = loc[b]
      <4> HIDE DEF a, b
      <4> QED
        BY <1>6, <3>1, PlusInjective
    <3>4. moved[i].new_loc = to => loc[a] = loc[b]
      BY <1>6, <3>2, <3>3
    <3> QED
      BY <2>2, <2>3, <3>4
  <2>6. a = b
    BY <1>6, <2>3, <2>5 DEF OwnPlaces
  <2>7. f[b] = to
    BY <1>6, <2>4, <2>6 DEF By
  <2> QED
    BY <1>6, <1>9, <1>11, <2>1, <2>7 DEF Recorded
<1>12. CASE ~LegalSwap(b, to)
  <2>1. Abort
    BY <1>12 DEF Shift
  <2> QED
    BY <1>1, <2>1, AbortEnds DEF Abort
<1> QED
  BY <1>10, <1>11, <1>12

\* When the last macro is recorded, no member is left that cannot move.
LEMMA EndShiftStep ==
  ASSUME SelfInv, EndShift
  PROVE  SelfInv' /\ pc' \in {"shift", "displace"}
<1>1. /\ pc = "shift" /\ ShiftInv(Recorded, affected, search) /\ Started /\ Calls(calls)
      /\ affected \in Seq(Macros) /\ search \in Seq(Visit)
      /\ UNCHANGED <<moved, calls, affected, Placement>>
  BY DEF SelfInv, EndShift
<1>2. /\ Closure(affected) /\ affected # <<>> /\ \A u \in DOMAIN search : In(affected, search[u].macro)
      /\ \A a \in Blocks : Moves(block_locs, Recorded, a) => Shifted(Recorded, affected, a)
      /\ \A n \in Macros : In(affected, n) => \A h \in DOMAIN Members[n] :
           /\ Bad(affected) \/ Explored(affected, n, h)
           /\ Shifted(Recorded, affected, Members[n][h]) \/ Ahead(search, n, h)
  BY <1>1 DEF ShiftInv
<1>3. Register(block_locs, moved') /\ DestOf(block_locs, moved') = Recorded
  BY <1>1 DEF Started, Recorded
<1>4. CASE search = <<>>
  <2>1. pc' = "displace" /\ search' = search
    BY <1>4 DEF EndShift
  <2>2. \A n \in Macros : In(affected, n) => \A h \in DOMAIN Members[n] : Shifted(Recorded, affected, Members[n][h])
    BY <1>2, <1>4 DEF Ahead
  <2>3. ASSUME NEW n \in Macros, In(affected, n), NEW h \in DOMAIN Members[n] PROVE Legal(n, h)
    <3>1. PICK m \in Macros : \E j \in DOMAIN Members[m] : Members[n][h] = Members[m][j] /\ Legal(m, j)
      BY <2>2, <2>3 DEF Shifted
    <3> QED
      BY <3>1, MembersDiffer
  <2>4. ~Bad(affected)
    BY <2>3 DEF Bad
  <2>5. DisplaceInv(Recorded, affected)
    BY <1>2, <2>2, <2>4 DEF DisplaceInv
  <2> QED
    BY <1>1, <1>3, <2>1, <2>5, SelfFrame
<1>5. CASE search # <<>>
  <2> DEFINE t == Tail(search)
  <2>1. pc' = "shift" /\ search' = t /\ search[1].next > Len(Members[search[1].macro])
    BY <1>1, <1>5 DEF EndShift
  <2>2. /\ t \in Seq(Visit) /\ Len(t) = Len(search) - 1 /\ DOMAIN t = 1 .. Len(search) - 1
        /\ \A u \in DOMAIN t : u + 1 \in DOMAIN search /\ t[u] = search[u + 1]
        /\ \A m, h : Ahead(search, m, h) => Ahead(t, m, h) \/ (m = search[1].macro /\ search[1].next <= h)
    BY <1>1, <1>5, VisitTail
  <2>3. search[1].next \in Nat /\ Len(Members[search[1].macro]) \in Nat
    BY <1>1, <1>5, VisitTypes
  <2> HIDE DEF t
  <2>4. \A m \in Macros : \A h \in DOMAIN Members[m] : h \in Nat /\ h <= Len(Members[m])
    BY MemberTypes
  <2>5. \A m \in Macros : \A h \in DOMAIN Members[m] : Ahead(search, m, h) => Ahead(t, m, h)
    BY <2>1, <2>2, <2>3, <2>4
  <2>6. \A u \in DOMAIN t : In(affected, t[u].macro)
    BY <1>2, <2>2
  <2>7. ShiftInv(Recorded, affected, t)
    BY <1>2, <2>5, <2>6 DEF ShiftInv
  <2> QED
    BY <1>1, <1>3, <2>1, <2>2, <2>7, SelfFrame
<1> QED
  BY <1>4, <1>5

LEMMA InFacts ==
  ASSUME NEW aff \in Seq(Macros)
  PROVE  ~In(aff, NoMacro) /\ \A m : In(aff, m) => m \in Macros
<1>1. \A i \in DOMAIN aff : aff[i] \in Macros
  OBVIOUS
<1> QED
  BY <1>1, MacrosAssumption DEF In

\* What happens when the last block in the way is displaced.
LEMMA DisplaceEnds ==
  ASSUME SelfInv, pc = "displace", Displacing = {}, Valid, moved' = moved
  PROVE  MoveInv' /\ IsProposal(moved') /\ pc' = "apply"
<1> DEFINE f == Recorded
           loc == block_locs
           o == Top.offset
<1>1. /\ Started /\ affected \in Seq(Macros) /\ Closure(affected) /\ affected # <<>>
      /\ \A b \in Blocks : Moves(loc, f, b) => Shifted(f, affected, b) \/ Gave(f, affected, b)
      /\ \A n \in Macros : In(affected, n) => \A h \in DOMAIN Members[n] :
           Explored(affected, n, h) /\ Shifted(f, affected, Members[n][h])
  BY DEF SelfInv, DisplaceInv
<1>2. /\ loc \in Placing /\ f \in Placing /\ InShape(loc) /\ Register(loc, moved) /\ Still /\ Good(loc)
      /\ o \in Vectors /\ o # Zero
  BY <1>1, RecordedTypes, TopFacts DEF Started, SelfInv
<1>3. /\ \A i \in DOMAIN moved : f[moved[i].block_num] = moved[i].new_loc
      /\ \A b \in Blocks : Moves(loc, f, b) <=> Names(moved, b)
  BY <1>2, DestFacts DEF Recorded
<1>4. ASSUME NEW n \in Macros, In(affected, n), NEW h \in DOMAIN Members[n]
      PROVE  By(loc, f, Members[n][h], o) /\ Moves(loc, f, Members[n][h])
  <2>1. By(loc, f, Members[n][h], o)
    BY <1>1, <1>4 DEF Shifted
  <2> QED
    BY <1>2, <2>1, ByMoves, MemberTypes
<1>5. ASSUME NEW n \in Macros, ~In(affected, n), NEW h \in DOMAIN Members[n]
      PROVE  f[Members[n][h]] = loc[Members[n][h]]
  <2>1. ~Shifted(f, affected, Members[n][h])
    BY <1>5, MembersDiffer DEF Shifted
  <2>2. ~Gave(f, affected, Members[n][h])
    BY MacroOfMember, MacrosAssumption DEF Gave
  <2> QED
    BY <1>1, <2>1, <2>2, MemberTypes DEF Moves
<1>6. InShape(f)
  <2> SUFFICES ASSUME NEW n \in Macros, NEW h \in DOMAIN Members[n]
               PROVE  f[Members[n][h]] = Plus(f[Members[n][1]], Offset[n][h])
    BY DEF InShape
  <2>1. CASE In(affected, n)
    BY <1>2, <1>4, <2>1, ShapeStays
  <2>2. CASE ~In(affected, n)
    <3>1. f[Members[n][h]] = loc[Members[n][h]] /\ f[Members[n][1]] = loc[Members[n][1]]
      BY <1>5, <2>2, MemberTypes
    <3> QED
      BY <1>2, <3>1 DEF InShape
  <2> QED
    BY <2>1, <2>2
<1>7. ASSUME NEW b \in Blocks, Moves(loc, f, b)
      PROVE  b \notin Fixed /\ (AlikeTiles => Fits(b, f[b]))
  <2>1. CASE Shifted(f, affected, b)
    <3>1. PICK n \in Macros : In(affected, n) /\ \E h \in DOMAIN Members[n] :
                                b = Members[n][h] /\ By(loc, f, b, o) /\ Legal(n, h)
      BY <2>1 DEF Shifted
    <3>2. PICK h \in DOMAIN Members[n] : b = Members[n][h] /\ By(loc, f, b, o) /\ Legal(n, h)
      BY <3>1
    <3>3. f[b] = Target(b) /\ LegalSwap(b, Target(b))
      BY <3>2 DEF By, Target, Legal
    <3> QED
      BY <1>1, <3>1, <3>2, <3>3 DEF Closure, LegalSwap
  <2>2. CASE Gave(f, affected, b)
    BY <2>2 DEF Gave
  <2> QED
    BY <1>1, <1>7, <2>1, <2>2
<1>8. Good(f)
  BY <1>2, <1>6, <1>7 DEF Good, Moves
\* Whoever was in the way is recorded, or a member of a macro that moves.
<1>9. ASSUME NEW b \in Blocks, NEW c \in Blocks, Moves(loc, f, b), f[b] = loc[c]
      PROVE  Moves(loc, f, c)
  <2>1. PICK i \in DOMAIN moved : moved[i].block_num = b
    BY <1>3, <1>9 DEF Names
  <2>2. moved[i].new_loc = loc[c] /\ loc[c] \in Locs
    BY <1>2, <1>3, <1>9, <2>1, PlaceTypes
  <2>3. grid_blocks[moved[i].new_loc] = c /\ c # NoBlock
    BY <1>2, <2>2, GridFacts, BlocksAssumption
  <2>4. IsAffected(MacroOf(c)) \/ IsRecorded(c)
    BY <2>3 DEF Displacing
  <2>5. CASE IsRecorded(c)
    BY <1>3, <2>5 DEF IsRecorded, Names
  <2>6. CASE IsAffected(MacroOf(c))
    <3>1. In(affected, MacroOf(c)) /\ MacroOf(c) \in Macros
      BY <1>1, <2>6, InFacts DEF IsAffected, In
    <3>2. \E h \in DOMAIN Members[MacroOf(c)] : Members[MacroOf(c)][h] = c
      BY <3>1, MacroOfOther, MacrosAssumption
    <3> QED
      BY <1>4, <3>1, <3>2
  <2> QED
    BY <2>4, <2>5, <2>6
<1>10. moved # <<>>
  <2>1. PICK n \in Macros : In(affected, n)
    <3>1. 1 \in DOMAIN affected /\ affected[1] \in Macros
      BY <1>1
    <3> QED
      BY <3>1 DEF In
  <2>2. Moves(loc, f, Members[n][1]) /\ Members[n][1] \in Blocks
    BY <1>4, <2>1, MemberTypes
  <2>3. Names(moved, Members[n][1])
    BY <1>3, <2>2
  <2> QED
    BY <2>3 DEF Names
<1>11. f = DestOf(loc, moved') /\ Register(loc, moved')
  BY <1>2 DEF Recorded
<1> HIDE DEF f
<1> QED
  BY <1>1, <1>2, <1>7, <1>8, <1>9, <1>10, <1>11, ValidBegins DEF Started

\* A single block in the way of a macro takes a place that a macro leaves, and fits there if
\* tiles are alike.
LEMMA DisplaceStep ==
  ASSUME SelfInv, Displace
  PROVE  \/ SelfInv' /\ pc' = "displace"
         \/ MoveInv' /\ pc' = "apply" /\ IsProposal(moved')
<1> DEFINE f == Recorded
           loc == block_locs
           o == Top.offset
<1>1. /\ Started /\ affected \in Seq(Macros) /\ Closure(affected) /\ affected # <<>> /\ pc = "displace"
      /\ \A b \in Blocks : Moves(loc, f, b) => Shifted(f, affected, b) \/ Gave(f, affected, b)
      /\ \A n \in Macros : In(affected, n) => \A h \in DOMAIN Members[n] :
           Explored(affected, n, h) /\ Shifted(f, affected, Members[n][h])
      /\ search \in Seq(Visit)
  BY DEF SelfInv, DisplaceInv, Displace
<1>2. CASE Displacing = {}
  BY <1>1, <1>2, DisplaceEnds DEF Displace
<1>3. CASE Displacing # {}
  <2>1. PICK i \in Displacing, l \in Emptied : moved' = Append(moved, MoveOf(grid_blocks[moved[i].new_loc], l))
    BY <1>3 DEF Displace
  <2> DEFINE b == grid_blocks[moved[i].new_loc]
             c == moved[i].block_num
             g == DestOf(loc, moved')
  <2>2. /\ i \in DOMAIN moved /\ b # NoBlock /\ ~In(affected, MacroOf(b)) /\ ~Names(moved, b)
    BY DEF Displacing, IsAffected, IsRecorded, In, Names
  <2>3. UNCHANGED <<pc, locals, Placement>>
    BY <1>3 DEF Displace
  <2>4. /\ loc \in Placing /\ f \in Placing /\ Register(loc, moved) /\ Still /\ Good(loc) /\ OwnPlaces(loc)
        /\ o \in Vectors /\ o # Zero
    BY <1>1, RecordedTypes, TopFacts DEF Started, SelfInv
  <2>5. /\ \A h \in DOMAIN moved : f[moved[h].block_num] = moved[h].new_loc
        /\ \A a \in Blocks : Moves(loc, f, a) <=> Names(moved, a)
    BY <2>4, DestFacts DEF Recorded
  <2>6. /\ c \in Blocks /\ Moves(loc, f, c) /\ f[c] = moved[i].new_loc /\ moved[i].new_loc \in Locs
    BY <2>2, <2>4, <2>5, RegisterTypes DEF Names
  <2>7. b \in Blocks /\ loc[b] = moved[i].new_loc /\ loc[b] = f[c]
    BY <2>2, <2>4, <2>6, GridFacts
  <2>8. ~Moves(loc, f, b)
    BY <2>2, <2>5, <2>7
  \* The block in the way is single, and in the way of a macro.
  <2>9. Shifted(f, affected, c)
    <3>1. SUFFICES ASSUME Gave(f, affected, c) PROVE FALSE
      BY <1>1, <2>6
    <3>2. PICK n \in Macros : In(affected, n) /\ \E h \in DOMAIN Members[n] : f[c] = loc[Members[n][h]]
      BY <3>1 DEF Gave
    <3>3. PICK h \in DOMAIN Members[n] : f[c] = loc[Members[n][h]]
      BY <3>2
    <3>4. b = Members[n][h]
      BY <2>4, <2>7, <3>3, MemberTypes DEF OwnPlaces
    <3>5. MacroOf(b) = n
      BY <3>4, MacroOfMember
    <3> QED
      BY <2>2, <3>2, <3>5
  <2>10. PICK n \in Macros : In(affected, n) /\ \E h \in DOMAIN Members[n] :
                               c = Members[n][h] /\ By(loc, f, c, o) /\ Legal(n, h)
    BY <2>9 DEF Shifted
  <2>11. PICK h \in DOMAIN Members[n] : c = Members[n][h] /\ By(loc, f, c, o) /\ Legal(n, h)
    BY <2>10
  <2>12. loc[b] = Target(c)
    BY <2>7, <2>11 DEF By, Target
  <2>13. MacroOf(b) = NoMacro
    <3>1. Meeting(n, h) = MacroOf(b)
      BY <2>6, <2>7, <2>11, <2>12 DEF Meeting
    <3>2. Explored(affected, n, h)
      BY <1>1, <2>10
    <3> QED
      BY <2>2, <3>1, <3>2 DEF Explored
  <2>14. b \notin Fixed /\ Fits(c, loc[b])
    BY <2>7, <2>11, <2>12 DEF Legal, LegalSwap
  \* The place it takes is one a macro leaves.
  <2>15. PICK j \in DOMAIN moved : moved[j].old_loc = l /\ \A e \in DOMAIN moved : moved[e].new_loc # l
    BY DEF Emptied
  <2> DEFINE d == moved[j].block_num
  <2>16. d \in Blocks /\ loc[d] = l /\ Moves(loc, f, d) /\ l \in Locs
    BY <2>4, <2>5, <2>15, RegisterTypes DEF Register, Names
  <2>17. Shifted(f, affected, d)
    <3>1. SUFFICES ASSUME Gave(f, affected, d) PROVE FALSE
      BY <1>1, <2>16
    <3>2. PICK a \in Blocks : Moves(loc, f, a) /\ f[a] = loc[d]
      BY <3>1 DEF Gave
    <3>3. PICK e \in DOMAIN moved : moved[e].block_num = a
      BY <2>5, <3>2 DEF Names
    <3> QED
      BY <2>5, <2>15, <2>16, <3>2, <3>3
  <2>18. PICK m \in Macros : In(affected, m) /\ \E e \in DOMAIN Members[m] : d = Members[m][e]
    BY <2>17 DEF Shifted
  <2>19. PICK e \in DOMAIN Members[m] : d = Members[m][e]
    BY <2>18
  <2>20. l # loc[b]
    <3>1. MacroOf(d) = m
      BY <2>19, MacroOfMember
    <3> QED
      BY <2>4, <2>7, <2>13, <2>16, <3>1, MacrosAssumption DEF OwnPlaces
  <2>21. ASSUME AlikeTiles PROVE Fits(b, l)
    <3>1. 1 \in DOMAIN Members[n] /\ 1 \in DOMAIN Members[m] /\ loc[b] \in Locs
      BY <2>4, <2>7, MemberTypes, PlaceTypes
    <3>2. Alike(loc[c], loc[b]) /\ Alike(loc[c], loc[Members[n][1]])
      BY <2>4, <2>11, <2>14, <2>21, <3>1, AlikePlaces
    <3>3. Alike(loc[d], loc[Members[m][1]])
      BY <2>4, <2>19, <2>21, <3>1, AlikePlaces
    <3>4. /\ Alike(loc[Members[n][1]], loc[Members[Top.macro][1]])
          /\ Alike(loc[Members[m][1]], loc[Members[Top.macro][1]])
      BY <1>1, <2>10, <2>18, <2>21 DEF Closure
    <3>5. Fits(b, loc[b])
      BY <2>4, <2>7, <2>21 DEF Good
    <3> QED
      BY <2>7, <2>13, <2>16, <3>2, <3>3, <3>4, <3>5 DEF Alike
  <2>22. /\ Register(loc, moved') /\ g[b] = l /\ \A a \in Blocks : a # b => g[a] = f[a]
    <3>1. ~Names(moved, b) /\ \A a \in DOMAIN moved : moved[a].new_loc # l
      BY <2>2, <2>15
    <3>2. moved' = Append(moved, MoveOf(b, l))
      BY <2>1
    <3> HIDE DEF b
    <3> QED
      BY <1>1, <2>7, <2>16, <2>20, <3>1, <3>2, OneMoveMore
  <2> HIDE DEF g, b
  <2>23. \A a \in Blocks : Shifted(f, affected, a) => a # b
    BY <2>13, MacroOfMember, MacrosAssumption DEF Shifted
  <2>24. \A a \in Blocks : Shifted(f, affected, a) => Shifted(g, affected, a)
    BY <2>22, <2>23, ShiftedStays
  <2>25. \A a \in Blocks : Moves(loc, f, a) => a # b /\ Moves(loc, g, a) /\ g[a] = f[a]
    BY <2>8, <2>22 DEF Moves
  <2>26. Gave(g, affected, b)
    <3>1. g[b] = loc[Members[m][e]]
      BY <2>16, <2>19, <2>22
    <3>2. Moves(loc, g, c) /\ g[c] = loc[b]
      BY <2>6, <2>7, <2>25
    <3> QED
      BY <2>6, <2>13, <2>14, <2>18, <2>21, <2>22, <3>1, <3>2 DEF Gave
  <2>27. ASSUME NEW a \in Blocks, Moves(loc, f, a), Gave(f, affected, a) PROVE Gave(g, affected, a)
    <3>1. PICK a2 \in Blocks : Moves(loc, f, a2) /\ f[a2] = loc[a]
      BY <2>27 DEF Gave
    <3>2. g[a] = f[a] /\ Moves(loc, g, a2) /\ g[a2] = loc[a]
      BY <2>25, <2>27, <3>1
    <3> QED
      BY <2>27, <3>2 DEF Gave
  <2>28. ASSUME NEW a \in Blocks, Moves(loc, g, a) PROVE Shifted(g, affected, a) \/ Gave(g, affected, a)
    <3>1. CASE a = b
      BY <2>26, <3>1
    <3>2. CASE a # b
      <4>1. Moves(loc, f, a)
        BY <2>22, <2>28, <3>2 DEF Moves
      <4> QED
        BY <1>1, <2>24, <2>27, <4>1
    <3> QED
      BY <3>1, <3>2
  <2>29. DisplaceInv(g, affected)
    BY <1>1, <2>24, <2>28, MemberTypes DEF DisplaceInv
  <2>30. UNCHANGED <<calls, Placement>> /\ pc' = "displace" /\ affected' = affected /\ search' = search
    BY <1>1, <2>3 DEF locals
  <2> QED
    BY <1>1, <2>22, <2>29, <2>30, SelfFrame DEF g
<1> QED
  BY <1>2, <1>3

-------------------------------------------------------------------------------
(* A move under way *)

\* Every location a move under way has given to a block is the old or the new one.
LEMMA OldOrNew ==
  ASSUME NEW loc, NEW mv, NEW b \in Blocks, Names(mv, b)
  PROVE  \E i \in DOMAIN mv : /\ mv[i].block_num = b /\ OriginOf(loc, mv)[b] = mv[i].old_loc
                              /\ DestOf(loc, mv)[b] = mv[i].new_loc
<1>1. PICK i \in DOMAIN mv : i = CHOOSE h \in DOMAIN mv : mv[h].block_num = b
  BY DEF Names
<1>2. mv[i].block_num = b
  BY <1>1 DEF Names
<1> QED
  BY <1>1, <1>2 DEF OriginOf, DestOf

\* Neither the placement a move started from nor the one it leads to depends on how far it is.
LEMMA EndsStay ==
  ASSUME NEW loc, NEW lod, NEW mv, \A b \in Blocks : ~Names(mv, b) => lod[b] = loc[b]
  PROVE  OriginOf(lod, mv) = OriginOf(loc, mv) /\ DestOf(lod, mv) = DestOf(loc, mv)
BY DEF OriginOf, DestOf

\* A checkpoint stays good while fixed blocks stay.
LEMMA SavedStays ==
  ASSUME SavedGood, saved' = saved, \A b \in Fixed : block_locs'[b] = block_locs[b]
  PROVE  SavedGood'
<1>1. \A f : Good(f)' <=> Good(f)
  OBVIOUS
<1> QED
  BY <1>1 DEF SavedGood

\* Under way, only blocks of the move change places.
LEMMA UnderWayStep ==
  ASSUME MoveInv, ~Settled, ~Settled', GridInv', UNCHANGED <<moved, saved, locals>>,
         \A b \in Blocks : ~Names(moved, b) => block_locs'[b] = block_locs[b]
  PROVE  MoveInv' /\ \A b \in Fixed : block_locs'[b] = block_locs[b]
<1>1. /\ calls' = <<>> /\ affected' = <<>> /\ search' = <<>> /\ pc' # "idle" /\ SavedGood
      /\ Good(OriginOf(block_locs, moved)) /\ Good(DestOf(block_locs, moved))
      /\ \A i \in DOMAIN moved : moved[i].block_num \notin Fixed
  BY DEF MoveInv, locals, Settled
<1>2. \A b \in Fixed : block_locs'[b] = block_locs[b]
  BY <1>1, FixedAssumption DEF Names
<1>3. SavedGood'
  BY <1>1, <1>2, SavedStays
<1>4. OriginOf(block_locs', moved) = OriginOf(block_locs, moved) /\ DestOf(block_locs', moved) = DestOf(block_locs, moved)
  BY EndsStay
<1>5. Good(OriginOf(block_locs', moved')) /\ Good(DestOf(block_locs', moved'))
  BY <1>1, <1>4
<1>6. \A i \in DOMAIN moved' : moved'[i].block_num \notin Fixed
  BY <1>1
<1> QED
  BY <1>1, <1>2, <1>3, <1>5, <1>6 DEF MoveInv

\* A commit that ends, or a revert that does, has brought all blocks to one of the two.
LEMMA EndsStep ==
  ASSUME MoveInv, ~Settled, pc' = "clear", GridInv', UNCHANGED <<moved, saved, locals>>,
         block_locs' \in {OriginOf(block_locs, moved), DestOf(block_locs, moved)}
  PROVE  MoveInv' /\ \A b \in Fixed : block_locs'[b] = block_locs[b]
<1>1. /\ calls' = <<>> /\ affected' = <<>> /\ search' = <<>> /\ SavedGood
      /\ Good(OriginOf(block_locs, moved)) /\ Good(DestOf(block_locs, moved))
      /\ \A i \in DOMAIN moved : moved[i].block_num \notin Fixed
  BY DEF MoveInv, locals
<1>2. \A b \in Fixed : block_locs'[b] = block_locs[b]
  BY <1>1, FixedAssumption DEF Names, OriginOf, DestOf
<1>3. SavedGood'
  BY <1>1, <1>2, SavedStays
<1>4. Good(block_locs)'
  <2>1. Good(block_locs')
    BY <1>1
  <2> QED
    BY <2>1 DEF Good, InShape
<1> QED
  BY <1>1, <1>2, <1>3, <1>4 DEF MoveInv, Settled

\* Blocks of a move that are all at one of their ends make the placement that one.
LEMMA AllThere ==
  ASSUME NEW loc \in Placing, NEW mv
  PROVE  /\ (\A i \in DOMAIN mv : loc[mv[i].block_num] = mv[i].new_loc) => loc = DestOf(loc, mv)
         /\ (\A i \in DOMAIN mv : loc[mv[i].block_num] = mv[i].old_loc) => loc = OriginOf(loc, mv)
<1>1. ASSUME \A i \in DOMAIN mv : loc[mv[i].block_num] = mv[i].new_loc PROVE loc = DestOf(loc, mv)
  <2>1. \A b \in Blocks : loc[b] = DestOf(loc, mv)[b]
    BY <1>1, OldOrNew DEF DestOf
  <2> QED
    BY <2>1 DEF DestOf, Placing
<1>2. ASSUME \A i \in DOMAIN mv : loc[mv[i].block_num] = mv[i].old_loc PROVE loc = OriginOf(loc, mv)
  <2>1. \A b \in Blocks : loc[b] = OriginOf(loc, mv)[b]
    BY <1>2, OldOrNew DEF OriginOf
  <2> QED
    BY <2>1 DEF OriginOf, Placing
<1> QED
  BY <1>1, <1>2

\* What holds of a phase of a move.
LEMMA PhaseFacts ==
  ASSUME MoveInv, ~Settled
  PROVE  /\ TypeOK /\ Consistent /\ Located /\ block_locs \in Placing /\ k \in DOMAIN moved
         /\ \A i \in DOMAIN moved : moved[i] \in Move /\ i \in Nat /\ i >= 1 /\ i <= Len(moved)
         /\ Len(moved) \in Nat /\ k \in Nat
<1>1. TypeOK /\ Consistent /\ Located
  BY DEF MoveInv, GridInv, UnderWay
<1> QED
  BY <1>1 DEF TypeOK, Consistent, Placing

\* Applying, assessing, committing and reverting keep the invariant, and fixed blocks.
LEMMA MoveStep ==
  ASSUME MoveInv, ApplyBlock \/ Assess \/ CommitBlock \/ RevertBlock, UNCHANGED locals
  PROVE  MoveInv' /\ \A b \in Fixed : block_locs'[b] = block_locs[b]
<1>1. ~Settled /\ GridInv
  BY DEF MoveInv, Settled, ApplyBlock, Assess, CommitBlock, RevertBlock, Iterate
<1>2. GridInv' /\ UNCHANGED <<moved, saved>>
  BY <1>1, ApplyStep, AssessStep, CommitStep, RevertStep DEF ApplyBlock, Assess, CommitBlock, RevertBlock
<1>3. /\ TypeOK /\ Consistent /\ Located /\ block_locs \in Placing /\ k \in DOMAIN moved
      /\ \A i \in DOMAIN moved : moved[i] \in Move /\ i \in Nat /\ i >= 1 /\ i <= Len(moved)
      /\ Len(moved) \in Nat /\ k \in Nat
  BY <1>1, PhaseFacts
<1>4. \A b \in Blocks : ~Names(moved, b) => block_locs'[b] = block_locs[b]
  <2>1. CASE ApplyBlock \/ RevertBlock
    BY <1>3, <2>1 DEF ApplyBlock, RevertBlock, Relocate, Names, Placing
  <2>2. CASE Assess \/ CommitBlock
    BY <2>2 DEF Assess, CommitBlock
  <2> QED
    BY <2>1, <2>2
<1>5. CASE ~Settled'
  BY <1>1, <1>2, <1>4, <1>5, UnderWayStep
<1>6. CASE Settled'
  <2>1. pc' = "clear" /\ k = Len(moved) /\ (CommitBlock \/ RevertBlock)
    BY <1>6 DEF Settled, ApplyBlock, Assess, CommitBlock, RevertBlock, Iterate
  <2>2. CASE CommitBlock
    <3>1. \A i \in DOMAIN moved : Reached(i)
      BY <2>2 DEF CommitBlock, Iterate, Reached
    <3>2. block_locs = DestOf(block_locs, moved)
      BY <1>3, <3>1, AllThere DEF Located
    <3>3. block_locs' = block_locs
      BY <2>2 DEF CommitBlock
    <3> QED
      BY <1>1, <1>2, <2>1, <3>2, <3>3, EndsStep
  <2>3. CASE RevertBlock
    <3>1. /\ block_locs' = [block_locs EXCEPT ![moved[k].block_num] = moved[k].old_loc]
          /\ pc = "revert"
      BY <2>3 DEF RevertBlock, Relocate, Iterate
    <3>2. ASSUME NEW i \in DOMAIN moved PROVE block_locs'[moved[i].block_num] = moved[i].old_loc
      <4>0. moved[i].block_num \in Blocks
        BY <1>3 DEF Move
      <4>1. CASE i = k
        BY <1>3, <3>1, <4>0, <4>1 DEF Placing
      <4>2. CASE i # k
        <5>1. ~Reached(i)
          BY <1>3, <2>1, <3>1, <4>2 DEF Reached
        <5>2. moved[i].block_num # moved[k].block_num
          BY <1>3, <4>2 DEF Consistent
        <5> QED
          BY <1>3, <3>1, <4>0, <5>1, <5>2 DEF Located, Placing
      <4> QED
        BY <4>1, <4>2
    <3>3. block_locs' \in Placing
      BY <1>3, <3>1 DEF Placing, Move
    <3>4. block_locs' = OriginOf(block_locs', moved)
      BY <3>2, <3>3, AllThere
    <3>5. OriginOf(block_locs', moved) = OriginOf(block_locs, moved)
      BY <1>4, EndsStay
    <3> QED
      BY <1>1, <1>2, <2>1, <3>4, <3>5, EndsStep
  <2> QED
    BY <2>1, <2>2, <2>3
<1> QED
  BY <1>5, <1>6

\* Between two moves
LEMMA BetweenStep ==
  ASSUME MoveInv, ClearMove \/ SaveCheckpoint \/ RestoreCheckpoint \/ SyncPins \/ UNCHANGED vars,
         UNCHANGED locals
  PROVE  MoveInv' /\ \A b \in Fixed : block_locs'[b] = block_locs[b]
<1>1. /\ GridInv /\ SavedGood /\ calls' = <<>> /\ affected' = <<>> /\ search' = <<>>
      /\ pc = "idle" => moved = <<>>
      /\ Settled => Good(block_locs)
  BY DEF MoveInv, locals
<1>2. GridInv'
  BY <1>1, SettledStep, RestoreStep
<1>3. \A f : Good(f)' <=> Good(f)
  OBVIOUS
<1>4. CASE UNCHANGED vars
  <2>1. UNCHANGED <<block_locs, moved, pc, saved>>
    BY <1>4 DEF vars
  <2>2. SavedGood'
    BY <1>1, <2>1, SavedStays
  <2>3. Settled' <=> Settled
    BY <2>1 DEF Settled
  <2>4. Good(block_locs') <=> Good(block_locs)
    BY <2>1
  <2>5. ~Settled' => /\ Good(OriginOf(block_locs', moved')) /\ Good(DestOf(block_locs', moved'))
                     /\ \A i \in DOMAIN moved' : moved'[i].block_num \notin Fixed
    BY <2>1, <2>3 DEF MoveInv
  <2> QED
    BY <1>1, <1>2, <2>1, <2>2, <2>3, <2>4, <2>5 DEF MoveInv
<1>5. CASE RestoreCheckpoint
  <2>1. PICK f \in saved : block_locs' = f
    BY <1>5 DEF RestoreCheckpoint
  <2>2. Good(f) /\ \A b \in Fixed : f[b] = block_locs[b]
    BY <1>1 DEF SavedGood
  <2>3. pc' = "restored" /\ saved' = saved
    BY <1>5 DEF RestoreCheckpoint
  <2>4. SavedGood'
    BY <1>1, <2>1, <2>2, <2>3, SavedStays
  <2>5. Good(block_locs)'
    BY <2>1, <2>2
  <2> QED
    BY <1>1, <1>2, <2>1, <2>2, <2>3, <2>4, <2>5 DEF MoveInv, Settled
<1>6. CASE ClearMove \/ SaveCheckpoint \/ SyncPins
  <2>1. /\ block_locs' = block_locs /\ Settled /\ Settled' /\ (pc' = "idle" => moved' = <<>>)
        /\ saved' = saved \/ saved' = {block_locs}
    BY <1>1, <1>6 DEF ClearMove, SaveCheckpoint, SyncPins, Settled
  <2>2. Good(block_locs)'
    BY <1>1, <2>1
  <2>3. SavedGood'
    BY <1>1, <2>1, <2>2 DEF SavedGood
  <2> QED
    BY <1>1, <1>2, <2>1, <2>2, <2>3 DEF MoveInv
<1> QED
  BY <1>4, <1>5, <1>6

-------------------------------------------------------------------------------
(* The invariant of MoveProposal *)

\* The inductive invariant of MoveProposal
ProposalInv ==
  /\ pc \in {"macro", "overlap", "return"}     => WalkInv
  /\ pc \in {"identify", "shift", "displace"} => SelfInv
  /\ ~Recording => MoveInv

\* Initial placement leaves a legal placement.
LEMMA ProposalBegins == ProposalInit => ProposalInv
<1> SUFFICES ASSUME ProposalInit PROVE ProposalInv
  OBVIOUS
<1>1. GridInv /\ pc = "idle" /\ saved = {} /\ moved = <<>>
  BY GridInvInit DEF ProposalInit, Init
<1>2. LegalPlacement(block_locs) /\ calls = <<>> /\ affected = <<>> /\ search = <<>>
  BY PlacementsAssumption DEF ProposalInit
<1>3. Good(block_locs)
  BY <1>2 DEF LegalPlacement, Good
<1>4. MoveInv
  BY <1>1, <1>2, <1>3 DEF MoveInv, SavedGood, Settled
<1> QED
  BY <1>1, <1>4 DEF ProposalInv

\* How a step that records ends: it goes on, it gives up, or it hands a move over.
Outcome ==
  \/ Recording' /\ ProposalInv'
  \/ pc' = "clear" /\ moved' \in Seq(Move) /\ MoveInv'
  \/ pc' = "apply" /\ IsProposal(moved') /\ MoveInv'

LEMMA WalkGoesOn ==
  ASSUME WalkInv', pc' \in {"macro", "overlap", "return"}
  PROVE  Outcome
<1>1. Recording'
  BY DEF Recording
<1> QED
  BY <1>1 DEF Outcome, ProposalInv

LEMMA SelfGoesOn ==
  ASSUME SelfInv', pc' \in {"identify", "shift", "displace"}
  PROVE  Outcome
<1>1. Recording'
  BY DEF Recording
<1> QED
  BY <1>1 DEF Outcome, ProposalInv

\* So do all steps that record: the first one, those of the walk, those of the self swap.
LEMMA CreateOutcome ==
  ASSUME ProposalInv, CreateMove
  PROVE  Outcome /\ UNCHANGED Placement /\ pc = "idle" /\ moved = <<>> /\ (Recording' => moved' = <<>>)
<1>1. pc = "idle" /\ ~Recording
  BY DEF CreateMove, Recording
<1>2. MoveInv
  BY <1>1 DEF ProposalInv
<1>3. moved = <<>>
  BY <1>1, <1>2 DEF MoveInv
<1>4. UNCHANGED Placement
  BY DEF CreateMove, FindAffectedBlocks, StartMacro, Valid, Abort
<1>5. \/ WalkInv' /\ pc' = "macro" /\ moved' = <<>>
      \/ MoveInv' /\ pc' = "clear" /\ moved' \in Seq(Move)
      \/ MoveInv' /\ pc' = "apply" /\ IsProposal(moved')
  BY <1>2, CreateStep
<1>6. Outcome
  BY <1>5, WalkGoesOn DEF Outcome
<1>7. Recording' => moved' = <<>>
  BY <1>5 DEF Recording
<1> QED
  BY <1>1, <1>3, <1>4, <1>6, <1>7

LEMMA WalkOutcome ==
  ASSUME ProposalInv, \/ MacroSwapsAbort \/ SwapSingle \/ MeetMacro \/ MeetItself \/ EndWalk \/ Return
                      \/ SwapMembers \/ OverlapAbort \/ EndOverlap
  PROVE  Outcome /\ UNCHANGED Placement /\ Recording
<1>1. pc \in {"macro", "overlap", "return"}
  BY DEF MacroSwapsAbort, SwapSingle, MeetMacro, MeetItself, EndWalk, Return, SwapMembers,
         OverlapAbort, EndOverlap, Walking, Overlapping
<1>2. WalkInv /\ Recording
  BY <1>1 DEF ProposalInv, Recording
<1>3. CASE MacroSwapsAbort \/ OverlapAbort
  <2>1. Abort /\ Started /\ moved \in Seq(Move)
    BY <1>2, <1>3 DEF MacroSwapsAbort, OverlapAbort, WalkInv, Started, Register
  <2> QED
    BY <1>2, <2>1, AbortEnds DEF Abort, Outcome
<1>4. CASE SwapSingle \/ MeetMacro \/ EndWalk \/ SwapMembers \/ EndOverlap
  <2>1. WalkInv'
    BY <1>2, <1>4, SwapSingleStep, MeetMacroStep, EndWalkStep, SwapMembersStep, EndOverlapStep
  <2>2. pc' \in {"macro", "overlap", "return"} /\ UNCHANGED Placement
    BY <1>1, <1>4 DEF SwapSingle, MeetMacro, EndWalk, SwapMembers, EndOverlap
  <2> QED
    BY <1>2, <2>1, <2>2, WalkGoesOn
<1>5. CASE MeetItself
  BY <1>2, <1>5, MeetItselfStep, SelfGoesOn DEF MeetItself
<1>6. CASE Return
  <2>1. UNCHANGED Placement
    BY <1>6 DEF Return, Valid
  <2> QED
    BY <1>2, <1>6, <2>1, ReturnStays, WalkGoesOn DEF Outcome
<1> QED
  BY <1>3, <1>4, <1>5, <1>6

LEMMA SelfOutcome ==
  ASSUME ProposalInv, Identify \/ EndIdentify \/ Shift \/ EndShift \/ Displace
  PROVE  Outcome /\ UNCHANGED Placement /\ Recording
<1>1. pc \in {"identify", "shift", "displace"}
  BY DEF Identify, EndIdentify, Shift, EndShift, Displace
<1>2. SelfInv /\ Recording
  BY <1>1 DEF ProposalInv, Recording
<1>3. moved \in Seq(Move)
  BY <1>2 DEF SelfInv, Started, Register
<1>4. UNCHANGED Placement
  BY DEF Identify, EndIdentify, Shift, EndShift, Displace, Abort, Valid
<1>5. \/ SelfInv' /\ pc' \in {"identify", "shift", "displace"}
      \/ MoveInv' /\ pc' = "clear" /\ moved' = moved
      \/ MoveInv' /\ pc' = "apply" /\ IsProposal(moved')
  BY <1>2, IdentifyStep, EndIdentifyStep, ShiftStep, EndShiftStep, DisplaceStep
<1> QED
  BY <1>2, <1>3, <1>4, <1>5, SelfGoesOn DEF Outcome

\* The rest of the placer does not touch the calls.
LEMMA TransactionStays ==
  ASSUME ProposalInv, Transaction, UNCHANGED locals
  PROVE  ~Recording /\ ~Recording' /\ MoveInv' /\ \A b \in Fixed : block_locs'[b] = block_locs[b]
<1>1. ~Recording /\ ~Recording'
  BY DEF Transaction, ApplyBlock, Assess, CommitBlock, RevertBlock, ClearMove, SaveCheckpoint,
         RestoreCheckpoint, SyncPins, Terminated, Iterate, Recording, vars
<1>2. MoveInv
  BY <1>1 DEF ProposalInv
<1> QED
  BY <1>1, <1>2, MoveStep, BetweenStep DEF Transaction, Terminated

LEMMA OutcomeKeeps == Outcome => ProposalInv'
BY DEF Outcome, ProposalInv, Recording

\* Every step keeps the invariant, and fixed blocks in their places.
LEMMA ProposalStays ==
  ASSUME ProposalInv, [ProposalNext]_allVars
  PROVE  ProposalInv' /\ \A b \in Fixed : block_locs'[b] = block_locs[b]
<1>1. CASE CreateMove \/ Record
  <2>1. Outcome /\ UNCHANGED Placement
    BY <1>1, CreateOutcome, WalkOutcome, SelfOutcome DEF Record
  <2> QED
    BY <2>1, OutcomeKeeps DEF Placement
<1>2. CASE Transaction /\ UNCHANGED locals
  <2>1. ~Recording' /\ MoveInv' /\ \A b \in Fixed : block_locs'[b] = block_locs[b]
    BY <1>2, TransactionStays
  <2> QED
    BY <2>1 DEF ProposalInv, Recording
<1>3. CASE UNCHANGED allVars
  <2>1. UNCHANGED vars /\ UNCHANGED locals
    BY <1>3 DEF allVars
  <2>2. block_locs' = block_locs /\ pc' = pc
    BY <2>1 DEF vars
  <2>3. CASE ~Recording
    <3>1. MoveInv'
      BY <2>1, <2>3, BetweenStep DEF ProposalInv
    <3> QED
      BY <2>2, <2>3, <3>1 DEF ProposalInv, Recording
  <2>4. CASE Recording
    <3>1. UNCHANGED <<calls, Placement>> /\ UNCHANGED <<moved, affected, search, pc>>
      BY <2>1 DEF vars, locals, Placement
    <3>2. pc \in {"macro", "overlap", "return"} => WalkInv'
      <4> SUFFICES ASSUME WalkInv, UNCHANGED <<calls, Placement>>, UNCHANGED <<moved, affected, search, pc>>
                   PROVE  WalkInv'
        BY <3>1 DEF ProposalInv
      <4>1. Started' /\ affected' = <<>> /\ search' = <<>> /\ block_locs' = block_locs /\ Recorded' = Recorded
        BY NothingRecorded
      <4> QED
        BY <4>1 DEF WalkInv
    <3>3. pc \in {"identify", "shift", "displace"} => SelfInv'
      <4> SUFFICES ASSUME SelfInv PROVE SelfInv'
        BY DEF ProposalInv
      <4>1. Register(block_locs, moved') /\ affected' \in Seq(Macros) /\ search' \in Seq(Visit)
        BY <3>1 DEF SelfInv, Started
      <4>2. DestOf(block_locs, moved') = Recorded
        BY <3>1 DEF Recorded
      <4> QED
        BY <3>1, <4>1, <4>2, SelfFrame DEF SelfInv
    <3> QED
      BY <2>2, <2>4, <3>2, <3>3 DEF ProposalInv, Recording
  <2> QED
    BY <2>2, <2>3, <2>4
<1> QED
  BY <1>1, <1>2, <1>3 DEF ProposalNext

\* The invariant holds in every state, for any device, macros and placement to start from.
THEOREM ProposalInvariant == ProposalSpec => []ProposalInv
<1>1. ProposalInv /\ [ProposalNext]_allVars => ProposalInv'
  BY ProposalStays
<1> QED
  BY ProposalBegins, <1>1, PTL DEF ProposalSpec

-------------------------------------------------------------------------------
(* The theorems about MoveProposal *)

\* A sequence of elements of S is one of elements of any larger set.
LEMMA SeqOfMore ==
  ASSUME NEW S, NEW T, S \subseteq T
  PROVE  Seq(S) \subseteq Seq(T)
<1> SUFFICES ASSUME NEW s \in Seq(S) PROVE s \in Seq(T)
  OBVIOUS
<1>1. /\ Len(s) \in Nat /\ DOMAIN s = 1 .. Len(s) /\ s = [i \in 1 .. Len(s) |-> s[i]]
      /\ \A i \in 1 .. Len(s) : s[i] \in T
  OBVIOUS
<1> QED
  BY <1>1

\* Every block is where the move found it or where it takes it.
LEMMA WhereBlocksAre ==
  ASSUME MoveInv, ~Settled, NEW b \in Blocks
  PROVE  block_locs[b] \in {OriginOf(block_locs, moved)[b], DestOf(block_locs, moved)[b]}
<1>1. CASE Names(moved, b)
  <2>1. PICK i \in DOMAIN moved : /\ moved[i].block_num = b /\ OriginOf(block_locs, moved)[b] = moved[i].old_loc
                                  /\ DestOf(block_locs, moved)[b] = moved[i].new_loc
    BY <1>1, OldOrNew
  <2> QED
    BY <2>1, PhaseFacts DEF Located
<1>2. CASE ~Names(moved, b)
  BY <1>2 DEF DestOf
<1> QED
  BY <1>1, <1>2

\* Every variable keeps its type while blocks are recorded and while moves are made: calls
\* are always of macros there are, by offsets, and what is recorded are always moves.
THEOREM ProposalTypeCorrect == ProposalSpec => []ProposalTypeOK
<1>1. ProposalInv => ProposalTypeOK
  <2> SUFFICES ASSUME ProposalInv PROVE ProposalTypeOK
    OBVIOUS
  <2>1. CASE ~Recording
    <3>1. TypeOK /\ calls = <<>> /\ affected = <<>> /\ search = <<>>
      BY <2>1 DEF ProposalInv, MoveInv, GridInv
    <3>2. Atomic!TypeOK
      BY <2>1, <3>1 DEF TypeOK, Atomic!TypeOK, Atomic!Move, Move
    <3> QED
      BY <3>1, <3>2 DEF ProposalTypeOK, TypeOK
  <2>2. CASE Recording
    <3>1. /\ Started
          /\ calls \in Seq(Call) /\ affected \in Seq(Macros) /\ search \in Seq(Visit)
      <4>1. CASE pc \in {"macro", "overlap", "return"}
        <5>1. WalkInv
          BY <4>1 DEF ProposalInv
        <5>2. Calls(calls)
          BY <4>1, <5>1 DEF WalkInv, WalkPhase, OverlapPhase, ReturnPhase, Walk
        <5> QED
          BY <5>1, <5>2, CallTypes DEF WalkInv
      <4>2. CASE pc \in {"identify", "shift", "displace"}
        BY <4>2, CallTypes DEF ProposalInv, SelfInv
      <4> QED
        BY <2>2, <4>1, <4>2 DEF Recording
    <3>2. search \in Seq([macro: Macros, next: Nat])
      <4>1. Visit \subseteq [macro: Macros, next: Nat]
        BY DEF Visit
      <4> QED
        BY <3>1, <4>1, SeqOfMore
    <3>3. Atomic!TypeOK
      <4>1. <<>> \in Seq(Move) /\ 1 \in 1 .. Len(<<>>) + 1
        OBVIOUS
      <4> QED
        BY <2>2, <3>1, <4>1 DEF Started, Still, Placing, Grids, Usages, Atomic!TypeOK, Atomic!Move, Move
    <3> QED
      BY <3>1, <3>2, <3>3 DEF ProposalTypeOK, Started, Register, Call
  <2> QED
    BY <2>1, <2>2
<1> QED
  BY ProposalInvariant, <1>1, PTL

\* No macro is ever left in pieces: after every move, accepted, rejected or aborted, and while
\* it is assessed, each member is at its offset from the head, however many macros met,
\* swapped, were inverted or shifted over one another (record_macro_swaps,
\* record_macro_macro_swaps, record_macro_self_swaps).
THEOREM MacrosStayWhole == ProposalSpec => []MacrosKeepShape
<1>1. ProposalInv => MacrosKeepShape
  <2> SUFFICES ASSUME ProposalInv, pc \notin {"apply", "commit", "revert"} PROVE InShape(block_locs)
    BY DEF MacrosKeepShape
  <2>1. CASE Recording
    BY <2>1 DEF ProposalInv, Recording, WalkInv, SelfInv, Started, Good
  <2>2. CASE ~Recording /\ Settled
    BY <2>2 DEF ProposalInv, MoveInv, Good
  <2>3. CASE ~Recording /\ ~Settled
    <3>1. MoveInv /\ pc = "assess"
      BY <2>3 DEF ProposalInv, MoveInv, GridInv, TypeOK, Settled
    <3>2. \A i \in DOMAIN moved : Reached(i)
      BY <3>1 DEF Reached
    <3>3. block_locs = DestOf(block_locs, moved)
      BY <2>3, <3>1, <3>2, PhaseFacts, AllThere DEF Located
    <3> QED
      BY <2>3, <3>1, <3>3 DEF MoveInv, Good
  <2> QED
    BY <2>1, <2>2, <2>3
<1> QED
  BY ProposalInvariant, <1>1, PTL

\* Every block is on a place it fits on in every state, also where nothing asks: a single block
\* that gives way takes a place a macro leaves unchecked (record_macro_self_swaps), and fits
\* there if, as AlikeTiles says, it fits all places of the macros it fits one of.
THEOREM BlocksAlwaysFit == ASSUME AlikeTiles PROVE ProposalSpec => []BlocksFit
<1>1. ProposalInv => BlocksFit
  <2> SUFFICES ASSUME ProposalInv, NEW b \in Blocks PROVE Fits(b, block_locs[b])
    BY DEF BlocksFit
  <2>1. CASE Recording
    BY <2>1 DEF ProposalInv, Recording, WalkInv, SelfInv, Started, Good
  <2>2. CASE ~Recording /\ Settled
    BY <2>2 DEF ProposalInv, MoveInv, Good
  <2>3. CASE ~Recording /\ ~Settled
    <3>1. MoveInv
      BY <2>3 DEF ProposalInv
    <3>2. Fits(b, OriginOf(block_locs, moved)[b]) /\ Fits(b, DestOf(block_locs, moved)[b])
      BY <2>3, <3>1 DEF MoveInv, Good
    <3> QED
      BY <2>3, <3>1, <3>2, WhereBlocksAre
  <2> QED
    BY <2>1, <2>2, <2>3
<1> QED
  BY ProposalInvariant, <1>1, PTL

\* A block the user fixed never leaves its place, for no move, rejected or accepted, and not
\* when a checkpoint is restored.
THEOREM FixedBlocksNeverMove == ProposalSpec => FixedBlocksStay
<1>1. ProposalInv /\ [ProposalNext]_allVars => [\A b \in Fixed : block_locs'[b] = block_locs[b]]_vars
  BY ProposalStays
<1> QED
  BY ProposalInvariant, <1>1, PTL DEF ProposalSpec, FixedBlocksStay

\* With the moves that create_move makes, the grid is the inverse of the block locations between
\* moves, usages count the places taken and pins are those of the tile.
THEOREM GridFollowsProposals == ProposalSpec => [](GridIsInverse /\ UsageCounts /\ PinsMatchTile)
<1>1. ProposalInv => GridIsInverse /\ UsageCounts
  <2> SUFFICES ASSUME ProposalInv PROVE GridIsInverse /\ UsageCounts
    OBVIOUS
  <2>1. CASE Recording
    <3>1. Started
      BY <2>1 DEF ProposalInv, Recording, WalkInv, SelfInv
    <3> QED
      BY <2>1, <3>1 DEF Started, Still, SettledGrid, Counts, GridIsInverse, UsageCounts
  <2>2. CASE ~Recording
    BY <2>2 DEF ProposalInv, MoveInv, GridInv, Settled, SettledGrid, Counts, GridIsInverse, UsageCounts
  <2> QED
    BY <2>1, <2>2
<1>2. ProposalInv /\ PinInv /\ [ProposalNext]_allVars => PinInv'
  <2> SUFFICES ASSUME ProposalInv, PinInv, [ProposalNext]_allVars PROVE PinInv'
    OBVIOUS
  <2>1. CASE CreateMove \/ Record
    <3>1. UNCHANGED Placement /\ pc # "restored"
      BY <2>1, CreateOutcome, WalkOutcome, SelfOutcome DEF Record, Recording
    <3>2. block_locs' = block_locs /\ pins' = pins
      BY <3>1 DEF Placement
    <3> QED
      BY <3>1, <3>2 DEF PinInv
  <2>2. CASE Transaction /\ UNCHANGED locals
    <3>1. GridInv
      BY <2>2, TransactionStays DEF ProposalInv, MoveInv
    <3>2. [Next]_vars
      BY <2>2 DEF Next
    <3> QED
      BY <3>1, <3>2, PinsStep
  <2>3. CASE UNCHANGED allVars
    BY <2>3 DEF allVars, vars, PinInv
  <2> QED
    BY <2>1, <2>2, <2>3 DEF ProposalNext
<1>3. ProposalInit => PinInv
  BY PinsBegin DEF ProposalInit
<1>4. PinInv => PinsMatchTile
  BY DEF PinInv, PinsMatchTile
<1> QED
  BY ProposalInvariant, <1>1, <1>2, <1>3, <1>4, PTL DEF ProposalSpec

\* The operators of the abstract machine are those of this one.
LEMMA SameLoading ==
  /\ \A f : LoadedGrid(f) = Atomic!LoadedGrid(f)
  /\ \A f : LoadedUsage(f) = Atomic!LoadedUsage(f)
<1>1. ASSUME NEW f PROVE LoadedGrid(f) = Atomic!LoadedGrid(f)
  BY DEF LoadedGrid, Atomic!LoadedGrid
<1>2. ASSUME NEW S PROVE Cardinality(S) = Atomic!Cardinality(S)
  BY Zenon DEF Cardinality, Atomic!Cardinality
<1>3. ASSUME NEW f PROVE LoadedUsage(f) = Atomic!LoadedUsage(f)
  <2>1. \A t \in Tiles : LoadedUsage(f)[t] = Atomic!LoadedUsage(f)[t]
    <3> SUFFICES ASSUME NEW t \in Tiles PROVE LoadedUsage(f)[t] = Atomic!LoadedUsage(f)[t]
      OBVIOUS
    <3> DEFINE S == {b \in Blocks : TileOf[f[b]] = t}
    <3>1. LoadedUsage(f)[t] = Cardinality(S) /\ Atomic!LoadedUsage(f)[t] = Atomic!Cardinality(S)
      BY Zenon DEF LoadedUsage, Atomic!LoadedUsage
    <3> QED
      BY <1>2, <3>1
  <2> QED
    BY Zenon, <2>1 DEF LoadedUsage, Atomic!LoadedUsage
<1> QED
  BY <1>1, <1>3

\* A step of the rest of the placer is the same step of the abstract machine.
LEMMA SameTransaction ==
  ASSUME ~Recording, ~Recording', Transaction
  PROVE  Atomic!Transaction
<1> DEFINE apc == IF Recording THEN "idle" ELSE pc
           amoved == IF Recording THEN <<>> ELSE moved
<1>1. apc = pc /\ apc' = pc' /\ amoved = moved /\ amoved' = moved'
  OBVIOUS
<1> HIDE DEF apc, amoved
<1>2. ApplyBlock => Atomic!ApplyBlock
  BY <1>1 DEF ApplyBlock, Atomic!ApplyBlock, Iterate, Atomic!Iterate, Relocate, Atomic!Relocate,
              PinsAt, Atomic!PinsAt, apc, amoved
<1>3. Assess => Atomic!Assess
  BY <1>1 DEF Assess, Atomic!Assess, apc, amoved
<1>4. CommitBlock => Atomic!CommitBlock
  BY <1>1 DEF CommitBlock, Atomic!CommitBlock, Iterate, Atomic!Iterate, apc, amoved
<1>5. RevertBlock => Atomic!RevertBlock
  BY <1>1 DEF RevertBlock, Atomic!RevertBlock, Iterate, Atomic!Iterate, Relocate, Atomic!Relocate,
              PinsAt, Atomic!PinsAt, apc, amoved
<1>6. ClearMove => Atomic!ClearMove
  BY <1>1 DEF ClearMove, Atomic!ClearMove, apc, amoved
<1>7. SaveCheckpoint => Atomic!SaveCheckpoint
  BY <1>1 DEF SaveCheckpoint, Atomic!SaveCheckpoint, apc, amoved
<1>8. RestoreCheckpoint => Atomic!RestoreCheckpoint
  BY <1>1, SameLoading DEF RestoreCheckpoint, Atomic!RestoreCheckpoint, apc, amoved
<1>9. SyncPins => Atomic!SyncPins
  BY <1>1 DEF SyncPins, Atomic!SyncPins, PinsAt, Atomic!PinsAt, apc, amoved
<1>10. Terminated => Atomic!Terminated
  BY <1>1 DEF Terminated, Atomic!Terminated, vars, Atomic!vars, apc, amoved
<1> QED
  BY <1>2, <1>3, <1>4, <1>5, <1>6, <1>7, <1>8, <1>9, <1>10 DEF Transaction, Atomic!Transaction

\* A step that records is no step of it, until it hands a move over or gives up.
LEMMA RecordsAtomically ==
  ASSUME Outcome, UNCHANGED Placement, IF Recording THEN TRUE ELSE pc = "idle" /\ moved = <<>>
  PROVE  Atomic!Propose \/ Atomic!AbortProposal
         \/ (Recording' /\ UNCHANGED Placement)
<1>1. UNCHANGED <<block_locs, grid_blocks, usage, pins, k, saved>>
  BY DEF Placement
<1>2. CASE Recording'
  BY <1>2
<1>3. CASE pc' = "clear" /\ moved' \in Seq(Move)
  <2>1. ~Recording'
    BY <1>3 DEF Recording
  <2> QED
    BY <1>1, <1>3, <2>1 DEF Atomic!AbortProposal, Atomic!Move, Move
<1>4. CASE pc' = "apply" /\ IsProposal(moved')
  <2>1. ~Recording'
    BY <1>4 DEF Recording
  <2> QED
    BY <1>1, <1>4, <2>1 DEF Atomic!Propose, Atomic!IsProposal, IsProposal, Atomic!Move, Move
<1> QED
  BY <1>2, <1>3, <1>4 DEF Outcome

\* Recording a move block by block implements proposing it in one step: what create_move hands
\* over can always be committed, each block recorded once, from where it is, no two to the
\* same place, and whoever is in the way moving as well.
THEOREM ProposalsAreAtomic == ProposalSpec => ImplementsTransaction
<1>1. ProposalInit => Atomic!Init
  <2> SUFFICES ASSUME ProposalInit PROVE Atomic!Init
    OBVIOUS
  <2>1. Init /\ ~Recording
    BY DEF ProposalInit, Init, Recording
  <2> QED
    BY <2>1, SameLoading DEF Init, Atomic!Init, OwnPlaces, Atomic!OwnPlaces, PinsAt, Atomic!PinsAt
<1>2. ProposalInv /\ [ProposalNext]_allVars => [Atomic!Next]_(Atomic!vars)
  <2> SUFFICES ASSUME ProposalInv, [ProposalNext]_allVars PROVE [Atomic!Next]_(Atomic!vars)
    OBVIOUS
  <2>1. CASE CreateMove
    <3>1. Outcome /\ UNCHANGED Placement /\ pc = "idle" /\ moved = <<>> /\ ~Recording
      BY <2>1, CreateOutcome DEF Recording
    <3>2. CASE Recording'
      BY <3>1, <3>2 DEF Atomic!vars, Placement
    <3> QED
      BY <3>1, <3>2, RecordsAtomically DEF Atomic!Next
  <2>2. CASE Record
    <3>1. Outcome /\ UNCHANGED Placement /\ Recording
      BY <2>2, WalkOutcome, SelfOutcome DEF Record
    <3>2. CASE Recording'
      BY <3>1, <3>2 DEF Atomic!vars, Placement
    <3> QED
      BY <3>1, <3>2, RecordsAtomically DEF Atomic!Next
  <2>3. CASE Transaction /\ UNCHANGED locals
    BY <2>3, TransactionStays, SameTransaction DEF Atomic!Next
  <2>4. CASE UNCHANGED allVars
    BY <2>4 DEF allVars, vars, Atomic!vars, Recording
  <2> QED
    BY <2>1, <2>2, <2>3, <2>4 DEF ProposalNext
<1> QED
  BY ProposalInvariant, <1>1, <1>2, PTL DEF ProposalSpec, ImplementsTransaction, Atomic!Spec
=================================================================================
