---------------------------- MODULE MoveTransaction ----------------------------
(* The registry of block locations (base/blk_loc_registry.cpp) under the moves  *)
(* of the placer: block_locs says where each block is, grid_blocks is the       *)
(* inverse look-up, and physical_pins was computed from the location.  A move   *)
(* of several blocks is applied to block_locs, assessed, and then committed to  *)
(* grid_blocks or reverted (place/annealer.cpp, try_swap_).                     *)
(*                                                                             *)
(* Everything runs in one thread; a step is one iteration of a loop.  What a    *)
(* proposed move may be is stated by IsProposal; MoveProposal models how the    *)
(* placer makes one.                                                           *)
EXTENDS Naturals, Sequences, FiniteSets

CONSTANTS
  Blocks, NoBlock,   \* ClusterBlockId, and INVALID
  Tiles,             \* physical tiles of the device
  Kind,              \* the physical tile type of each tile
  Locs,              \* t_pl_loc: the places of all tiles
  TileOf, SubTile,   \* of each place
  Worth              \* the placements whose cost makes them worth a checkpoint

ASSUME BlocksAssumption == IsFiniteSet(Blocks) /\ NoBlock \notin Blocks
ASSUME LocsAssumption ==
  /\ IsFiniteSet(Locs) /\ TileOf \in [Locs -> Tiles] /\ SubTile \in [Locs -> Nat]
ASSUME WorthAssumption == Worth \subseteq [Blocks -> Locs]

VARIABLES
  block_locs,    \* block_locs_[b].loc
  grid_blocks,   \* grid_blocks_.block_at_location
  usage,         \* grid_blocks_.get_usage
  pins,          \* what physical_pins_ of a block was computed for
  moved,         \* blocks_affected.moved_blocks
  pc, k,         \* where try_swap_ is, and the index of the loop it is in
  saved          \* placement_checkpoint: no element, or a placement

vars == <<block_locs, grid_blocks, usage, pins, moved, pc, k, saved>>

Move == [block_num: Blocks, old_loc: Locs, new_loc: Locs]

\* place_sync_external_block_connections: the pins of a block depend on the type of
\* the tile and on the sub-tile.
PinsAt(l) == [kind |-> Kind[TileOf[l]], sub |-> SubTile[l]]

Occupied(g, t) == {l \in Locs : TileOf[l] = t /\ g[l] # NoBlock}

OwnPlaces(f) == \A a, b \in Blocks : f[a] = f[b] => a = b

\* load_from_block_locs, from an empty grid
LoadedGrid(f) ==
  [l \in Locs |-> IF \E b \in Blocks : f[b] = l
                    THEN CHOOSE b \in Blocks : f[b] = l ELSE NoBlock]
LoadedUsage(f) == [t \in Tiles |-> Cardinality({b \in Blocks : TileOf[f[b]] = t})]

\* What initial placement leaves: any placement of each block in a place of its own
Init ==
  /\ block_locs \in [Blocks -> Locs] /\ OwnPlaces(block_locs)
  /\ grid_blocks = LoadedGrid(block_locs) /\ usage = LoadedUsage(block_locs)
  /\ pins = [b \in Blocks |-> PinsAt(block_locs[b])]
  /\ moved = <<>> /\ pc = "idle" /\ k = 1 /\ saved = {}

-------------------------------------------------------------------------------
\* What commit needs of a move, and create_move promises: each block moves once, from
\* where it is, no two to the same place, and whoever is in the way moves as well.
IsProposal(m) ==
  /\ m \in Seq(Move) /\ m # <<>>
  /\ \A i, j \in DOMAIN m :
       m[i].block_num = m[j].block_num \/ m[i].new_loc = m[j].new_loc => i = j
  /\ \A i \in DOMAIN m : m[i].old_loc = block_locs[m[i].block_num]
  /\ \A i \in DOMAIN m : \/ grid_blocks[m[i].new_loc] = NoBlock
                         \/ \E j \in DOMAIN m : m[j].block_num = grid_blocks[m[i].new_loc]

Propose ==
  /\ pc = "idle"
  /\ IsProposal(moved')
  /\ pc' = "apply"
  /\ UNCHANGED <<block_locs, grid_blocks, usage, pins, k, saved>>

\* The proposal is given up; what was recorded stays until clear_move_blocks.
AbortProposal ==
  /\ pc = "idle"
  /\ moved' \in Seq(Move)
  /\ pc' = "clear"
  /\ UNCHANGED <<block_locs, grid_blocks, usage, pins, k, saved>>

\* The loop over moved_blocks in phase here goes on, or ends in phase next.
Iterate(here, next) ==
  /\ pc = here
  /\ pc' = IF k = Len(moved) THEN next ELSE here
  /\ k'  = IF k = Len(moved) THEN 1 ELSE k + 1

\* Both directions of a move of block_locs: new pins only for another type of tile.
Relocate(b, from, to) ==
  /\ block_locs' = [block_locs EXCEPT ![b] = to]
  /\ pins' = IF Kind[TileOf[from]] # Kind[TileOf[to]]
               THEN [pins EXCEPT ![b] = PinsAt(to)] ELSE pins

\* apply_move_blocks
ApplyBlock ==
  /\ Iterate("apply", "assess")
  /\ Relocate(moved[k].block_num, moved[k].old_loc, moved[k].new_loc)
  /\ UNCHANGED <<grid_blocks, usage, moved, saved>>

Assess ==
  /\ pc = "assess"
  /\ pc' \in {"commit", "revert"}
  /\ UNCHANGED <<block_locs, grid_blocks, usage, pins, moved, k, saved>>

\* Mutant: the old place is emptied, whoever is there by now.
CommitBlock_Clears ==
  /\ Iterate("commit", "clear")
  /\ LET m == moved[k]
         g == [grid_blocks EXCEPT ![m.old_loc] = NoBlock]
         u == [usage EXCEPT ![TileOf[m.old_loc]] = @ - 1]
     IN /\ usage' = IF g[m.new_loc] = NoBlock
                      THEN [u EXCEPT ![TileOf[m.new_loc]] = @ + 1] ELSE u
        /\ grid_blocks' = [g EXCEPT ![m.new_loc] = m.block_num]
  /\ UNCHANGED <<block_locs, pins, moved, saved>>

\* Mutant: an occupied place is counted again.
CommitBlock_Counts ==
  /\ Iterate("commit", "clear")
  /\ LET m       == moved[k]
         leaving == grid_blocks[m.old_loc] = m.block_num
         g == IF leaving THEN [grid_blocks EXCEPT ![m.old_loc] = NoBlock] ELSE grid_blocks
         u == IF leaving THEN [usage EXCEPT ![TileOf[m.old_loc]] = @ - 1] ELSE usage
     IN /\ usage' = [u EXCEPT ![TileOf[m.new_loc]] = @ + 1]
        /\ grid_blocks' = [g EXCEPT ![m.new_loc] = m.block_num]
  /\ UNCHANGED <<block_locs, pins, moved, saved>>

\* commit_move_blocks: the old place is emptied only if no block moved in before.
CommitBlock ==
  /\ Iterate("commit", "clear")
  /\ LET m       == moved[k]
         leaving == grid_blocks[m.old_loc] = m.block_num
         g == IF leaving THEN [grid_blocks EXCEPT ![m.old_loc] = NoBlock] ELSE grid_blocks
         u == IF leaving THEN [usage EXCEPT ![TileOf[m.old_loc]] = @ - 1] ELSE usage
     IN /\ usage' = IF g[m.new_loc] = NoBlock
                      THEN [u EXCEPT ![TileOf[m.new_loc]] = @ + 1] ELSE u
        /\ grid_blocks' = [g EXCEPT ![m.new_loc] = m.block_num]
  /\ UNCHANGED <<block_locs, pins, moved, saved>>

\* Mutant: the pins stay those of the place that was refused.
RevertBlock_KeepsPins ==
  /\ Iterate("revert", "clear")
  /\ block_locs' = [block_locs EXCEPT ![moved[k].block_num] = moved[k].old_loc]
  /\ UNCHANGED <<grid_blocks, usage, pins, moved, saved>>

\* revert_move_blocks
RevertBlock ==
  /\ Iterate("revert", "clear")
  /\ Relocate(moved[k].block_num, moved[k].new_loc, moved[k].old_loc)
  /\ UNCHANGED <<grid_blocks, usage, moved, saved>>

\* clear_move_blocks, at the end of every try_swap_
ClearMove ==
  /\ pc = "clear"
  /\ moved' = <<>> /\ pc' = "idle"
  /\ UNCHANGED <<block_locs, grid_blocks, usage, pins, k, saved>>

-------------------------------------------------------------------------------
(* Between two temperatures, and at the end of Placer::place *)

SaveCheckpoint ==
  /\ pc = "idle" /\ block_locs \in Worth
  /\ saved' = {block_locs}
  /\ UNCHANGED <<block_locs, grid_blocks, usage, pins, moved, pc, k>>

RestoreCheckpoint ==
  /\ pc = "idle"
  /\ \E f \in saved : /\ block_locs' = f
                      /\ grid_blocks' = LoadedGrid(f) /\ usage' = LoadedUsage(f)
  /\ pc' = "restored"
  /\ UNCHANGED <<pins, moved, k, saved>>

SyncPins ==
  /\ pc \in {"idle", "restored"}
  /\ pins' = [b \in Blocks |-> PinsAt(block_locs[b])]
  /\ pc' = "done"
  /\ UNCHANGED <<block_locs, grid_blocks, usage, moved, k, saved>>

Terminated == pc = "done" /\ UNCHANGED vars

Transaction ==
  \/ ApplyBlock \/ Assess \/ CommitBlock \/ RevertBlock \/ ClearMove
  \/ SaveCheckpoint \/ RestoreCheckpoint \/ SyncPins \/ Terminated

Next == Propose \/ AbortProposal \/ Transaction

Spec == Init /\ [][Next]_vars

-------------------------------------------------------------------------------
(* Properties *)

TypeOK ==
  /\ block_locs \in [Blocks -> Locs]
  /\ grid_blocks \in [Locs -> Blocks \union {NoBlock}]
  /\ usage \in [Tiles -> Nat]
  /\ DOMAIN pins = Blocks
  /\ moved \in Seq(Move)
  /\ pc \in {"idle", "apply", "assess", "commit", "revert", "clear", "restored", "done"}
  /\ k \in 1 .. Len(moved) + 1
  /\ saved \subseteq [Blocks -> Locs]

\* "Clustered block associated with each grid location (i.e. inverse of block_locs)":
\* between two moves, accepted, rejected or aborted, and after a restore, no block is
\* in two places, none is missing and no place holds one that is elsewhere.
GridIsInverse ==
  pc \in {"idle", "clear", "restored", "done"} =>
    \A b \in Blocks, l \in Locs : grid_blocks[l] = b <=> block_locs[b] = l

\* The usage of a tile is the number of its places that hold a block, also in the
\* middle of a commit that moves blocks along a chain.
UsageCounts == \A t \in Tiles : usage[t] = Cardinality(Occupied(grid_blocks, t))

\* The pins of a block are those of the type of tile it is on, whether its last move
\* was accepted or rejected.
PinsMatchTile ==
  pc \in {"idle", "done"} =>
    \A b \in Blocks : pins[b].kind = Kind[TileOf[block_locs[b]]]
===============================================================================
