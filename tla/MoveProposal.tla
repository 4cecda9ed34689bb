----------------------------- MODULE MoveProposal -----------------------------
(* How the placer makes a move (place/move_utils.cpp, create_move): the block   *)
(* it picked and the place it picked for it grow into the set of all blocks     *)
(* that have to move along: the block in the way, the other members of a macro, *)
(* the macro in the way.  The rest of the placer is MoveTransaction, which this *)
(* module implements.                                                          *)
(*                                                                             *)
(* A step is one iteration of a loop.  record_macro_swaps and                   *)
(* record_macro_macro_swaps call each other; calls holds their calls that have  *)
(* not returned, each with the macro it walks, the member it is at and the      *)
(* offset of that macro.  A call does nothing after the one it made, but return *)
(* VALID or INVERT_VALID, which create_move treats alike.                       *)
EXTENDS MoveTransaction, Integers

CONSTANTS
  Fixed,          \* block_locs[b].is_fixed
  Macros, NoMacro,
  Members,        \* of each macro, the head first
  Offset,         \* of each member from the head, t_pl_macro_member::offset
  Fits(_, _),     \* is_sub_tile_compatible, of a block and a place
  Placements      \* what initial placement may have left

Vectors == [x: Int, y: Int, sub: Int]

ASSUME PlacesAssumption == Locs \subseteq Vectors
ASSUME FixedAssumption == Fixed \subseteq Blocks
ASSUME MacrosAssumption ==
  /\ NoMacro \notin Macros /\ Members \in [Macros -> Seq(Blocks) \ {<<>>}]
  /\ \A m, n \in Macros : \A i \in DOMAIN Members[m], j \in DOMAIN Members[n] :
       Members[m][i] = Members[n][j] => m = n /\ i = j
  /\ \A m \in Macros : \A i, j \in DOMAIN Members[m] :
       Members[m][i] \in Fixed => Members[m][j] \in Fixed
  /\ \A m \in Macros : \A i \in DOMAIN Members[m] : Offset[m][i] \in Vectors

VARIABLES
  calls,     \* of record_macro_swaps and record_macro_macro_swaps
  affected,  \* the affected_macros of record_macro_self_swaps
  search     \* the macros it still has to walk, each with the member it is at

locals == <<calls, affected, search>>
allVars == <<vars, locals>>

Recording == pc \in {"macro", "overlap", "return", "identify", "shift", "displace"}

-------------------------------------------------------------------------------
(* Places, offsets and macros *)

Minus(l, o) == [x |-> l.x - o.x, y |-> l.y - o.y, sub |-> l.sub - o.sub]
Plus(l, o)  == [x |-> l.x + o.x, y |-> l.y + o.y, sub |-> l.sub + o.sub]
Opposite(o) == [x |-> -o.x, y |-> -o.y, sub |-> -o.sub]

LocBefore(l, o) == \/ l.x < o.x
                   \/ l.x = o.x /\ l.y < o.y
                   \/ l.x = o.x /\ l.y = o.y /\ l.sub < o.sub

IsMember(b, m) == \E i \in DOMAIN Members[m] : Members[m][i] = b

\* get_imacro_from_iblk
MacroOf(b) == IF \E m \in Macros : IsMember(b, m)
                THEN CHOOSE m \in Macros : IsMember(b, m) ELSE NoMacro

\* Mutant: blocks that are fixed may be pushed away.
LegalSwap_Fixed(b, to) == to \in Locs /\ Fits(b, to)

\* Mutant: the type of the tile is taken to be the same all over the device.
LegalSwap_AnyType(b, to) == to \in Locs /\ grid_blocks[to] \notin Fixed

\* is_legal_swap_to_location
LegalSwap(b, to) ==
  /\ to \in Locs /\ Fits(b, to)
  /\ grid_blocks[to] \notin Fixed

-------------------------------------------------------------------------------
(* Recording moves *)

\* record_block_move refuses a second move from a place, or to it.
CanRecord(b, to) ==
  \A i \in DOMAIN moved : moved[i].new_loc # to /\ moved[i].old_loc # block_locs[b]

MoveOf(b, to) == [block_num |-> b, old_loc |-> block_locs[b], new_loc |-> to]

IsRecorded(b) == \E i \in DOMAIN moved : moved[i].block_num = b

\* record_single_block_swap: when it is VALID, and what it records.
CanSwap(b, to) ==
  LET b_to == grid_blocks[to]
  IN  /\ b \notin Fixed /\ CanRecord(b, to)
      /\ b_to # NoBlock => /\ b_to \notin Fixed /\ LegalSwap(b_to, block_locs[b])
                           /\ CanRecord(b_to, block_locs[b])

SingleBlockSwap(b, to) ==
  moved' = moved \o (IF grid_blocks[to] = NoBlock THEN <<MoveOf(b, to)>>
                     ELSE <<MoveOf(b, to), MoveOf(grid_blocks[to], block_locs[b])>>)

Placement == <<block_locs, grid_blocks, usage, pins, k, saved>>

\* VALID: try_swap_ goes on to apply the move.
Valid == /\ pc' = "apply" /\ calls' = <<>> /\ affected' = <<>> /\ search' = <<>>
         /\ UNCHANGED Placement

\* ABORT: what was recorded is of no use, and cleared next.
Abort == /\ pc' = "clear" /\ calls' = <<>> /\ affected' = <<>> /\ search' = <<>>
         /\ UNCHANGED <<moved, Placement>>

Frame(m, i, offset) == [macro |-> m, next |-> i, offset |-> offset]

Top   == calls[Len(calls)]
Below == calls[Len(calls) - 1]

Target(b) == Plus(block_locs[b], Top.offset)

-------------------------------------------------------------------------------
(* create_move and find_affected_blocks.  The move generators pick a block that *)
(* is not fixed and a place for it on another tile.                            *)

StartMacro(m, offset) ==
  /\ pc' = "macro" /\ calls' = <<Frame(m, 1, offset)>>
  /\ UNCHANGED <<moved, affected, search, Placement>>

\* A single block that meets a macro is the macro meeting the block (INVERT).
FindAffectedBlocks(b, to) ==
  LET b_to == grid_blocks[to]
  IN  \/ MacroOf(b) # NoMacro /\ StartMacro(MacroOf(b), Minus(to, block_locs[b]))
      \/ /\ MacroOf(b) = NoMacro /\ MacroOf(b_to) # NoMacro
         /\ StartMacro(MacroOf(b_to), Minus(block_locs[b], block_locs[b_to]))
      \/ MacroOf(b) = NoMacro /\ MacroOf(b_to) = NoMacro
         /\ IF CanSwap(b, to) THEN SingleBlockSwap(b, to) /\ Valid ELSE Abort

CreateMove ==
  /\ pc = "idle"
  /\ \E b \in Blocks \ Fixed, to \in Locs :
       /\ Fits(b, to) /\ TileOf[to] # TileOf[block_locs[b]]
       /\ FindAffectedBlocks(b, to)

-------------------------------------------------------------------------------
(* record_macro_swaps: the walk along the macro of the topmost call *)

Walking == pc = "macro" /\ Top.next <= Len(Members[Top.macro])
Walker  == Members[Top.macro][Top.next]
Met     == MacroOf(grid_blocks[Target(Walker)])

MacroSwapsAbort ==
  /\ Walking
  /\ LegalSwap(Walker, Target(Walker)) => Met = NoMacro /\ ~CanSwap(Walker, Target(Walker))
  /\ Abort

\* The next member changes places with a single block, or goes to a free place.
SwapSingle ==
  /\ Walking /\ LegalSwap(Walker, Target(Walker))
  /\ Met = NoMacro /\ CanSwap(Walker, Target(Walker))
  /\ SingleBlockSwap(Walker, Target(Walker))
  /\ calls' = [calls EXCEPT ![Len(calls)].next = @ + 1]
  /\ UNCHANGED <<pc, affected, search, Placement>>

\* Mutant: a macro that is met is always moved instead.
MeetMacro_Inverts ==
  /\ Walking /\ LegalSwap(Walker, Target(Walker))
  /\ Met \notin {NoMacro, Top.macro}
  /\ calls' = Append(calls, Frame(Met, 1, Opposite(Top.offset)))
  /\ pc' = "macro"
  /\ UNCHANGED <<moved, affected, search, Placement>>

\* It meets another macro.  Two macros swap from the head of the one in the way; met in
\* the middle, that one is moved instead, the other way.
MeetMacro ==
  /\ Walking /\ LegalSwap(Walker, Target(Walker))
  /\ Met \notin {NoMacro, Top.macro}
  /\ calls' = Append(calls, Frame(Met, 1, Opposite(Top.offset)))
  /\ pc' = IF Members[Met][1] = grid_blocks[Target(Walker)] THEN "overlap" ELSE "macro"
  /\ UNCHANGED <<moved, affected, search, Placement>>

\* It meets its own macro: what was recorded is dropped.
MeetItself ==
  /\ Walking /\ LegalSwap(Walker, Target(Walker))
  /\ Met = Top.macro
  /\ moved' = <<>>
  /\ search' = <<[macro |-> Top.macro, next |-> 1]>>
  /\ pc' = "identify"
  /\ UNCHANGED <<calls, affected, Placement>>

EndWalk ==
  /\ pc = "macro" /\ ~Walking
  /\ pc' = "return"
  /\ UNCHANGED <<moved, locals, Placement>>

\* The call that has returned, and the one that made it.
Return ==
  /\ pc = "return"
  /\ IF Len(calls) = 1 THEN Valid /\ UNCHANGED moved
     ELSE /\ calls' = SubSeq(calls, 1, Len(calls) - 1)
          /\ UNCHANGED <<pc, moved, affected, search, Placement>>

-------------------------------------------------------------------------------
(* record_macro_macro_swaps: the macro of the topmost call, from its head on,   *)
(* changes places with the one of the call below, from the member that met it. *)

Overlapping ==
  /\ pc = "overlap"
  /\ Below.next <= Len(Members[Below.macro]) /\ Top.next <= Len(Members[Top.macro])

\* Mutant: the shapes of the two are not compared.
CanSwapMembers_AnyShape ==
  LET b_from == Members[Below.macro][Below.next]
      to     == Plus(block_locs[b_from], Below.offset)
  IN  LegalSwap(Walker, block_locs[b_from]) /\ LegalSwap(b_from, to) /\ CanSwap(b_from, to)

\* Both have the same shape as far as they overlap, and each member fits.
CanSwapMembers ==
  LET b_from == Members[Below.macro][Below.next]
      to     == Plus(block_locs[b_from], Below.offset)
  IN  /\ Offset[Below.macro][Below.next] =
           Plus(Offset[Top.macro][Top.next], Offset[Below.macro][Below.next - Top.next + 1])
      /\ LegalSwap(Walker, block_locs[b_from]) /\ LegalSwap(b_from, to)
      /\ CanSwap(b_from, to)

SwapMembers ==
  /\ Overlapping /\ CanSwapMembers
  /\ LET b_from == Members[Below.macro][Below.next]
     IN  SingleBlockSwap(b_from, Plus(block_locs[b_from], Below.offset))
  /\ calls' = [calls EXCEPT ![Len(calls)].next = @ + 1, ![Len(calls) - 1].next = @ + 1]
  /\ UNCHANGED <<pc, affected, search, Placement>>

OverlapAbort == Overlapping /\ ~CanSwapMembers /\ Abort

\* Mutant: what is left of the macro in the way stays.
EndOverlap_NoRest ==
  /\ pc = "overlap" /\ ~Overlapping
  /\ pc' = "macro"
  /\ calls' = SubSeq(calls, 1, Len(calls) - 1)
  /\ UNCHANGED <<moved, affected, search, Placement>>

\* What is left of the macro in the way follows; if nothing is, the other one goes on.
EndOverlap ==
  /\ pc = "overlap" /\ ~Overlapping
  /\ pc' = "macro"
  /\ calls' = IF Top.next <= Len(Members[Top.macro]) THEN calls
              ELSE SubSeq(calls, 1, Len(calls) - 1)
  /\ UNCHANGED <<moved, affected, search, Placement>>

-------------------------------------------------------------------------------
(* record_macro_self_swaps: macros that would land on themselves or on each     *)
(* other all move by the offset, and single blocks in their way take the places *)
(* they leave.                                                                 *)

IsAffected(m) == \E i \in DOMAIN affected : affected[i] = m

Walks == [i \in DOMAIN affected |-> [macro |-> affected[i], next |-> 1]]

\* identify_macro_self_swap_affected_macros looks where the members of a macro would land;
\* here search holds its calls, the first one last.  A member that cannot move ends the
\* loop of the caller too, but only the outermost call returns the failure.
Identify ==
  LET s  == search[1]
      b  == Members[s.macro][s.next]
      n  == MacroOf(grid_blocks[Target(b)])
      on == [search EXCEPT ![1].next = @ + 1]
  IN  /\ pc = "identify" /\ s.next <= Len(Members[s.macro])
      /\ IF LegalSwap(b, Target(b)) THEN
           /\ IF n = NoMacro \/ IsAffected(n)
                THEN search' = on /\ UNCHANGED affected
                ELSE search' = <<[macro |-> n, next |-> 1]>> \o on /\ affected' = Append(affected, n)
           /\ UNCHANGED <<pc, moved, calls, Placement>>
         ELSE IF Len(search) = 1 THEN Abort
         ELSE /\ search' = [Tail(search) EXCEPT ![1].next = Len(Members[search[2].macro]) + 1]
              /\ UNCHANGED <<pc, moved, calls, affected, Placement>>

EndIdentify ==
  /\ pc = "identify" /\ search[1].next > Len(Members[search[1].macro])
  /\ IF Len(search) = 1 THEN pc' = "shift" /\ search' = Walks
     ELSE search' = Tail(search) /\ UNCHANGED pc
  /\ UNCHANGED <<moved, calls, affected, Placement>>

\* record_macro_move, of each affected macro in turn; a refused record is ignored.
Shift ==
  LET s == search[1]
      b == Members[s.macro][s.next]
  IN  /\ pc = "shift" /\ search # <<>> /\ s.next <= Len(Members[s.macro])
      /\ IF LegalSwap(b, Target(b)) THEN
           /\ moved' = IF CanRecord(b, Target(b)) THEN Append(moved, MoveOf(b, Target(b))) ELSE moved
           /\ search' = [search EXCEPT ![1].next = @ + 1]
           /\ UNCHANGED <<pc, calls, affected, Placement>>
         ELSE Abort

EndShift ==
  /\ pc = "shift"
  /\ IF search = <<>> THEN pc' = "displace" /\ UNCHANGED search
     ELSE search[1].next > Len(Members[search[1].macro]) /\ search' = Tail(search) /\ UNCHANGED pc
  /\ UNCHANGED <<moved, calls, affected, Placement>>

\* The moves that land on a single block which is not recorded yet
Displacing ==
  {i \in DOMAIN moved : LET b == grid_blocks[moved[i].new_loc]
                        IN  b # NoBlock /\ ~IsAffected(MacroOf(b)) /\ ~IsRecorded(b)}

\* determine_locations_emptied_by_move, less what displaced blocks have taken
Emptied == {moved[i].old_loc : i \in DOMAIN moved} \ {moved[i].new_loc : i \in DOMAIN moved}

\* Mutant: blocks in the way of the macros stay where they are.
Displace_Stay == pc = "displace" /\ Valid /\ UNCHANGED moved

\* Displaced blocks, in the order of the moves, go to the emptied places, in theirs.
Displace ==
  /\ pc = "displace"
  /\ IF Displacing = {} THEN Valid /\ UNCHANGED moved
     ELSE /\ \E i \in Displacing, l \in Emptied :
               /\ \A j \in Displacing : i <= j
               /\ \A o \in Emptied : ~LocBefore(o, l)
               /\ moved' = Append(moved, MoveOf(grid_blocks[moved[i].new_loc], l))
          /\ UNCHANGED <<pc, locals, Placement>>

-------------------------------------------------------------------------------

InShape(f) ==
  \A m \in Macros : \A i \in DOMAIN Members[m] :
    f[Members[m][i]] = Plus(f[Members[m][1]], Offset[m][i])

\* A legal placement, as initial placement makes one.
LegalPlacement(f) == OwnPlaces(f) /\ InShape(f) /\ \A b \in Blocks : Fits(b, f[b])

ASSUME PlacementsAssumption == \A f \in Placements : LegalPlacement(f)

ProposalInit == block_locs \in Placements /\ Init /\ calls = <<>> /\ affected = <<>> /\ search = <<>>

Record ==
  \/ MacroSwapsAbort \/ SwapSingle \/ MeetMacro \/ MeetItself \/ EndWalk \/ Return
  \/ SwapMembers \/ OverlapAbort \/ EndOverlap
  \/ Identify \/ EndIdentify \/ Shift \/ EndShift \/ Displace

ProposalNext == CreateMove \/ Record \/ (Transaction /\ UNCHANGED locals)

ProposalSpec == ProposalInit /\ [][ProposalNext]_allVars

-------------------------------------------------------------------------------
(* Properties *)

\* A move is proposed in one step when all blocks it takes are recorded.
Atomic == INSTANCE MoveTransaction WITH
            pc <- IF Recording THEN "idle" ELSE pc, moved <- IF Recording THEN <<>> ELSE moved

\* What create_move hands to apply_move_blocks is a set of moves that can be committed:
\* each block is recorded once, from where it is, no two to the same place, and whoever is
\* in the way moves as well, however many macros met.
ImplementsTransaction == Atomic!Spec

\* Every variable keeps its type, also while blocks are recorded.
ProposalTypeOK ==
  /\ Atomic!TypeOK /\ moved \in Seq(Move)
  /\ calls \in Seq([macro: Macros, next: Nat, offset: Vectors])
  /\ affected \in Seq(Macros)
  /\ search \in Seq([macro: Macros, next: Nat])

\* No move, accepted, rejected or aborted, leaves a macro in pieces, and none does while it
\* is assessed: "Block %zu in pl_macro #%zu is not placed in the proper orientation"
\* (check_macro_placement_consistency).
MacrosKeepShape == pc \notin {"apply", "commit", "revert"} => InShape(block_locs)

\* What nothing checks before a block has to give way to a macro: members of a macro fit the
\* same places, and a single block that fits one of them fits all.
AlikeTiles ==
  /\ \A m \in Macros : \A i, j \in DOMAIN Members[m], l \in Locs :
       Fits(Members[m][i], l) => Fits(Members[m][j], l)
  /\ \A m \in Macros : \A i \in DOMAIN Members[m], p, q \in Locs, b \in Blocks :
       Fits(Members[m][i], p) /\ Fits(Members[m][i], q) /\ MacroOf(b) = NoMacro /\ Fits(b, p)
         => Fits(b, q)

\* Every block, also one that had to give way to a macro, is on a sub-tile it fits on, as
\* check_block_placement_consistency wants it after placement (is_sub_tile_compatible).
BlocksFit == \A b \in Blocks : Fits(b, block_locs[b])

\* A block the user fixed never leaves its place, not even for a move that is rejected.
FixedBlocksStay == [][\A b \in Fixed : block_locs'[b] = block_locs[b]]_vars

\* Macros that meet one another in the middle are not inverted for ever: "not a big
\* limitation since swapping in the opposite direction allows these blocks to swap"
\* (record_macro_macro_swaps).  A call made again within itself, with nothing recorded in
\* between, is made for ever.
InversionEnds ==
  pc = "macro" =>
    \A i \in 1 .. Len(calls) - 1 : calls[i] = Top => \E j \in i .. Len(calls) : calls[j].next > 1
===============================================================================
