------------------------------- MODULE WorkPool -------------------------------
(* What a pool of tasks promises to the thread that owns it: a task is        *)
(* scheduled once and completed once, work in progress may schedule more work, *)
(* and the owner returns from its wait, and from destroying the pool, only at  *)
(* a moment when nothing is outstanding.                                       *)
CONSTANT Tasks

VARIABLES scheduled,   \* tasks handed to the pool
          completed,   \* tasks whose body has returned
          owner        \* "quiet": nothing scheduled since a wait, "busy", "gone"

avars == <<scheduled, completed, owner>>

AInit == scheduled = {} /\ completed = {} /\ owner = "quiet"

ASchedule(t) ==
  /\ t \notin scheduled
  /\ owner # "gone"
  /\ scheduled' = scheduled \union {t}
  /\ owner' = "busy"
  /\ UNCHANGED completed

AComplete(t) ==
  /\ t \in scheduled \ completed
  /\ owner = "busy"
  /\ completed' = completed \union {t}
  /\ UNCHANGED <<scheduled, owner>>

ACall ==                      \* the owner enters the wait or the destruction
  /\ owner = "quiet" /\ owner' = "busy"
  /\ UNCHANGED <<scheduled, completed>>

AReturn ==
  /\ owner = "busy" /\ scheduled = completed
  /\ owner' \in {"quiet", "gone"}
  /\ UNCHANGED <<scheduled, completed>>

ANext == (\E t \in Tasks : ASchedule(t) \/ AComplete(t)) \/ ACall \/ AReturn

ASpec == AInit /\ [][ANext]_avars
===============================================================================
