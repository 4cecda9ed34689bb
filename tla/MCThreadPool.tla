----------------------------- MODULE MCThreadPool -----------------------------
(* Instances of ThreadPool for TLC. *)
EXTENDS ThreadPool, TLC

CONSTANTS root, left, right, leaf, flat   \* tasks
CONSTANTS client, none

\* A partition tree as NestedNetlistRouter schedules it, and a task that the
\* client schedules by itself.
TreeParent ==
  root :> client @@ left :> root @@ right :> root @@ leaf :> left @@ flat :> client

\* Two levels of it.
TreeParent2 == root :> client @@ left :> root

===============================================================================
