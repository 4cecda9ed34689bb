--------------------------- MODULE ThreadPoolProofs ---------------------------
(* What holds of ThreadPool for any number of threads and any tasks; and that   *)
(* it implements WorkPool and loses no wakeup among its workers, when each       *)
(* worker has read thread_data before the constructor moves it.                 *)
EXTENDS ThreadPool, FiniteSetTheorems, TLAPS

\* Facts about the program counters that the accounting rests on.
PcInv ==
  /\ completed \subseteq scheduled
  /\ \A w \in Workers : wpc[w] \notin {"unborn", "starting"} => td[w] \in Workers
  /\ \A w \in Workers : wpc[w] = "running" => task[w] \in Tasks
  /\ \A c \in Threads : call[c].at # "none" => call[c].task \in Tasks
  /\ \A w \in Workers :
       call[w].at # "none" => wpc[w] = "running" /\ Parent[call[w].task] = task[w]
  /\ call[Client].at # "none" => cpc = "busy"

\* The inductive invariant of the accounting.
CountInv == TypeOK /\ PcInv /\ HeldOnce

LEMMA WorkersNat ==
  /\ Workers \subseteq Nat /\ Workers \subseteq 0 .. NumThreads
  /\ 0 \in Workers /\ Client \notin Workers
  BY NumThreadsAssumption, ClientAssumption DEF Workers

\* The index that schedule_work computes is one of threads.
LEMMA RoundRobin == ASSUME NEW k \in Nat PROVE k % NumThreads \in Workers
  BY NumThreadsAssumption DEF Workers

LEMMA Picked ==
  ASSUME NEW r \in CallType, NEW i \in Workers
  PROVE  [r EXCEPT !.at = "push", !.idx = i] \in CallType
  BY DEF CallType

\* The index of a loop over threads, after its increment.
LEMMA NextWorker ==
  ASSUME NEW k \in Workers, k + 1 < NumThreads PROVE k + 1 \in Workers
  BY NumThreadsAssumption DEF Workers

LEMMA Popped ==
  ASSUME NEW S, NEW q \in Seq(S), q # <<>>
  PROVE  Head(q) \in S /\ Tail(q) \in Seq(S)
  OBVIOUS

LEMMA Pushed ==
  ASSUME NEW S, NEW q \in Seq(S), NEW x \in S PROVE Append(q, x) \in Seq(S)
  OBVIOUS

LEMMA OutstandingFinite ==
  ASSUME TypeOK PROVE IsFiniteSet(Outstanding)
  BY TasksAssumption, FS_Subset DEF TypeOK, Outstanding

LEMMA InitCount == Init => CountInv
<1> SUFFICES ASSUME Init PROVE CountInv
  OBVIOUS
<1> USE NumThreadsAssumption, TasksAssumption, ClientAssumption, WorkersNat
<1>1. NoCall \in CallType
  BY DEF NoCall, CallType
<1>2. TypeOK
  <2>1. slot \in 0 .. NumThreads /\ td \in [Workers -> 0 .. NumThreads]
    BY DEF Init, Nobody
  <2>2. queue \in [Workers -> Seq(Tasks)] /\ stop \in [Workers -> BOOLEAN]
    BY DEF Init
  <2>3. call \in [Threads -> CallType] /\ task \in [Workers -> Tasks \union {NoTask}]
    BY <1>1 DEF Init
  <2>4. kth \in Workers /\ next_thread \in Nat /\ active_tasks \in Nat
    BY DEF Init
  <2> QED BY <2>1, <2>2, <2>3, <2>4 DEF Init, TypeOK
<1>3. PcInv
  BY DEF Init, PcInv, NoCall, Threads
<1>4. Outstanding = {} /\ Cardinality(Outstanding) = 0
  BY FS_EmptySet DEF Init, Outstanding
<1>5. HeldOnce
  BY <1>4 DEF Init, HeldOnce, IsHeld, HeldInOnePlace, InCall, InQueue, InWorker, NoCall
<1> QED BY <1>2, <1>3, <1>5 DEF CountInv

\* A worker with a call in progress runs a task, and the client is not waiting.
LEMMA RunningIsCounted ==
  ASSUME CountInv, NEW w \in Workers, wpc[w] = "running"
  PROVE  task[w] \in Outstanding /\ active_tasks \in Nat /\ active_tasks >= 1
<1>1. task[w] \in Tasks /\ IsHeld(task[w])
  BY DEF CountInv, PcInv, IsHeld, InWorker
<1>2. task[w] \in Outstanding
  BY <1>1 DEF CountInv, HeldOnce
<1>3. IsFiniteSet(Outstanding)
  BY OutstandingFinite DEF CountInv
<1>4. Cardinality(Outstanding) \in Nat /\ Cardinality(Outstanding) # 0
  BY <1>2, <1>3, FS_CardinalityType, FS_EmptySet
<1> QED BY <1>2, <1>4 DEF CountInv, HeldOnce, TypeOK

-------------------------------------------------------------------------------
LEMMA TypeStep == ASSUME CountInv, Next PROVE TypeOK'
<1> USE NumThreadsAssumption, TasksAssumption, ClientAssumption, WorkersNat
         DEF TypeOK, Nobody, cvars, wvars, hvars
<1>t. TypeOK
  BY DEF CountInv
<1>c. NoCall \in CallType
  BY DEF NoCall, CallType
<1>1. CASE StartThread
  BY <1>1, <1>t DEF StartThread
<1>2. CASE PushBack
  <2>1. kth' \in Workers
    BY <1>2, <1>t, NextWorker DEF PushBack
  <2>2. slot' \in 0 .. NumThreads
    BY <1>2 DEF PushBack
  <2> QED BY <1>2, <1>t, <2>1, <2>2 DEF PushBack
<1>3. ASSUME NEW w \in Workers, BindThread(w) PROVE TypeOK'
  BY <1>3, <1>t DEF BindThread
<1>4. ASSUME NEW c \in Threads, NEW t \in Tasks, CountTask(c, t) PROVE TypeOK'
  <2>1. [at |-> "pick", task |-> t, idx |-> 0] \in CallType
    BY DEF CallType
  <2>2. call' \in [Threads -> CallType] /\ active_tasks' \in Nat
    BY <1>4, <1>t, <2>1 DEF CountTask
  <2> QED BY <1>4, <1>t, <2>2 DEF CountTask
<1>5. ASSUME NEW c \in Threads, PickThread(c) PROVE TypeOK'
  <2> DEFINE i == next_thread % NumThreads
  <2>1. next_thread \in Nat /\ next_thread' \in Nat
    BY <1>5, <1>t DEF PickThread
  <2>2. i \in Workers
    BY <2>1, RoundRobin
  <2>4. call' = [call EXCEPT ![c].at = "push", ![c].idx = i]
    BY <1>5 DEF PickThread
  <2> HIDE DEF i
  <2>5. [call[c] EXCEPT !.at = "push", !.idx = i] \in CallType
    BY <1>t, <2>2, Picked
  <2>3. call' \in [Threads -> CallType]
    BY <1>t, <2>4, <2>5
  <2> QED BY <1>5, <1>t, <2>1, <2>3 DEF PickThread
<1>6. ASSUME NEW c \in Threads, PushTask(c) PROVE TypeOK'
  <2>1. call[c].idx \in Workers /\ call[c].task \in Tasks
    BY <1>6, <1>t DEF PushTask, CallType, CountInv, PcInv
  <2>2. call' \in [Threads -> CallType]
    BY <1>6, <1>t DEF PushTask, CallType
  <2>3. Append(queue[call[c].idx], call[c].task) \in Seq(Tasks)
    BY <1>t, <2>1, Pushed
  <2>4. queue' \in [Workers -> Seq(Tasks)]
    BY <1>6, <1>t, <2>3 DEF PushTask
  <2> QED BY <1>6, <1>t, <2>2, <2>4 DEF PushTask
<1>7. ASSUME NEW c \in Threads, NotifyWorker(c) PROVE TypeOK'
  BY <1>7, <1>t, <1>c DEF NotifyWorker, NotifyOne, Sleepers
<1>8. ASSUME NEW w \in Workers, FetchTask(w) PROVE TypeOK'
  <2>1. td[w] \in Workers
    BY <1>8 DEF FetchTask, CountInv, PcInv
  <2>2. Head(queue[td[w]]) \in Tasks /\ Tail(queue[td[w]]) \in Seq(Tasks)
    BY <1>8, <1>t, <2>1, Popped DEF FetchTask
  <2>3. queue' \in [Workers -> Seq(Tasks)] /\ task' \in [Workers -> Tasks \union {NoTask}]
    BY <1>8, <1>t, <2>2 DEF FetchTask
  <2> QED BY <1>8, <1>t, <2>3 DEF FetchTask
<1>9. ASSUME NEW w \in Workers, ExitThread(w) \/ Sleep(w) \/ SpuriousWake(w)
      PROVE  TypeOK'
  BY <1>9, <1>t DEF ExitThread, Sleep, SpuriousWake
<1>10. ASSUME NEW w \in Workers, FinishTask(w) PROVE TypeOK'
  <2>1. wpc[w] = "running" /\ task[w] \in Tasks
    BY <1>10 DEF FinishTask, CountInv, PcInv
  <2>2. active_tasks - 1 \in Nat
    BY <2>1, RunningIsCounted
  <2> QED BY <1>10, <1>t, <2>1, <2>2 DEF FinishTask
<1>11. ASSUME NEW w \in Workers, TaskThrows(w) \/ NotifyAll(w) PROVE TypeOK'
  BY <1>11, <1>t DEF TaskThrows, NotifyAll
<1>12. CASE CallWait \/ CheckDone \/ Block \/ SpuriousWakeClient \/ CallDestroy
  BY <1>12, <1>t DEF CallWait, CheckDone, Block, SpuriousWakeClient, CallDestroy
<1>13. CASE StopThread \/ JoinThread
  BY <1>13, <1>t, NextWorker DEF StopThread, JoinThread
<1>14. CASE WakeThread
  <2>1. kth' \in Workers
    BY <1>14, <1>t, NextWorker DEF WakeThread
  <2>2. wpc' \in [Workers -> {"unborn", "starting", "fetch", "asleep", "running",
                             "notify", "exited"}]
    BY <1>14, <1>t DEF WakeThread, NotifyOne, Sleepers
  <2> QED BY <1>14, <1>t, <2>1, <2>2 DEF WakeThread
<1>15. CASE Terminated
  BY <1>15, <1>t DEF Terminated, vars
<1> QED
  BY <1>1, <1>2, <1>3, <1>4, <1>5, <1>6, <1>7, <1>8, <1>9, <1>10, <1>11, <1>12,
     <1>13, <1>14, <1>15
     DEF Next, Running, ScheduleStep, WorkerStep, ClientStep

-------------------------------------------------------------------------------
LEMMA PcStep == ASSUME CountInv, Next PROVE PcInv'
<1> USE TasksAssumption, ClientAssumption, WorkersNat DEF cvars, wvars, hvars
<1>t. TypeOK /\ PcInv /\ TypeOK'
  BY TypeStep DEF CountInv
<1>d. Threads = Workers \union {Client}
  BY DEF Threads
<1>1. CASE StartThread
  BY <1>1, <1>t DEF StartThread, PcInv, TypeOK
<1>2. CASE PushBack
  BY <1>2, <1>t DEF PushBack, PcInv
<1>3. ASSUME NEW w \in Workers, BindThread(w) PROVE PcInv'
  <2>1. slot # Nobody => slot \in Workers
    BY <1>t, NumThreadsAssumption DEF TypeOK, Nobody, Workers
  <2> QED BY <1>3, <1>t, <2>1 DEF BindThread, PcInv, TypeOK
<1>4. ASSUME NEW c \in Threads, NEW t \in Tasks, CountTask(c, t) PROVE PcInv'
  BY <1>4, <1>t, <1>d DEF CountTask, MaySchedule, PcInv, TypeOK, CallType
<1>5. ASSUME NEW c \in Threads, PickThread(c) PROVE PcInv'
  <2>0. call \in [Threads -> CallType] /\ call[c].at = "pick" /\ \E i : call' = [call EXCEPT ![c].at = "push", ![c].idx = i]
    BY <1>5, <1>t DEF PickThread, TypeOK
  <2>1. ASSUME NEW d \in Threads
        PROVE  /\ call'[d].task = call[d].task
               /\ call'[d].at # "none" => call[d].at # "none"
    <3>1. CASE d = c
      BY <2>0, <3>1 DEF CallType
    <3>2. CASE d # c
      BY <2>0, <3>2
    <3> QED
      BY <3>1, <3>2
  <2> QED BY <1>5, <1>t, <1>d, <2>1 DEF PickThread, PcInv
<1>6. ASSUME NEW c \in Threads, PushTask(c) PROVE PcInv'
  <2>0. call \in [Threads -> CallType] /\ call[c].at = "push" /\ call' = [call EXCEPT ![c].at = "notify"]
    BY <1>6, <1>t DEF PushTask, TypeOK
  <2>1. ASSUME NEW d \in Threads
        PROVE  /\ call'[d].task = call[d].task
               /\ call'[d].at # "none" => call[d].at # "none"
    <3>1. CASE d = c
      BY <2>0, <3>1 DEF CallType
    <3>2. CASE d # c
      BY <2>0, <3>2
    <3> QED
      BY <3>1, <3>2
  <2> QED BY <1>6, <1>t, <1>d, <2>1 DEF PushTask, PcInv
<1>7. ASSUME NEW c \in Threads, NotifyWorker(c) PROVE PcInv'
  BY <1>7, <1>t, <1>d DEF NotifyWorker, NotifyOne, Sleepers, NoCall, PcInv, TypeOK
<1>8. ASSUME NEW w \in Workers, FetchTask(w) PROVE PcInv'
  <2>1. td[w] \in Workers /\ task'[w] \in Tasks
    BY <1>8, <1>t, Popped DEF FetchTask, PcInv, TypeOK
  <2>2. /\ wpc[w] = "fetch" /\ wpc'[w] = "running"
        /\ \A v \in Workers \ {w} : wpc'[v] = wpc[v] /\ task'[v] = task[v]
    BY <1>8, <1>t DEF FetchTask, TypeOK
  <2>3. UNCHANGED <<td, call, cpc, scheduled, completed>>
    BY <1>8 DEF FetchTask
  <2>4. \A v \in Workers : call[v].at # "none" => v # w
    BY <1>t, <2>2 DEF PcInv
  <2> QED BY <1>t, <1>d, <2>1, <2>2, <2>3, <2>4 DEF PcInv
<1>9. ASSUME NEW w \in Workers, ExitThread(w) \/ Sleep(w) \/ SpuriousWake(w)
      PROVE  PcInv'
  <2>1. /\ wpc[w] \in {"fetch", "asleep"}
        /\ \E pc \in {"fetch", "asleep", "exited"} : wpc' = [wpc EXCEPT ![w] = pc]
    BY <1>9 DEF ExitThread, Sleep, SpuriousWake
  <2>2. UNCHANGED <<td, task, call, cpc, scheduled, completed>>
    BY <1>9 DEF ExitThread, Sleep, SpuriousWake
  <2> QED BY <1>t, <2>1, <2>2 DEF PcInv, TypeOK
<1>10. ASSUME NEW w \in Workers, FinishTask(w) PROVE PcInv'
  <2>1. task[w] \in scheduled
    BY <1>10, RunningIsCounted DEF FinishTask, CountInv, Outstanding
  <2> QED BY <1>10, <1>t, <2>1 DEF FinishTask, PcInv, TypeOK
<1>11. ASSUME NEW w \in Workers, TaskThrows(w) \/ NotifyAll(w) PROVE PcInv'
  BY <1>11, <1>t DEF TaskThrows, NotifyAll, PcInv, TypeOK
<1>12. CASE CallWait \/ CheckDone \/ Block \/ SpuriousWakeClient \/ CallDestroy
  BY <1>12, <1>t DEF CallWait, CheckDone, Block, SpuriousWakeClient, CallDestroy, PcInv
<1>13. CASE StopThread \/ JoinThread
  BY <1>13, <1>t DEF StopThread, JoinThread, PcInv
<1>14. CASE WakeThread
  BY <1>14, <1>t DEF WakeThread, NotifyOne, Sleepers, PcInv, TypeOK
<1>15. CASE Terminated
  BY <1>15, <1>t DEF Terminated, vars, PcInv
<1> QED
  BY <1>1, <1>2, <1>3, <1>4, <1>5, <1>6, <1>7, <1>8, <1>9, <1>10, <1>11, <1>12,
     <1>13, <1>14, <1>15
     DEF Next, Running, ScheduleStep, WorkerStep, ClientStep
-------------------------------------------------------------------------------
(* Where tasks are held *)

\* Steps that move no task.
LEMMA HeldFrame ==
  ASSUME HeldOnce,
         UNCHANGED <<queue, active_tasks, scheduled, completed>>,
         \A c \in Threads, t \in Tasks : InCall(c, t)' <=> InCall(c, t),
         \A w \in Workers, t \in Tasks : InWorker(w, t)' <=> InWorker(w, t)
  PROVE  HeldOnce'
<1>1. \A t \in Tasks : \A w \in Workers : \A i \in DOMAIN queue[w] :
        InQueue(w, i, t)' <=> InQueue(w, i, t)
  BY DEF InQueue
<1>2. \A t \in Tasks : (IsHeld(t)' <=> IsHeld(t))
  BY <1>1 DEF IsHeld
<1>3. \A t \in Tasks : HeldInOnePlace(t)' <=> HeldInOnePlace(t)
  BY <1>1 DEF HeldInOnePlace
<1> QED BY <1>2, <1>3 DEF HeldOnce, Outstanding
LEMMA CountTaskHeld ==
  ASSUME CountInv, NEW c \in Threads, NEW t \in Tasks, CountTask(c, t)
  PROVE  HeldOnce'
<1>1. /\ t \notin Outstanding /\ Outstanding' = Outstanding \union {t}
  BY DEF CountTask, CountInv, PcInv, Outstanding
<1>2. active_tasks' = Cardinality(Outstanding')
  <2>1. IsFiniteSet(Outstanding)
    BY OutstandingFinite DEF CountInv
  <2> QED BY <1>1, <2>1, FS_AddElement DEF CountTask, CountInv, HeldOnce
<1>3. ~IsHeld(t)
  BY <1>1 DEF CountInv, HeldOnce
<1>4. \A d \in Threads, u \in Tasks :
        InCall(d, u)' <=> InCall(d, u) \/ (d = c /\ u = t)
  BY DEF InCall, CountTask, CountInv, TypeOK
<1>5. \A w \in Workers, u \in Tasks : InWorker(w, u)' <=> InWorker(w, u)
  BY DEF InWorker, CountTask, wvars
<1>6. queue' = queue
  BY DEF CountTask
<1>7. \A u \in Tasks : \A w \in Workers : \A i \in DOMAIN queue[w] :
        InQueue(w, i, u)' <=> InQueue(w, i, u)
  BY <1>6 DEF InQueue
<1>8. ASSUME NEW u \in Tasks PROVE IsHeld(u)' <=> u \in Outstanding'
  BY <1>1, <1>4, <1>5, <1>6, <1>7 DEF IsHeld, CountInv, HeldOnce
<1>9. ASSUME NEW u \in Tasks PROVE HeldInOnePlace(u)'
  <2>1. HeldInOnePlace(u)
    BY DEF CountInv, HeldOnce
  <2>2. CASE u = t
    <3>1. \A d \in Threads : InCall(d, u)' <=> d = c
      BY <1>3, <1>4, <2>2 DEF IsHeld
    <3>2. \A w \in Workers : ~InWorker(w, u)'
      BY <1>3, <1>5, <2>2 DEF IsHeld
    <3>3. \A w \in Workers : \A i \in DOMAIN queue'[w] : ~InQueue(w, i, u)'
      BY <1>3, <1>6, <1>7, <2>2 DEF IsHeld
    <3> QED BY <3>1, <3>2, <3>3 DEF HeldInOnePlace
  <2>3. CASE u # t
    BY <2>1, <2>3, <1>4, <1>5, <1>6, <1>7 DEF HeldInOnePlace
  <2> QED BY <2>2, <2>3
<1> QED BY <1>2, <1>8, <1>9 DEF HeldOnce

LEMMA PushTaskHeld ==
  ASSUME CountInv, NEW c \in Threads, PushTask(c)
  PROVE  HeldOnce'
<1>0. PICK t \in Tasks, q \in Workers : /\ t = call[c].task /\ q = call[c].idx
                                        /\ call[c].at = "push"
                                        /\ queue \in [Workers -> Seq(Tasks)]
  BY DEF PushTask, CountInv, TypeOK, PcInv, CallType
<1>1. UNCHANGED <<active_tasks, scheduled, completed>>
  BY DEF PushTask, hvars
<1>2. InCall(c, t)
  BY <1>0 DEF InCall
<1>3. \A d \in Threads, u \in Tasks : InCall(d, u)' <=> InCall(d, u) /\ d # c
  BY <1>0 DEF InCall, PushTask, CountInv, TypeOK
<1>4. \A w \in Workers, u \in Tasks : InWorker(w, u)' <=> InWorker(w, u)
  BY DEF InWorker, PushTask, wvars
<1>a. PICK last \in Nat : last = Len(queue[q]) + 1
  BY <1>0
<1>5. /\ queue' = [queue EXCEPT ![q] = Append(queue[q], t)]
      /\ queue'[q] = Append(queue[q], t)
      /\ \A w \in Workers \ {q} : queue'[w] = queue[w]
  BY <1>0 DEF PushTask
<1>6. /\ DOMAIN queue'[q] = DOMAIN queue[q] \union {last}
      /\ last \notin DOMAIN queue[q] /\ queue'[q][last] = t
      /\ \A i \in DOMAIN queue[q] : queue'[q][i] = queue[q][i]
  BY <1>0, <1>a, <1>5
<1>7. \A w, u, i : w \in Workers /\ u \in Tasks =>
        (InQueue(w, i, u)' <=> InQueue(w, i, u) \/ (w = q /\ i = last /\ u = t))
  BY <1>5, <1>6 DEF InQueue
<1>8. ASSUME NEW u \in Tasks PROVE IsHeld(u)' <=> IsHeld(u)
  <2>1. (\E w \in Workers : \E i \in DOMAIN queue[w] : InQueue(w, i, u))'
          <=> (\E w \in Workers : \E i \in DOMAIN queue[w] : InQueue(w, i, u)) \/ u = t
    <3>1. \A w, i : w \in Workers =>
             /\ InQueue(w, i, u) => i \in DOMAIN queue[w]
             /\ InQueue(w, i, u)' => i \in DOMAIN queue'[w]
      BY DEF InQueue
    <3>2. u = t => InQueue(q, last, u)'
      BY <1>0, <1>7
    <3>3. \A w, i : w \in Workers => (InQueue(w, i, u) => InQueue(w, i, u)')
      BY <1>7
    <3>4. \A w, i : w \in Workers => (InQueue(w, i, u)' => InQueue(w, i, u) \/ u = t)
      BY <1>7
    <3>5. (\E w \in Workers : \E i \in DOMAIN queue[w] : InQueue(w, i, u))'
            <=> \E w, i : w \in Workers /\ InQueue(w, i, u)'
      BY <3>1
    <3>6. (\E w \in Workers : \E i \in DOMAIN queue[w] : InQueue(w, i, u))
            <=> \E w, i : w \in Workers /\ InQueue(w, i, u)
      BY <3>1
    <3> QED BY <1>0, <3>2, <3>3, <3>4, <3>5, <3>6
  <2>2. (\E d \in Threads : InCall(d, u))' \/ u = t
          <=> (\E d \in Threads : InCall(d, u)) \/ u = t
    BY <1>0, <1>2, <1>3 DEF InCall
  <2>3. u = t => \E d \in Threads : InCall(d, u)
    BY <1>2
  <2> QED BY <1>4, <2>1, <2>2, <2>3 DEF IsHeld
<1>9. ASSUME NEW u \in Tasks PROVE HeldInOnePlace(u)'
  <2>1. HeldInOnePlace(u)
    BY DEF CountInv, HeldOnce
  <2>2. CASE u = t
    <3>1. \A d \in Threads : ~InCall(d, u)'
      BY <1>2, <1>3, <2>1, <2>2 DEF HeldInOnePlace
    <3>2. \A w \in Workers : ~InWorker(w, u)'
      BY <1>2, <1>4, <2>1, <2>2 DEF HeldInOnePlace
    <3>3. \A w, i : w \in Workers => (InQueue(w, i, u)' <=> w = q /\ i = last)
      BY <1>2, <1>7, <2>1, <2>2 DEF HeldInOnePlace, InQueue
    <3> QED BY <3>1, <3>2, <3>3 DEF HeldInOnePlace
  <2>3. CASE u # t
    <3>1. \A w, i : w \in Workers => (InQueue(w, i, u)' <=> InQueue(w, i, u))
      BY <1>7, <2>3
    <3>2. \A w, i : w \in Workers => (InQueue(w, i, u) => i \in DOMAIN queue[w])
      BY DEF InQueue
    <3> QED BY <2>1, <3>1, <3>2, <1>3, <1>4 DEF HeldInOnePlace
  <2> QED BY <2>2, <2>3
<1> QED BY <1>1, <1>8, <1>9 DEF HeldOnce, Outstanding, CountInv
LEMMA FetchTaskHeld ==
  ASSUME CountInv, NEW w \in Workers, FetchTask(w)
  PROVE  HeldOnce'
<1>0. PICK q \in Workers, t \in Tasks : /\ q = td[w] /\ t = Head(queue[q])
                                        /\ queue[q] # <<>> /\ wpc[w] = "fetch"
                                        /\ queue \in [Workers -> Seq(Tasks)]
  BY Popped DEF FetchTask, CountInv, TypeOK, PcInv
<1>1. UNCHANGED <<active_tasks, scheduled, completed, call>>
  BY DEF FetchTask, hvars
<1>2. \A d \in Threads, u \in Tasks : InCall(d, u)' <=> InCall(d, u)
  BY <1>1 DEF InCall
<1>3. \A v \in Workers, u \in Tasks :
        InWorker(v, u)' <=> InWorker(v, u) \/ (v = w /\ u = t)
  BY <1>0 DEF InWorker, FetchTask, CountInv, TypeOK
<1>4. /\ queue'[q] = Tail(queue[q])
      /\ \A v \in Workers \ {q} : queue'[v] = queue[v]
  BY <1>0 DEF FetchTask
<1>5. /\ 1 \in DOMAIN queue[q] /\ queue[q][1] = t /\ DOMAIN queue'[q] \subseteq Nat
      /\ \A i \in Nat : i \in DOMAIN queue'[q] <=> i # 0 /\ i + 1 \in DOMAIN queue[q]
      /\ \A i \in DOMAIN queue'[q] : queue'[q][i] = queue[q][i + 1]
      /\ DOMAIN queue[q] \subseteq Nat \ {0}
  BY <1>0, <1>4
<1>6. InQueue(q, 1, t)
  BY <1>5 DEF InQueue
<1>7. \A u, v, i : u \in Tasks /\ v \in Workers \ {q} =>
        (InQueue(v, i, u)' <=> InQueue(v, i, u))
  BY <1>4 DEF InQueue
<1>8. ASSUME NEW u \in Tasks, NEW i \in Nat, i # 0
      PROVE  InQueue(q, i, u)' <=> InQueue(q, i + 1, u)
  <2>1. i \in DOMAIN queue'[q] <=> i + 1 \in DOMAIN queue[q]
    BY <1>5, <1>8
  <2> QED BY <1>5, <2>1 DEF InQueue
<1>9. \A v, u, i : v \in Workers /\ u \in Tasks =>
        /\ InQueue(v, i, u) => i \in DOMAIN queue[v]
        /\ InQueue(v, i, u)' => i \in DOMAIN queue'[v]
  BY DEF InQueue
<1>12. \A u, i : u \in Tasks /\ InQueue(q, i, u)' => i \in Nat /\ i # 0
  BY <1>0, <1>5, <1>9
<1>10. ASSUME NEW u \in Tasks PROVE HeldInOnePlace(u)'
  <2>1. HeldInOnePlace(u)
    BY DEF CountInv, HeldOnce
  <2>2. CASE u = t
    <3>1. \A d \in Threads : ~InCall(d, u)'
      BY <1>0, <1>2, <1>6, <1>9, <2>1, <2>2 DEF HeldInOnePlace
    <3>2. \A v \in Workers : InWorker(v, u)' <=> v = w
      BY <1>0, <1>3, <1>6, <1>9, <2>1, <2>2 DEF HeldInOnePlace
    <3>3. \A v, i : v \in Workers => (InQueue(v, i, u) => v = q /\ i = 1)
      BY <1>0, <1>6, <1>9, <2>1, <2>2 DEF HeldInOnePlace
    <3>4. \A v, i : v \in Workers => (~InQueue(v, i, u)')
      <4> SUFFICES ASSUME NEW v \in Workers, NEW i, InQueue(v, i, u)' PROVE FALSE
        OBVIOUS
      <4>1. CASE v = q
        <5>1. i \in Nat /\ i # 0 /\ i + 1 # 1
          BY <1>5, <1>9, <4>1
        <5> QED BY <1>8, <3>3, <4>1, <5>1
      <4>2. CASE v # q
        BY <1>7, <3>3, <4>2
      <4> QED BY <4>1, <4>2
    <3> QED BY <3>1, <3>2, <3>4 DEF HeldInOnePlace
  <2>3. CASE u # t
    <3>1. \A v, i : v \in Workers => (InQueue(v, i, u)' => \E j : InQueue(v, j, u))
      BY <1>12, <1>7, <1>8
    <3>2. \A v, x, i, j :
            v \in Workers /\ x \in Workers /\ InQueue(v, i, u)' /\ InQueue(x, j, u)'
              => v = x /\ i = j
      <4> SUFFICES ASSUME NEW v \in Workers, NEW x \in Workers, NEW i, NEW j,
                          InQueue(v, i, u)', InQueue(x, j, u)'
                   PROVE  v = x /\ i = j
        OBVIOUS
      <4>1. v = x
        BY <1>9, <2>1, <3>1 DEF HeldInOnePlace
      <4>2. CASE v = q
        <5>1. i \in Nat /\ i # 0 /\ j \in Nat /\ j # 0
          BY <1>12, <4>1, <4>2
        <5>2. InQueue(q, i + 1, u) /\ InQueue(q, j + 1, u)
          BY <1>8, <4>1, <4>2, <5>1
        <5>3. i + 1 = j + 1
          BY <1>0, <1>9, <2>1, <5>2 DEF HeldInOnePlace
        <5> QED BY <4>1, <5>1, <5>3
      <4>3. CASE v # q
        <5>1. InQueue(v, i, u) /\ InQueue(v, j, u)
          BY <1>7, <4>1, <4>3
        <5> QED BY <1>9, <2>1, <4>1, <5>1 DEF HeldInOnePlace
      <4> QED BY <4>2, <4>3
    <3> QED BY <1>2, <1>3, <1>9, <2>1, <2>3, <3>1, <3>2 DEF HeldInOnePlace
  <2> QED BY <2>2, <2>3
<1>11. ASSUME NEW u \in Tasks PROVE IsHeld(u)' <=> IsHeld(u)
  <2>1. CASE u = t
    <3>1. IsHeld(u) /\ IsHeld(u)'
      BY <1>0, <1>3, <1>6, <1>9, <2>1 DEF IsHeld
    <3> QED BY <3>1
  <2>2. CASE u # t
    <3>1. \A v, i : v \in Workers => (InQueue(v, i, u)' => \E j : InQueue(v, j, u))
      BY <1>12, <1>7, <1>8
    <3>2. \A v, i : v \in Workers => (InQueue(v, i, u) => \E j : InQueue(v, j, u)')
      <4> SUFFICES ASSUME NEW v \in Workers, NEW i, InQueue(v, i, u)
                   PROVE  \E j : InQueue(v, j, u)'
        OBVIOUS
      <4>1. CASE v = q
        <5>1. i \in Nat /\ i # 0 /\ i # 1
          BY <1>5, <1>9, <2>2, <4>1 DEF InQueue
        <5>2. i - 1 \in Nat /\ i - 1 # 0 /\ (i - 1) + 1 = i
          BY <5>1
        <5> QED BY <1>8, <4>1, <5>2
      <4>2. CASE v # q
        BY <1>7, <4>2
      <4> QED BY <4>1, <4>2
    <3> QED BY <1>2, <1>3, <1>9, <2>2, <3>1, <3>2 DEF IsHeld
  <2> QED BY <2>1, <2>2
<1> QED BY <1>1, <1>10, <1>11 DEF HeldOnce, Outstanding, CountInv
LEMMA FinishTaskHeld ==
  ASSUME CountInv, NEW w \in Workers, FinishTask(w)
  PROVE  HeldOnce'
<1>0. PICK t \in Tasks : /\ t = task[w] /\ wpc[w] = "running"
                         /\ t \in Outstanding /\ active_tasks >= 1
  BY RunningIsCounted DEF FinishTask, CountInv, PcInv
<1>1. Outstanding' = Outstanding \ {t}
  BY <1>0 DEF FinishTask, Outstanding
<1>2. active_tasks' = Cardinality(Outstanding')
  <2>1. IsFiniteSet(Outstanding)
    BY OutstandingFinite DEF CountInv
  <2>2. Cardinality(Outstanding') = Cardinality(Outstanding) - 1
    BY <1>0, <1>1, <2>1, FS_RemoveElement
  <2> QED BY <2>2 DEF FinishTask, CountInv, HeldOnce
<1>3. UNCHANGED <<queue, call>>
  BY DEF FinishTask
<1>4. \A d \in Threads, u \in Tasks : InCall(d, u)' <=> InCall(d, u)
  BY <1>3 DEF InCall
<1>5. \A v \in Workers, u \in Tasks : InWorker(v, u)' <=> InWorker(v, u) /\ v # w
  BY <1>0, TasksAssumption DEF InWorker, FinishTask, CountInv, TypeOK
<1>6. \A u \in Tasks : \A v, i : v \in Workers => (InQueue(v, i, u)' <=> InQueue(v, i, u))
  BY <1>3 DEF InQueue
<1>7. InWorker(w, t)
  BY <1>0 DEF InWorker
<1>8. \A u \in Tasks : InWorker(w, u) => u = t
  BY <1>0 DEF InWorker
<1>9. ASSUME NEW u \in Tasks PROVE HeldInOnePlace(u)'
  BY <1>3, <1>4, <1>5, <1>6 DEF HeldInOnePlace, CountInv, HeldOnce
<1>10. ASSUME NEW u \in Tasks PROVE IsHeld(u)' <=> u \in Outstanding'
  <2>1. HeldInOnePlace(u) /\ (IsHeld(u) <=> u \in Outstanding)
    BY DEF CountInv, HeldOnce
  <2>2. CASE u = t
    <3>1. ~IsHeld(u)'
      BY <1>3, <1>4, <1>5, <1>6, <1>7, <2>1, <2>2 DEF IsHeld, HeldInOnePlace
    <3> QED BY <1>1, <2>2, <3>1
  <2>3. CASE u # t
    <3>1. IsHeld(u)' <=> IsHeld(u)
      BY <1>3, <1>4, <1>5, <1>6, <1>8, <2>3 DEF IsHeld
    <3> QED BY <1>1, <2>1, <2>3, <3>1
  <2> QED BY <2>2, <2>3
<1> QED BY <1>2, <1>9, <1>10 DEF HeldOnce

LEMMA HeldStep == ASSUME CountInv, Next PROVE HeldOnce'
<1> USE DEF cvars, wvars, hvars
<1>t. TypeOK /\ HeldOnce
  BY DEF CountInv
<1>1. CASE StartThread \/ PushBack
  <2>1. /\ UNCHANGED <<queue, active_tasks, scheduled, completed, call, task>>
        /\ \A w \in Workers : wpc[w] = "running" <=> wpc'[w] = "running"
    BY <1>1, <1>t DEF StartThread, PushBack, TypeOK
  <2> QED BY <1>t, <2>1, HeldFrame DEF InCall, InWorker
<1>2. ASSUME NEW w \in Workers,
             \/ BindThread(w) \/ ExitThread(w) \/ Sleep(w) \/ SpuriousWake(w)
             \/ TaskThrows(w) \/ NotifyAll(w)
      PROVE  HeldOnce'
  <2>1. /\ UNCHANGED <<queue, active_tasks, scheduled, completed, call, task>>
        /\ \A v \in Workers : wpc[v] = "running" <=> wpc'[v] = "running"
    BY <1>2, <1>t DEF BindThread, ExitThread, Sleep, SpuriousWake, TaskThrows,
                      NotifyAll, TypeOK
  <2> QED BY <1>t, <2>1, HeldFrame DEF InCall, InWorker
<1>3. ASSUME NEW c \in Threads, PickThread(c) PROVE HeldOnce'
  <2>1. /\ UNCHANGED <<queue, active_tasks, scheduled, completed, wpc, task>>
        /\ \A d \in Threads :
             /\ call'[d].task = call[d].task
             /\ call'[d].at \in {"pick", "push"} <=> call[d].at \in {"pick", "push"}
    BY <1>3, <1>t DEF PickThread, TypeOK, CallType
  <2> QED BY <1>t, <2>1, HeldFrame DEF InCall, InWorker
<1>4. ASSUME NEW c \in Threads, NotifyWorker(c) PROVE HeldOnce'
  <2>1. /\ UNCHANGED <<queue, active_tasks, scheduled, completed, task>>
        /\ \A w \in Workers : wpc[w] = "running" <=> wpc'[w] = "running"
    BY <1>4, <1>t DEF NotifyWorker, NotifyOne, Sleepers, TypeOK
  <2>2. \A d \in Threads, t \in Tasks : InCall(d, t)' <=> InCall(d, t)
    BY <1>4, <1>t DEF NotifyWorker, NoCall, InCall, TypeOK
  <2> QED BY <1>t, <2>1, <2>2, HeldFrame DEF InWorker
<1>5. CASE CallWait \/ CheckDone \/ Block \/ SpuriousWakeClient \/ CallDestroy
             \/ StopThread \/ JoinThread \/ Terminated
  <2>1. UNCHANGED <<queue, active_tasks, scheduled, completed, call, wpc, task>>
    BY <1>5 DEF CallWait, CheckDone, Block, SpuriousWakeClient, CallDestroy,
                StopThread, JoinThread, Terminated, vars
  <2> QED BY <1>t, <2>1, HeldFrame DEF InCall, InWorker
<1>6. CASE WakeThread
  <2>1. /\ UNCHANGED <<queue, active_tasks, scheduled, completed, call, task>>
        /\ \A w \in Workers : wpc[w] = "running" <=> wpc'[w] = "running"
    BY <1>6, <1>t DEF WakeThread, NotifyOne, Sleepers, TypeOK
  <2> QED BY <1>t, <2>1, HeldFrame DEF InCall, InWorker
<1> QED
  BY <1>1, <1>2, <1>3, <1>4, <1>5, <1>6, CountTaskHeld, PushTaskHeld, FetchTaskHeld,
     FinishTaskHeld
     DEF Next, Running, ScheduleStep, WorkerStep, ClientStep

LEMMA CountStutter == ASSUME CountInv, UNCHANGED vars PROVE CountInv'
<1>1. TypeOK' /\ PcInv'
  BY DEF CountInv, TypeOK, PcInv, vars, cvars, wvars, hvars
<1>2. HeldOnce'
  BY HeldFrame DEF CountInv, InCall, InWorker, vars, wvars, hvars
<1> QED BY <1>1, <1>2 DEF CountInv

\* The accounting of tasks is an invariant of the pool, whatever the number of its
\* threads, the tasks, who schedules them, which ones throw, and whether or not
\* the constructor outruns its workers.
THEOREM Counted == Spec => []CountInv
<1>1. CountInv /\ [Next]_vars => CountInv'
  BY TypeStep, PcStep, HeldStep, CountStutter DEF CountInv
<1> QED BY InitCount, <1>1, PTL DEF Spec

\* The pool's state is well typed: in particular schedule_work never indexes
\* threads out of its bounds and active_tasks never drops below zero.
THEOREM TypeCorrect == Spec => []TypeOK
<1>1. CountInv => TypeOK
  BY DEF CountInv
<1> QED BY Counted, <1>1, PTL

\* schedule_work and the worker's loop neither lose nor duplicate a task, and
\* active_tasks is the number of those scheduled and not complete.
THEOREM TasksHeldOnce == Spec => []HeldOnce
<1>1. CountInv => HeldOnce
  BY DEF CountInv
<1> QED BY Counted, <1>1, PTL

-------------------------------------------------------------------------------
(* The pool implements WorkPool. *)

\* The destructor has been called.
Destroying == cpc \in {"stopping", "waking", "joining", "destroyed"}

\* A started worker reads the slot the constructor filled for it, and keeps to the
\* ThreadData of its own index.
BindInv ==
  /\ \A w \in Workers :
       wpc[w] = "starting" => cpc = "construct" /\ kth = w /\ slot = w
  /\ \A w \in Workers : wpc[w] \notin {"unborn", "starting"} => td[w] = w

\* Whenever the client is not in the middle of something, nothing is outstanding;
\* once it destroys the pool, nothing outstanding can schedule more.
QuietInv ==
  /\ cpc \in {"construct", "quiet"} => Outstanding = {}
  /\ Destroying => \A t \in Outstanding : IsLeaf(t)

\* A worker that exited left an empty queue, which nobody fills again; the join
\* loop leaves only exited workers behind.
StopInv ==
  /\ \A w \in Workers : stop[w] => Destroying
  /\ \A w \in Workers : wpc[w] = "exited" => stop[w] /\ queue[w] = <<>>
  /\ cpc = "joining" => \A w \in Workers : w < kth => wpc[w] = "exited"
  /\ cpc = "destroyed" => \A w \in Workers : wpc[w] = "exited"

DrainInv == CountInv /\ BindInv /\ QuietInv /\ StopInv

-------------------------------------------------------------------------------
LEMMA InitDrain == Init => DrainInv
<1> SUFFICES ASSUME Init PROVE DrainInv
  OBVIOUS
<1>1. BindInv /\ StopInv
  BY DEF Init, BindInv, StopInv
<1>2. QuietInv
  BY DEF Init, QuietInv, Destroying, Outstanding
<1> QED BY <1>1, <1>2, InitCount DEF DrainInv

\* While the pool is being destroyed no call of schedule_work is in progress.
LEMMA NoCallsAtTheEnd ==
  ASSUME DrainInv, Destroying
  PROVE  \A c \in Threads : call[c].at = "none"
<1> SUFFICES ASSUME NEW c \in Threads, call[c].at # "none" PROVE FALSE
  OBVIOUS
<1>1. CASE c = Client
  BY <1>1 DEF DrainInv, CountInv, PcInv, Destroying
<1>2. CASE c \in Workers
  <2>1. /\ wpc[c] = "running" /\ call[c].task \in Tasks
        /\ Parent[call[c].task] = task[c]
    BY <1>2 DEF DrainInv, CountInv, PcInv, Threads
  <2>2. task[c] \in Outstanding
    BY <1>2, <2>1, RunningIsCounted DEF DrainInv
  <2> QED BY <2>1, <2>2 DEF DrainInv, QuietInv, IsLeaf
<1> QED BY <1>1, <1>2 DEF Threads

\* When every worker has exited, nothing is outstanding.
LEMMA AllExited ==
  ASSUME DrainInv, Destroying, \A w \in Workers : wpc[w] = "exited"
  PROVE  Outstanding = {}
<1> SUFFICES ASSUME NEW t \in Outstanding PROVE FALSE
  OBVIOUS
<1>1. t \in Tasks /\ IsHeld(t)
  BY DEF DrainInv, CountInv, HeldOnce, Outstanding, TypeOK
<1>2. \A c \in Threads : ~InCall(c, t)
  BY NoCallsAtTheEnd DEF InCall
<1>3. \A w \in Workers : ~InWorker(w, t)
  BY DEF InWorker
<1>4. \A w \in Workers : queue[w] = <<>>
  BY DEF DrainInv, StopInv
<1> QED BY <1>1, <1>2, <1>3, <1>4 DEF IsHeld, InQueue

\* wait_for_all reads zero only when nothing is outstanding.
LEMMA ZeroIsNothing ==
  ASSUME CountInv, active_tasks = 0 PROVE Outstanding = {}
BY OutstandingFinite, FS_EmptySet DEF CountInv, HeldOnce

-------------------------------------------------------------------------------
LEMMA BindStep ==
  ASSUME ~StartupRace, DrainInv, Next PROVE BindInv'
<1> USE NumThreadsAssumption, WorkersNat DEF cvars, wvars, hvars
<1>t. TypeOK /\ BindInv
  BY DEF DrainInv, CountInv
<1>1. CASE StartThread
  BY <1>1, <1>t DEF StartThread, BindInv, TypeOK
<1>2. CASE PushBack
  <2>1. \A w \in Workers : wpc[w] # "starting"
    BY <1>2, <1>t DEF PushBack, BindInv
  <2> QED BY <1>2, <1>t, <2>1 DEF PushBack, BindInv
<1>3. ASSUME NEW w \in Workers, BindThread(w) PROVE BindInv'
  <2>1. slot = w /\ w # Nobody
    BY <1>3, <1>t DEF BindThread, BindInv, Nobody, Workers
  <2> QED BY <1>3, <1>t, <2>1 DEF BindThread, BindInv, TypeOK
<1>4. ASSUME NEW c \in Threads, NEW t \in Tasks, CountTask(c, t) PROVE BindInv'
  BY <1>4, <1>t DEF CountTask, MaySchedule, BindInv
<1>5. ASSUME NEW c \in Threads, ScheduleStep(c) PROVE BindInv'
  BY <1>5, <1>t DEF ScheduleStep, PickThread, PushTask, NotifyWorker, NotifyOne,
                    Sleepers, BindInv, TypeOK
<1>6. ASSUME NEW w \in Workers,
             \/ FetchTask(w) \/ ExitThread(w) \/ Sleep(w) \/ SpuriousWake(w)
             \/ FinishTask(w) \/ TaskThrows(w)
      PROVE  BindInv'
  <2>1. /\ wpc[w] \notin {"unborn", "starting"} /\ wpc'[w] \notin {"unborn", "starting"}
        /\ \A v \in Workers \ {w} : wpc'[v] = wpc[v]
        /\ UNCHANGED <<slot, td, cpc, kth>>
    BY <1>6, <1>t DEF FetchTask, ExitThread, Sleep, SpuriousWake, FinishTask,
                      TaskThrows, TypeOK
  <2> QED BY <1>t, <2>1 DEF BindInv
<1>7. ASSUME NEW w \in Workers, NotifyAll(w) PROVE BindInv'
  BY <1>7, <1>t DEF NotifyAll, BindInv, TypeOK
<1>8. CASE CallWait \/ CheckDone \/ Block \/ SpuriousWakeClient \/ CallDestroy
             \/ StopThread \/ JoinThread
  BY <1>8, <1>t DEF CallWait, CheckDone, Block, SpuriousWakeClient, CallDestroy,
                    StopThread, JoinThread, BindInv
<1>9. CASE WakeThread
  BY <1>9, <1>t DEF WakeThread, NotifyOne, Sleepers, BindInv, TypeOK
<1>10. CASE Terminated
  BY <1>10, <1>t DEF Terminated, vars, BindInv
<1> QED
  BY <1>1, <1>2, <1>3, <1>4, <1>5, <1>6, <1>7, <1>8, <1>9, <1>10
     DEF Next, Running, WorkerStep, ClientStep

LEMMA QuietStep ==
  ASSUME DrainInv, Next PROVE QuietInv'
<1> USE DEF cvars, wvars, hvars, Destroying
<1>t. TypeOK /\ QuietInv /\ CountInv
  BY DEF DrainInv, CountInv
<1>1. ASSUME NEW c \in Threads, NEW t \in Tasks, CountTask(c, t) PROVE QuietInv'
  <2>1. CASE c = Client
    BY <1>1, <2>1 DEF CountTask, MaySchedule, QuietInv
  <2>2. CASE c \in Workers /\ c # Client
    <3>1. task[c] \in Outstanding /\ Parent[t] = task[c]
      BY <1>1, <2>2, <1>t, RunningIsCounted DEF CountTask, MaySchedule
    <3>2. cpc \notin {"construct", "quiet"} /\ ~Destroying
      BY <1>t, <3>1 DEF QuietInv, IsLeaf
    <3> QED BY <1>1, <2>2, <3>2 DEF CountTask, QuietInv
  <2> QED BY <2>1, <2>2 DEF Threads
<1>2. ASSUME NEW w \in Workers, FinishTask(w) PROVE QuietInv'
  <2>1. Outstanding' \subseteq Outstanding /\ cpc' = cpc
    BY <1>2 DEF FinishTask, Outstanding
  <2> QED BY <1>t, <2>1 DEF QuietInv, IsLeaf
<1>3. CASE CheckDone
  <2>1. cpc' = "quiet" => Outstanding = {}
    BY <1>3, <1>t, ZeroIsNothing DEF CheckDone
  <2> QED BY <1>3, <2>1 DEF CheckDone, QuietInv, Outstanding
<1>4. CASE CallDestroy
  BY <1>4 DEF CallDestroy, QuietInv, Outstanding, IsLeaf
<1>5. CASE CallWait \/ Block \/ SpuriousWakeClient \/ StartThread \/ PushBack
             \/ StopThread \/ WakeThread \/ JoinThread \/ Terminated
  BY <1>5, <1>t DEF CallWait, Block, SpuriousWakeClient, StartThread, PushBack,
                    StopThread, WakeThread, JoinThread, Terminated, vars, QuietInv,
                    Outstanding, IsLeaf
<1>6. ASSUME NEW c \in Threads, ScheduleStep(c) PROVE QuietInv'
  BY <1>6, <1>t DEF ScheduleStep, PickThread, PushTask, NotifyWorker, QuietInv,
                    Outstanding, IsLeaf
<1>7. ASSUME NEW w \in Workers,
             \/ BindThread(w) \/ FetchTask(w) \/ ExitThread(w) \/ Sleep(w)
             \/ SpuriousWake(w) \/ TaskThrows(w) \/ NotifyAll(w)
      PROVE  QuietInv'
  BY <1>7, <1>t DEF BindThread, FetchTask, ExitThread, Sleep, SpuriousWake,
                    TaskThrows, NotifyAll, QuietInv, Outstanding, IsLeaf
<1> QED
  BY <1>1, <1>2, <1>3, <1>4, <1>5, <1>6, <1>7
     DEF Next, Running, WorkerStep, ClientStep

LEMMA StopStep ==
  ASSUME DrainInv, Next PROVE StopInv'
<1> USE NumThreadsAssumption DEF cvars, wvars, hvars, Destroying
<1>t. TypeOK /\ BindInv /\ StopInv
  BY DEF DrainInv, CountInv
<1>n. ~Destroying => \A w \in Workers : ~stop[w] /\ wpc[w] # "exited"
  BY <1>t DEF StopInv
<1>1. CASE StartThread \/ PushBack \/ CallWait \/ CheckDone \/ Block
             \/ SpuriousWakeClient \/ CallDestroy
  <2>1. /\ ~Destroying /\ UNCHANGED stop /\ cpc' \notin {"joining", "destroyed"}
        /\ \A w \in Workers : wpc'[w] # "exited"
    BY <1>1, <1>t, <1>n DEF StartThread, PushBack, CallWait, CheckDone, Block,
          SpuriousWakeClient, CallDestroy, TypeOK
  <2> QED BY <1>n, <2>1 DEF StopInv
<1>2. ASSUME NEW c \in Threads, NEW t \in Tasks, CountTask(c, t) PROVE StopInv'
  <2>1. UNCHANGED <<wpc, queue, stop, kth>> /\ (cpc' = cpc \/ (~Destroying /\ cpc' = "busy"))
    BY <1>2, ClientAssumption DEF CountTask, MaySchedule
  <2> QED BY <1>t, <1>n, <2>1 DEF StopInv
<1>3. ASSUME NEW c \in Threads, PickThread(c) PROVE StopInv'
  BY <1>3, <1>t DEF PickThread, StopInv
<1>4. ASSUME NEW c \in Threads, PushTask(c) PROVE StopInv'
  <2>1. ~Destroying
    BY <1>4, NoCallsAtTheEnd DEF PushTask
  <2> QED BY <1>4, <1>n, <2>1 DEF PushTask, StopInv
<1>5. ASSUME NEW c \in Threads, NotifyWorker(c) PROVE StopInv'
  BY <1>5, <1>t DEF NotifyWorker, NotifyOne, Sleepers, StopInv, TypeOK
<1>6. ASSUME NEW w \in Workers, FetchTask(w) PROVE StopInv'
  <2>1. td[w] = w
    BY <1>6, <1>t DEF FetchTask, BindInv
  <2> QED BY <1>6, <1>t, <2>1 DEF FetchTask, StopInv, TypeOK
<1>7. ASSUME NEW w \in Workers, ExitThread(w) PROVE StopInv'
  <2>1. td[w] = w
    BY <1>7, <1>t DEF ExitThread, BindInv
  <2> QED BY <1>7, <1>t, <2>1 DEF ExitThread, StopInv, TypeOK
<1>8. ASSUME NEW w \in Workers,
             \/ BindThread(w) \/ Sleep(w) \/ SpuriousWake(w) \/ FinishTask(w)
             \/ TaskThrows(w) \/ NotifyAll(w)
      PROVE  StopInv'
  <2>1. /\ wpc[w] # "exited" /\ wpc'[w] # "exited"
        /\ \A v \in Workers \ {w} : wpc'[v] = wpc[v]
        /\ UNCHANGED <<queue, stop, kth>>
        /\ cpc' = cpc \/ (cpc = "asleep" /\ cpc' = "check")
    BY <1>8, <1>t DEF BindThread, Sleep, SpuriousWake, FinishTask, TaskThrows,
                      NotifyAll, TypeOK
  <2> QED BY <1>t, <2>1 DEF StopInv
<1>9. CASE StopThread
  BY <1>9, <1>t DEF StopThread, StopInv, TypeOK
<1>10. CASE WakeThread
  <2>1. /\ UNCHANGED <<queue, stop>> /\ Destroying' /\ cpc' # "destroyed"
        /\ cpc' = "joining" => kth' = 0
        /\ \A w \in Workers : wpc[w] = "exited" <=> wpc'[w] = "exited"
    BY <1>10, <1>t DEF WakeThread, NotifyOne, Sleepers, TypeOK
  <2>2. \A w \in Workers : ~(w < 0)
    BY WorkersNat
  <2> QED BY <1>t, <2>1, <2>2 DEF StopInv
<1>11. CASE JoinThread
  <2>1. \A w \in Workers : w < kth + 1 => wpc[w] = "exited"
    BY <1>11, <1>t, WorkersNat DEF JoinThread, StopInv, TypeOK
  <2>2. \A w \in Workers : w < NumThreads
    BY DEF Workers
  <2>3. ~(kth + 1 < NumThreads) => \A w \in Workers : w < kth + 1
    BY <1>t, <2>2, WorkersNat DEF TypeOK
  <2> QED BY <1>11, <1>t, <2>1, <2>3 DEF JoinThread, StopInv
<1>12. CASE Terminated
  BY <1>12, <1>t DEF Terminated, vars, StopInv
<1> QED
  BY <1>1, <1>2, <1>3, <1>4, <1>5, <1>6, <1>7, <1>8, <1>9, <1>10, <1>11, <1>12
     DEF Next, Running, ScheduleStep, WorkerStep, ClientStep

LEMMA DrainStep ==
  ASSUME ~StartupRace, DrainInv, [Next]_vars PROVE DrainInv'
<1>1. CASE Next
  <2>1. CountInv'
    BY <1>1, TypeStep, PcStep, HeldStep DEF DrainInv, CountInv
  <2> QED BY <1>1, <2>1, BindStep, QuietStep, StopStep DEF DrainInv
<1>2. CASE UNCHANGED vars
  <2>1. CountInv'
    BY <1>2, CountStutter DEF DrainInv
  <2>2. BindInv' /\ QuietInv' /\ StopInv'
    BY <1>2 DEF DrainInv, BindInv, QuietInv, StopInv, Destroying, Outstanding,
                IsLeaf, vars, cvars, wvars, hvars
  <2> QED BY <2>1, <2>2 DEF DrainInv
<1> QED BY <1>1, <1>2

\* The shutdown protocol keeps its order: queues are drained before their workers
\* exit, workers exit before the pool is gone, and nothing is scheduled meanwhile.
THEOREM Drained == ASSUME ~StartupRace PROVE Spec => []DrainInv
<1>1. DrainInv /\ [Next]_vars => DrainInv'
  BY DrainStep
<1> QED BY InitDrain, <1>1, PTL DEF Spec

-------------------------------------------------------------------------------
(* No lost wakeup among the workers *)

\* notify_one of q wakes the one worker that can sleep on q.
LEMMA NotifyWakes ==
  ASSUME TypeOK, BindInv, NEW q \in Workers, NotifyOne(q)
  PROVE  \A w \in Workers : wpc'[w] = "asleep" => wpc[w] = "asleep" /\ td[w] # q
<1>1. \A w \in Workers : wpc[w] = "asleep" => td[w] = w
  BY DEF BindInv
<1>2. CASE Sleepers(q) = {} /\ UNCHANGED wpc
  BY <1>2 DEF Sleepers
<1>3. ASSUME NEW v \in Sleepers(q), wpc' = [wpc EXCEPT ![v] = "fetch"]
      PROVE  \A w \in Workers : wpc'[w] = "asleep" => wpc[w] = "asleep" /\ td[w] # q
  <2>1. v \in Workers /\ v = q
    BY <1>1 DEF Sleepers
  <2>2. /\ wpc'[v] = "fetch" /\ \A w \in Workers \ {v} : wpc'[w] = wpc[w]
    BY <1>3, <2>1 DEF TypeOK
  <2> QED BY <1>1, <2>1, <2>2
<1> QED BY <1>2, <1>3 DEF NotifyOne

\* Steps that put no worker to sleep, give no sleeper work and withdraw no notify.
LEMMA WakeFrame ==
  ASSUME SleepersWillBeWoken,
         UNCHANGED td,
         \A w \in Workers : wpc'[w] = "asleep" =>
           /\ wpc[w] = "asleep" /\ UNCHANGED <<queue[w], stop[w]>> /\ td[w] = w,
         \A c \in Threads : call[c].at = "notify" => UNCHANGED call[c],
         cpc = "waking" => UNCHANGED <<cpc, kth>>
  PROVE  SleepersWillBeWoken'
BY DEF SleepersWillBeWoken

LEMMA WakeStep ==
  ASSUME DrainInv, SleepersWillBeWoken, Next PROVE SleepersWillBeWoken'
<1> USE DEF cvars, wvars, hvars
<1>t. TypeOK /\ BindInv /\ SleepersWillBeWoken
  BY DEF DrainInv, CountInv
<1>a. \A w \in Workers : wpc[w] = "asleep" => td[w] = w
  BY <1>t DEF BindInv
<1>1. CASE StartThread \/ PushBack \/ CallWait \/ CheckDone \/ Block
             \/ SpuriousWakeClient \/ CallDestroy \/ JoinThread
  <2>1. /\ UNCHANGED <<td, queue, stop, call>> /\ cpc # "waking"
        /\ \A w \in Workers : wpc'[w] = "asleep" => wpc[w] = "asleep"
    BY <1>1, <1>t DEF StartThread, PushBack, CallWait, CheckDone, Block,
          SpuriousWakeClient, CallDestroy, JoinThread, TypeOK
  <2> QED BY <1>t, <1>a, <2>1, WakeFrame
<1>2. ASSUME NEW c \in Threads, NEW t \in Tasks, CountTask(c, t)
      PROVE  SleepersWillBeWoken'
  <2>1. /\ UNCHANGED <<td, queue, stop, wpc, kth>>
        /\ cpc = "waking" => UNCHANGED cpc
        /\ \A d \in Threads : call[d].at = "notify" => UNCHANGED call[d]
    BY <1>2, <1>t, ClientAssumption DEF CountTask, MaySchedule, TypeOK
  <2> QED BY <1>t, <1>a, <2>1, WakeFrame
<1>3. ASSUME NEW c \in Threads, PickThread(c) PROVE SleepersWillBeWoken'
  <2>1. /\ UNCHANGED <<td, queue, stop, wpc, cpc, kth>>
        /\ \A d \in Threads : call[d].at = "notify" => UNCHANGED call[d]
    BY <1>3, <1>t DEF PickThread, TypeOK
  <2> QED BY <1>t, <1>a, <2>1, WakeFrame
<1>4. ASSUME NEW c \in Threads, PushTask(c) PROVE SleepersWillBeWoken'
  <2>1. PICK q \in Workers : q = call[c].idx
    BY <1>4, <1>t DEF TypeOK, CallType
  <2>2. /\ UNCHANGED <<td, stop, wpc, cpc, kth>>
        /\ \A w \in Workers \ {q} : queue'[w] = queue[w]
    BY <1>4, <1>t, <2>1 DEF PushTask, TypeOK
  <2>3. /\ call'[c].at = "notify" /\ call'[c].idx = q
        /\ \A d \in Threads : call[d].at = "notify" => call'[d] = call[d]
    BY <1>4, <1>t, <2>1 DEF PushTask, TypeOK, CallType
  <2> QED BY <1>t, <1>a, <2>1, <2>2, <2>3 DEF SleepersWillBeWoken
<1>5. ASSUME NEW c \in Threads, NotifyWorker(c) PROVE SleepersWillBeWoken'
  <2>1. PICK q \in Workers : q = call[c].idx /\ NotifyOne(q)
    BY <1>5, <1>t DEF NotifyWorker, TypeOK, CallType
  <2>2. \A w \in Workers : wpc'[w] = "asleep" => wpc[w] = "asleep" /\ td[w] # q
    BY <1>t, <2>1, NotifyWakes
  <2>3. /\ UNCHANGED <<td, queue, stop, cpc, kth>>
        /\ \A d \in Threads : call[d].at = "notify" /\ call[d].idx # q
                               => call'[d] = call[d]
    BY <1>5, <1>t, <2>1 DEF NotifyWorker, TypeOK
  <2> QED BY <1>t, <2>2, <2>3 DEF SleepersWillBeWoken
<1>6. ASSUME NEW w \in Workers,
             \/ FetchTask(w) \/ ExitThread(w) \/ SpuriousWake(w) \/ FinishTask(w)
             \/ TaskThrows(w) \/ NotifyAll(w)
      PROVE  SleepersWillBeWoken'
  <2>1. /\ UNCHANGED <<td, stop, call, kth>>
        /\ cpc = "waking" => UNCHANGED cpc
        /\ \A v \in Workers : wpc'[v] = "asleep" => wpc[v] = "asleep"
    BY <1>6, <1>t DEF FetchTask, ExitThread, SpuriousWake, FinishTask, TaskThrows,
                      NotifyAll, TypeOK
  <2>2. \A v \in Workers : wpc'[v] = "asleep" => queue'[v] = queue[v]
    <3>1. CASE FetchTask(w)
      <4>1. td[w] = w /\ wpc'[w] # "asleep"
        BY <1>t, <3>1 DEF FetchTask, BindInv, TypeOK
      <4> QED BY <1>t, <3>1, <4>1 DEF FetchTask, TypeOK
    <3>2. CASE ~FetchTask(w)
      BY <1>6, <3>2 DEF ExitThread, SpuriousWake, FinishTask, TaskThrows, NotifyAll
    <3> QED BY <3>1, <3>2
  <2> QED BY <1>t, <1>a, <2>1, <2>2, WakeFrame
<1>7. ASSUME NEW w \in Workers, Sleep(w) PROVE SleepersWillBeWoken'
  <2>1. /\ UNCHANGED <<td, queue, stop, call, cpc, kth>>
        /\ queue[td[w]] = <<>> /\ ~stop[td[w]]
        /\ \A v \in Workers \ {w} : wpc'[v] = wpc[v]
    BY <1>7, <1>t DEF Sleep, TypeOK
  <2> QED BY <1>t, <2>1 DEF SleepersWillBeWoken
<1>8. ASSUME NEW w \in Workers, BindThread(w) PROVE SleepersWillBeWoken'
  <2>1. /\ UNCHANGED <<queue, stop, call, cpc, kth>>
        /\ wpc[w] = "starting" /\ wpc'[w] # "asleep"
        /\ \A v \in Workers \ {w} : wpc'[v] = wpc[v] /\ td'[v] = td[v]
    BY <1>8, <1>t DEF BindThread, TypeOK
  <2> QED BY <1>t, <2>1 DEF SleepersWillBeWoken
<1>9. CASE StopThread
  <2>1. /\ UNCHANGED <<td, queue, wpc, call, kth>> /\ cpc = "stopping" /\ cpc' = "waking"
        /\ \A w \in Workers \ {kth} : stop'[w] = stop[w]
    BY <1>9, <1>t DEF StopThread, TypeOK
  <2> QED BY <1>t, <1>a, <2>1 DEF SleepersWillBeWoken
<1>10. CASE WakeThread
  <2>1. PICK q \in Workers : q = kth /\ NotifyOne(q)
    BY <1>10, <1>t DEF WakeThread, TypeOK
  <2>2. \A w \in Workers : wpc'[w] = "asleep" => wpc[w] = "asleep" /\ td[w] # q
    BY <1>t, <2>1, NotifyWakes
  <2>3. UNCHANGED <<td, queue, stop, call>>
    BY <1>10 DEF WakeThread
  <2> QED BY <1>t, <2>1, <2>2, <2>3 DEF SleepersWillBeWoken
<1>11. CASE Terminated
  BY <1>11, <1>t DEF Terminated, vars, SleepersWillBeWoken
<1> QED
  BY <1>1, <1>2, <1>3, <1>4, <1>5, <1>6, <1>7, <1>8, <1>9, <1>10, <1>11
     DEF Next, Running, ScheduleStep, WorkerStep, ClientStep

\* No wakeup of a worker is lost: one that sleeps while its queue holds a task, or
\* while its stop flag is set, has a notify_one of its cv still to come from
\* schedule_work or from the destructor.
THEOREM NoLostWorkerWakeup ==
  ASSUME ~StartupRace PROVE Spec => []SleepersWillBeWoken
<1>1. Init => SleepersWillBeWoken
  BY DEF Init, SleepersWillBeWoken
<1>2. DrainInv /\ SleepersWillBeWoken /\ [Next]_vars => SleepersWillBeWoken'
  <2>1. UNCHANGED vars /\ SleepersWillBeWoken => SleepersWillBeWoken'
    BY DEF SleepersWillBeWoken, vars, cvars, wvars, hvars
  <2> QED BY <2>1, WakeStep
<1> QED BY Drained, <1>1, <1>2, PTL DEF Spec

-------------------------------------------------------------------------------
(* ThreadPool implements WorkPool *)

\* While a worker runs a task, the client is between scheduling and returning.
LEMMA RunningIsBusy ==
  ASSUME DrainInv, NEW w \in Workers, wpc[w] = "running" PROVE Owner = "busy"
<1>1. Outstanding # {}
  BY RunningIsCounted DEF DrainInv
<1>2. cpc \notin {"construct", "quiet"}
  BY <1>1 DEF DrainInv, QuietInv
<1>3. cpc # "destroyed"
  BY DEF DrainInv, StopInv
<1> QED BY <1>2, <1>3 DEF Owner

LEMMA PoolStep ==
  ASSUME DrainInv, Next PROVE [Pool!ANext]_(Pool!avars)
<1> USE DEF cvars, wvars, hvars
<1> DEFINE Done == [Pool!ANext]_(Pool!avars)
<1>t. TypeOK /\ PcInv /\ CountInv
  BY DEF DrainInv, CountInv
<1>s. UNCHANGED <<scheduled, completed, Owner>> => Done
  BY DEF Pool!avars
<1>1. ASSUME NEW c \in Threads, NEW t \in Tasks, CountTask(c, t) PROVE Done
  <2>1. Owner' = "busy" /\ Owner # "gone"
    <3>1. CASE c = Client
      BY <1>1, <3>1, ClientAssumption DEF CountTask, MaySchedule, Owner
    <3>2. CASE c \in Workers /\ c # Client
      <4>1. Owner = "busy" /\ cpc' = cpc
        BY <1>1, <3>2, RunningIsBusy DEF CountTask, MaySchedule
      <4> QED BY <4>1 DEF Owner
    <3> QED BY <3>1, <3>2 DEF Threads
  <2>2. Pool!ASchedule(t)
    BY <1>1, <2>1 DEF CountTask, Pool!ASchedule
  <2> QED BY <2>2 DEF Pool!ANext
<1>2. ASSUME NEW w \in Workers, FinishTask(w) PROVE Done
  <2>1. Owner = "busy" /\ Owner' = "busy"
    BY <1>2, RunningIsBusy DEF FinishTask, Owner
  <2>2. task[w] \in Tasks /\ task[w] \in scheduled \ completed
    BY <1>2, <1>t, RunningIsCounted DEF FinishTask, PcInv, Outstanding
  <2>3. Pool!AComplete(task[w])
    BY <1>2, <2>1, <2>2 DEF FinishTask, Pool!AComplete
  <2> QED BY <2>2, <2>3 DEF Pool!ANext
<1>3. CASE CallWait \/ CallDestroy
  <2>1. UNCHANGED <<scheduled, completed>> /\ Owner' = "busy" /\ Owner \in {"quiet", "busy"}
    BY <1>3 DEF CallWait, CallDestroy, Owner
  <2>2. CASE Owner = "quiet"
    BY <2>1, <2>2 DEF Pool!ACall, Pool!ANext
  <2>3. CASE Owner = "busy"
    BY <1>s, <2>1, <2>3
  <2> QED BY <2>1, <2>2, <2>3
<1>4. CASE CheckDone
  <2>1. UNCHANGED <<scheduled, completed>> /\ Owner = "busy" /\ Owner' \in {"quiet", "busy"}
    BY <1>4 DEF CheckDone, Owner
  <2>2. CASE Owner' = "quiet"
    <3>1. active_tasks = 0
      BY <1>4, <2>2 DEF CheckDone, Owner
    <3>2. scheduled = completed
      BY <1>t, <3>1, ZeroIsNothing DEF Outstanding, PcInv
    <3> QED BY <2>1, <2>2, <3>2 DEF Pool!AReturn, Pool!ANext
  <2>3. CASE Owner' = "busy"
    BY <1>s, <2>1, <2>3
  <2> QED BY <2>1, <2>2, <2>3
<1>5. CASE JoinThread
  <2>1. UNCHANGED <<scheduled, completed>> /\ Owner = "busy" /\ Owner' \in {"gone", "busy"}
    BY <1>5 DEF JoinThread, Owner
  <2>2. CASE Owner' = "gone"
    <3>1. Destroying /\ cpc' = "destroyed" /\ wpc' = wpc
      BY <1>5, <2>2 DEF JoinThread, Owner, Destroying
    <3>2. \A w \in Workers : w < kth + 1 => wpc[w] = "exited"
      BY <1>5, <1>t, WorkersNat DEF JoinThread, DrainInv, StopInv, TypeOK
    <3>3. ~(kth + 1 < NumThreads)
      BY <1>5, <3>1 DEF JoinThread
    <3>4. \A w \in Workers : w < kth + 1
      BY <1>t, <3>3, NumThreadsAssumption DEF TypeOK, Workers
    <3>5. scheduled = completed
      BY <1>t, <3>1, <3>2, <3>4, AllExited DEF Outstanding, PcInv
    <3> QED BY <2>1, <2>2, <3>5 DEF Pool!AReturn, Pool!ANext
  <2>3. CASE Owner' = "busy"
    BY <1>s, <2>1, <2>3
  <2> QED BY <2>1, <2>2, <2>3
<1>6. CASE StartThread \/ PushBack \/ Block \/ SpuriousWakeClient \/ StopThread
             \/ WakeThread \/ Terminated
  <2>1. UNCHANGED <<scheduled, completed, Owner>>
    BY <1>6 DEF StartThread, PushBack, Block, SpuriousWakeClient, StopThread,
                WakeThread, Terminated, vars, Owner
  <2> QED BY <1>s, <2>1
<1>7. ASSUME NEW c \in Threads, ScheduleStep(c) PROVE Done
  <2>1. UNCHANGED <<scheduled, completed, cpc>>
    BY <1>7 DEF ScheduleStep, PickThread, PushTask, NotifyWorker
  <2> QED BY <1>s, <2>1 DEF Owner
<1>8. ASSUME NEW w \in Workers,
             \/ BindThread(w) \/ FetchTask(w) \/ ExitThread(w) \/ Sleep(w)
             \/ SpuriousWake(w) \/ TaskThrows(w) \/ NotifyAll(w)
      PROVE  Done
  <2>1. UNCHANGED <<scheduled, completed, Owner>>
    BY <1>8 DEF BindThread, FetchTask, ExitThread, Sleep, SpuriousWake, TaskThrows,
                NotifyAll, Owner
  <2> QED BY <1>s, <2>1
<1> QED
  BY <1>1, <1>2, <1>3, <1>4, <1>5, <1>6, <1>7, <1>8
     DEF Next, Running, WorkerStep, ClientStep

\* vtr::thread_pool implements WorkPool: a task is completed once, and neither
\* wait_for_all nor the destructor returns before every task scheduled so far,
\* children scheduled by the bodies of tasks included, is complete.
THEOREM PoolRefines == ASSUME ~StartupRace PROVE Spec => ImplementsWorkPool
<1>1. Init => Pool!AInit
  BY DEF Init, Pool!AInit, Owner
<1>2. DrainInv /\ [Next]_vars => [Pool!ANext]_(Pool!avars)
  <2>1. UNCHANGED vars => UNCHANGED Pool!avars
    BY DEF vars, hvars, Pool!avars, Owner
  <2> QED BY <2>1, PoolStep
<1> QED BY Drained, <1>1, <1>2, PTL DEF Spec, ImplementsWorkPool, Pool!ASpec
===============================================================================
