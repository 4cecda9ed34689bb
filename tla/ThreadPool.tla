------------------------------ MODULE ThreadPool ------------------------------
(* vtr::thread_pool (libs/libvtrutil/src/vtr_thread_pool.h): a queue, a mutex  *)
(* and a condition variable per worker, tasks dealt round robin, an atomic     *)
(* count of active tasks and a condition variable for wait_for_all.            *)
(*                                                                             *)
(* A step is one atomic operation or one critical section.  The predicate of   *)
(* a condition variable is evaluated and the thread put to sleep in one step   *)
(* when whoever changes the predicate holds the same mutex (the task queues);  *)
(* wait_for_all takes two steps, because active_tasks is decremented and       *)
(* completion_cv notified without completion_mutex.                            *)
EXTENDS Naturals, Sequences, FiniteSets

CONSTANTS
  NumThreads,    \* thread_count
  Tasks,         \* every task the client may ever schedule
  Client,        \* the thread that owns the pool
  Parent,        \* whose body schedules a task: another task's, or the client
  Faulty,        \* tasks whose body throws
  NoTask,
  StartupRace    \* the constructor may move thread_data before the worker reads it

Workers == 0 .. NumThreads - 1
Threads == Workers \union {Client}
Nobody  == NumThreads               \* a moved-from unique_ptr, an unread td

ASSUME NumThreadsAssumption == NumThreads \in Nat \ {0}
ASSUME TasksAssumption == IsFiniteSet(Tasks) /\ NoTask \notin Tasks
ASSUME ClientAssumption == Client \notin Workers /\ Client \notin Tasks
ASSUME ParentAssumption == Parent \in [Tasks -> Tasks \union {Client}]
ASSUME FlagsAssumption ==
  Faulty \subseteq Tasks /\ StartupRace \in BOOLEAN

VARIABLES
  slot,          \* the constructor's local thread_data: which ThreadData it owns
  td,            \* the ThreadData each worker read from slot
  queue, stop,   \* ThreadData::task_queue and ThreadData::stop
  next_thread, active_tasks,
  wpc, task,     \* where each worker is, and the task it runs
  call,          \* schedule_work in progress in each thread
  cpc, kth,      \* where the client is, and its index in the loop it is in
  scheduled, completed,  \* history: tasks counted in, tasks counted out
  aborted        \* std::terminate or a null dereference ended the process

cvars == <<slot, td>>
wvars == <<wpc, task>>
hvars == <<scheduled, completed>>
vars  == <<slot, td, queue, stop, next_thread, active_tasks, wpc, task, call,
           cpc, kth, scheduled, completed, aborted>>

NoCall  == [at |-> "none", task |-> NoTask, idx |-> 0]
CallType == [at: {"none", "pick", "push", "notify"},
             task: Tasks \union {NoTask}, idx: Workers]

TypeOK ==
  /\ slot \in 0 .. NumThreads
  /\ td \in [Workers -> 0 .. NumThreads]
  /\ queue \in [Workers -> Seq(Tasks)]
  /\ stop \in [Workers -> BOOLEAN]
  /\ next_thread \in Nat
  /\ active_tasks \in Nat
  /\ wpc \in [Workers -> {"unborn", "starting", "fetch", "asleep", "running",
                          "notify", "exited"}]
  /\ task \in [Workers -> Tasks \union {NoTask}]
  /\ call \in [Threads -> CallType]
  /\ cpc \in {"construct", "quiet", "busy", "check", "block", "asleep",
              "stopping", "waking", "joining", "destroyed"}
  /\ kth \in Workers
  /\ scheduled \subseteq Tasks
  /\ completed \subseteq Tasks
  /\ aborted \in BOOLEAN

Init ==
  /\ slot = Nobody
  /\ td = [w \in Workers |-> Nobody]
  /\ queue = [w \in Workers |-> <<>>]
  /\ stop = [w \in Workers |-> FALSE]
  /\ next_thread = 0 /\ active_tasks = 0
  /\ wpc = [w \in Workers |-> "unborn"]
  /\ task = [w \in Workers |-> NoTask]
  /\ call = [c \in Threads |-> NoCall]
  /\ cpc = "construct" /\ kth = 0
  /\ scheduled = {} /\ completed = {}
  /\ aborted = FALSE

Outstanding == scheduled \ completed

IsLeaf(t) == \A u \in Tasks : Parent[u] # t

Sleepers(q) == {w \in Workers : wpc[w] = "asleep" /\ td[w] = q}

\* Mutant: the sleeper is never woken.
NotifyOne_Lost(q) == UNCHANGED wpc

\* cv.notify_one of ThreadData q: one sleeper of that cv, if there is any.
NotifyOne(q) ==
  \/ Sleepers(q) = {} /\ UNCHANGED wpc
  \/ \E w \in Sleepers(q) : wpc' = [wpc EXCEPT ![w] = "fetch"]

-------------------------------------------------------------------------------
(* The constructor *)

\* make_unique and std::thread: the lambda captures the local by reference.
StartThread ==
  /\ cpc = "construct" /\ wpc[kth] = "unborn"
  /\ slot' = kth
  /\ wpc' = [wpc EXCEPT ![kth] = "starting"]
  /\ UNCHANGED <<td, queue, stop, next_thread, active_tasks, task, call, cpc,
                 kth, hvars, aborted>>

\* threads.push_back(std::move(thread_data)), then the next iteration.
PushBack ==
  /\ cpc = "construct" /\ wpc[kth] # "unborn"
  /\ StartupRace \/ wpc[kth] # "starting"
  /\ slot' = Nobody
  /\ IF kth + 1 < NumThreads
       THEN kth' = kth + 1 /\ UNCHANGED cpc
       ELSE kth' = 0 /\ cpc' = "quiet"
  /\ UNCHANGED <<td, queue, stop, next_thread, active_tasks, wvars, call, hvars,
                 aborted>>

\* The worker's first statement, ThreadData* td = thread_data.get().
BindThread(w) ==
  /\ wpc[w] = "starting"
  /\ td' = [td EXCEPT ![w] = slot]
  /\ IF slot = Nobody
       THEN aborted' = TRUE /\ UNCHANGED wpc
       ELSE wpc' = [wpc EXCEPT ![w] = "fetch"] /\ UNCHANGED aborted
  /\ UNCHANGED <<slot, queue, stop, next_thread, active_tasks, task, call, cpc,
                 kth, hvars>>

-------------------------------------------------------------------------------
(* schedule_work, by the client or by the body of a running task *)

MaySchedule(c, t) ==
  \/ c = Client /\ Parent[t] = Client /\ cpc \in {"quiet", "busy"}
  \/ c \in Workers /\ wpc[c] = "running" /\ Parent[t] = task[c]

\* active_tasks++
CountTask(c, t) ==
  /\ call[c].at = "none"
  /\ t \notin scheduled
  /\ MaySchedule(c, t)
  /\ active_tasks' = active_tasks + 1
  /\ scheduled' = scheduled \union {t}
  /\ call' = [call EXCEPT ![c] = [at |-> "pick", task |-> t, idx |-> 0]]
  /\ cpc' = IF c = Client THEN "busy" ELSE cpc
  /\ UNCHANGED <<cvars, queue, stop, next_thread, wvars, kth, completed, aborted>>

\* Mutant: next_thread is used as the index, without % threads.size().
PickThread_NoWrap(c) ==
  /\ call[c].at = "pick"
  /\ next_thread' = next_thread + 1
  /\ call' = [call EXCEPT ![c].at = "push", ![c].idx = next_thread]
  /\ UNCHANGED <<cvars, queue, stop, active_tasks, wvars, cpc, kth, hvars, aborted>>

\* thread_idx = (next_thread++) % threads.size()
PickThread(c) ==
  /\ call[c].at = "pick"
  /\ next_thread' = next_thread + 1
  /\ call' = [call EXCEPT ![c].at = "push", ![c].idx = next_thread % NumThreads]
  /\ UNCHANGED <<cvars, queue, stop, active_tasks, wvars, cpc, kth, hvars, aborted>>

\* task_queue.push under queue_mutex
PushTask(c) ==
  /\ call[c].at = "push"
  /\ queue' = [queue EXCEPT ![call[c].idx] = Append(@, call[c].task)]
  /\ call' = [call EXCEPT ![c].at = "notify"]
  /\ UNCHANGED <<cvars, stop, next_thread, active_tasks, wvars, cpc, kth, hvars,
                 aborted>>

\* cv.notify_one() after the mutex is released
NotifyWorker(c) ==
  /\ call[c].at = "notify"
  /\ NotifyOne(call[c].idx)
  /\ call' = [call EXCEPT ![c] = NoCall]
  /\ UNCHANGED <<cvars, queue, stop, next_thread, active_tasks, task, cpc, kth,
                 hvars, aborted>>

-------------------------------------------------------------------------------
(* The worker's loop *)

\* Mutant: the front task is run but not popped.
FetchTask_NoPop(w) ==
  /\ wpc[w] = "fetch" /\ queue[td[w]] # <<>>
  /\ task' = [task EXCEPT ![w] = Head(queue[td[w]])]
  /\ wpc' = [wpc EXCEPT ![w] = "running"]
  /\ UNCHANGED <<cvars, queue, stop, next_thread, active_tasks, call, cpc, kth,
                 hvars, aborted>>

\* The predicate holds and the queue is not empty: pop a task and run it.
FetchTask(w) ==
  /\ wpc[w] = "fetch" /\ queue[td[w]] # <<>>
  /\ task' = [task EXCEPT ![w] = Head(queue[td[w]])]
  /\ queue' = [queue EXCEPT ![td[w]] = Tail(@)]
  /\ wpc' = [wpc EXCEPT ![w] = "running"]
  /\ UNCHANGED <<cvars, stop, next_thread, active_tasks, call, cpc, kth, hvars,
                 aborted>>

\* Mutant: stop alone ends the thread, whatever its queue holds.
ExitThread_Undrained(w) ==
  /\ wpc[w] = "fetch" /\ stop[td[w]]
  /\ wpc' = [wpc EXCEPT ![w] = "exited"]
  /\ UNCHANGED <<cvars, queue, stop, next_thread, active_tasks, task, call, cpc,
                 kth, hvars, aborted>>

\* stop is set and the queue is drained: the thread function returns.
ExitThread(w) ==
  /\ wpc[w] = "fetch" /\ queue[td[w]] = <<>> /\ stop[td[w]]
  /\ wpc' = [wpc EXCEPT ![w] = "exited"]
  /\ UNCHANGED <<cvars, queue, stop, next_thread, active_tasks, task, call, cpc,
                 kth, hvars, aborted>>

\* Mutant: the predicate looks at the queue only.
Sleep_IgnoresStop(w) ==
  /\ wpc[w] = "fetch" /\ queue[td[w]] = <<>>
  /\ wpc' = [wpc EXCEPT ![w] = "asleep"]
  /\ UNCHANGED <<cvars, queue, stop, next_thread, active_tasks, task, call, cpc,
                 kth, hvars, aborted>>

\* The predicate is false: release queue_mutex and sleep, atomically.
Sleep(w) ==
  /\ wpc[w] = "fetch" /\ queue[td[w]] = <<>> /\ ~stop[td[w]]
  /\ wpc' = [wpc EXCEPT ![w] = "asleep"]
  /\ UNCHANGED <<cvars, queue, stop, next_thread, active_tasks, task, call, cpc,
                 kth, hvars, aborted>>

SpuriousWake(w) ==
  /\ wpc[w] = "asleep"
  /\ wpc' = [wpc EXCEPT ![w] = "fetch"]
  /\ UNCHANGED <<cvars, queue, stop, next_thread, active_tasks, task, call, cpc,
                 kth, hvars, aborted>>

\* The body returns and remaining = --active_tasks.
FinishTask(w) ==
  /\ wpc[w] = "running" /\ call[w].at = "none" /\ task[w] \notin Faulty
  /\ active_tasks' = active_tasks - 1
  /\ completed' = completed \union {task[w]}
  /\ task' = [task EXCEPT ![w] = NoTask]
  /\ wpc' = [wpc EXCEPT ![w] = IF active_tasks = 1 THEN "notify" ELSE "fetch"]
  /\ UNCHANGED <<cvars, queue, stop, next_thread, call, cpc, kth, scheduled,
                 aborted>>

\* The body throws: logged, rethrown out of the thread function, std::terminate.
TaskThrows(w) ==
  /\ wpc[w] = "running" /\ call[w].at = "none" /\ task[w] \in Faulty
  /\ aborted' = TRUE
  /\ UNCHANGED <<cvars, queue, stop, next_thread, active_tasks, wvars, call, cpc,
                 kth, hvars>>

\* completion_cv.notify_all(), without completion_mutex
NotifyAll(w) ==
  /\ wpc[w] = "notify"
  /\ wpc' = [wpc EXCEPT ![w] = "fetch"]
  /\ cpc' = IF cpc = "asleep" THEN "check" ELSE cpc
  /\ UNCHANGED <<cvars, queue, stop, next_thread, active_tasks, task, call, kth,
                 hvars, aborted>>

-------------------------------------------------------------------------------
(* wait_for_all and the destructor, by the client *)

CallWait ==
  /\ cpc \in {"quiet", "busy"} /\ call[Client].at = "none"
  /\ cpc' = "check"
  /\ UNCHANGED <<cvars, queue, stop, next_thread, active_tasks, wvars, call, kth,
                 hvars, aborted>>

\* Mutant: empty queues are taken for completed work.
CheckDone_EmptyQueues ==
  /\ cpc = "check"
  /\ cpc' = IF \A w \in Workers : queue[w] = <<>> THEN "quiet" ELSE "block"
  /\ UNCHANGED <<cvars, queue, stop, next_thread, active_tasks, wvars, call, kth,
                 hvars, aborted>>

\* The predicate active_tasks == 0 is evaluated under completion_mutex.
CheckDone ==
  /\ cpc = "check"
  /\ cpc' = IF active_tasks = 0 THEN "quiet" ELSE "block"
  /\ UNCHANGED <<cvars, queue, stop, next_thread, active_tasks, wvars, call, kth,
                 hvars, aborted>>

\* ... and only then does the client join the waiters of completion_cv.
Block ==
  /\ cpc = "block"
  /\ cpc' = "asleep"
  /\ UNCHANGED <<cvars, queue, stop, next_thread, active_tasks, wvars, call, kth,
                 hvars, aborted>>

SpuriousWakeClient ==
  /\ cpc = "asleep"
  /\ cpc' = "check"
  /\ UNCHANGED <<cvars, queue, stop, next_thread, active_tasks, wvars, call, kth,
                 hvars, aborted>>

\* The pool may be destroyed with work in progress, but not while a body could
\* still call schedule_work: NestedNetlistRouter, whose bodies do, waits first.
CallDestroy ==
  /\ cpc \in {"quiet", "busy"} /\ call[Client].at = "none"
  /\ \A t \in Outstanding : IsLeaf(t)
  /\ cpc' = "stopping" /\ kth' = 0
  /\ UNCHANGED <<cvars, queue, stop, next_thread, active_tasks, wvars, call, hvars,
                 aborted>>

\* thread_data->stop = true under queue_mutex
StopThread ==
  /\ cpc = "stopping"
  /\ stop' = [stop EXCEPT ![kth] = TRUE]
  /\ cpc' = "waking"
  /\ UNCHANGED <<cvars, queue, next_thread, active_tasks, wvars, call, kth, hvars,
                 aborted>>

WakeThread ==
  /\ cpc = "waking"
  /\ NotifyOne(kth)
  /\ IF kth + 1 < NumThreads
       THEN kth' = kth + 1 /\ cpc' = "stopping"
       ELSE kth' = 0 /\ cpc' = "joining"
  /\ UNCHANGED <<cvars, queue, stop, next_thread, active_tasks, task, call, hvars,
                 aborted>>

JoinThread ==
  /\ cpc = "joining" /\ wpc[kth] = "exited"
  /\ IF kth + 1 < NumThreads
       THEN kth' = kth + 1 /\ UNCHANGED cpc
       ELSE kth' = 0 /\ cpc' = "destroyed"
  /\ UNCHANGED <<cvars, queue, stop, next_thread, active_tasks, wvars, call, hvars,
                 aborted>>

-------------------------------------------------------------------------------
ScheduleStep(c) == PickThread(c) \/ PushTask(c) \/ NotifyWorker(c)

WorkerStep(w) ==
  \/ BindThread(w) \/ FetchTask(w) \/ ExitThread(w) \/ Sleep(w)
  \/ FinishTask(w) \/ TaskThrows(w) \/ NotifyAll(w)

ClientStep ==
  \/ StartThread \/ PushBack \/ CheckDone \/ Block
  \/ StopThread \/ WakeThread \/ JoinThread

Running ==
  \/ \E c \in Threads : ScheduleStep(c)
  \/ \E c \in Threads, t \in Tasks : CountTask(c, t)
  \/ \E w \in Workers : WorkerStep(w)
  \/ \E w \in Workers : SpuriousWake(w)
  \/ ClientStep
  \/ CallWait \/ CallDestroy \/ SpuriousWakeClient

Terminated == (aborted \/ cpc = "destroyed") /\ UNCHANGED vars

Next == (~aborted /\ Running) \/ Terminated

Spec == Init /\ [][Next]_vars

(* The operating system keeps running every thread that can take a step of     *)
(* its own.  Nothing forces the client to schedule, wait or destroy, a body to *)
(* schedule its children, or a spurious wakeup to happen.                      *)
Fairness ==
  /\ \A w \in Workers : WF_vars(~aborted /\ WorkerStep(w))
  /\ \A c \in Threads : WF_vars(~aborted /\ ScheduleStep(c))
  /\ WF_vars(~aborted /\ ClientStep)

FairSpec == Spec /\ Fairness

-------------------------------------------------------------------------------
(* Properties *)

\* Where a task that is counted in may be held: by a schedule_work that has not
\* pushed it yet, at a position of a queue, by the worker that runs it.
InCall(c, t)     == call[c].at \in {"pick", "push"} /\ call[c].task = t
InQueue(w, i, t) == i \in DOMAIN queue[w] /\ queue[w][i] = t
InWorker(w, t)   == wpc[w] = "running" /\ task[w] = t

IsHeld(t) ==
  \/ \E c \in Threads : InCall(c, t)
  \/ \E w \in Workers : \E i \in DOMAIN queue[w] : InQueue(w, i, t)
  \/ \E w \in Workers : InWorker(w, t)

HeldInOnePlace(t) ==
  /\ \A c, d \in Threads : InCall(c, t) /\ InCall(d, t) => c = d
  /\ \A v, w \in Workers : InWorker(v, t) /\ InWorker(w, t) => v = w
  /\ \A v, w \in Workers : \A i \in DOMAIN queue[v], j \in DOMAIN queue[w] :
       InQueue(v, i, t) /\ InQueue(w, j, t) => v = w /\ i = j
  /\ \A c \in Threads, w \in Workers : ~(InCall(c, t) /\ InWorker(w, t))
  /\ \A w \in Workers : \A i \in DOMAIN queue[w] : InQueue(w, i, t) =>
       /\ \A c \in Threads : ~InCall(c, t)
       /\ \A v \in Workers : ~InWorker(v, t)

\* The queues neither lose nor duplicate work: exactly the tasks that are counted
\* in active_tasks are held, each of them in one place.
HeldOnce ==
  /\ active_tasks = Cardinality(Outstanding)
  /\ \A t \in Tasks : (IsHeld(t) <=> t \in Outstanding) /\ HeldInOnePlace(t)

\* No lost wakeup among the workers: one that sleeps although its queue holds a
\* task or its stop flag is set has a notify_one of its cv still to come.
SleepersWillBeWoken ==
  \A w \in Workers :
    wpc[w] = "asleep" /\ (queue[td[w]] # <<>> \/ stop[td[w]]) =>
      \/ \E c \in Threads : call[c].at = "notify" /\ call[c].idx = td[w]
      \/ cpc = "waking" /\ kth = td[w]

Owner == CASE cpc \in {"construct", "quiet"} -> "quiet"
           [] cpc = "destroyed"              -> "gone"
           [] OTHER                          -> "busy"

Pool == INSTANCE WorkPool WITH owner <- Owner

\* The pool implements WorkPool: wait_for_all, and the destructor, return only
\* when every task scheduled so far, children scheduled by bodies included, is
\* complete, and no task is completed twice.
ImplementsWorkPool == Pool!ASpec

\* The destructor ends, whatever each worker is doing when it is called.
DestructorReturns == cpc = "stopping" ~> (cpc = "destroyed" \/ aborted)

\* A scheduled task is run to its end, unless a body throws.
ScheduledTasksComplete ==
  \A t \in Tasks : t \in scheduled ~> (t \in completed \/ aborted)

\* "Wait for all tasks in the thread pool to complete" (NestedNetlistRouter.tpp):
\* a wait returns, given that bodies return.
WaitReturns == cpc = "check" ~> (cpc = "quiet" \/ aborted)

\* "a queue for each thread": a worker serves the queue created with it.
OwnQueue == \A w \in Workers : td[w] \in {w, Nobody}
===============================================================================
