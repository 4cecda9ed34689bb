-------------------------------- MODULE Server --------------------------------
(* VPR's server mode (vpr/src/server): a gate thread serves one client at a     *)
(* time over a non-blocking socket and hands the tasks it receives to the UI    *)
(* thread; there a timer's callback passes them through the task resolver and   *)
(* hands the finished ones back to be sent.  The two threads share the queues   *)
(* m_received_tasks and m_send_tasks under m_tasks_mutex; a step is one         *)
(* critical section or one use of the socket.                                   *)
(*                                                                             *)
(* Telegrams arrive whole here: TelegramBuffer models how they are framed.      *)
EXTENDS Naturals, FiniteSets, Sequences, SequencesExt

CONSTANTS
  MaxSessions,    \* bound: clients that connect
  MaxJobs,        \* bound: requests of all clients
  Commands, Known,\* what a client may ask for, and what update() knows
  Options,
  EchoCmd,        \* stands for the body of an echo telegram
  Pieces,         \* writes it takes to send one response, at most
  AliveTracker    \* ENABLE_CLIENT_ALIVE_TRACKER is defined

ASSUME BoundsAssumption ==
  MaxSessions \in Nat /\ MaxJobs \in Nat /\ Pieces \in Nat \ {0}
ASSUME CommandsAssumption ==
  Known \subseteq Commands /\ EchoCmd \notin Commands /\ Options # {}
ASSUME TrackerAssumption == AliveTracker \in BOOLEAN

Sessions == 1 .. MaxSessions
NoClient == 0

VARIABLES
  sessions,   \* clients that have connected so far
  alive,      \* those that have not gone
  backlog,    \* connections the gate has not accepted
  jobs,       \* requests each client has made
  asked,      \* clients that were sent an echo and have not answered it
  inbox,      \* telegrams of each client that the gate has not read
  running,    \* m_is_running
  client,     \* client_opt
  gpc,        \* where the gate thread is in its loop
  active,     \* the client has been active in this turn of the loop
  frames,     \* telegram_frames still to be handled
  received,   \* m_received_tasks
  tasks,      \* TaskResolver::m_tasks
  ui,         \* where the callback is: "idle" between two of its calls
  buff,       \* tasks_buff, a local of the callback
  ready,      \* timing_info is there
  sendq,      \* m_send_tasks
  wrote,      \* history: the pieces written last, behind the one before them
  answered    \* history: the requests of which a whole response was written

evars == <<sessions, alive, jobs>>
gvars == <<client, gpc, active, frames>>
uvars == <<tasks, ui, buff, ready>>
out   == <<wrote, answered>>
vars  == <<sessions, alive, backlog, jobs, asked, inbox, running, client, gpc,
           active, frames, received, tasks, ui, buff, ready, sendq, wrote, answered>>

Request == [session: Sessions, job: Nat \ {0}, cmd: Commands, opts: Options]

AnOption == CHOOSE o \in Options : TRUE
Echo(s)  == [session |-> s, job |-> 0, cmd |-> EchoCmd, opts |-> AnOption]

NewTask(req) == [req |-> req, responses |-> 0]

\* A task holds a response for every time it was failed or resolved (set_fail and
\* set_success append to the response buffer); it is finished when it holds one.
Finished(task) == task.responses > 0

Piece(req, n, k) == [req |-> req, n |-> n, part |-> k]
NoPiece == [req |-> Echo(1), n |-> 0, part |-> Pieces]

\* A task in the send queue: its responses one behind the other, in pieces.
Baked(task) ==
  [req  |-> task.req,
   left |-> [i \in 1 .. task.responses * Pieces |->
               Piece(task.req, ((i - 1) \div Pieces) + 1, ((i - 1) % Pieces) + 1)]]

Init ==
  /\ sessions = 0 /\ alive = {} /\ backlog = <<>> /\ asked = {}
  /\ jobs = [s \in Sessions |-> 0] /\ inbox = [s \in Sessions |-> <<>>]
  /\ running = TRUE /\ client = NoClient /\ gpc = "turn" /\ active = FALSE
  /\ frames = <<>> /\ received = <<>> /\ sendq = <<>>
  /\ tasks = <<>> /\ ui = "idle" /\ buff = <<>> /\ ready = FALSE
  /\ wrote = <<NoPiece>> /\ answered = {}

-------------------------------------------------------------------------------
(* The clients: what comes in over the network *)

Connect ==
  /\ running /\ sessions < MaxSessions
  /\ sessions' = sessions + 1
  /\ alive' = alive \union {sessions'} /\ backlog' = Append(backlog, sessions')
  /\ UNCHANGED <<jobs, asked, inbox, running, gvars, received, uvars, sendq, out>>

\* "Each new client request should increment the JOB_ID value."
Ask(s, cmd, opts) ==
  /\ running /\ s \in alive
  /\ SumFunction(jobs) < MaxJobs
  /\ jobs' = [jobs EXCEPT ![s] = @ + 1]
  /\ inbox' = [inbox EXCEPT ![s] =
       Append(@, [session |-> s, job |-> jobs'[s], cmd |-> cmd, opts |-> opts])]
  /\ UNCHANGED <<sessions, alive, backlog, asked, running, gvars, received, uvars,
                 sendq, out>>

AnswerEcho(s) ==
  /\ s \in alive \intersect asked
  /\ asked' = asked \ {s}
  /\ inbox' = [inbox EXCEPT ![s] = Append(@, Echo(s))]
  /\ UNCHANGED <<evars, backlog, running, gvars, received, uvars, sendq, out>>

Depart(s) ==
  /\ s \in alive
  /\ alive' = alive \ {s}
  /\ UNCHANGED <<sessions, jobs, backlog, asked, inbox, running, gvars, received,
                 uvars, sendq, out>>

-------------------------------------------------------------------------------
(* The gate thread: one turn of its loop *)

\* check_client_connection: accept without blocking, when there is no client.
Accept ==
  /\ gpc = "turn" /\ running /\ client = NoClient /\ backlog # <<>>
  /\ client' = Head(backlog) /\ backlog' = Tail(backlog)
  /\ UNCHANGED <<evars, asked, inbox, running, gpc, active, frames, received, uvars,
                 sendq, out>>

LeaveLoop ==
  /\ gpc = "turn" /\ ~running
  /\ gpc' = "exited"
  /\ UNCHANGED <<evars, backlog, asked, inbox, running, client, active, frames,
                 received, uvars, sendq, out>>

\* Mutant: the task that has been sent stays in the queue.
AfterSending_Kept(q) == q

\* std::partition and erase: a task at the front with nothing left goes, and (as
\* libstdc++ partitions) the last one takes its place.
AfterSending(q) ==
  IF q[1].left # <<>> THEN q
  ELSE IF Len(q) = 1 THEN <<>>
  ELSE <<Last(q)>> \o SubSeq(q, 2, Len(q) - 1)

\* Written are the first n pieces of what a task in the queue has left.
Written(left, n) ==
  /\ wrote' = <<Last(wrote)>> \o SubSeq(left, 1, n)
  /\ answered' = answered \union {left[i].req : i \in {j \in 1 .. n : left[j].part = Pieces}}

\* Mutant: the newest task is sent, not the one in progress.
SendChunk_Newest(n) ==
  /\ gpc = "turn" /\ running /\ client # NoClient
  /\ sendq # <<>> /\ n <= Len(Last(sendq).left)
  /\ LET q == [sendq EXCEPT ![Len(sendq)].left = SubSeq(@, n + 1, Len(@))] IN
     sendq' = IF Last(q).left = <<>> THEN Front(q) ELSE q
  /\ Written(Last(sendq).left, n)
  /\ active' = TRUE /\ gpc' = "receive"
  /\ UNCHANGED <<evars, backlog, asked, inbox, running, client, frames, received, uvars>>

\* handle_sending_data writes n pieces of the response at the front.  What is
\* written to a client that has gone is lost.
SendChunk(n) ==
  /\ gpc = "turn" /\ running /\ client # NoClient
  /\ sendq # <<>> /\ n <= Len(sendq[1].left)
  /\ sendq' = AfterSending([sendq EXCEPT ![1].left = SubSeq(@, n + 1, Len(@))])
  /\ Written(sendq[1].left, n)
  /\ active' = TRUE /\ gpc' = "receive"
  /\ UNCHANGED <<evars, backlog, asked, inbox, running, client, frames, received, uvars>>

\* There is nothing to send, or write_n returns -1.
SendNothing ==
  /\ gpc = "turn" /\ running /\ client # NoClient
  /\ active' = FALSE /\ gpc' = "receive"
  /\ UNCHANGED <<evars, backlog, asked, inbox, running, client, frames, received,
                 uvars, sendq, out>>

\* handle_receiving_data and take_telegram_frames: n more telegrams are complete.
Receive(n) ==
  /\ gpc = "receive" /\ n <= Len(inbox[client])
  /\ frames' = SubSeq(inbox[client], 1, n)
  /\ inbox' = [inbox EXCEPT ![client] = SubSeq(@, n + 1, Len(@))]
  /\ active' = (active \/ n > 0) /\ gpc' = "telegrams"
  /\ UNCHANGED <<evars, backlog, asked, running, client, received, uvars, sendq, out>>

\* handle_telegrams, one frame: an echo counts as activity, a request becomes a task.
HandleTelegram ==
  /\ gpc = "telegrams" /\ frames # <<>>
  /\ frames' = Tail(frames)
  /\ IF Head(frames).cmd = EchoCmd
       THEN active' = TRUE /\ UNCHANGED received
       ELSE received' = Append(received, NewTask(Head(frames))) /\ UNCHANGED active
  /\ UNCHANGED <<evars, backlog, asked, inbox, running, client, gpc, uvars, sendq, out>>

\* handle_client_alive_tracker, while nothing is wrong: after a turn without
\* activity it may be time for an echo.  (Bound: one echo is under way at a time.)
Track ==
  /\ gpc = "telegrams" /\ frames = <<>> /\ gpc' = "turn" /\ active' = FALSE
  /\ \/ UNCHANGED asked
     \/ /\ AliveTracker /\ ~active /\ Echo(client) \notin Range(inbox[client])
        /\ asked' = asked \union {client}
  /\ UNCHANGED <<evars, backlog, inbox, running, client, frames, received,
                 uvars, sendq, out>>

\* Mutant: the problem is detected, and the client is kept.
DropClient_Kept ==
  /\ gpc = "telegrams" /\ frames = <<>> /\ AliveTracker /\ ~active
  /\ gpc' = "turn" /\ active' = FALSE
  /\ inbox' = [inbox EXCEPT ![client] = <<>>] /\ asked' = asked \ {client}
  /\ UNCHANGED <<evars, backlog, running, client, frames, received, uvars,
                 sendq, out>>

\* The client has not been active for too long: it is dropped, with what it sent
\* and was not read.  (read_n and write_n of this sockpp report errors by their
\* result, so nothing else counts as a communication problem.)
DropClient ==
  /\ gpc = "telegrams" /\ frames = <<>> /\ AliveTracker /\ ~active
  /\ client' = NoClient /\ gpc' = "turn" /\ active' = FALSE
  /\ alive' = alive \ {client} /\ asked' = asked \ {client}
  /\ inbox' = [inbox EXCEPT ![client] = <<>>]
  /\ UNCHANGED <<sessions, jobs, backlog, running, frames, received, uvars,
                 sendq, out>>

-------------------------------------------------------------------------------
(* The UI thread *)

\* Mutant: a task like one that is there already is not kept, nor answered.
OwnTask_Forgets(ts, req) ==
  IF \E i \in DOMAIN ts : ts[i].req.cmd = req.cmd /\ ts[i].req.opts = req.opts
    THEN ts ELSE Append(ts, [req |-> req, responses |-> 0])

\* Mutant: an older task with other options is not overridden.
OwnTask_NoOverride(ts, req) ==
  LET similar == {i \in DOMAIN ts : /\ ts[i].req.cmd = req.cmd
                                    /\ ts[i].req.opts = req.opts}
  IN  Append(ts, [req |-> req, responses |-> Cardinality(similar)])

\* own_task: a new task fails for every task with the same command and options, and
\* every older task with the same command and other options fails; those that had
\* finished before are compared with, and fail, like the others.
OwnTask(ts, req) ==
  LET similar == {i \in DOMAIN ts : /\ ts[i].req.cmd = req.cmd
                                    /\ ts[i].req.opts = req.opts}
      older   == {i \in DOMAIN ts : /\ ts[i].req.cmd = req.cmd
                                    /\ ts[i].req.opts # req.opts
                                    /\ req.job > ts[i].req.job}
  IN  Append([i \in DOMAIN ts |-> IF i \in older
                                    THEN [ts[i] EXCEPT !.responses = @ + 1] ELSE ts[i]],
             [req |-> req, responses |-> Cardinality(similar)])

\* Mutant: the tasks taken are dropped while there is no timing information.
TakeReceived_TooEarly ==
  /\ ui = "idle" /\ running
  /\ buff' = IF ready THEN received ELSE <<>>
  /\ received' = <<>>
  /\ ui' = "own"
  /\ UNCHANGED <<evars, backlog, asked, inbox, running, gvars, tasks, ready, sendq, out>>

\* update: take_received_tasks under the mutex.
TakeReceived ==
  /\ ui = "idle" /\ running
  /\ buff' = received
  /\ received' = <<>>
  /\ ui' = "own"
  /\ UNCHANGED <<evars, backlog, asked, inbox, running, gvars, tasks, ready, sendq, out>>

\* update: the loop over tasks_buff.
OwnNext ==
  /\ ui = "own" /\ buff # <<>>
  /\ tasks' = OwnTask(tasks, Head(buff).req)
  /\ buff' = Tail(buff)
  /\ UNCHANGED <<evars, backlog, asked, inbox, running, gvars, received, ui, ready,
                 sendq, out>>

\* TaskResolver::update, once there is timing information: every unfinished task
\* with a known command is resolved.
Resolve ==
  /\ ui = "own" /\ buff = <<>>
  /\ IF ready
       THEN /\ ui' = "take"
            /\ tasks' = [i \in DOMAIN tasks |->
                           IF ~Finished(tasks[i]) /\ tasks[i].req.cmd \in Known
                             THEN [tasks[i] EXCEPT !.responses = 1] ELSE tasks[i]]
       ELSE ui' = "idle" /\ UNCHANGED tasks
  /\ UNCHANGED <<evars, backlog, asked, inbox, running, gvars, received, buff, ready,
                 sendq, out>>

\* take_finished_tasks: the first finished task leaves the resolver.
TakeFinished(i) ==
  /\ ui = "take"
  /\ Finished(tasks[i]) /\ \A j \in 1 .. i - 1 : ~Finished(tasks[j])
  /\ buff' = Append(buff, tasks[i])
  /\ tasks' = RemoveAt(tasks, i)
  /\ UNCHANGED <<evars, backlog, asked, inbox, running, gvars, received, ui, ready,
                 sendq, out>>

\* update: move_tasks_to_send_queue under the mutex.
Report ==
  /\ ui = "take" /\ \A i \in DOMAIN tasks : ~Finished(tasks[i])
  /\ sendq' = sendq \o [i \in DOMAIN buff |-> Baked(buff[i])]
  /\ buff' = <<>>
  /\ ui' = "idle"
  /\ UNCHANGED <<evars, backlog, asked, inbox, running, gvars, received, tasks, ready, out>>

\* The flow reaches timing analysis: timing_info and routing_delay_calc are set.
TimingReady ==
  /\ ui = "idle" /\ ~ready
  /\ ready' = TRUE
  /\ UNCHANGED <<evars, backlog, asked, inbox, running, gvars, received, tasks, ui,
                 buff, sendq, out>>

\* ~GateIO stops the gate, which joins once its thread has left the loop.
Stop ==
  /\ ui = "idle" /\ running
  /\ running' = FALSE
  /\ UNCHANGED <<evars, backlog, asked, inbox, gvars, received, uvars, sendq, out>>

-------------------------------------------------------------------------------
ClientStep ==
  \/ Connect
  \/ \E s \in alive : \/ AnswerEcho(s) \/ Depart(s)
                       \/ \E cmd \in Commands, opts \in Options : Ask(s, cmd, opts)

SendSome    == \E n \in 1 .. (IF sendq = <<>> THEN 0 ELSE Len(sendq[1].left)) : SendChunk(n)
ReceiveSome == client # NoClient /\ \E n \in 1 .. Len(inbox[client]) : Receive(n)

GateStep ==
  \/ Accept \/ LeaveLoop
  \/ SendSome \/ SendNothing
  \/ ReceiveSome \/ Receive(0) \/ HandleTelegram
  \/ Track \/ DropClient

UIStep ==
  \/ TakeReceived \/ OwnNext \/ Resolve
  \/ \E i \in DOMAIN tasks : TakeFinished(i)
  \/ Report

Stopped == gpc = "exited" /\ UNCHANGED vars

Next == ClientStep \/ GateStep \/ UIStep \/ TimingReady \/ Stop \/ Stopped

Spec == Init /\ [][Next]_vars

(* The gate's loop and the UI's timer keep running.  A client that has not gone   *)
(* reads, in the end, what is sent to it, and what it has sent arrives, however   *)
(* often a write or a read finds nothing to do; the silence of one that has gone  *)
(* lasts for the 20 seconds the tracker waits.                                    *)
Fairness ==
  /\ WF_vars(GateStep) /\ WF_vars(UIStep)
  /\ SF_vars(client \in alive /\ SendSome)
  /\ SF_vars(ReceiveSome)
  /\ SF_vars(client \notin alive /\ DropClient)

FairSpec == Spec /\ Fairness

-------------------------------------------------------------------------------
(* Properties *)

Tasks    == [req: Request, responses: Nat]
Messages == Request \union {Echo(s) : s \in Sessions}
Pieces1  == [req: Request, n: Nat \ {0}, part: 1 .. Pieces]

TypeOK ==
  /\ sessions \in 0 .. MaxSessions
  /\ alive \subseteq Sessions /\ asked \subseteq Sessions
  /\ backlog \in Seq(Sessions) /\ IsInjective(backlog)
  /\ jobs \in [Sessions -> Nat]
  /\ inbox \in [Sessions -> Seq(Messages)]
  /\ client \in Sessions \union {NoClient}
  /\ gpc \in {"turn", "receive", "telegrams", "exited"}
  /\ gpc \in {"receive", "telegrams"} => client # NoClient
  /\ frames \in Seq(Messages) /\ (frames # <<>> => gpc = "telegrams")
  /\ received \in Seq(Tasks) /\ buff \in Seq(Tasks) /\ tasks \in Seq(Tasks)
  /\ sendq \in Seq([req: Request, left: Seq(Pieces1) \ {<<>>}])
  /\ wrote \in Seq(Pieces1 \union {NoPiece}) \ {<<>>} /\ answered \subseteq Request
  /\ ui \in {"idle", "own", "take"}
  /\ active \in BOOLEAN /\ ready \in BOOLEAN /\ running \in BOOLEAN

\* Where the requests of client s are, from its socket to the end of the send queue.
\* The callback's tasks_buff holds what it took over first and what it hands on later.
Stages == {"socket", "frames", "received", "own", "tasks", "taken", "sending"}

ReqsIn(q) == [i \in DOMAIN q |-> q[i].req]

At(stage, s) ==
  CASE stage = "socket"   -> inbox[s]
    [] stage = "frames"   -> frames
    [] stage = "received" -> ReqsIn(received)
    [] stage = "own"      -> IF ui = "own" THEN ReqsIn(buff) ELSE <<>>
    [] stage = "tasks"    -> ReqsIn(tasks)
    [] stage = "taken"    -> IF ui = "take" THEN ReqsIn(buff) ELSE <<>>
    [] stage = "sending"  -> ReqsIn(sendq)

IsJob(req, s) == req.cmd # EchoCmd /\ req.session = s

\* The hand-over between the threads neither loses nor repeats a request: each one is
\* in one place, and those of the current client are all there or answered.
RequestsKept ==
  /\ \A s \in Sessions : \A k, l \in Stages :
       \A i \in DOMAIN At(k, s), j \in DOMAIN At(l, s) :
         /\ IsJob(At(k, s)[i], s) /\ IsJob(At(l, s)[j], s)
         /\ At(k, s)[i].job = At(l, s)[j].job
         => k = l /\ i = j
  /\ client # NoClient => \A n \in 1 .. jobs[client] :
       \/ \E req \in answered : req.session = client /\ req.job = n
       \/ \E k \in Stages : \E i \in DOMAIN At(k, client) :
            IsJob(At(k, client)[i], client) /\ At(k, client)[i].job = n

\* A piece that continues the response of another, or begins one where it ends.
Follows(p, q) ==
  \/ p.part = Pieces /\ q.part = 1
  \/ q.req = p.req /\ q.n = p.n /\ q.part = p.part + 1

\* The bytes of two responses never mix, although the queue is reordered whenever one
\* is done: on the socket a response is continued until it is complete.
ResponsesWhole ==
  \A i \in 1 .. Len(wrote) - 1 : Follows(wrote[i], wrote[i + 1])

\* A command is not worked on for two requests of one client at once: a newer one
\* overrides the older, or is rejected.
OneRunsPerCommand ==
  \A i, j \in DOMAIN tasks :
    /\ ~Finished(tasks[i]) /\ ~Finished(tasks[j])
    /\ tasks[i].req.cmd = tasks[j].req.cmd /\ tasks[i].req.session = tasks[j].req.session
    => i = j

\* "similar task is already in execution, reject new ... and waiting for old ...": when
\* requests for a command have come in, one of them is still to be worked on.
OneStillRuns ==
  ui = "own" /\ buff = <<>> => \A i \in DOMAIN tasks : \E j \in DOMAIN tasks :
    tasks[j].req.cmd = tasks[i].req.cmd /\ ~Finished(tasks[j])

\* A request with a known command is answered in full, unless its client or the
\* server goes: there is timing information, and the gate has received it.
RequestsAnswered ==
  \A s \in Sessions, j \in 1 .. MaxJobs :
    LET Is(req) == req.session = s /\ req.job = j IN
    ready /\ (\E task \in Range(received) : Is(task.req) /\ task.req.cmd \in Known)
      ~> ((\E req \in answered : Is(req)) \/ client # s \/ ~running)

\* "... it means the client is absent, and it's time to start accepting new client
\* connections in GateIO": a client that has gone does not keep its place.
DepartedClientIsReplaced ==
  \A s \in Sessions : client = s /\ s \notin alive ~> (client # s \/ ~running)
===============================================================================
