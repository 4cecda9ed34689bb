----------------------------- MODULE ServerProofs -----------------------------
(* Proofs about Server, for any number of clients, requests, commands, options   *)
(* and pieces: between the threads no request is lost or repeated, a command is  *)
(* worked on for one request of a client at a time, and responses go out whole.  *)
(*                                                                              *)
(* The line of a client is its requests from its socket to the send queue.  Each *)
(* action is one of four moves of it: a stretch of one stage goes to the end of  *)
(* the next (Handed), messages leave a stage (Thinned), the first of the send    *)
(* queue makes way for the last (Shuffled), a new one comes in (SentLine).       *)
EXTENDS Server, Integers, FiniteSetTheorems, SequenceTheorems, TLAPS

-------------------------------------------------------------------------------
(* Sequences *)

LEMMA Prefix ==
  ASSUME NEW S, NEW q \in Seq(S), NEW n \in 0 .. Len(q)
  PROVE  /\ SubSeq(q, 1, n) \in Seq(S) /\ Len(SubSeq(q, 1, n)) = n
         /\ \A k \in 1 .. n : SubSeq(q, 1, n)[k] = q[k]
  <1>1. 1 \in Int /\ n \in Int /\ n >= 0 /\ \A k \in 1 .. n : q[k] \in S
    BY LenProperties, ElementOfSeq
  <1>2. /\ SubSeq(q, 1, n) \in Seq(S)
        /\ Len(SubSeq(q, 1, n)) = IF 1 <= n THEN n - 1 + 1 ELSE 0
        /\ \A k \in 1 .. n - 1 + 1 : SubSeq(q, 1, n)[k] = q[1 + k - 1]
    BY ONLY <1>1, SubSeqProperties
  <1> QED
    BY <1>1, <1>2

LEMMA Suffix ==
  ASSUME NEW S, NEW q \in Seq(S), NEW n \in 0 .. Len(q)
  PROVE  /\ SubSeq(q, n + 1, Len(q)) \in Seq(S)
         /\ Len(SubSeq(q, n + 1, Len(q))) = Len(q) - n
         /\ \A k \in 1 .. Len(q) - n : SubSeq(q, n + 1, Len(q))[k] = q[n + k]
  <1> DEFINE m == n + 1
             len == Len(q)
  <1>1. /\ m \in Int /\ len \in Int /\ n \in 0 .. len /\ m = n + 1
        /\ \A k \in m .. len : q[k] \in S
    BY LenProperties, ElementOfSeq
  <1> HIDE DEF m, len
  <1>2. /\ SubSeq(q, m, len) \in Seq(S)
        /\ Len(SubSeq(q, m, len)) = IF m <= len THEN len - m + 1 ELSE 0
        /\ \A k \in 1 .. len - m + 1 : SubSeq(q, m, len)[k] = q[m + k - 1]
    BY ONLY <1>1, SubSeqProperties
  <1>3. /\ SubSeq(q, m, len) \in Seq(S)
        /\ Len(SubSeq(q, m, len)) = len - n
        /\ \A k \in 1 .. len - n : SubSeq(q, m, len)[k] = q[n + k]
    BY <1>1, <1>2
  <1> QED
    BY <1>3 DEF m, len

LEMMA Removed ==
  ASSUME NEW S, NEW q \in Seq(S), NEW i \in 1 .. Len(q)
  PROVE  /\ RemoveAt(q, i) \in Seq(S)
         /\ Len(RemoveAt(q, i)) = Len(q) - 1
         /\ \A k \in 1 .. Len(q) - 1 :
              RemoveAt(q, i)[k] = IF k < i THEN q[k] ELSE q[k + 1]
  <1> DEFINE a == SubSeq(q, 1, i - 1)
             b == SubSeq(q, i + 1, Len(q))
  <1>0. i \in Int /\ Len(q) \in Nat /\ i - 1 \in 0 .. Len(q) /\ i \in 0 .. Len(q)
    BY LenProperties
  <1>1. /\ a \in Seq(S) /\ Len(a) = i - 1
        /\ \A k \in 1 .. i - 1 : a[k] = q[k]
    BY <1>0, Prefix
  <1>2. /\ b \in Seq(S) /\ Len(b) = Len(q) - i
        /\ \A k \in 1 .. Len(q) - i : b[k] = q[i + k]
    BY <1>0, Suffix
  <1>3. RemoveAt(q, i) = a \o b
    BY DEF RemoveAt
  <1> HIDE DEF a, b
  <1>4. /\ a \o b \in Seq(S) /\ Len(a \o b) = Len(q) - 1
        /\ \A k \in 1 .. Len(q) - 1 :
             (a \o b)[k] = IF k <= i - 1 THEN a[k] ELSE b[k - (i - 1)]
    <2> DEFINE m == i - 1
               n == Len(q) - i
    <2>1. m \in Nat /\ n \in Nat /\ Len(a) = m /\ Len(b) = n /\ m + n = Len(q) - 1
      BY <1>0, <1>1, <1>2
    <2>2. m = i - 1
      OBVIOUS
    <2> HIDE DEF m, n
    <2>3. /\ a \o b \in Seq(S) /\ Len(a \o b) = m + n
          /\ \A k \in 1 .. m + n : (a \o b)[k] = IF k <= m THEN a[k] ELSE b[k - m]
      <3>1. /\ a \o b \in Seq(S) /\ Len(a \o b) = Len(a) + Len(b)
            /\ \A k \in 1 .. Len(a) + Len(b) :
                 (a \o b)[k] = IF k <= Len(a) THEN a[k] ELSE b[k - Len(a)]
        BY <1>1, <1>2, ConcatProperties
      <3> QED
        BY ONLY <3>1, <2>1
    <2> QED
      BY <2>1, <2>2, <2>3
  <1> QED
    BY <1>0, <1>1, <1>2, <1>3, <1>4

\* What std::partition and erase leave: the front, if it is not done, and else the
\* others with the last one in its place.
LEMMA Partitioned ==
  ASSUME NEW S, NEW q \in Seq(S), q # <<>>
  PROVE  /\ AfterSending(q) \in Seq(S)
         /\ q[1].left # <<>> => AfterSending(q) = q
         /\ q[1].left = <<>> =>
              /\ Len(AfterSending(q)) = Len(q) - 1
              /\ \A k \in 1 .. Len(q) - 1 :
                   AfterSending(q)[k] = IF k = 1 THEN q[Len(q)] ELSE q[k]
  <1>0. Len(q) \in Nat /\ Len(q) >= 1 /\ \A k \in 1 .. Len(q) : q[k] \in S
    BY LenProperties, ElementOfSeq, EmptySeq
  <1>1. CASE q[1].left # <<>>
    BY <1>1 DEF AfterSending
  <1>2. CASE q[1].left = <<>> /\ Len(q) = 1
    BY <1>0, <1>2, EmptySeq DEF AfterSending
  <1>3. CASE q[1].left = <<>> /\ Len(q) # 1
    <2> DEFINE a == <<Last(q)>>
               len == Len(q) - 1
               b == SubSeq(q, 2, len)
    <2>1. AfterSending(q) = a \o b
      BY <1>3 DEF AfterSending
    <2>2. a \in Seq(S) /\ Len(a) = 1 /\ a[1] = q[Len(q)]
      BY <1>0 DEF Last
    <2>3. /\ 2 \in Int /\ len \in Int /\ len >= 1 /\ len = Len(q) - 1
          /\ \A k \in 2 .. len : q[k] \in S
      <3>1. len \in Int /\ len >= 1 /\ len <= Len(q)
        <4> DEFINE l == Len(q)
        <4>1. l \in Nat /\ l >= 1 /\ l # 1 /\ len = l - 1
          BY <1>0, <1>3
        <4> HIDE DEF l, len
        <4>2. len \in Int /\ len >= 1 /\ len <= l
          BY <4>1
        <4> QED
          BY <4>2 DEF l
      <3> QED
        BY <1>0, <3>1
    <2> HIDE DEF len
    <2>4. /\ b \in Seq(S) /\ Len(b) = IF 2 <= len THEN len - 2 + 1 ELSE 0
          /\ \A k \in 1 .. len - 2 + 1 : b[k] = q[2 + k - 1]
      BY ONLY <2>3, SubSeqProperties
    <2>5. /\ b \in Seq(S) /\ Len(b) = len - 1
          /\ \A k \in 1 .. len - 1 : b[k] = q[k + 1]
      BY <2>3, <2>4
    <2> HIDE DEF a, b
    <2>6. /\ a \o b \in Seq(S) /\ Len(a \o b) = len
          /\ \A k \in 1 .. len : (a \o b)[k] = IF k <= 1 THEN a[k] ELSE b[k - 1]
      <3> DEFINE n == len - 1
      <3>1. 1 \in Nat /\ n \in Nat /\ Len(b) = n /\ 1 + n = len
        BY <2>3, <2>5
      <3> HIDE DEF n
      <3>2. /\ a \o b \in Seq(S) /\ Len(a \o b) = 1 + n
            /\ \A k \in 1 .. 1 + n : (a \o b)[k] = IF k <= 1 THEN a[k] ELSE b[k - 1]
        <4>1. /\ a \o b \in Seq(S) /\ Len(a \o b) = Len(a) + Len(b)
              /\ \A k \in 1 .. Len(a) + Len(b) :
                   (a \o b)[k] = IF k <= Len(a) THEN a[k] ELSE b[k - Len(a)]
          BY <2>2, <2>5, ConcatProperties
        <4> QED
          BY ONLY <4>1, <3>1, <2>2
      <3> QED
        BY <3>1, <3>2
    <2>7. \A k \in 1 .. len : (a \o b)[k] = IF k = 1 THEN q[Len(q)] ELSE q[k]
      <3> SUFFICES ASSUME NEW k \in 1 .. len
                   PROVE  (a \o b)[k] = IF k = 1 THEN q[Len(q)] ELSE q[k]
        OBVIOUS
      <3>1. CASE k = 1
        BY <2>2, <2>6, <3>1
      <3>2. CASE k # 1
        <4>1. k - 1 \in 1 .. len - 1 /\ ~(k <= 1) /\ (k - 1) + 1 = k
          BY <2>3, <3>2
        <4> QED
          BY <2>5, <2>6, <3>2, <4>1
      <3> QED
        BY <3>1, <3>2
    <2> QED
      BY <1>3, <2>1, <2>3, <2>6, <2>7
  <1> QED
    BY <1>1, <1>2, <1>3

-------------------------------------------------------------------------------
(* The tasks *)

\* own_task keeps every task with its request, and adds the new one.
LEMMA Owned ==
  ASSUME NEW ts \in Seq(Tasks), NEW req \in Request
  PROVE  /\ OwnTask(ts, req) \in Seq(Tasks)
         /\ Len(OwnTask(ts, req)) = Len(ts) + 1
         /\ \A i \in 1 .. Len(ts) :
              /\ OwnTask(ts, req)[i].req = ts[i].req
              /\ Finished(ts[i]) => Finished(OwnTask(ts, req)[i])
              /\ /\ ts[i].req.cmd = req.cmd /\ ts[i].req.opts # req.opts
                 /\ req.job > ts[i].req.job
                 => Finished(OwnTask(ts, req)[i])
         /\ OwnTask(ts, req)[Len(ts) + 1].req = req
         /\ (\E i \in 1 .. Len(ts) : ts[i].req.cmd = req.cmd /\ ts[i].req.opts = req.opts)
              => Finished(OwnTask(ts, req)[Len(ts) + 1])
  <1> DEFINE similar == {i \in DOMAIN ts : /\ ts[i].req.cmd = req.cmd
                                           /\ ts[i].req.opts = req.opts}
             older == {i \in DOMAIN ts : /\ ts[i].req.cmd = req.cmd
                                         /\ ts[i].req.opts # req.opts
                                         /\ req.job > ts[i].req.job}
             old == [i \in DOMAIN ts |-> IF i \in older
                       THEN [ts[i] EXCEPT !.responses = @ + 1] ELSE ts[i]]
             new == [req |-> req, responses |-> Cardinality(similar)]
  <1>0. OwnTask(ts, req) = Append(old, new)
    BY DEF OwnTask
  <1>1. Len(ts) \in Nat /\ DOMAIN ts = 1 .. Len(ts) /\ \A i \in 1 .. Len(ts) : ts[i] \in Tasks
    BY LenProperties, ElementOfSeq
  <1>2. IsFiniteSet(similar) /\ Cardinality(similar) \in Nat
    <2>1. IsFiniteSet(1 .. Len(ts)) /\ similar \subseteq 1 .. Len(ts)
      BY <1>1, FS_Interval
    <2> HIDE DEF similar
    <2> QED
      BY <2>1, FS_Subset, FS_CardinalityType
  <1>3. similar # {} => Cardinality(similar) > 0
    <2> HIDE DEF similar
    <2> QED
      BY <1>2, FS_EmptySet
  <1>4. new \in Tasks
    BY <1>2 DEF Tasks
  <1>5. \A i \in 1 .. Len(ts) : /\ old[i] \in Tasks /\ old[i].req = ts[i].req
                                /\ old[i].responses = IF i \in older
                                     THEN ts[i].responses + 1 ELSE ts[i].responses
    BY <1>1 DEF Tasks
  <1>6. DOMAIN old = 1 .. Len(ts) /\ old = [i \in 1 .. Len(ts) |-> old[i]]
    BY <1>1
  <1> HIDE DEF old
  <1>7. old \in Seq(Tasks) /\ Len(old) = Len(ts)
    BY <1>1, <1>5, <1>6, IsASeq
  <1> HIDE DEF new
  <1>8. /\ Append(old, new) \in Seq(Tasks) /\ Len(Append(old, new)) = Len(ts) + 1
        /\ \A i \in 1 .. Len(ts) : Append(old, new)[i] = old[i]
        /\ Append(old, new)[Len(ts) + 1] = new
    BY <1>4, <1>7, AppendProperties
  <1>9. new.req = req /\ new.responses = Cardinality(similar)
    BY DEF new
  <1>10. \A i \in 1 .. Len(ts) :
           /\ Append(old, new)[i].req = ts[i].req
           /\ Finished(ts[i]) => Finished(Append(old, new)[i])
           /\ i \in older => Finished(Append(old, new)[i])
    BY <1>1, <1>5, <1>8 DEF Finished, Tasks
  <1> QED
    BY <1>0, <1>1, <1>3, <1>8, <1>9, <1>10 DEF Finished

-------------------------------------------------------------------------------
(* The responses of a task *)

LEMMA Division ==
  ASSUME NEW x \in Nat
  PROVE  /\ x \div Pieces \in Nat /\ x % Pieces \in 0 .. Pieces - 1
         /\ x = Pieces * (x \div Pieces) + (x % Pieces)
  BY BoundsAssumption

LEMMA DivisionIsUnique ==
  ASSUME NEW q \in Int, NEW r \in Int, NEW m \in 0 .. Pieces - 1,
         NEW n \in 0 .. Pieces - 1, Pieces * q + m = Pieces * r + n
  PROVE  q = r /\ m = n
  <1>1. Pieces * (q - r) = n - m /\ Pieces * (r - q) = m - n
    BY BoundsAssumption
  <1>2. ~(q - r >= 1)
    <2> SUFFICES ASSUME q - r >= 1 PROVE FALSE
      OBVIOUS
    <2>1. Pieces * (q - r) >= Pieces
      BY BoundsAssumption
    <2> QED
      BY <1>1, <2>1, BoundsAssumption
  <1>3. ~(r - q >= 1)
    <2> SUFFICES ASSUME r - q >= 1 PROVE FALSE
      OBVIOUS
    <2>1. Pieces * (r - q) >= Pieces
      BY BoundsAssumption
    <2> QED
      BY <1>1, <2>1, BoundsAssumption
  <1> QED
    BY <1>1, <1>2, <1>3, BoundsAssumption

LEMMA NextPiece ==
  ASSUME NEW x \in Nat
  PROVE  IF x % Pieces = Pieces - 1
           THEN (x + 1) % Pieces = 0
           ELSE /\ (x + 1) % Pieces = (x % Pieces) + 1
                /\ (x + 1) \div Pieces = x \div Pieces
  <1>1. /\ x \div Pieces \in Nat /\ x % Pieces \in 0 .. Pieces - 1
        /\ x = Pieces * (x \div Pieces) + (x % Pieces)
    BY Division
  <1>2. /\ (x + 1) \div Pieces \in Nat /\ (x + 1) % Pieces \in 0 .. Pieces - 1
        /\ x + 1 = Pieces * ((x + 1) \div Pieces) + ((x + 1) % Pieces)
    BY Division
  <1>3. CASE x % Pieces = Pieces - 1
    <2>1. x + 1 = Pieces * (x \div Pieces + 1) + 0
      BY <1>1, <1>3, BoundsAssumption
    <2>2. 0 \in 0 .. Pieces - 1 /\ x \div Pieces + 1 \in Int
      BY <1>1, BoundsAssumption
    <2>3. (x + 1) % Pieces = 0
      BY <1>2, <2>1, <2>2, DivisionIsUnique
    <2> QED
      BY <1>3, <2>3
  <1>4. CASE x % Pieces # Pieces - 1
    <2>1. x + 1 = Pieces * (x \div Pieces) + ((x % Pieces) + 1)
      BY <1>1, BoundsAssumption
    <2>2. (x % Pieces) + 1 \in 0 .. Pieces - 1
      BY <1>1, <1>4, BoundsAssumption
    <2>3. (x + 1) % Pieces = (x % Pieces) + 1 /\ (x + 1) \div Pieces = x \div Pieces
      BY <1>1, <1>2, <2>1, <2>2, DivisionIsUnique
    <2> QED
      BY <1>4, <2>3
  <1> QED
    BY <1>3, <1>4

\* What is left to be sent of a task: pieces of its responses, each of which goes
\* on until it is complete.
WellFormed(entry) ==
  /\ entry.left[Len(entry.left)].part = Pieces
  /\ \A k \in 1 .. Len(entry.left) : entry.left[k].req = entry.req
  /\ \A k \in 1 .. Len(entry.left) - 1 : Follows(entry.left[k], entry.left[k + 1])

Entries == [req : Request, left : Seq(Pieces1) \ {<<>>}]

LEMMA BakedIsWellFormed ==
  ASSUME NEW task \in Tasks, Finished(task)
  PROVE  /\ Baked(task) \in Entries /\ Baked(task).req = task.req
         /\ WellFormed(Baked(task)) /\ Baked(task).left[1].part = 1
  <1> DEFINE N == task.responses * Pieces
             left == Baked(task).left
  <1>0. /\ task.req \in Request /\ task.responses \in Nat /\ task.responses > 0
        /\ N \in Nat /\ N >= 1 /\ Pieces \in Nat /\ Pieces >= 1
    <2>1. task.req \in Request /\ task.responses \in Nat \ {0}
      BY DEF Finished, Tasks
    <2>2. task.responses * Pieces \in Nat \ {0}
      BY <2>1, BoundsAssumption
    <2> QED
      BY <2>1, <2>2, BoundsAssumption
  <1>1. /\ Baked(task).req = task.req
        /\ left = [i \in 1 .. N |-> Piece(task.req, ((i - 1) \div Pieces) + 1,
                                          ((i - 1) % Pieces) + 1)]
        /\ Baked(task) = [req |-> task.req, left |-> left]
    BY DEF Baked
  <1>2. \A i \in 1 .. N : i - 1 \in Nat
    BY <1>0
  <1>3. \A i \in 1 .. N :
          /\ left[i].req = task.req
          /\ left[i].n = ((i - 1) \div Pieces) + 1
          /\ left[i].part = ((i - 1) % Pieces) + 1
          /\ left[i] = Piece(task.req, left[i].n, left[i].part)
    BY <1>1 DEF Piece
  <1> HIDE DEF left
  <1>4. \A i \in 1 .. N : left[i] \in Pieces1
    <2> SUFFICES ASSUME NEW i \in 1 .. N PROVE left[i] \in Pieces1
      OBVIOUS
    <2>1. (i - 1) \div Pieces \in Nat /\ (i - 1) % Pieces \in 0 .. Pieces - 1
      BY <1>2, Division
    <2>2. left[i].n \in Nat \ {0} /\ left[i].part \in 1 .. Pieces
      BY <1>0, <1>3, <2>1
    <2>3. left[i] = Piece(task.req, left[i].n, left[i].part)
      BY <1>3
    <2> DEFINE n == left[i].n
               part == left[i].part
    <2> HIDE DEF n, part
    <2>4. n \in Nat \ {0} /\ part \in 1 .. Pieces /\ left[i] = Piece(task.req, n, part)
      BY <2>2, <2>3 DEF n, part
    <2> QED
      BY <1>0, <2>4 DEF Piece, Pieces1
  <1>5. left \in Seq(Pieces1) /\ Len(left) = N
    <2>1. left = [i \in 1 .. N |-> left[i]]
      BY <1>1
    <2> HIDE DEF N
    <2> QED
      BY <1>0, <1>4, <2>1, IsASeq
  <1>6. left # <<>>
    BY <1>0, <1>5, EmptySeq
  <1>7. left[N].part = Pieces
    <2>1. N - 1 \in Nat
      BY <1>0
    <2>2. N - 1 = Pieces * (task.responses - 1) + (Pieces - 1)
      BY <1>0
    <2>3. /\ (N - 1) \div Pieces \in Nat /\ (N - 1) % Pieces \in 0 .. Pieces - 1
          /\ N - 1 = Pieces * ((N - 1) \div Pieces) + ((N - 1) % Pieces)
      BY <2>1, Division
    <2>4. Pieces - 1 \in 0 .. Pieces - 1 /\ task.responses - 1 \in Int
      BY <1>0
    <2>5. (N - 1) % Pieces = Pieces - 1
      <3> HIDE DEF N
      <3> QED
        BY <2>2, <2>3, <2>4, DivisionIsUnique
    <2> QED
      BY <1>0, <1>3, <2>5
  <1>8. left[1].part = 1
    <2>1. 0 = Pieces * 0 + 0 /\ 0 \in 0 .. Pieces - 1 /\ 0 \in Int
      BY <1>0
    <2>2. 0 % Pieces = 0
      BY <2>1, Division, DivisionIsUnique
    <2> QED
      BY <1>0, <1>3, <2>2
  <1>9. \A k \in 1 .. N - 1 : Follows(left[k], left[k + 1])
    <2> SUFFICES ASSUME NEW k \in 1 .. N - 1 PROVE Follows(left[k], left[k + 1])
      OBVIOUS
    <2>1. k \in 1 .. N /\ k + 1 \in 1 .. N /\ k - 1 \in Nat /\ (k + 1) - 1 = (k - 1) + 1
      BY <1>0
    <2>2. /\ (k - 1) % Pieces \in 0 .. Pieces - 1 /\ (k - 1) \div Pieces \in Nat
          /\ IF (k - 1) % Pieces = Pieces - 1
               THEN ((k - 1) + 1) % Pieces = 0
               ELSE /\ ((k - 1) + 1) % Pieces = ((k - 1) % Pieces) + 1
                    /\ ((k - 1) + 1) \div Pieces = (k - 1) \div Pieces
      BY <2>1, Division, NextPiece
    <2>3. /\ left[k].req = left[k + 1].req
          /\ left[k].part = ((k - 1) % Pieces) + 1
          /\ left[k].n = (k - 1) \div Pieces + 1
          /\ left[k + 1].part = (((k - 1) + 1) % Pieces) + 1
          /\ left[k + 1].n = ((k - 1) + 1) \div Pieces + 1
      BY <1>3, <2>1
    <2> HIDE DEF N
    <2> QED
      BY <1>0, <2>2, <2>3 DEF Follows
  <1> QED
    BY <1>0, <1>1, <1>3, <1>5, <1>6, <1>7, <1>8, <1>9 DEF WellFormed, Entries, left

-------------------------------------------------------------------------------
(* Types *)

\* Connections and sockets: a client waits once to be accepted, and what comes
\* from its socket is its own.
ConnInv ==
  /\ alive \subseteq 1 .. sessions /\ client <= sessions
  /\ \A i \in 1 .. Len(backlog) : backlog[i] <= sessions /\ backlog[i] # client
  /\ \A s \in Sessions : s > sessions => jobs[s] = 0
  /\ \A s \in Sessions : \A i \in 1 .. Len(inbox[s]) : inbox[s][i].session = s

TypeInv == TypeOK /\ ConnInv

LEMMA InitTypes == Init => TypeInv
  <1> SUFFICES ASSUME Init PROVE TypeInv
    OBVIOUS
  <1>1. /\ <<>> \in Seq(Sessions) /\ IsInjective(<<>>)
        /\ <<>> \in Seq(Messages) /\ <<>> \in Seq(Tasks)
        /\ <<>> \in Seq([req: Request, left: Seq(Pieces1) \ {<<>>}])
        /\ Len(<<>>) = 0
    BY EmptySeq DEF IsInjective
  <1>2. wrote \in Seq(Pieces1 \union {NoPiece}) \ {<<>>}
    BY DEF Init
  <1>3. /\ sessions \in 0 .. MaxSessions /\ jobs \in [Sessions -> Nat]
        /\ inbox \in [Sessions -> Seq(Messages)]
    BY <1>1, BoundsAssumption DEF Init
  <1>4. IsInjective(backlog)
    <2>1. backlog = <<>>
      BY DEF Init
    <2> QED
      BY <1>1, <2>1
  <1>5. TypeOK
    <2>1. /\ backlog \in Seq(Sessions) /\ frames \in Seq(Messages)
          /\ received \in Seq(Tasks) /\ buff \in Seq(Tasks) /\ tasks \in Seq(Tasks)
          /\ sendq \in Seq([req: Request, left: Seq(Pieces1) \ {<<>>}])
      BY <1>1 DEF Init
    <2> QED
      BY <1>2, <1>3, <1>4, <2>1 DEF Init, TypeOK
  <1> QED
    BY <1>1, <1>5 DEF Init, TypeInv, ConnInv, NoClient

LEMMA ConnectTypes ==
  ASSUME TypeInv, Connect
  PROVE  TypeInv'
  <1> USE DEF TypeInv
  <1>1. /\ sessions' = sessions + 1 /\ sessions < MaxSessions
        /\ alive' = alive \union {sessions'} /\ backlog' = Append(backlog, sessions')
    BY DEF Connect
  <1>2. sessions \in Nat /\ sessions' \in Sessions /\ sessions' \in 0 .. MaxSessions
    BY <1>1, BoundsAssumption DEF TypeOK, Sessions
  <1>3. backlog \in Seq(Sessions)
    BY DEF TypeOK
  <1>4. /\ backlog' \in Seq(Sessions) /\ Len(backlog') = Len(backlog) + 1
        /\ Len(backlog) \in Nat
        /\ \A i \in 1 .. Len(backlog) : backlog'[i] = backlog[i] /\ backlog[i] \in Sessions
        /\ backlog'[Len(backlog) + 1] = sessions'
        /\ DOMAIN backlog = 1 .. Len(backlog) /\ DOMAIN backlog' = 1 .. Len(backlog')
    BY <1>1, <1>2, <1>3, AppendProperties, LenProperties, ElementOfSeq
  <1>5. \A i \in 1 .. Len(backlog) : backlog[i] \in Nat /\ backlog[i] <= sessions
    BY <1>4 DEF ConnInv, Sessions
  <1>6. IsInjective(backlog')
    BY <1>1, <1>2, <1>4, <1>5 DEF IsInjective, TypeOK
  <1>7. TypeOK'
    BY <1>1, <1>2, <1>4, <1>6 DEF TypeOK, Connect, gvars, uvars, out
  <1>8. client \in Nat /\ client <= sessions
    BY BoundsAssumption DEF TypeOK, ConnInv, Sessions, NoClient
  <1>9. ConnInv'
    <2>1. /\ client' = client /\ jobs' = jobs /\ inbox' = inbox
      BY DEF Connect, gvars
    <2>2. alive' \subseteq 1 .. sessions'
      BY <1>1, <1>2 DEF ConnInv, TypeOK
    <2>3. \A i \in 1 .. Len(backlog') : backlog'[i] <= sessions' /\ backlog'[i] # client'
      BY <1>1, <1>2, <1>4, <1>5, <1>8, <2>1 DEF ConnInv
    <2> QED
      BY <1>1, <1>2, <1>8, <2>1, <2>2, <2>3 DEF ConnInv, Sessions
  <1> QED
    BY <1>7, <1>9

LEMMA MessageTypes ==
  /\ \A s \in Sessions : Echo(s) \in Messages
  /\ Request \subseteq Messages
  /\ \A msg \in Messages : msg.cmd = EchoCmd \/ msg \in Request
  /\ \A req \in Request : req.cmd # EchoCmd
  <1>1. \A req \in Request : req.cmd # EchoCmd
    BY CommandsAssumption DEF Request
  <1>2. \A s : Echo(s).cmd = EchoCmd
    BY DEF Echo
  <1> QED
    BY <1>1, <1>2 DEF Messages

\* A client adds a message of its own to its socket.
LEMMA SentTypes ==
  ASSUME TypeInv, NEW s \in Sessions, NEW msg \in Messages, msg.session = s,
         inbox' = [inbox EXCEPT ![s] = Append(@, msg)]
  PROVE  /\ inbox' \in [Sessions -> Seq(Messages)]
         /\ \A c \in Sessions : \A i \in 1 .. Len(inbox'[c]) : inbox'[c][i].session = c
  <1>1. inbox \in [Sessions -> Seq(Messages)] /\ inbox[s] \in Seq(Messages)
    BY DEF TypeInv, TypeOK
  <1>2. /\ Append(inbox[s], msg) \in Seq(Messages)
        /\ Len(Append(inbox[s], msg)) = Len(inbox[s]) + 1 /\ Len(inbox[s]) \in Nat
        /\ \A i \in 1 .. Len(inbox[s]) : Append(inbox[s], msg)[i] = inbox[s][i]
        /\ Append(inbox[s], msg)[Len(inbox[s]) + 1] = msg
    BY <1>1, AppendProperties, LenProperties
  <1>3. /\ inbox'[s] = Append(inbox[s], msg)
        /\ \A c \in Sessions \ {s} : inbox'[c] = inbox[c]
    BY <1>1
  <1>4. \A c \in Sessions : \A i \in 1 .. Len(inbox'[c]) : inbox'[c][i].session = c
    <2> SUFFICES ASSUME NEW c \in Sessions, NEW i \in 1 .. Len(inbox'[c])
                 PROVE  inbox'[c][i].session = c
      OBVIOUS
    <2>1. CASE c # s
      BY <1>3, <2>1 DEF TypeInv, ConnInv
    <2>2. CASE c = s /\ i = Len(inbox[s]) + 1
      BY <1>2, <1>3, <2>2
    <2>3. CASE c = s /\ i # Len(inbox[s]) + 1
      <3>1. i \in 1 .. Len(inbox[s])
        BY <1>2, <1>3, <2>3
      <3> QED
        BY <1>2, <1>3, <2>3, <3>1 DEF TypeInv, ConnInv
    <2> QED
      BY <2>1, <2>2, <2>3
  <1> QED
    BY <1>1, <1>2, <1>4

LEMMA ClientTypes ==
  ASSUME TypeInv, ClientStep
  PROVE  TypeInv'
  <1> USE DEF TypeInv
  <1>1. CASE Connect
    BY <1>1, ConnectTypes
  <1>2. ASSUME NEW s \in alive, AnswerEcho(s)
        PROVE  TypeInv'
    <2>1. s \in Sessions
      BY DEF TypeOK
    <2>2. Echo(s) \in Messages /\ Echo(s).session = s
      BY <2>1, MessageTypes DEF Echo
    <2>3. inbox' = [inbox EXCEPT ![s] = Append(@, Echo(s))] /\ asked' \subseteq Sessions
      BY <1>2 DEF AnswerEcho, TypeOK
    <2>4. /\ inbox' \in [Sessions -> Seq(Messages)]
          /\ \A c \in Sessions : \A i \in 1 .. Len(inbox'[c]) : inbox'[c][i].session = c
      BY <2>1, <2>2, <2>3, SentTypes
    <2>5. TypeOK'
      BY <1>2, <2>3, <2>4 DEF AnswerEcho, TypeOK, evars, gvars, uvars, out
    <2> QED
      BY <1>2, <2>4, <2>5 DEF AnswerEcho, ConnInv, evars, gvars
  <1>3. ASSUME NEW s \in alive, Depart(s)
        PROVE  TypeInv'
    <2>1. TypeOK'
      BY <1>3 DEF Depart, TypeOK, gvars, uvars, out
    <2> QED
      BY <1>3, <2>1 DEF Depart, ConnInv, gvars
  <1>4. ASSUME NEW s \in alive, NEW cmd \in Commands, NEW opts \in Options,
               Ask(s, cmd, opts)
        PROVE  TypeInv'
    <2>0. alive \subseteq Sessions /\ alive \subseteq 1 .. sessions /\ sessions \in Nat
      BY BoundsAssumption DEF TypeOK, ConnInv
    <2>1. s \in Sessions /\ s <= sessions
      BY <2>0
    <2> DEFINE req == [session |-> s, job |-> jobs'[s], cmd |-> cmd, opts |-> opts]
    <2>2. /\ jobs \in [Sessions -> Nat] /\ jobs' = [jobs EXCEPT ![s] = @ + 1]
          /\ inbox' = [inbox EXCEPT ![s] = Append(@, req)]
      BY <1>4 DEF Ask, TypeOK
    <2>3. jobs' \in [Sessions -> Nat] /\ jobs'[s] \in Nat \ {0}
      BY <2>1, <2>2
    <2>4. req \in Request /\ req.session = s
      BY <2>1, <2>3 DEF Request
    <2>5. req \in Messages
      BY <2>4, MessageTypes
    <2> HIDE DEF req
    <2>6. /\ inbox' \in [Sessions -> Seq(Messages)]
          /\ \A c \in Sessions : \A i \in 1 .. Len(inbox'[c]) : inbox'[c][i].session = c
      BY <2>1, <2>2, <2>4, <2>5, SentTypes
    <2>7. TypeOK'
      <3>1. UNCHANGED <<sessions, alive, backlog, asked, running, gvars, received, uvars,
                        sendq, out>>
        BY <1>4 DEF Ask
      <3> QED
        BY <2>3, <2>6, <3>1 DEF TypeOK, gvars, uvars, out
    <2>8. \A c \in Sessions : c > sessions => jobs'[c] = 0
      <3>1. sessions \in Nat
        BY BoundsAssumption DEF TypeOK
      <3>2. \A c \in Sessions : c > sessions => c # s
        BY <2>1, <3>1 DEF Sessions
      <3> QED
        BY <2>2, <3>2 DEF ConnInv
    <2> QED
      BY <1>4, <2>6, <2>7, <2>8 DEF Ask, ConnInv, gvars
  <1> QED
    BY <1>1, <1>2, <1>3, <1>4 DEF ClientStep

LEMMA SeqOfElements ==
  ASSUME NEW S, NEW q, NEW n \in Nat, q \in [1 .. n -> S]
  PROVE  q \in Seq(S)
  BY SeqDef

LEMMA WrittenTypes ==
  ASSUME TypeOK, NEW left \in Seq(Pieces1), NEW n \in 1 .. Len(left), Written(left, n)
  PROVE  /\ wrote' \in Seq(Pieces1 \union {NoPiece}) \ {<<>>}
         /\ Len(wrote') = n + 1 /\ wrote'[1] = Last(wrote)
         /\ \A i \in 1 .. n : wrote'[i + 1] = left[i]
         /\ answered' \subseteq Request
  <1> DEFINE S == Pieces1 \union {NoPiece}
             a == <<Last(wrote)>>
             b == SubSeq(left, 1, n)
  <1>1. /\ wrote \in Seq(S) /\ Len(wrote) \in Nat \ {0}
        /\ \A i \in 1 .. Len(wrote) : wrote[i] \in S
    BY EmptySeq, ElementOfSeq DEF TypeOK
  <1>2. /\ left \in Seq(S) /\ Len(left) \in Nat
        /\ \A i \in 1 .. Len(left) : left[i] \in Pieces1
    BY SeqMonotonic, LenProperties, ElementOfSeq
  <1>3. n \in Nat /\ n >= 1 /\ n <= Len(left) /\ n \in 0 .. Len(left)
    BY <1>2
  <1>4. b \in Seq(S) /\ Len(b) = n /\ \A k \in 1 .. n : b[k] = left[k]
    BY <1>2, <1>3, Prefix
  <1>5. a \in Seq(S) /\ Len(a) = 1 /\ a[1] = Last(wrote)
    BY <1>1 DEF Last
  <1>6. wrote' = a \o b
    BY DEF Written
  <1> HIDE DEF a, b
  <1>7. /\ a \o b \in Seq(S) /\ Len(a \o b) = Len(a) + Len(b)
        /\ \A k \in 1 .. Len(a) + Len(b) :
             (a \o b)[k] = IF k <= Len(a) THEN a[k] ELSE b[k - Len(a)]
    BY <1>4, <1>5, ConcatProperties
  <1>8. /\ wrote' \in Seq(S) /\ Len(wrote') = n + 1 /\ wrote'[1] = Last(wrote)
        /\ \A i \in 1 .. n : wrote'[i + 1] = left[i]
    BY <1>3, <1>4, <1>5, <1>6, <1>7
  <1>9. wrote' # <<>>
    BY <1>3, <1>8, EmptySeq
  <1>10. answered' \subseteq Request
    <2>1. \A i \in 1 .. n : left[i].req \in Request
      BY <1>2, <1>3 DEF Pieces1
    <2> QED
      BY <2>1 DEF Written, TypeOK
  <1> QED
    BY <1>8, <1>9, <1>10

EntriesAny == [req: Request, left: Seq(Pieces1)]

LEMMA EntryTypes ==
  /\ Entries \subseteq EntriesAny
  /\ \A e \in EntriesAny : e.left # <<>> => e \in Entries
  /\ \A e \in Entries : e.left # <<>> /\ e.left \in Seq(Pieces1) /\ e.req \in Request
  BY DEF Entries, EntriesAny

\* The task at the front loses n pieces, and its place if it has no more.
LEMMA SendFacts ==
  ASSUME TypeOK, NEW n \in 1 .. (IF sendq = <<>> THEN 0 ELSE Len(sendq[1].left)),
         SendChunk(n)
  PROVE  /\ sendq \in Seq(Entries) /\ Len(sendq) \in Nat \ {0}
         /\ \A i \in 1 .. Len(sendq) : sendq[i] \in Entries
         /\ sendq[1].left \in Seq(Pieces1) /\ Written(sendq[1].left, n)
         /\ Len(sendq[1].left) \in Nat /\ n \in 1 .. Len(sendq[1].left)
         /\ sendq' \in Seq(Entries) /\ Len(sendq') \in Nat
         /\ n < Len(sendq[1].left) =>
              /\ Len(sendq') = Len(sendq)
              /\ sendq'[1].req = sendq[1].req
              /\ sendq'[1].left = SubSeq(sendq[1].left, n + 1, Len(sendq[1].left))
              /\ \A k \in 2 .. Len(sendq) : sendq'[k] = sendq[k]
         /\ n = Len(sendq[1].left) =>
              /\ Len(sendq') = Len(sendq) - 1
              /\ \A k \in 1 .. Len(sendq) - 1 :
                   sendq'[k] = sendq[IF k = 1 THEN Len(sendq) ELSE k]
  <1>1. /\ sendq # <<>> /\ n \in 1 .. Len(sendq[1].left)
        /\ Written(sendq[1].left, n)
        /\ sendq' = AfterSending([sendq EXCEPT ![1].left = SubSeq(@, n + 1, Len(@))])
    BY DEF SendChunk
  <1>2. sendq \in Seq(Entries)
    BY DEF TypeOK, Entries
  <1>3. /\ Len(sendq) \in Nat \ {0} /\ 1 \in 1 .. Len(sendq)
        /\ \A i \in 1 .. Len(sendq) : sendq[i] \in Entries
    BY <1>1, <1>2, EmptySeq, ElementOfSeq, LenProperties
  <1>4. /\ sendq[1].left \in Seq(Pieces1) /\ sendq[1].req \in Request
        /\ Len(sendq[1].left) \in Nat
    BY <1>3, EntryTypes, LenProperties
  <1> DEFINE left == sendq[1].left
             rest == SubSeq(left, n + 1, Len(left))
             entry == [sendq[1] EXCEPT !.left = rest]
             q == [sendq EXCEPT ![1] = entry]
  <1>5. sendq' = AfterSending(q)
    BY <1>1
  <1>6. n \in 0 .. Len(left)
    BY <1>1, <1>4
  <1>7. rest \in Seq(Pieces1) /\ Len(rest) = Len(left) - n
    BY <1>4, <1>6, Suffix
  <1>8. entry \in EntriesAny /\ entry.left = rest /\ entry.req = sendq[1].req
    <2> HIDE DEF rest
    <2> QED
      BY <1>3, <1>4, <1>7 DEF Entries, EntriesAny
  <1>9. sendq \in Seq(EntriesAny)
    BY <1>2, EntryTypes, SeqMonotonic
  <1> HIDE DEF entry
  <1>10. /\ q \in Seq(EntriesAny) /\ Len(q) = Len(sendq) /\ q[1] = entry
         /\ \A i \in 2 .. Len(sendq) : q[i] = sendq[i]
    BY <1>3, <1>8, <1>9, ExceptSeq
  <1> HIDE DEF q
  <1>11. q # <<>>
    BY <1>3, <1>10, EmptySeq
  <1>12. /\ sendq' \in Seq(EntriesAny)
         /\ rest # <<>> => sendq' = q
         /\ rest = <<>> =>
              /\ Len(sendq') = Len(q) - 1
              /\ \A k \in 1 .. Len(q) - 1 :
                   sendq'[k] = IF k = 1 THEN q[Len(q)] ELSE q[k]
    <2>1. q[1].left = rest
      BY <1>8, <1>10
    <2>2. /\ AfterSending(q) \in Seq(EntriesAny)
          /\ q[1].left # <<>> => AfterSending(q) = q
          /\ q[1].left = <<>> =>
               /\ Len(AfterSending(q)) = Len(q) - 1
               /\ \A k \in 1 .. Len(q) - 1 :
                    AfterSending(q)[k] = IF k = 1 THEN q[Len(q)] ELSE q[k]
      BY <1>10, <1>11, Partitioned
    <2> HIDE DEF rest
    <2> QED
      BY <1>5, <2>1, <2>2
  <1>13. rest = <<>> <=> n = Len(left)
    <2> HIDE DEF rest
    <2>1. rest = <<>> <=> Len(rest) = 0
      BY <1>7, EmptySeq
    <2> QED
      BY <1>1, <1>4, <1>7, <2>1
  <1>14. n = Len(left) =>
           /\ Len(sendq') = Len(sendq) - 1
           /\ \A k \in 1 .. Len(sendq) - 1 :
                sendq'[k] = sendq[IF k = 1 THEN Len(sendq) ELSE k]
    <2> SUFFICES ASSUME n = Len(left), NEW k \in 1 .. Len(sendq) - 1
                 PROVE  sendq'[k] = sendq[IF k = 1 THEN Len(sendq) ELSE k]
      BY <1>10, <1>12, <1>13
    <2>1. sendq'[k] = IF k = 1 THEN q[Len(q)] ELSE q[k]
      BY <1>10, <1>12, <1>13
    <2>2. (IF k = 1 THEN Len(sendq) ELSE k) \in 2 .. Len(sendq)
      BY <1>3
    <2> QED
      BY <1>10, <2>1, <2>2
  <1>15. n < Len(left) => rest # <<>>
    BY <1>1, <1>4, <1>13
  <1>16. n < Len(left) =>
           /\ Len(sendq') = Len(sendq)
           /\ sendq'[1].req = sendq[1].req /\ sendq'[1].left = rest
           /\ \A k \in 2 .. Len(sendq) : sendq'[k] = sendq[k]
    BY <1>8, <1>10, <1>12, <1>15
  <1>17. sendq' \in Seq(Entries)
    <2>1. Len(sendq') \in Nat /\ sendq' \in [1 .. Len(sendq') -> EntriesAny]
      BY <1>12, LenProperties
    <2>2. \A k \in 1 .. Len(sendq') : sendq'[k].left # <<>>
      <3> SUFFICES ASSUME NEW k \in 1 .. Len(sendq') PROVE sendq'[k].left # <<>>
        OBVIOUS
      <3>1. CASE n = Len(left)
        <4>1. k \in 1 .. Len(sendq) - 1
          BY <1>14, <3>1
        <4>2. (IF k = 1 THEN Len(sendq) ELSE k) \in 1 .. Len(sendq)
          BY <1>3, <4>1
        <4> QED
          BY <1>3, <1>14, <3>1, <4>1, <4>2, EntryTypes
      <3>2. CASE n < Len(left)
        <4>1. CASE k = 1
          BY <1>15, <1>16, <3>2, <4>1
        <4>2. CASE k # 1
          <5>1. k \in 2 .. Len(sendq) /\ k \in 1 .. Len(sendq)
            BY <1>3, <1>16, <3>2, <4>2
          <5> QED
            BY <1>3, <1>16, <3>2, <5>1, EntryTypes
        <4> QED
          BY <4>1, <4>2
      <3> QED
        BY <1>1, <1>4, <3>1, <3>2
    <2>3. \A k \in 1 .. Len(sendq') : sendq'[k] \in Entries
      BY <2>1, <2>2, EntryTypes
    <2>4. sendq' \in [1 .. Len(sendq') -> Entries]
      BY <2>1, <2>3
    <2> QED
      BY <2>1, <2>4, SeqOfElements
  <1>18. Len(sendq') \in Nat
    BY <1>17, LenProperties
  <1> QED
    BY <1>1, <1>2, <1>3, <1>4, <1>14, <1>16, <1>17, <1>18

LEMMA GateTypes ==
  ASSUME TypeInv, GateStep
  PROVE  TypeInv'
  <1> USE DEF TypeInv
  <1>0. client \in Nat /\ sessions \in Nat
    BY BoundsAssumption DEF TypeOK, Sessions, NoClient
  <1>1. CASE Accept
    <2>1. /\ backlog \in Seq(Sessions) /\ backlog # <<>>
          /\ client' = Head(backlog) /\ backlog' = Tail(backlog)
      BY <1>1 DEF Accept, TypeOK
    <2>2. /\ client' \in Sessions /\ backlog' \in Seq(Sessions) /\ client' = backlog[1]
          /\ Len(backlog') = Len(backlog) - 1 /\ Len(backlog) \in Nat \ {0}
          /\ \A i \in 1 .. Len(backlog') : backlog'[i] = backlog[i + 1]
          /\ DOMAIN backlog = 1 .. Len(backlog) /\ DOMAIN backlog' = 1 .. Len(backlog')
      BY <2>1, HeadTailProperties, EmptySeq, LenProperties
    <2>3. \A i, j \in 1 .. Len(backlog) : backlog[i] = backlog[j] => i = j
      BY <2>2 DEF IsInjective, TypeOK
    <2>4. \A i \in 1 .. Len(backlog) : backlog[i] <= sessions
      BY DEF ConnInv
    <2>5. IsInjective(backlog')
      <3>1. \A i, j \in 1 .. Len(backlog') : backlog'[i] = backlog'[j] => i = j
        <4> SUFFICES ASSUME NEW i \in 1 .. Len(backlog'), NEW j \in 1 .. Len(backlog'),
                            backlog'[i] = backlog'[j]
                     PROVE  i = j
          OBVIOUS
        <4>1. i + 1 \in 1 .. Len(backlog) /\ j + 1 \in 1 .. Len(backlog)
          BY <2>2
        <4>2. backlog[i + 1] = backlog[j + 1]
          BY <2>2
        <4>3. i + 1 = j + 1
          BY <2>3, <4>1, <4>2
        <4> QED
          BY <4>3
      <3> QED
        BY <2>2, <3>1 DEF IsInjective
    <2>6. TypeOK'
      BY <1>1, <2>2, <2>5 DEF Accept, TypeOK, evars, uvars, out
    <2>7. /\ client' <= sessions
          /\ \A i \in 1 .. Len(backlog') : backlog'[i] <= sessions /\ backlog'[i] # client'
      <3>1. 1 \in 1 .. Len(backlog)
        BY <2>2
      <3>2. client' <= sessions
        BY <2>2, <2>4, <3>1
      <3>3. \A i \in 1 .. Len(backlog') : i + 1 \in 1 .. Len(backlog) /\ i + 1 # 1
        BY <2>2
      <3> QED
        BY <2>2, <2>3, <2>4, <3>1, <3>2, <3>3
    <2> QED
      BY <1>1, <2>6, <2>7 DEF Accept, ConnInv, evars
  <1>2. CASE LeaveLoop \/ SendNothing
    BY <1>2 DEF LeaveLoop, SendNothing, TypeOK, ConnInv, evars, uvars, out, NoClient
  <1>3. ASSUME NEW n \in 1 .. (IF sendq = <<>> THEN 0 ELSE Len(sendq[1].left)), SendChunk(n)
        PROVE  TypeInv'
    <2>1. /\ sendq[1].left \in Seq(Pieces1) /\ Written(sendq[1].left, n)
          /\ n \in 1 .. Len(sendq[1].left) /\ sendq' \in Seq(Entries)
      BY <1>3, SendFacts
    <2>2. /\ wrote' \in Seq(Pieces1 \union {NoPiece}) \ {<<>>}
          /\ answered' \subseteq Request
      BY <2>1, WrittenTypes
    <2>3. TypeOK'
      BY <1>3, <2>1, <2>2 DEF SendChunk, TypeOK, Entries, evars, uvars
    <2> QED
      BY <1>3, <2>3 DEF SendChunk, ConnInv, evars
  <1>4. ASSUME NEW n \in Nat, client \in Sessions, Receive(n)
        PROVE  TypeInv'
    <2> DEFINE box == inbox[client]
    <2>1. /\ box \in Seq(Messages) /\ n \in 0 .. Len(box) /\ Len(box) \in Nat
          /\ frames' = SubSeq(box, 1, n)
          /\ inbox' = [inbox EXCEPT ![client] = SubSeq(box, n + 1, Len(box))]
      BY <1>4, LenProperties DEF Receive, TypeOK
    <2>2. frames' \in Seq(Messages)
      BY <2>1, Prefix
    <2>3. /\ SubSeq(box, n + 1, Len(box)) \in Seq(Messages)
          /\ Len(SubSeq(box, n + 1, Len(box))) = Len(box) - n
          /\ \A k \in 1 .. Len(box) - n : SubSeq(box, n + 1, Len(box))[k] = box[n + k]
      BY <2>1, Suffix
    <2>4. /\ inbox' \in [Sessions -> Seq(Messages)]
          /\ inbox'[client] = SubSeq(box, n + 1, Len(box))
          /\ \A s \in Sessions \ {client} : inbox'[s] = inbox[s]
      BY <1>4, <2>1, <2>3 DEF TypeOK
    <2>5. active' \in BOOLEAN
      BY <1>4 DEF Receive
    <2>6. TypeOK'
      BY <1>4, <2>2, <2>4, <2>5 DEF Receive, TypeOK, evars, uvars, out
    <2>7. \A s \in Sessions : \A i \in 1 .. Len(inbox'[s]) : inbox'[s][i].session = s
      <3>1. \A i \in 1 .. Len(inbox'[client]) : inbox'[client][i].session = client
        BY <1>4, <2>1, <2>3, <2>4 DEF ConnInv
      <3> QED
        BY <2>4, <3>1 DEF ConnInv
    <2> QED
      BY <1>4, <2>6, <2>7 DEF Receive, ConnInv, evars
  <1>5. CASE ReceiveSome \/ Receive(0)
    <2>1. CASE ReceiveSome
      <3>1. client \in Sessions
        BY <2>1 DEF ReceiveSome, TypeOK
      <3>2. Len(inbox[client]) \in Nat
        BY <3>1, LenProperties DEF TypeOK
      <3>3. PICK n \in Nat : Receive(n)
        BY <2>1, <3>2 DEF ReceiveSome
      <3> QED
        BY <1>4, <3>1, <3>3
    <2>2. CASE Receive(0)
      <3>1. client \in Sessions
        BY <2>2 DEF Receive, TypeOK
      <3> QED
        BY <1>4, <2>2, <3>1
    <2> QED
      BY <1>5, <2>1, <2>2
  <1>6. CASE HandleTelegram
    <2>1. frames \in Seq(Messages) /\ frames # <<>> /\ frames' = Tail(frames)
      BY <1>6 DEF HandleTelegram, TypeOK
    <2>2. Head(frames) \in Messages /\ frames' \in Seq(Messages)
      BY <2>1, HeadTailProperties
    <2>3. active' \in BOOLEAN /\ received' \in Seq(Tasks)
      <3>1. CASE Head(frames).cmd = EchoCmd
        BY <1>6, <3>1 DEF HandleTelegram, TypeOK
      <3>2. CASE Head(frames).cmd # EchoCmd
        <4>1. NewTask(Head(frames)) \in Tasks /\ received \in Seq(Tasks)
          BY <2>2, <3>2, MessageTypes DEF NewTask, Tasks, TypeOK
        <4>2. received' = Append(received, NewTask(Head(frames))) /\ active' = active
          BY <1>6, <3>2 DEF HandleTelegram
        <4> QED
          BY <4>1, <4>2, AppendProperties DEF TypeOK
      <3> QED
        BY <3>1, <3>2
    <2>4. TypeOK'
      BY <1>6, <2>2, <2>3 DEF HandleTelegram, TypeOK, evars, uvars, out
    <2> QED
      BY <1>6, <2>4 DEF HandleTelegram, ConnInv, evars
  <1>7. CASE Track
    <2>1. asked' \subseteq Sessions /\ gpc' = "turn"
      BY <1>7 DEF Track, TypeOK, NoClient
    <2>2. TypeOK'
      BY <1>7, <2>1 DEF Track, TypeOK, evars, uvars, out
    <2> QED
      BY <1>7, <2>2 DEF Track, ConnInv, evars
  <1>8. CASE DropClient
    <2>1. client \in Sessions /\ <<>> \in Seq(Messages)
      BY <1>8, EmptySeq DEF DropClient, TypeOK
    <2>2. /\ inbox' = [inbox EXCEPT ![client] = <<>>] /\ inbox \in [Sessions -> Seq(Messages)]
          /\ Len(<<>>) = 0
      BY <1>8, EmptySeq DEF DropClient, TypeOK
    <2>3. /\ inbox' \in [Sessions -> Seq(Messages)]
          /\ Len(inbox'[client]) = 0
          /\ \A s \in Sessions \ {client} : inbox'[s] = inbox[s]
      BY <2>1, <2>2
    <2>4. alive' \subseteq alive /\ asked' \subseteq asked /\ client' = NoClient
      BY <1>8 DEF DropClient
    <2>5. TypeOK'
      BY <1>8, <2>3, <2>4 DEF DropClient, TypeOK, uvars, out
    <2>6. \A i \in 1 .. Len(backlog) : backlog[i] # client'
      <3>1. backlog \in Seq(Sessions)
        BY DEF TypeOK
      <3>2. \A i \in 1 .. Len(backlog) : backlog[i] \in Sessions
        BY <3>1, ElementOfSeq
      <3>3. NoClient \notin Sessions
        BY BoundsAssumption DEF Sessions, NoClient
      <3> QED
        BY <2>4, <3>2, <3>3
    <2>7. \A s \in Sessions : \A i \in 1 .. Len(inbox'[s]) : inbox'[s][i].session = s
      BY <2>3 DEF ConnInv
    <2> QED
      <3>1. UNCHANGED <<sessions, backlog, jobs>>
        BY <1>8 DEF DropClient
      <3>2. alive' \subseteq 1 .. sessions' /\ client' <= sessions'
        BY <1>0, <2>4, <3>1 DEF ConnInv, NoClient
      <3>3. ConnInv'
        BY <2>6, <2>7, <3>1, <3>2 DEF ConnInv
      <3> QED
        BY <2>5, <3>3
  <1> QED
    BY <1>1, <1>2, <1>3, <1>5, <1>6, <1>7, <1>8 DEF GateStep, SendSome

LEMMA BakedTypes ==
  ASSUME NEW q \in Seq(Tasks), \A i \in 1 .. Len(q) : Finished(q[i])
  PROVE  /\ [i \in DOMAIN q |-> Baked(q[i])] \in Seq(Entries)
         /\ Len([i \in DOMAIN q |-> Baked(q[i])]) = Len(q)
  <1> DEFINE b == [i \in DOMAIN q |-> Baked(q[i])]
             n == Len(q)
  <1>1. n \in Nat /\ DOMAIN q = 1 .. n /\ \A i \in 1 .. n : q[i] \in Tasks /\ Finished(q[i])
    BY LenProperties, ElementOfSeq
  <1>2. \A i \in 1 .. n : Baked(q[i]) \in Entries
    BY <1>1, BakedIsWellFormed
  <1>3. b \in [1 .. n -> Entries]
    BY <1>1, <1>2
  <1> HIDE DEF b, n
  <1>4. b \in Seq(Entries)
    BY <1>1, <1>3, SeqOfElements
  <1>5. Len(b) \in Nat /\ DOMAIN b = 1 .. Len(b) /\ DOMAIN b = 1 .. n
    BY <1>3, <1>4, LenProperties
  <1>6. Len(b) = n
    <2> DEFINE l == Len(b)
    <2>1. l \in Nat /\ n \in Nat /\ 1 .. l = 1 .. n
      BY <1>1, <1>5
    <2> HIDE DEF l
    <2>2. l = n
      <3>1. l >= 1 => l \in 1 .. n
        BY <2>1
      <3>2. n >= 1 => n \in 1 .. l
        BY <2>1
      <3> QED
        BY <2>1, <3>1, <3>2
    <2> QED
      BY <2>2 DEF l
  <1> QED
    BY <1>4, <1>6 DEF b, n

\* Only finished tasks are taken from the resolver.
TakenInv == ui = "take" => \A i \in 1 .. Len(buff) : Finished(buff[i])

LEMMA InitTaken == Init => TakenInv
  BY DEF Init, TakenInv

LEMMA UITypes ==
  ASSUME TypeInv, TakenInv, UIStep
  PROVE  TypeInv' /\ TakenInv'
  <1> USE DEF TypeInv
  <1>0. /\ received \in Seq(Tasks) /\ buff \in Seq(Tasks) /\ tasks \in Seq(Tasks)
        /\ sendq \in Seq(Entries) /\ <<>> \in Seq(Tasks) /\ Len(<<>>) = 0
    BY EmptySeq DEF TypeOK, Entries
  <1>1. CASE TakeReceived
    <2>1. TypeOK'
      BY <1>0, <1>1 DEF TakeReceived, TypeOK, evars, gvars, out
    <2> QED
      BY <1>1, <2>1 DEF TakeReceived, ConnInv, TakenInv, evars, gvars
  <1>2. CASE OwnNext
    <2>1. Head(buff) \in Tasks /\ Tail(buff) \in Seq(Tasks)
      BY <1>0, <1>2, HeadTailProperties DEF OwnNext
    <2>2. Head(buff).req \in Request
      BY <2>1 DEF Tasks
    <2>3. tasks' \in Seq(Tasks) /\ buff' \in Seq(Tasks)
      BY <1>0, <1>2, <2>1, <2>2, Owned DEF OwnNext
    <2>4. TypeOK'
      BY <1>2, <2>3 DEF OwnNext, TypeOK, evars, gvars, out
    <2> QED
      BY <1>2, <2>4 DEF OwnNext, ConnInv, TakenInv, evars, gvars
  <1>3. CASE Resolve
    <2>1. tasks' \in Seq(Tasks)
      <3>1. CASE ready
        <4> DEFINE e(i) == IF ~Finished(tasks[i]) /\ tasks[i].req.cmd \in Known
                             THEN [tasks[i] EXCEPT !.responses = 1] ELSE tasks[i]
        <4>1. /\ Len(tasks) \in Nat /\ DOMAIN tasks = 1 .. Len(tasks)
              /\ \A i \in 1 .. Len(tasks) : tasks[i] \in Tasks
          BY <1>0, LenProperties, ElementOfSeq
        <4>2. \A i \in 1 .. Len(tasks) : e(i) \in Tasks
          BY <4>1 DEF Tasks
        <4>3. tasks' = [i \in 1 .. Len(tasks) |-> e(i)]
          BY <1>3, <3>1, <4>1 DEF Resolve
        <4> HIDE DEF e
        <4>4. tasks' \in [1 .. Len(tasks) -> Tasks]
          BY <4>2, <4>3
        <4> QED
          BY <4>1, <4>4, SeqOfElements
      <3>2. CASE ~ready
        BY <1>0, <1>3, <3>2 DEF Resolve
      <3> QED
        BY <3>1, <3>2
    <2>2. ui' \in {"idle", "own", "take"} /\ buff = <<>>
      BY <1>3 DEF Resolve
    <2>3. TypeOK'
      BY <1>3, <2>1, <2>2 DEF Resolve, TypeOK, evars, gvars, out
    <2> QED
      BY <1>0, <1>3, <2>2, <2>3 DEF Resolve, ConnInv, TakenInv, evars, gvars
  <1>4. ASSUME NEW i \in DOMAIN tasks, TakeFinished(i)
        PROVE  TypeInv' /\ TakenInv'
    <2>1. i \in 1 .. Len(tasks) /\ tasks[i] \in Tasks
      BY <1>0, LenProperties, ElementOfSeq
    <2>2. tasks' \in Seq(Tasks)
      BY <1>0, <1>4, <2>1, Removed DEF TakeFinished
    <2>3. /\ buff' \in Seq(Tasks) /\ Len(buff') = Len(buff) + 1 /\ Len(buff) \in Nat
          /\ \A k \in 1 .. Len(buff) : buff'[k] = buff[k]
          /\ buff'[Len(buff) + 1] = tasks[i]
      BY <1>0, <1>4, <2>1, AppendProperties, LenProperties DEF TakeFinished
    <2>4. TypeOK'
      BY <1>4, <2>2, <2>3 DEF TakeFinished, TypeOK, evars, gvars, out
    <2>5. \A k \in 1 .. Len(buff') : Finished(buff'[k])
      BY <1>4, <2>3 DEF TakeFinished, TakenInv
    <2> QED
      BY <1>4, <2>4, <2>5 DEF TakeFinished, ConnInv, TakenInv, evars, gvars
  <1>5. CASE Report
    <2> DEFINE b == [i \in DOMAIN buff |-> Baked(buff[i])]
    <2>1. b \in Seq(Entries)
      BY <1>0, <1>5, BakedTypes DEF Report, TakenInv
    <2>2. sendq' = sendq \o b
      BY <1>5 DEF Report
    <2> HIDE DEF b
    <2>3. sendq' \in Seq(Entries)
      BY <1>0, <2>1, <2>2, ConcatProperties
    <2>4. TypeOK'
      BY <1>0, <1>5, <2>3 DEF Report, TypeOK, Entries, evars, gvars, out
    <2> QED
      BY <1>5, <2>4 DEF Report, ConnInv, TakenInv, evars, gvars
  <1> QED
    BY <1>1, <1>2, <1>3, <1>4, <1>5 DEF UIStep

LEMMA StepTypes ==
  ASSUME TypeInv, TakenInv, [Next]_vars
  PROVE  TypeInv' /\ TakenInv'
  <1>1. CASE ClientStep \/ GateStep
    <2>1. TypeInv'
      BY <1>1, ClientTypes, GateTypes
    <2>2. ui' = ui /\ buff' = buff
      BY <1>1 DEF ClientStep, GateStep, SendSome, ReceiveSome, Connect, AnswerEcho, Depart,
                  Ask, Accept, LeaveLoop, SendChunk, SendNothing, Receive, HandleTelegram,
                  Track, DropClient, uvars
    <2> QED
      BY <2>1, <2>2 DEF TakenInv
  <1>2. CASE UIStep
    BY <1>2, UITypes
  <1>3. CASE TimingReady \/ Stop \/ Stopped \/ UNCHANGED vars
    BY <1>3 DEF TimingReady, Stop, Stopped, vars, TypeInv, TypeOK, ConnInv, TakenInv,
                evars, gvars, uvars, out
  <1> QED
    BY <1>1, <1>2, <1>3 DEF Next

-------------------------------------------------------------------------------
(* Responses *)

\* The task at the front goes on where the last write ended; the others have not
\* been begun, and what is left of each is whole responses from there on.
ResponseInv ==
  /\ ResponsesWhole
  /\ \A i \in 1 .. Len(sendq) : WellFormed(sendq[i])
  /\ \A i \in 2 .. Len(sendq) : sendq[i].left[1].part = 1
  /\ IF sendq = <<>> THEN Last(wrote).part = Pieces
                     ELSE Follows(Last(wrote), sendq[1].left[1])

LEMMA InitResponses == Init => ResponseInv
  <1> SUFFICES ASSUME Init PROVE ResponseInv
    OBVIOUS
  <1>1. wrote = <<NoPiece>> /\ sendq = <<>> /\ Len(wrote) = 1 /\ Len(sendq) = 0
    BY DEF Init
  <1>2. Last(wrote).part = Pieces
    BY <1>1 DEF Last, NoPiece, Piece
  <1> QED
    BY <1>1, <1>2 DEF ResponseInv, ResponsesWhole

\* What is left after n pieces of a task is well formed as well.
LEMMA RestIsWellFormed ==
  ASSUME NEW e \in Entries, NEW f \in Entries, WellFormed(e),
         NEW n \in 1 .. Len(e.left), n < Len(e.left),
         f.req = e.req, f.left = SubSeq(e.left, n + 1, Len(e.left))
  PROVE  WellFormed(f) /\ f.left[1] = e.left[n + 1]
  <1>0. e.left \in Seq(Pieces1) /\ Len(e.left) \in Nat
    BY EntryTypes, LenProperties
  <1> DEFINE l == Len(e.left)
             rest == f.left
  <1>1. n \in 0 .. l /\ l \in Nat /\ n < l /\ n \in Nat
    BY <1>0
  <1>2. Len(rest) = l - n /\ \A k \in 1 .. l - n : rest[k] = e.left[n + k]
    BY <1>0, <1>1, Suffix
  <1>3. /\ e.left[l].part = Pieces
        /\ \A k \in 1 .. l : e.left[k].req = f.req
        /\ \A k \in 1 .. l - 1 : Follows(e.left[k], e.left[k + 1])
    BY DEF WellFormed
  <1> HIDE DEF l, rest
  <1>4. rest[l - n].part = Pieces
    <2>1. l - n \in 1 .. l - n /\ n + (l - n) = l
      BY <1>1
    <2> QED
      BY <1>2, <1>3, <2>1
  <1>5. \A k \in 1 .. l - n : rest[k].req = f.req
    <2> SUFFICES ASSUME NEW k \in 1 .. l - n PROVE rest[k].req = f.req
      OBVIOUS
    <2>1. n + k \in 1 .. l
      BY <1>1
    <2> QED
      BY <1>2, <1>3, <2>1
  <1>6. \A k \in 1 .. (l - n) - 1 : Follows(rest[k], rest[k + 1])
    <2> SUFFICES ASSUME NEW k \in 1 .. (l - n) - 1 PROVE Follows(rest[k], rest[k + 1])
      OBVIOUS
    <2>1. /\ k \in 1 .. l - n /\ k + 1 \in 1 .. l - n /\ n + k \in 1 .. l - 1
          /\ n + (k + 1) = (n + k) + 1
      BY <1>1
    <2> QED
      BY <1>2, <1>3, <2>1
  <1>7. rest[1] = e.left[n + 1]
    BY <1>1, <1>2
  <1> QED
    BY <1>2, <1>4, <1>5, <1>6, <1>7 DEF WellFormed, rest

LEMMA SendResponses ==
  ASSUME TypeOK, ResponseInv,
         NEW n \in 1 .. (IF sendq = <<>> THEN 0 ELSE Len(sendq[1].left)), SendChunk(n)
  PROVE  ResponseInv'
  <1> DEFINE left == sendq[1].left
             l == Len(left)
  <1>1. /\ sendq \in Seq(Entries) /\ Len(sendq) \in Nat \ {0} /\ 1 \in 1 .. Len(sendq)
        /\ \A i \in 1 .. Len(sendq) : sendq[i] \in Entries
        /\ left \in Seq(Pieces1) /\ Written(left, n)
        /\ l \in Nat /\ n \in 1 .. l
        /\ sendq' \in Seq(Entries) /\ Len(sendq') \in Nat
    BY SendFacts
  <1>2. /\ n < l => /\ Len(sendq') = Len(sendq)
                    /\ sendq'[1].req = sendq[1].req
                    /\ sendq'[1].left = SubSeq(left, n + 1, l)
                    /\ \A k \in 2 .. Len(sendq) : sendq'[k] = sendq[k]
        /\ n = l => /\ Len(sendq') = Len(sendq) - 1
                    /\ \A k \in 1 .. Len(sendq) - 1 :
                         sendq'[k] = sendq[IF k = 1 THEN Len(sendq) ELSE k]
    BY SendFacts
  <1>3. /\ wrote' \in Seq(Pieces1 \union {NoPiece}) /\ Len(wrote') = n + 1
        /\ wrote'[1] = Last(wrote) /\ \A i \in 1 .. n : wrote'[i + 1] = left[i]
    BY <1>1, WrittenTypes
  <1>4. /\ WellFormed(sendq[1]) /\ Follows(Last(wrote), left[1])
        /\ left[l].part = Pieces /\ \A k \in 1 .. l - 1 : Follows(left[k], left[k + 1])
    <2>1. sendq # <<>>
      BY <1>1, EmptySeq
    <2>2. WellFormed(sendq[1])
      BY <1>1 DEF ResponseInv
    <2> QED
      BY <2>1, <2>2 DEF ResponseInv, WellFormed
  <1>5. Last(wrote') = left[n]
    <2>1. n + 1 = Len(wrote') /\ n \in 1 .. n
      BY <1>1, <1>3
    <2> QED
      BY <1>3, <2>1 DEF Last
  <1> HIDE DEF left, l
  <1>6. ResponsesWhole'
    <2> SUFFICES ASSUME NEW i \in 1 .. n PROVE Follows(wrote'[i], wrote'[i + 1])
      BY <1>1, <1>3 DEF ResponsesWhole, Follows
    <2>1. CASE i = 1
      BY <1>1, <1>3, <1>4, <2>1
    <2>2. CASE i # 1
      <3>1. i - 1 \in 1 .. n /\ i - 1 \in 1 .. l - 1 /\ (i - 1) + 1 = i
        BY <1>1, <2>2
      <3> QED
        BY <1>3, <1>4, <3>1
    <2> QED
      BY <2>1, <2>2
  <1>7. CASE n < l
    <2>1. sendq'[1] \in Entries /\ 1 \in 1 .. Len(sendq')
      BY <1>1, <1>2, <1>7, ElementOfSeq
    <2>2. WellFormed(sendq'[1]) /\ sendq'[1].left[1] = left[n + 1]
      BY <1>1, <1>2, <1>4, <1>7, <2>1, RestIsWellFormed DEF left, l
    <2>3. Follows(left[n], left[n + 1])
      <3>1. n \in 1 .. l - 1
        BY <1>1, <1>7
      <3> QED
        BY <1>4, <3>1
    <2>4. sendq' # <<>>
      BY <1>1, <2>1, EmptySeq
    <2>5. \A i \in 1 .. Len(sendq') : WellFormed(sendq'[i])
      <3> SUFFICES ASSUME NEW i \in 1 .. Len(sendq'), i # 1 PROVE WellFormed(sendq'[i])
        BY <2>2
      <3>1. i \in 2 .. Len(sendq) /\ i \in 1 .. Len(sendq)
        BY <1>1, <1>2, <1>7
      <3> QED
        BY <1>2, <1>7, <3>1 DEF ResponseInv
    <2>6. \A i \in 2 .. Len(sendq') : sendq'[i].left[1].part = 1
      BY <1>2, <1>7 DEF ResponseInv
    <2>7. Follows(Last(wrote'), sendq'[1].left[1])
      BY <1>5, <2>2, <2>3
    <2> QED
      BY <1>6, <2>4, <2>5, <2>6, <2>7 DEF ResponseInv, WellFormed, Follows
  <1>8. CASE n = l
    <2>1. Last(wrote').part = Pieces
      BY <1>4, <1>5, <1>8
    <2>2. \A i \in 1 .. Len(sendq') :
            \E k \in 2 .. Len(sendq) : k \in 1 .. Len(sendq) /\ sendq'[i] = sendq[k]
      <3> SUFFICES ASSUME NEW i \in 1 .. Len(sendq')
                   PROVE  \E k \in 2 .. Len(sendq) :
                            k \in 1 .. Len(sendq) /\ sendq'[i] = sendq[k]
        OBVIOUS
      <3>1. i \in 1 .. Len(sendq) - 1
        BY <1>2, <1>8
      <3>2. (IF i = 1 THEN Len(sendq) ELSE i) \in 2 .. Len(sendq)
        BY <1>1, <3>1
      <3>3. (IF i = 1 THEN Len(sendq) ELSE i) \in 1 .. Len(sendq)
        BY <1>1, <3>1
      <3> QED
        BY <1>2, <1>8, <3>1, <3>2, <3>3
    <2>3. \A i \in 1 .. Len(sendq') : WellFormed(sendq'[i]) /\ sendq'[i].left[1].part = 1
      BY <2>2 DEF ResponseInv
    <2>4. sendq' # <<>> => 1 \in 1 .. Len(sendq')
      BY <1>1, EmptySeq
    <2>5. \A i \in 2 .. Len(sendq') : i \in 1 .. Len(sendq')
      BY <1>1
    <2>6. IF sendq' = <<>> THEN Last(wrote').part = Pieces
                           ELSE Follows(Last(wrote'), sendq'[1].left[1])
      BY <2>1, <2>3, <2>4 DEF Follows
    <2> QED
      BY <1>6, <2>3, <2>5, <2>6 DEF ResponseInv, WellFormed, Follows
  <1> QED
    BY <1>1, <1>7, <1>8

LEMMA ReportResponses ==
  ASSUME TypeOK, TakenInv, ResponseInv, Report
  PROVE  ResponseInv'
  <1> DEFINE b == [i \in DOMAIN buff |-> Baked(buff[i])]
             m == Len(sendq)
             n == Len(buff)
  <1>1. buff \in Seq(Tasks) /\ \A i \in 1 .. n : Finished(buff[i])
    BY DEF TypeOK, Report, TakenInv
  <1>2. sendq \in Seq(Entries) /\ b \in Seq(Entries) /\ Len(b) = n
    BY <1>1, BakedTypes DEF TypeOK, Entries
  <1>3. \A i \in 1 .. n : WellFormed(b[i]) /\ b[i].left[1].part = 1
    <2>1. DOMAIN buff = 1 .. n /\ \A i \in 1 .. n : buff[i] \in Tasks
      BY <1>1, LenProperties, ElementOfSeq
    <2> QED
      BY <1>1, <2>1, BakedIsWellFormed
  <1>4. sendq' = sendq \o b /\ wrote' = wrote
    BY DEF Report, out
  <1>5. m \in Nat /\ n \in Nat
    BY <1>1, <1>2, LenProperties
  <1> HIDE DEF b, n
  <1>6. /\ sendq' \in Seq(Entries) /\ Len(sendq') = m + n
        /\ \A i \in 1 .. m + n : sendq'[i] = IF i <= m THEN sendq[i] ELSE b[i - m]
    BY <1>2, <1>4, ConcatProperties
  <1>7. \A i \in 1 .. Len(sendq) : WellFormed(sendq[i])
    BY DEF ResponseInv
  <1>8. m = 0 <=> sendq = <<>>
    BY <1>2, EmptySeq
  <1>9. m + n = 0 <=> sendq' = <<>>
    BY <1>6, EmptySeq
  <1> HIDE DEF m
  <1>10. \A i \in 1 .. m + n : IF i <= m THEN i \in 1 .. m ELSE i - m \in 1 .. n
    BY <1>5
  <1>11. \A i \in 1 .. m + n : WellFormed(sendq'[i])
    BY <1>3, <1>6, <1>7, <1>10 DEF m
  <1>12. \A i \in 2 .. m + n : i \in 1 .. m + n /\ (i <= m => i \in 2 .. m)
    BY <1>5
  <1>13. \A i \in 2 .. m + n : sendq'[i].left[1].part = 1
    BY <1>3, <1>6, <1>10, <1>12 DEF ResponseInv, m
  <1>14. IF sendq' = <<>> THEN Last(wrote).part = Pieces
                          ELSE Follows(Last(wrote), sendq'[1].left[1])
    <2>1. CASE sendq = <<>>
      <3>1. Last(wrote).part = Pieces
        BY <2>1 DEF ResponseInv
      <3>2. CASE n = 0
        BY <1>5, <1>8, <1>9, <2>1, <3>1, <3>2
      <3>3. CASE n # 0
        <4>1. 1 \in 1 .. m + n /\ ~(1 <= m) /\ 1 - m = 1 /\ 1 \in 1 .. n /\ m + n # 0
          BY <1>5, <1>8, <2>1, <3>3
        <4>2. sendq'[1] = b[1] /\ b[1].left[1].part = 1
          BY <1>3, <1>6, <4>1
        <4> QED
          BY <1>9, <3>1, <4>1, <4>2 DEF Follows
      <3> QED
        BY <3>2, <3>3
    <2>2. CASE sendq # <<>>
      <3>1. 1 \in 1 .. m + n /\ 1 <= m /\ m + n # 0
        BY <1>5, <1>8, <2>2
      <3> QED
        BY <1>6, <1>9, <2>2, <3>1 DEF ResponseInv
    <2> QED
      BY <2>1, <2>2
  <1>15. ResponsesWhole'
    BY <1>4 DEF ResponseInv, ResponsesWhole, Follows
  <1> QED
    BY <1>4, <1>6, <1>11, <1>13, <1>14, <1>15 DEF ResponseInv, WellFormed, Follows

LEMMA StepResponses ==
  ASSUME TypeOK, TakenInv, ResponseInv, [Next]_vars
  PROVE  ResponseInv'
  <1>1. ASSUME UNCHANGED <<sendq, wrote>> PROVE ResponseInv'
    BY <1>1 DEF ResponseInv, ResponsesWhole, WellFormed, Follows
  <1>2. CASE ClientStep
    BY <1>1, <1>2 DEF ClientStep, Connect, AnswerEcho, Depart, Ask, out
  <1>3. CASE SendSome
    BY <1>3, SendResponses DEF SendSome
  <1>4. CASE \/ Accept \/ LeaveLoop \/ SendNothing \/ ReceiveSome \/ Receive(0)
             \/ HandleTelegram \/ Track \/ DropClient
    BY <1>1, <1>4 DEF Accept, LeaveLoop, SendNothing, ReceiveSome, Receive, HandleTelegram,
                      Track, DropClient, out
  <1>5. CASE Report
    BY <1>5, ReportResponses
  <1>6. CASE TakeReceived \/ OwnNext \/ Resolve \/ \E i \in DOMAIN tasks : TakeFinished(i)
    BY <1>1, <1>6 DEF TakeReceived, OwnNext, Resolve, TakeFinished, out
  <1>7. CASE TimingReady \/ Stop \/ Stopped \/ UNCHANGED vars
    BY <1>1, <1>7 DEF TimingReady, Stop, Stopped, vars, out
  <1> QED
    BY <1>2, <1>3, <1>4, <1>5, <1>6, <1>7 DEF Next, GateStep, UIStep

-------------------------------------------------------------------------------
(* The line of a client: its requests, from its socket to the send queue.  As far *)
(* as the resolver they stay in the order in which they were made.                *)

Line(s) == [k \in Stages |-> At(k, s)]

\* The stages where the order is kept, the first to be left first.
Rank == [k \in {"tasks", "own", "received", "frames", "socket"} |->
           CASE k = "tasks"    -> 1
             [] k = "own"      -> 2
             [] k = "received" -> 3
             [] k = "frames"   -> 4
             [] k = "socket"   -> 5]

Before(k, i, l, j) == Rank[k] < Rank[l] \/ (k = l /\ i < j)

Single(L, s) ==
  \A k, l \in Stages : \A i \in DOMAIN L[k], j \in DOMAIN L[l] :
    IsJob(L[k][i], s) /\ IsJob(L[l][j], s) /\ L[k][i].job = L[l][j].job => k = l /\ i = j

Ordered(L, s) ==
  \A k, l \in DOMAIN Rank : \A i \in DOMAIN L[k], j \in DOMAIN L[l] :
    IsJob(L[k][i], s) /\ IsJob(L[l][j], s) /\ Before(k, i, l, j)
    => L[k][i].job < L[l][j].job

Numbered(L, s, n) ==
  \A k \in Stages : \A i \in DOMAIN L[k] : IsJob(L[k][i], s) => L[k][i].job <= n

LineOK(L, s, n) == Single(L, s) /\ Ordered(L, s) /\ Numbered(L, s, n)

\* A stretch of n messages at place i of stage a goes to the end of stage b, or out
\* of the line; what matters is only the requests of client s.
Moves(L, M, s, a, b, i, n, len) ==
  /\ \A k \in Stages \ {a, b} : M[k] = L[k]
  /\ \A j \in DOMAIN M[a] : IsJob(M[a][j], s) =>
       IF j < i THEN j \in DOMAIN L[a] /\ M[a][j] = L[a][j]
                ELSE j + n \in DOMAIN L[a] /\ M[a][j] = L[a][j + n]
  /\ \A j \in DOMAIN M[b] : IsJob(M[b][j], s) =>
       IF j <= len THEN j \in DOMAIN L[b] /\ M[b][j] = L[b][j]
                   ELSE /\ j - len <= n /\ i + (j - len) - 1 \in DOMAIN L[a]
                        /\ M[b][j] = L[a][i + (j - len) - 1]
  /\ \A j \in DOMAIN L[b] : j <= len
  /\ b \in DOMAIN Rank => a \in DOMAIN Rank /\ Rank[a] = Rank[b] + 1 /\ i = 1

Numbering(L, M) ==
  \A k \in Stages : DOMAIN L[k] \subseteq Nat \ {0} /\ DOMAIN M[k] \subseteq Nat \ {0}

LEMMA Moved ==
  ASSUME NEW L, NEW M, NEW s, NEW max, NEW a \in Stages, NEW b \in Stages, a # b,
         NEW i \in Nat \ {0}, NEW n \in Nat, NEW len \in Nat, Numbering(L, M),
         Moves(L, M, s, a, b, i, n, len), LineOK(L, s, max)
  PROVE  LineOK(M, s, max)
  <1> DEFINE from(k, j) == IF k = b /\ j > len THEN a ELSE k
             pos(k, j)  == IF k = b THEN IF j > len THEN i + (j - len) - 1 ELSE j
                           ELSE IF k = a /\ j >= i THEN j + n ELSE j
             Is(k, j)   == k \in Stages /\ j \in DOMAIN M[k] /\ IsJob(M[k][j], s)
  <1> USE DEF Numbering, Moves
  <1>0. \A k, j : Is(k, j) => j \in Nat \ {0}
    OBVIOUS
  <1>1. ASSUME NEW k, NEW j, Is(k, j)
        PROVE  /\ from(k, j) \in Stages /\ pos(k, j) \in DOMAIN L[from(k, j)]
               /\ L[from(k, j)][pos(k, j)] = M[k][j]
               /\ pos(k, j) \in Nat \ {0}
    <2>1. CASE k = a
      BY <1>0, <1>1, <2>1
    <2>2. CASE k = b
      BY <1>0, <1>1, <2>2
    <2>3. CASE k # a /\ k # b
      BY <1>0, <1>1, <2>3
    <2> QED
      BY <2>1, <2>2, <2>3
  <1>2. \A k, j : Is(k, j) /\ k = b /\ j > len => j - len <= n
    BY <1>0
  <1>3. ASSUME NEW k, NEW j, NEW l, NEW m, Is(k, j), Is(l, m),
               from(k, j) = from(l, m), pos(k, j) = pos(l, m)
        PROVE  k = l /\ j = m
    <2>1. j \in Nat \ {0} /\ m \in Nat \ {0}
      BY <1>0, <1>3
    <2>2. CASE k = b
      BY <1>2, <1>3, <2>1, <2>2
    <2>3. CASE k # b
      BY <1>2, <1>3, <2>1, <2>3
    <2> QED
      BY <2>2, <2>3
  <1>4. DOMAIN Rank \subseteq Stages /\ \A k \in DOMAIN Rank : Rank[k] \in Nat
    BY DEF Rank, Stages
  <1>5. \A k, l \in DOMAIN Rank : Rank[k] = Rank[l] => k = l
    BY DEF Rank
  <1>6. ASSUME NEW k \in DOMAIN Rank, NEW j, NEW l \in DOMAIN Rank, NEW m,
               Is(k, j), Is(l, m), Before(k, j, l, m)
        PROVE  /\ from(k, j) \in DOMAIN Rank /\ from(l, m) \in DOMAIN Rank
               /\ Before(from(k, j), pos(k, j), from(l, m), pos(l, m))
    <2>1. j \in Nat \ {0} /\ m \in Nat \ {0} /\ Rank[k] \in Nat /\ Rank[l] \in Nat
      BY <1>0, <1>4, <1>6
    <2>2. from(k, j) \in DOMAIN Rank /\ from(l, m) \in DOMAIN Rank
      OBVIOUS
    <2>3. CASE k = l
      <3>1. j < m
        BY <1>6, <2>1, <2>3 DEF Before
      <3>2. CASE k = b
        BY <1>2, <1>4, <1>6, <2>1, <2>3, <3>1, <3>2 DEF Before
      <3>3. CASE k # b
        BY <1>6, <2>1, <2>3, <3>1, <3>3 DEF Before
      <3> QED
        BY <3>2, <3>3
    <2>4. CASE k # l
      <3>1. Rank[k] < Rank[l]
        BY <1>6, <2>4 DEF Before
      <3>2. CASE k = b
        <4>1. CASE j > len /\ l = a
          BY <1>2, <1>6, <2>1, <3>2, <4>1 DEF Before
        <4>2. CASE j > len /\ l # a
          <5>1. Rank[a] < Rank[l]
            BY <1>4, <1>5, <2>1, <3>1, <3>2, <4>2
          <5> QED
            BY <2>4, <3>2, <4>2, <5>1 DEF Before
        <4>3. CASE ~(j > len)
          BY <2>4, <3>1, <3>2, <4>3 DEF Before
        <4> QED
          BY <4>1, <4>2, <4>3
      <3>3. CASE l = b
        <4>1. CASE m > len
          <5>1. Rank[k] < Rank[a]
            BY <1>4, <2>1, <3>1, <3>3
          <5> QED
            BY <2>4, <3>3, <4>1, <5>1 DEF Before
        <4>2. CASE ~(m > len)
          BY <2>4, <3>1, <3>3, <4>2 DEF Before
        <4> QED
          BY <4>1, <4>2
      <3>4. CASE k # b /\ l # b
        BY <3>1, <3>4 DEF Before
      <3> QED
        BY <3>2, <3>3, <3>4
    <2> QED
      BY <2>2, <2>3, <2>4
  <1> HIDE DEF from, pos
  <1>7. Single(M, s)
    <2> SUFFICES ASSUME NEW k \in Stages, NEW l \in Stages, NEW j \in DOMAIN M[k],
                        NEW m \in DOMAIN M[l], IsJob(M[k][j], s), IsJob(M[l][m], s),
                        M[k][j].job = M[l][m].job
                 PROVE  k = l /\ j = m
      BY DEF Single
    <2>1. Is(k, j) /\ Is(l, m)
      OBVIOUS
    <2>2. /\ from(k, j) \in Stages /\ pos(k, j) \in DOMAIN L[from(k, j)]
          /\ L[from(k, j)][pos(k, j)] = M[k][j]
      BY <1>1, <2>1
    <2>3. /\ from(l, m) \in Stages /\ pos(l, m) \in DOMAIN L[from(l, m)]
          /\ L[from(l, m)][pos(l, m)] = M[l][m]
      BY <1>1, <2>1
    <2>4. from(k, j) = from(l, m) /\ pos(k, j) = pos(l, m)
      BY <2>2, <2>3 DEF LineOK, Single
    <2> QED
      BY <1>3, <2>1, <2>4
  <1>8. Ordered(M, s)
    <2> SUFFICES ASSUME NEW k \in DOMAIN Rank, NEW l \in DOMAIN Rank, NEW j \in DOMAIN M[k],
                        NEW m \in DOMAIN M[l], IsJob(M[k][j], s), IsJob(M[l][m], s),
                        Before(k, j, l, m)
                 PROVE  M[k][j].job < M[l][m].job
      BY DEF Ordered
    <2>1. Is(k, j) /\ Is(l, m)
      BY <1>4
    <2>2. pos(k, j) \in DOMAIN L[from(k, j)] /\ L[from(k, j)][pos(k, j)] = M[k][j]
      BY <1>1, <2>1
    <2>3. pos(l, m) \in DOMAIN L[from(l, m)] /\ L[from(l, m)][pos(l, m)] = M[l][m]
      BY <1>1, <2>1
    <2>4. /\ from(k, j) \in DOMAIN Rank /\ from(l, m) \in DOMAIN Rank
          /\ Before(from(k, j), pos(k, j), from(l, m), pos(l, m))
      BY <1>6, <2>1
    <2> QED
      BY <2>2, <2>3, <2>4 DEF LineOK, Ordered
  <1>9. Numbered(M, s, max)
    <2> SUFFICES ASSUME NEW k \in Stages, NEW j \in DOMAIN M[k], IsJob(M[k][j], s)
                 PROVE  M[k][j].job <= max
      BY DEF Numbered
    <2>1. /\ from(k, j) \in Stages /\ pos(k, j) \in DOMAIN L[from(k, j)]
          /\ L[from(k, j)][pos(k, j)] = M[k][j]
      BY <1>1
    <2> QED
      BY <2>1 DEF LineOK, Numbered
  <1> QED
    BY <1>7, <1>8, <1>9 DEF LineOK

\* Each of the first n requests of client s is in its line, or done.
Kept(L, s, n, done) ==
  \A m \in 1 .. n :
    \/ \E req \in done : req.session = s /\ req.job = m
    \/ \E k \in Stages : \E i \in DOMAIN L[k] : IsJob(L[k][i], s) /\ L[k][i].job = m

\* What is in line L is in line M, or done.
Carried(L, M, s, done) ==
  \A k \in Stages : \A i \in DOMAIN L[k] : IsJob(L[k][i], s) =>
    \/ \E req \in done : req.session = s /\ req.job = L[k][i].job
    \/ \E l \in Stages : \E j \in DOMAIN M[l] : M[l][j] = L[k][i]

LEMMA KeptMoved ==
  ASSUME NEW L, NEW M, NEW s, NEW n, NEW done, NEW more, done \subseteq more,
         Carried(L, M, s, more), Kept(L, s, n, done)
  PROVE  Kept(M, s, n, more)
  <1> SUFFICES ASSUME NEW m \in 1 .. n
               PROVE  \/ \E req \in more : req.session = s /\ req.job = m
                      \/ \E k \in Stages : \E i \in DOMAIN M[k] :
                           IsJob(M[k][i], s) /\ M[k][i].job = m
    BY DEF Kept
  <1>1. CASE \E req \in done : req.session = s /\ req.job = m
    BY <1>1
  <1>2. CASE \E k \in Stages : \E i \in DOMAIN L[k] : IsJob(L[k][i], s) /\ L[k][i].job = m
    <2>1. PICK k \in Stages : \E i \in DOMAIN L[k] : IsJob(L[k][i], s) /\ L[k][i].job = m
      BY <1>2
    <2>2. PICK i \in DOMAIN L[k] : IsJob(L[k][i], s) /\ L[k][i].job = m
      BY <2>1
    <2> QED
      BY <2>2 DEF Carried
  <1> QED
    BY <1>1, <1>2 DEF Kept

\* The clients whose requests are still answered: the one that is served and those
\* that wait to be accepted.  (The others have not connected.)
Waiting(s) ==
  s = client \/ s > sessions \/ \E i \in 1 .. Len(backlog) : backlog[i] = s

LineInv == \A s \in Sessions : LineOK(Line(s), s, jobs[s])
KeptInv == \A s \in Sessions : Waiting(s) => Kept(Line(s), s, jobs[s], answered)

LEMMA LineStages ==
  ASSUME NEW s \in Sessions
  PROVE  /\ Line(s)["socket"] = inbox[s]
         /\ Line(s)["frames"] = frames
         /\ Line(s)["received"] = ReqsIn(received)
         /\ Line(s)["own"] = IF ui = "own" THEN ReqsIn(buff) ELSE <<>>
         /\ Line(s)["tasks"] = ReqsIn(tasks)
         /\ Line(s)["taken"] = IF ui = "take" THEN ReqsIn(buff) ELSE <<>>
         /\ Line(s)["sending"] = ReqsIn(sendq)
         /\ Line(s)'["socket"] = inbox'[s]
         /\ Line(s)'["frames"] = frames'
         /\ Line(s)'["received"] = ReqsIn(received')
         /\ Line(s)'["own"] = IF ui' = "own" THEN ReqsIn(buff') ELSE <<>>
         /\ Line(s)'["tasks"] = ReqsIn(tasks')
         /\ Line(s)'["taken"] = IF ui' = "take" THEN ReqsIn(buff') ELSE <<>>
         /\ Line(s)'["sending"] = ReqsIn(sendq')
         /\ DOMAIN Line(s) = Stages /\ DOMAIN Line(s)' = Stages
  BY DEF Line, At, Stages, ReqsIn

LEMMA Reqs ==
  ASSUME NEW S, NEW q \in Seq(S)
  PROVE  /\ DOMAIN ReqsIn(q) = 1 .. Len(q) /\ Len(q) \in Nat
         /\ \A i \in 1 .. Len(q) : ReqsIn(q)[i] = q[i].req
  BY LenProperties DEF ReqsIn

LEMMA ReqsSame ==
  ASSUME NEW S, NEW T, NEW q \in Seq(S), NEW r \in Seq(T), Len(q) = Len(r),
         \A i \in 1 .. Len(q) : q[i].req = r[i].req
  PROVE  ReqsIn(q) = ReqsIn(r)
  <1>1. DOMAIN q = 1 .. Len(q) /\ DOMAIN r = 1 .. Len(q)
    BY LenProperties
  <1> QED
    BY <1>1 DEF ReqsIn

LEMMA LineTypes ==
  ASSUME TypeOK
  PROVE  /\ \A s \in Sessions : inbox[s] \in Seq(Messages)
         /\ frames \in Seq(Messages) /\ received \in Seq(Tasks) /\ buff \in Seq(Tasks)
         /\ tasks \in Seq(Tasks) /\ sendq \in Seq(Entries)
  BY DEF TypeOK, Entries

LEMMA LineDomains ==
  ASSUME TypeOK, TypeOK', NEW s \in Sessions, NEW k \in Stages
  PROVE  DOMAIN Line(s)[k] \subseteq Nat \ {0} /\ DOMAIN Line(s)'[k] \subseteq Nat \ {0}
  <1>1. \A S : \A q \in Seq(S) : DOMAIN q \subseteq Nat \ {0} /\ DOMAIN ReqsIn(q) \subseteq Nat \ {0}
    <2> SUFFICES ASSUME NEW S, NEW q \in Seq(S)
                 PROVE  DOMAIN q \subseteq Nat \ {0} /\ DOMAIN ReqsIn(q) \subseteq Nat \ {0}
      OBVIOUS
    <2>1. DOMAIN q = 1 .. Len(q) /\ Len(q) \in Nat /\ DOMAIN ReqsIn(q) = 1 .. Len(q)
      BY LenProperties, Reqs
    <2> QED
      BY <2>1
  <1>2. /\ inbox[s] \in Seq(Messages) /\ inbox'[s] \in Seq(Messages)
        /\ frames \in Seq(Messages) /\ frames' \in Seq(Messages)
        /\ received \in Seq(Tasks) /\ received' \in Seq(Tasks)
        /\ buff \in Seq(Tasks) /\ buff' \in Seq(Tasks)
        /\ tasks \in Seq(Tasks) /\ tasks' \in Seq(Tasks)
        /\ sendq \in Seq(Entries) /\ sendq' \in Seq(Entries)
    BY DEF TypeOK, Entries
  <1>3. DOMAIN <<>> \subseteq Nat \ {0}
    BY <1>1, EmptySeq
  <1>4. k \in {"socket", "frames", "received", "own", "tasks", "taken", "sending"}
    BY DEF Stages
  <1> DEFINE Fine(q) == DOMAIN q \subseteq Nat \ {0}
  <1>5. /\ Fine(inbox[s]) /\ Fine(frames) /\ Fine(ReqsIn(received)) /\ Fine(ReqsIn(tasks))
        /\ Fine(ReqsIn(sendq))
        /\ Fine(IF ui = "own" THEN ReqsIn(buff) ELSE <<>>)
        /\ Fine(IF ui = "take" THEN ReqsIn(buff) ELSE <<>>)
    BY <1>1, <1>2, <1>3
  <1>6. /\ Fine(inbox'[s]) /\ Fine(frames') /\ Fine(ReqsIn(received')) /\ Fine(ReqsIn(tasks'))
        /\ Fine(ReqsIn(sendq'))
        /\ Fine(IF ui' = "own" THEN ReqsIn(buff') ELSE <<>>)
        /\ Fine(IF ui' = "take" THEN ReqsIn(buff') ELSE <<>>)
    BY <1>1, <1>2, <1>3
  <1> HIDE DEF Fine
  <1>7. Fine(Line(s)[k])
    BY <1>4, <1>5, LineStages
  <1>8. Fine(Line(s)'[k])
    BY <1>4, <1>6, LineStages
  <1> QED
    BY <1>7, <1>8 DEF Fine

LEMMA SameLine ==
  ASSUME UNCHANGED <<inbox, frames, received, ui, buff, tasks, sendq>>
  PROVE  \A s : Line(s)' = Line(s)
  BY DEF Line, At, ReqsIn

\* Messages at the front of stage a go, those that stay were in it, and of client s
\* there may be fewer.
LEMMA Thinned ==
  ASSUME NEW L, NEW M, NEW s, NEW max, NEW a \in Stages, NEW n \in Nat,
         DOMAIN L[a] \subseteq Nat, DOMAIN M[a] \subseteq Nat,
         \A k \in Stages \ {a} : M[k] = L[k],
         \A j \in DOMAIN M[a] : IsJob(M[a][j], s) =>
           j + n \in DOMAIN L[a] /\ M[a][j] = L[a][j + n],
         LineOK(L, s, max)
  PROVE  LineOK(M, s, max)
  <1> DEFINE pos(k, j) == IF k = a THEN j + n ELSE j
  <1>1. ASSUME NEW k \in Stages, NEW j \in DOMAIN M[k], IsJob(M[k][j], s)
        PROVE  pos(k, j) \in DOMAIN L[k] /\ L[k][pos(k, j)] = M[k][j]
    BY <1>1
  <1>2. ASSUME NEW k \in Stages, NEW i \in DOMAIN M[k], NEW j \in DOMAIN M[k]
        PROVE  (pos(k, i) = pos(k, j) => i = j) /\ (i < j => pos(k, i) < pos(k, j))
    OBVIOUS
  <1> HIDE DEF pos
  <1>3. DOMAIN Rank \subseteq Stages
    BY DEF Rank, Stages
  <1>4. Single(M, s)
    <2> SUFFICES ASSUME NEW k \in Stages, NEW l \in Stages, NEW i \in DOMAIN M[k],
                        NEW j \in DOMAIN M[l], IsJob(M[k][i], s), IsJob(M[l][j], s),
                        M[k][i].job = M[l][j].job
                 PROVE  k = l /\ i = j
      BY DEF Single
    <2>1. k = l /\ pos(k, i) = pos(l, j)
      BY <1>1 DEF LineOK, Single
    <2> QED
      BY <1>2, <2>1
  <1>5. Ordered(M, s)
    <2> SUFFICES ASSUME NEW k \in DOMAIN Rank, NEW l \in DOMAIN Rank, NEW i \in DOMAIN M[k],
                        NEW j \in DOMAIN M[l], IsJob(M[k][i], s), IsJob(M[l][j], s),
                        Before(k, i, l, j)
                 PROVE  M[k][i].job < M[l][j].job
      BY DEF Ordered
    <2>1. Before(k, pos(k, i), l, pos(l, j))
      BY <1>2, <1>3 DEF Before
    <2> QED
      BY <1>1, <1>3, <2>1 DEF LineOK, Ordered
  <1>6. Numbered(M, s, max)
    BY <1>1 DEF LineOK, Numbered
  <1> QED
    BY <1>4, <1>5, <1>6 DEF LineOK

\* A stretch of stage a goes to the end of stage b, and nothing else changes.
Hands(L, M, a, b, i, n, alen, blen) ==
  /\ \A k \in Stages \ {a, b} : M[k] = L[k]
  /\ DOMAIN L[a] = 1 .. alen /\ DOMAIN M[a] = 1 .. alen - n
  /\ DOMAIN L[b] = 1 .. blen /\ DOMAIN M[b] = 1 .. blen + n
  /\ \A j \in 1 .. alen - n : M[a][j] = IF j < i THEN L[a][j] ELSE L[a][j + n]
  /\ \A j \in 1 .. blen : M[b][j] = L[b][j]
  /\ \A j \in 1 .. n : M[b][blen + j] = L[a][i - 1 + j]
  /\ b \in DOMAIN Rank => a \in DOMAIN Rank /\ Rank[a] = Rank[b] + 1 /\ i = 1

LEMMA Handed ==
  ASSUME NEW L, NEW M, NEW s, NEW max, NEW done, NEW a \in Stages, NEW b \in Stages, a # b,
         NEW i \in Nat \ {0}, NEW n \in Nat, NEW alen \in Nat, NEW blen \in Nat,
         i - 1 + n <= alen, Numbering(L, M), Hands(L, M, a, b, i, n, alen, blen),
         LineOK(L, s, max)
  PROVE  LineOK(M, s, max) /\ (Kept(L, s, max, done) => Kept(M, s, max, done))
  <1> USE DEF Hands
  <1>1. \A j \in DOMAIN M[a] :
          IF j < i THEN j \in DOMAIN L[a] /\ M[a][j] = L[a][j]
                   ELSE j + n \in DOMAIN L[a] /\ M[a][j] = L[a][j + n]
    OBVIOUS
  <1>2. ASSUME NEW j \in DOMAIN M[b]
        PROVE  IF j <= blen THEN j \in DOMAIN L[b] /\ M[b][j] = L[b][j]
               ELSE /\ j - blen <= n /\ i + (j - blen) - 1 \in DOMAIN L[a]
                    /\ M[b][j] = L[a][i + (j - blen) - 1]
    <2>1. j \in Nat \ {0} /\ j <= blen + n
      OBVIOUS
    <2>2. CASE j <= blen
      BY <2>1, <2>2
    <2>3. CASE ~(j <= blen)
      <3>1. /\ j - blen \in 1 .. n /\ blen + (j - blen) = j
            /\ i - 1 + (j - blen) = i + (j - blen) - 1
            /\ i + (j - blen) - 1 \in 1 .. alen
        <4>1. PICK m \in Nat : m = j - blen
          BY <2>1, <2>3
        <4>2. j = blen + m /\ m >= 1 /\ m <= n
          BY <2>1, <2>3, <4>1
        <4>3. i - 1 + m = i + m - 1 /\ i + m - 1 \in 1 .. alen
          BY ONLY <4>2, i \in Nat \ {0}, n \in Nat, alen \in Nat, m \in Nat, i - 1 + n <= alen
        <4> QED
          BY <4>1, <4>2, <4>3
      <3>2. M[b][blen + (j - blen)] = L[a][i - 1 + (j - blen)]
        BY <3>1
      <3>3. M[b][j] = L[a][i + (j - blen) - 1]
        BY <3>1, <3>2
      <3> QED
        BY <2>3, <3>1, <3>3
    <2> QED
      BY <2>2, <2>3
  <1>3. \A j \in DOMAIN L[b] : j <= blen
    OBVIOUS
  <1>4. LineOK(M, s, max)
    <2>1. Moves(L, M, s, a, b, i, n, blen)
      BY <1>1, <1>2, <1>3 DEF Moves
    <2> QED
      BY <2>1, Moved
  <1>5. ASSUME NEW k \in Stages, NEW j \in DOMAIN L[k]
        PROVE  \E l \in Stages : \E m \in DOMAIN M[l] : M[l][m] = L[k][j]
    <2>1. CASE k # a /\ k # b
      BY <1>5, <2>1
    <2>2. CASE k = b
      <3>1. j \in 1 .. blen /\ j \in 1 .. blen + n
        BY <2>2
      <3> QED
        BY <2>2, <3>1
    <2>3. CASE k = a
      <3>0. j \in 1 .. alen
        BY <2>3
      <3>1. CASE j < i
        <4>1. j \in 1 .. alen - n
          BY <3>0, <3>1
        <4> QED
          BY <2>3, <3>1, <4>1
      <3>2. CASE j >= i /\ j <= i - 1 + n
        <4>1. /\ j - (i - 1) \in 1 .. n /\ i - 1 + (j - (i - 1)) = j
              /\ blen + (j - (i - 1)) \in 1 .. blen + n
          BY <3>0, <3>2
        <4>2. M[b][blen + (j - (i - 1))] = L[a][j]
          BY <4>1
        <4> QED
          BY <2>3, <4>1, <4>2
      <3>3. CASE j > i - 1 + n
        <4>1. j - n \in 1 .. alen - n /\ ~(j - n < i) /\ (j - n) + n = j
          BY <3>0, <3>3
        <4>2. M[a][j - n] = L[a][j]
          BY <4>1
        <4> QED
          BY <2>3, <4>1, <4>2
      <3> QED
        BY <3>0, <3>1, <3>2, <3>3
    <2> QED
      BY <2>1, <2>2, <2>3
  <1>6. Kept(L, s, max, done) => Kept(M, s, max, done)
    <2>1. Carried(L, M, s, done)
      BY <1>5 DEF Carried
    <2> QED
      BY <2>1, KeptMoved
  <1> QED
    BY <1>4, <1>6

LEMMA LineNumbering ==
  ASSUME TypeOK, TypeOK', NEW s \in Sessions
  PROVE  Numbering(Line(s), Line(s)')
  BY LineDomains DEF Numbering

\* What a step does to the line of client s, and to what is kept of its requests.
LineStep(s) == LineOK(Line(s)', s, jobs'[s])
KeptStep(s) == Kept(Line(s), s, jobs[s], answered) => Kept(Line(s)', s, jobs'[s], answered')

LEMMA HandleRequestLine ==
  ASSUME TypeOK, TypeOK', LineInv, HandleTelegram, Head(frames).cmd # EchoCmd,
         NEW s \in Sessions
  PROVE  LineStep(s) /\ KeptStep(s)
  <1> DEFINE L == Line(s)
             M == Line(s)'
             flen == Len(frames)
             rlen == Len(received)
  <1>1. Numbering(L, M) /\ LineOK(L, s, jobs[s])
    BY LineNumbering DEF LineInv
  <1>2. /\ frames \in Seq(Messages) /\ frames # <<>> /\ frames' = Tail(frames)
        /\ received' = Append(received, NewTask(Head(frames)))
        /\ UNCHANGED <<inbox, tasks, ui, buff, sendq, jobs, answered>>
    BY LineTypes DEF HandleTelegram, evars, uvars, out
  <1>3. /\ flen \in Nat \ {0} /\ DOMAIN frames = 1 .. flen /\ DOMAIN frames' = 1 .. flen - 1
        /\ Head(frames) = frames[1] /\ Head(frames) \in Messages
        /\ \A j \in 1 .. flen - 1 : frames'[j] = frames[j + 1]
    BY <1>2, HeadTailProperties, LenProperties, EmptySeq
  <1>4. received \in Seq(Tasks) /\ received' \in Seq(Tasks) /\ NewTask(frames[1]) \in Tasks
    <2>1. frames[1] \in Request
      BY <1>3, MessageTypes
    <2>2. NewTask(frames[1]) \in Tasks
      BY <2>1 DEF NewTask, Tasks
    <2> QED
      BY <2>2 DEF TypeOK
  <1>5. /\ Len(received') = rlen + 1 /\ received'[rlen + 1] = NewTask(frames[1])
        /\ \A j \in 1 .. rlen : received'[j] = received[j]
    BY <1>2, <1>3, <1>4, AppendProperties
  <1>6. /\ DOMAIN ReqsIn(received) = 1 .. rlen /\ rlen \in Nat
        /\ DOMAIN ReqsIn(received') = 1 .. rlen + 1
        /\ \A j \in 1 .. rlen : ReqsIn(received)[j] = received[j].req
        /\ \A j \in 1 .. rlen + 1 : ReqsIn(received')[j] = received'[j].req
    BY <1>4, <1>5, Reqs
  <1>7. /\ \A k \in Stages \ {"frames", "received"} : M[k] = L[k]
        /\ L["frames"] = frames /\ M["frames"] = frames'
        /\ L["received"] = ReqsIn(received) /\ M["received"] = ReqsIn(received')
    BY <1>2, LineStages DEF Stages
  <1>8. /\ "frames" \in Stages /\ "received" \in Stages /\ "frames" # "received"
        /\ "frames" \in DOMAIN Rank /\ Rank["frames"] = Rank["received"] + 1
    BY DEF Stages, Rank
  <1> HIDE DEF L, M, flen, rlen
  <1>9. \A j \in 1 .. rlen : j \in 1 .. rlen + 1
    BY <1>6
  <1>10. \A j \in 1 .. 1 : rlen + j = rlen + 1 /\ 1 - 1 + j = 1 /\ rlen + 1 \in 1 .. rlen + 1
    BY <1>6
  <1>11. M["received"][rlen + 1] = L["frames"][1]
    BY <1>5, <1>6, <1>7, <1>10 DEF NewTask
  <1>12. Hands(L, M, "frames", "received", 1, 1, flen, rlen)
    <2>1. \A j \in 1 .. flen - 1 :
            M["frames"][j] = IF j < 1 THEN L["frames"][j] ELSE L["frames"][j + 1]
      BY <1>3, <1>7
    <2>2. \A j \in 1 .. rlen : M["received"][j] = L["received"][j]
      BY <1>5, <1>6, <1>7, <1>9
    <2>3. \A j \in 1 .. 1 : M["received"][rlen + j] = L["frames"][1 - 1 + j]
      BY <1>10, <1>11
    <2> QED
      BY <1>3, <1>6, <1>7, <1>8, <2>1, <2>2, <2>3 DEF Hands
  <1>13. 1 - 1 + 1 <= flen
    BY <1>3
  <1>14. LineOK(M, s, jobs[s]) /\ (Kept(L, s, jobs[s], answered) => Kept(M, s, jobs[s], answered))
    <2>1. /\ "frames" \in Stages /\ "received" \in Stages /\ "frames" # "received"
          /\ 1 \in Nat \ {0} /\ 1 \in Nat /\ flen \in Nat /\ rlen \in Nat
          /\ 1 - 1 + 1 <= flen /\ Numbering(L, M) /\ LineOK(L, s, jobs[s])
          /\ Hands(L, M, "frames", "received", 1, 1, flen, rlen)
      BY <1>1, <1>3, <1>6, <1>8, <1>12, <1>13
    <2> QED
      BY ONLY <2>1, Handed
  <1> QED
    BY <1>2, <1>14 DEF L, M, LineStep, KeptStep

LEMMA HandleEchoLine ==
  ASSUME TypeOK, TypeOK', LineInv, HandleTelegram, Head(frames).cmd = EchoCmd,
         NEW s \in Sessions
  PROVE  LineStep(s) /\ KeptStep(s)
  <1> DEFINE L == Line(s)
             M == Line(s)'
             flen == Len(frames)
  <1>1. Numbering(L, M) /\ LineOK(L, s, jobs[s])
    BY LineNumbering DEF LineInv
  <1>2. /\ frames \in Seq(Messages) /\ frames # <<>> /\ frames' = Tail(frames)
        /\ UNCHANGED <<inbox, received, tasks, ui, buff, sendq, jobs, answered>>
    BY LineTypes DEF HandleTelegram, evars, uvars, out
  <1>3. /\ flen \in Nat \ {0} /\ DOMAIN frames = 1 .. flen /\ DOMAIN frames' = 1 .. flen - 1
        /\ Head(frames) = frames[1]
        /\ \A j \in 1 .. flen - 1 : frames'[j] = frames[j + 1]
    BY <1>2, HeadTailProperties, LenProperties, EmptySeq
  <1>4. /\ \A k \in Stages \ {"frames"} : M[k] = L[k]
        /\ L["frames"] = frames /\ M["frames"] = frames' /\ "frames" \in Stages
    BY <1>2, LineStages DEF Stages
  <1> HIDE DEF L, M, flen
  <1>5. \A j \in DOMAIN M["frames"] : j + 1 \in DOMAIN L["frames"]
                                      /\ M["frames"][j] = L["frames"][j + 1]
    BY <1>3, <1>4
  <1>6. LineOK(M, s, jobs[s])
    <2>1. DOMAIN L["frames"] \subseteq Nat /\ DOMAIN M["frames"] \subseteq Nat /\ 1 \in Nat
      BY <1>1, <1>4 DEF Numbering
    <2> QED
      BY <1>1, <1>4, <1>5, <2>1, Thinned
  <1>7. Carried(L, M, s, answered)
    <2> SUFFICES ASSUME NEW k \in Stages, NEW i \in DOMAIN L[k], IsJob(L[k][i], s)
                 PROVE  \E l \in Stages : \E j \in DOMAIN M[l] : M[l][j] = L[k][i]
      BY DEF Carried
    <2>1. CASE k # "frames"
      BY <1>4, <2>1
    <2>2. CASE k = "frames"
      <3>1. i \in 1 .. flen /\ i # 1
        BY <1>3, <1>4, <2>2 DEF IsJob
      <3>2. i - 1 \in 1 .. flen - 1 /\ (i - 1) + 1 = i
        BY <1>3, <3>1
      <3>3. i - 1 \in DOMAIN M["frames"] /\ M["frames"][i - 1] = L["frames"][i]
        BY <1>3, <1>4, <3>2
      <3> QED
        BY <1>4, <2>2, <3>3
    <2> QED
      BY <2>1, <2>2
  <1> QED
    BY <1>2, <1>6, <1>7, KeptMoved DEF L, M, LineStep, KeptStep

LEMMA TakeReceivedLine ==
  ASSUME TypeOK, TypeOK', LineInv, TakeReceived, NEW s \in Sessions
  PROVE  LineStep(s) /\ KeptStep(s)
  <1> DEFINE L == Line(s)
             M == Line(s)'
             rlen == Len(received)
  <1>1. Numbering(L, M) /\ LineOK(L, s, jobs[s])
    BY LineNumbering DEF LineInv
  <1>2. /\ received \in Seq(Tasks) /\ buff' = received /\ received' = <<>>
        /\ ui = "idle" /\ ui' = "own"
        /\ UNCHANGED <<inbox, frames, tasks, sendq, jobs, answered>>
    BY LineTypes DEF TakeReceived, evars, gvars, out
  <1>3. DOMAIN <<>> = {} /\ DOMAIN ReqsIn(<<>>) = {}
    BY DEF ReqsIn
  <1>4. DOMAIN ReqsIn(received) = 1 .. rlen /\ rlen \in Nat
    BY <1>2, Reqs
  <1>5. /\ \A k \in Stages \ {"received", "own"} : M[k] = L[k]
        /\ L["received"] = ReqsIn(received) /\ M["received"] = ReqsIn(<<>>)
        /\ L["own"] = <<>> /\ M["own"] = ReqsIn(received)
    BY <1>2, LineStages DEF Stages
  <1>6. /\ "received" \in Stages /\ "own" \in Stages /\ "received" # "own"
        /\ "received" \in DOMAIN Rank /\ Rank["received"] = Rank["own"] + 1
    BY DEF Stages, Rank
  <1> HIDE DEF L, M, rlen
  <1>7. 1 .. rlen - rlen = {} /\ 1 .. 0 = {} /\ 0 + rlen = rlen /\ 1 - 1 + rlen <= rlen
    BY <1>4
  <1>8. Hands(L, M, "received", "own", 1, rlen, rlen, 0)
    <2>1. \A j \in 1 .. rlen : M["own"][0 + j] = L["received"][1 - 1 + j]
      BY <1>5
    <2> QED
      BY <1>3, <1>4, <1>5, <1>6, <1>7, <2>1 DEF Hands
  <1>9. LineOK(M, s, jobs[s]) /\ (Kept(L, s, jobs[s], answered) => Kept(M, s, jobs[s], answered))
    <2>1. /\ "received" \in Stages /\ "own" \in Stages /\ "received" # "own"
          /\ 1 \in Nat \ {0} /\ rlen \in Nat /\ rlen \in Nat /\ 0 \in Nat
          /\ 1 - 1 + rlen <= rlen /\ Numbering(L, M) /\ LineOK(L, s, jobs[s])
          /\ Hands(L, M, "received", "own", 1, rlen, rlen, 0)
      BY <1>1, <1>4, <1>6, <1>7, <1>8
    <2> QED
      BY ONLY <2>1, Handed
  <1> QED
    BY <1>2, <1>9 DEF L, M, LineStep, KeptStep

LEMMA OwnNextLine ==
  ASSUME TypeOK, TypeOK', LineInv, OwnNext, NEW s \in Sessions
  PROVE  LineStep(s) /\ KeptStep(s)
  <1> DEFINE L == Line(s)
             M == Line(s)'
             blen == Len(buff)
             tlen == Len(tasks)
  <1>1. Numbering(L, M) /\ LineOK(L, s, jobs[s])
    BY LineNumbering DEF LineInv
  <1>2. /\ buff \in Seq(Tasks) /\ buff # <<>> /\ buff' = Tail(buff) /\ tasks \in Seq(Tasks)
        /\ tasks' = OwnTask(tasks, Head(buff).req) /\ ui = "own" /\ ui' = "own"
        /\ UNCHANGED <<inbox, frames, received, sendq, jobs, answered>>
    BY LineTypes DEF OwnNext, evars, gvars, out
  <1>3. /\ blen \in Nat \ {0} /\ buff' \in Seq(Tasks) /\ Len(buff') = blen - 1
        /\ Head(buff) = buff[1] /\ Head(buff) \in Tasks
        /\ \A j \in 1 .. blen - 1 : buff'[j] = buff[j + 1]
    BY <1>2, HeadTailProperties, LenProperties, EmptySeq
  <1>4. /\ tasks' \in Seq(Tasks) /\ Len(tasks') = tlen + 1
        /\ \A j \in 1 .. tlen : tasks'[j].req = tasks[j].req
        /\ tasks'[tlen + 1].req = buff[1].req
    <2>1. Head(buff).req \in Request
      BY <1>3 DEF Tasks
    <2> QED
      BY <1>2, <1>3, <2>1, Owned
  <1>5. /\ DOMAIN ReqsIn(buff) = 1 .. blen /\ DOMAIN ReqsIn(buff') = 1 .. blen - 1
        /\ DOMAIN ReqsIn(tasks) = 1 .. tlen /\ DOMAIN ReqsIn(tasks') = 1 .. tlen + 1
        /\ tlen \in Nat
        /\ \A j \in 1 .. blen : ReqsIn(buff)[j] = buff[j].req
        /\ \A j \in 1 .. blen - 1 : ReqsIn(buff')[j] = buff'[j].req
        /\ \A j \in 1 .. tlen : ReqsIn(tasks)[j] = tasks[j].req
        /\ \A j \in 1 .. tlen + 1 : ReqsIn(tasks')[j] = tasks'[j].req
    BY <1>2, <1>3, <1>4, Reqs
  <1>6. /\ \A k \in Stages \ {"own", "tasks"} : M[k] = L[k]
        /\ L["own"] = ReqsIn(buff) /\ M["own"] = ReqsIn(buff')
        /\ L["tasks"] = ReqsIn(tasks) /\ M["tasks"] = ReqsIn(tasks')
    BY <1>2, LineStages DEF Stages
  <1>7. /\ "own" \in Stages /\ "tasks" \in Stages /\ "own" # "tasks"
        /\ "own" \in DOMAIN Rank /\ Rank["own"] = Rank["tasks"] + 1
    BY DEF Stages, Rank
  <1> HIDE DEF L, M, blen, tlen
  <1>8. /\ \A j \in 1 .. tlen : j \in 1 .. tlen + 1
        /\ \A j \in 1 .. blen - 1 : j + 1 \in 1 .. blen
        /\ \A j \in 1 .. 1 : tlen + j = tlen + 1 /\ 1 - 1 + j = 1 /\ tlen + 1 \in 1 .. tlen + 1
        /\ 1 \in 1 .. blen /\ 1 - 1 + 1 <= blen
    BY <1>3, <1>5
  <1>9. Hands(L, M, "own", "tasks", 1, 1, blen, tlen)
    <2>1. \A j \in 1 .. blen - 1 :
            M["own"][j] = IF j < 1 THEN L["own"][j] ELSE L["own"][j + 1]
      <3> SUFFICES ASSUME NEW j \in 1 .. blen - 1 PROVE M["own"][j] = L["own"][j + 1]
        OBVIOUS
      <3>1. M["own"][j] = buff'[j].req /\ L["own"][j + 1] = buff[j + 1].req
        BY <1>5, <1>6, <1>8
      <3> QED
        BY <1>3, <3>1
    <2>2. \A j \in 1 .. tlen : M["tasks"][j] = L["tasks"][j]
      BY <1>4, <1>5, <1>6, <1>8
    <2>3. \A j \in 1 .. 1 : M["tasks"][tlen + j] = L["own"][1 - 1 + j]
      BY <1>4, <1>5, <1>6, <1>8
    <2> QED
      BY <1>5, <1>6, <1>7, <2>1, <2>2, <2>3 DEF Hands
  <1>10. LineOK(M, s, jobs[s]) /\ (Kept(L, s, jobs[s], answered) => Kept(M, s, jobs[s], answered))
    <2>1. /\ "own" \in Stages /\ "tasks" \in Stages /\ "own" # "tasks"
          /\ 1 \in Nat \ {0} /\ 1 \in Nat /\ blen \in Nat /\ tlen \in Nat
          /\ 1 - 1 + 1 <= blen /\ Numbering(L, M) /\ LineOK(L, s, jobs[s])
          /\ Hands(L, M, "own", "tasks", 1, 1, blen, tlen)
      BY <1>1, <1>3, <1>5, <1>7, <1>8, <1>9
    <2> QED
      BY ONLY <2>1, Handed
  <1> QED
    BY <1>2, <1>10 DEF L, M, LineStep, KeptStep

LEMMA ResolveLine ==
  ASSUME TypeOK, TypeOK', LineInv, Resolve, NEW s \in Sessions
  PROVE  LineStep(s) /\ KeptStep(s)
  <1>1. /\ buff = <<>> /\ ui = "own" /\ ui' # "own" /\ tasks \in Seq(Tasks)
        /\ UNCHANGED <<inbox, frames, received, buff, sendq, jobs, answered>>
    BY LineTypes DEF Resolve, evars, gvars, out
  <1>2. DOMAIN tasks' = DOMAIN tasks /\ \A i \in DOMAIN tasks : tasks'[i].req = tasks[i].req
    <2>1. \A i \in DOMAIN tasks : tasks[i] \in Tasks
      BY <1>1, LenProperties, ElementOfSeq
    <2>2. CASE ready
      BY <2>1, <2>2 DEF Resolve, Tasks
    <2>3. CASE ~ready
      BY <2>3 DEF Resolve
    <2> QED
      BY <2>2, <2>3
  <1>3. ReqsIn(tasks') = ReqsIn(tasks)
    BY <1>2 DEF ReqsIn
  <1>4. ReqsIn(<<>>) = <<>>
    BY DEF ReqsIn
  <1>5. \A k \in Stages : Line(s)'[k] = Line(s)[k]
    BY <1>1, <1>3, <1>4, LineStages DEF Stages
  <1>6. Line(s)' = Line(s)
    BY <1>5 DEF Line
  <1> QED
    BY <1>1, <1>6 DEF LineStep, KeptStep, LineInv

LEMMA TakeFinishedLine ==
  ASSUME TypeOK, TypeOK', LineInv, NEW i \in DOMAIN tasks, TakeFinished(i), NEW s \in Sessions
  PROVE  LineStep(s) /\ KeptStep(s)
  <1> DEFINE L == Line(s)
             M == Line(s)'
             blen == Len(buff)
             tlen == Len(tasks)
  <1>1. Numbering(L, M) /\ LineOK(L, s, jobs[s])
    BY LineNumbering DEF LineInv
  <1>2. /\ buff \in Seq(Tasks) /\ buff' = Append(buff, tasks[i]) /\ tasks \in Seq(Tasks)
        /\ tasks' = RemoveAt(tasks, i) /\ ui = "take" /\ ui' = "take"
        /\ UNCHANGED <<inbox, frames, received, sendq, jobs, answered>>
    BY LineTypes DEF TakeFinished, evars, gvars, out
  <1>3. i \in 1 .. tlen /\ tlen \in Nat /\ tasks[i] \in Tasks
    BY <1>2, LenProperties, ElementOfSeq
  <1>4. /\ tasks' \in Seq(Tasks) /\ Len(tasks') = tlen - 1
        /\ \A j \in 1 .. tlen - 1 : tasks'[j] = IF j < i THEN tasks[j] ELSE tasks[j + 1]
    BY <1>2, <1>3, Removed
  <1>5. /\ buff' \in Seq(Tasks) /\ Len(buff') = blen + 1 /\ blen \in Nat
        /\ \A j \in 1 .. blen : buff'[j] = buff[j]
        /\ buff'[blen + 1] = tasks[i]
    BY <1>2, <1>3, AppendProperties, LenProperties
  <1>6. /\ DOMAIN ReqsIn(buff) = 1 .. blen /\ DOMAIN ReqsIn(buff') = 1 .. blen + 1
        /\ DOMAIN ReqsIn(tasks) = 1 .. tlen /\ DOMAIN ReqsIn(tasks') = 1 .. tlen - 1
        /\ \A j \in 1 .. blen : ReqsIn(buff)[j] = buff[j].req
        /\ \A j \in 1 .. blen + 1 : ReqsIn(buff')[j] = buff'[j].req
        /\ \A j \in 1 .. tlen : ReqsIn(tasks)[j] = tasks[j].req
        /\ \A j \in 1 .. tlen - 1 : ReqsIn(tasks')[j] = tasks'[j].req
    BY <1>2, <1>4, <1>5, Reqs
  <1>7. /\ \A k \in Stages \ {"tasks", "taken"} : M[k] = L[k]
        /\ L["tasks"] = ReqsIn(tasks) /\ M["tasks"] = ReqsIn(tasks')
        /\ L["taken"] = ReqsIn(buff) /\ M["taken"] = ReqsIn(buff')
    BY <1>2, LineStages DEF Stages
  <1>8. "tasks" \in Stages /\ "taken" \in Stages /\ "tasks" # "taken" /\ "taken" \notin DOMAIN Rank
    BY DEF Stages, Rank
  <1> HIDE DEF L, M, blen, tlen
  <1>9. /\ \A j \in 1 .. blen : j \in 1 .. blen + 1
        /\ \A j \in 1 .. tlen - 1 : j \in 1 .. tlen /\ j + 1 \in 1 .. tlen
        /\ \A j \in 1 .. 1 : blen + j = blen + 1 /\ i - 1 + j = i /\ blen + 1 \in 1 .. blen + 1
        /\ i \in Nat \ {0} /\ i - 1 + 1 <= tlen
    BY <1>3, <1>5
  <1>10. Hands(L, M, "tasks", "taken", i, 1, tlen, blen)
    <2>1. \A j \in 1 .. tlen - 1 :
            M["tasks"][j] = IF j < i THEN L["tasks"][j] ELSE L["tasks"][j + 1]
      <3> SUFFICES ASSUME NEW j \in 1 .. tlen - 1
                   PROVE  M["tasks"][j] = IF j < i THEN L["tasks"][j] ELSE L["tasks"][j + 1]
        OBVIOUS
      <3>1. /\ M["tasks"][j] = tasks'[j].req /\ L["tasks"][j] = tasks[j].req
            /\ L["tasks"][j + 1] = tasks[j + 1].req
        BY <1>6, <1>7, <1>9
      <3> QED
        BY <1>4, <3>1
    <2>2. \A j \in 1 .. blen : M["taken"][j] = L["taken"][j]
      <3> SUFFICES ASSUME NEW j \in 1 .. blen PROVE M["taken"][j] = L["taken"][j]
        OBVIOUS
      <3>1. M["taken"][j] = buff'[j].req /\ L["taken"][j] = buff[j].req
        BY <1>6, <1>7, <1>9
      <3> QED
        BY <1>5, <3>1
    <2>3. \A j \in 1 .. 1 : M["taken"][blen + j] = L["tasks"][i - 1 + j]
      BY <1>3, <1>5, <1>6, <1>7, <1>9
    <2> QED
      BY <1>6, <1>7, <1>8, <2>1, <2>2, <2>3 DEF Hands
  <1>11. LineOK(M, s, jobs[s]) /\ (Kept(L, s, jobs[s], answered) => Kept(M, s, jobs[s], answered))
    <2>1. /\ "tasks" \in Stages /\ "taken" \in Stages /\ "tasks" # "taken"
          /\ i \in Nat \ {0} /\ 1 \in Nat /\ tlen \in Nat /\ blen \in Nat
          /\ i - 1 + 1 <= tlen /\ Numbering(L, M) /\ LineOK(L, s, jobs[s])
          /\ Hands(L, M, "tasks", "taken", i, 1, tlen, blen)
      BY <1>1, <1>3, <1>5, <1>8, <1>9, <1>10
    <2> QED
      BY ONLY <2>1, Handed
  <1> QED
    BY <1>2, <1>11 DEF L, M, LineStep, KeptStep

LEMMA ReportLine ==
  ASSUME TypeOK, TypeOK', LineInv, TakenInv, Report, NEW s \in Sessions
  PROVE  LineStep(s) /\ KeptStep(s)
  <1> DEFINE L == Line(s)
             M == Line(s)'
             baked == [i \in DOMAIN buff |-> Baked(buff[i])]
             blen == Len(buff)
             slen == Len(sendq)
  <1>1. Numbering(L, M) /\ LineOK(L, s, jobs[s])
    BY LineNumbering DEF LineInv
  <1>2. /\ buff \in Seq(Tasks) /\ buff' = <<>> /\ ui = "take" /\ ui' = "idle"
        /\ sendq \in Seq(Entries) /\ sendq' = sendq \o baked
        /\ UNCHANGED <<inbox, frames, received, tasks, jobs, answered>>
    BY LineTypes DEF Report, evars, gvars, out
  <1>3. baked \in Seq(Entries) /\ Len(baked) = blen
    BY <1>2, BakedTypes DEF TakenInv
  <1>4. /\ blen \in Nat /\ slen \in Nat /\ \A i \in 1 .. blen : baked[i].req = buff[i].req
    <2>1. blen \in Nat /\ slen \in Nat /\ DOMAIN buff = 1 .. blen
      BY <1>2, LenProperties
    <2> QED
      BY <2>1 DEF Baked
  <1> HIDE DEF baked, L, M, blen
  <1>5. /\ sendq' \in Seq(Entries) /\ Len(sendq') = slen + blen
        /\ \A i \in 1 .. slen + blen : sendq'[i] = IF i <= slen THEN sendq[i] ELSE baked[i - slen]
    BY <1>2, <1>3, ConcatProperties
  <1>6. /\ DOMAIN ReqsIn(sendq) = 1 .. slen /\ DOMAIN ReqsIn(sendq') = 1 .. slen + blen
        /\ DOMAIN ReqsIn(buff) = 1 .. blen
        /\ \A j \in 1 .. slen : ReqsIn(sendq)[j] = sendq[j].req
        /\ \A j \in 1 .. slen + blen : ReqsIn(sendq')[j] = sendq'[j].req
        /\ \A j \in 1 .. blen : ReqsIn(buff)[j] = buff[j].req
    BY <1>2, <1>5, Reqs DEF blen
  <1>7. /\ \A k \in Stages \ {"taken", "sending"} : M[k] = L[k]
        /\ L["taken"] = ReqsIn(buff) /\ M["taken"] = <<>>
        /\ L["sending"] = ReqsIn(sendq) /\ M["sending"] = ReqsIn(sendq')
    BY <1>2, LineStages DEF Stages, L, M
  <1>8. /\ "taken" \in Stages /\ "sending" \in Stages /\ "taken" # "sending"
        /\ "sending" \notin DOMAIN Rank
    BY DEF Stages, Rank
  <1> HIDE DEF slen
  <1>9. /\ \A j \in 1 .. slen : j \in 1 .. slen + blen /\ j <= slen
        /\ \A j \in 1 .. blen : /\ slen + j \in 1 .. slen + blen /\ ~(slen + j <= slen)
                                /\ (slen + j) - slen = j /\ 1 - 1 + j = j
        /\ 1 .. blen - blen = {} /\ 1 - 1 + blen <= blen /\ DOMAIN <<>> = {}
    BY <1>4
  <1>10. Hands(L, M, "taken", "sending", 1, blen, blen, slen)
    <2>1. \A j \in 1 .. slen : M["sending"][j] = L["sending"][j]
      <3> SUFFICES ASSUME NEW j \in 1 .. slen PROVE M["sending"][j] = L["sending"][j]
        OBVIOUS
      <3>1. M["sending"][j] = sendq'[j].req /\ L["sending"][j] = sendq[j].req
        BY <1>6, <1>7, <1>9
      <3> QED
        BY <1>5, <1>9, <3>1
    <2>2. \A j \in 1 .. blen : M["sending"][slen + j] = L["taken"][1 - 1 + j]
      <3> SUFFICES ASSUME NEW j \in 1 .. blen PROVE M["sending"][slen + j] = L["taken"][j]
        BY <1>9
      <3>1. M["sending"][slen + j] = sendq'[slen + j].req /\ L["taken"][j] = buff[j].req
        BY <1>6, <1>7, <1>9
      <3>2. sendq'[slen + j] = baked[j]
        BY <1>5, <1>9
      <3> QED
        BY <1>4, <3>1, <3>2
    <2> QED
      BY <1>6, <1>7, <1>8, <1>9, <2>1, <2>2 DEF Hands
  <1>11. LineOK(M, s, jobs[s]) /\ (Kept(L, s, jobs[s], answered) => Kept(M, s, jobs[s], answered))
    <2>1. /\ "taken" \in Stages /\ "sending" \in Stages /\ "taken" # "sending"
          /\ 1 \in Nat \ {0} /\ blen \in Nat /\ slen \in Nat
          /\ 1 - 1 + blen <= blen /\ Numbering(L, M) /\ LineOK(L, s, jobs[s])
          /\ Hands(L, M, "taken", "sending", 1, blen, blen, slen)
      BY <1>1, <1>4, <1>8, <1>9, <1>10 DEF slen
    <2> QED
      BY ONLY <2>1, Handed
  <1> QED
    BY <1>2, <1>11 DEF L, M, LineStep, KeptStep

LEMMA ReceiveLine ==
  ASSUME TypeOK, TypeOK', ConnInv, LineInv, NEW n \in Nat, Receive(n), NEW s \in Sessions
  PROVE  LineStep(s) /\ KeptStep(s)
  <1> DEFINE L == Line(s)
             M == Line(s)'
             box == inbox[client]
             len == Len(box)
  <1>0. client \in Sessions /\ box \in Seq(Messages)
    BY DEF Receive, TypeOK
  <1>1. Numbering(L, M) /\ LineOK(L, s, jobs[s])
    BY LineNumbering DEF LineInv
  <1>2. /\ n <= len /\ len \in Nat /\ n \in 0 .. len /\ frames' = SubSeq(box, 1, n)
        /\ inbox' = [inbox EXCEPT ![client] = SubSeq(box, n + 1, len)]
        /\ UNCHANGED <<received, ui, buff, tasks, sendq, jobs, answered>>
    BY <1>0, LenProperties DEF Receive, evars, uvars, out
  <1>3. frames = <<>>
    BY DEF Receive, TypeOK
  <1>4. /\ frames' \in Seq(Messages) /\ Len(frames') = n /\ \A j \in 1 .. n : frames'[j] = box[j]
    BY <1>0, <1>2, Prefix
  <1>5. /\ SubSeq(box, n + 1, len) \in Seq(Messages)
        /\ Len(SubSeq(box, n + 1, len)) = len - n
        /\ \A j \in 1 .. len - n : SubSeq(box, n + 1, len)[j] = box[n + j]
    BY <1>0, <1>2, Suffix
  <1>6. /\ inbox'[client] = SubSeq(box, n + 1, len)
        /\ \A c \in Sessions \ {client} : inbox'[c] = inbox[c]
    BY <1>0, <1>2 DEF TypeOK
  <1>7. DOMAIN box = 1 .. len /\ DOMAIN frames' = 1 .. n /\ DOMAIN inbox'[client] = 1 .. len - n
    BY <1>0, <1>4, <1>5, <1>6, LenProperties
  <1>8. /\ \A k \in Stages \ {"socket", "frames"} : M[k] = L[k]
        /\ L["socket"] = inbox[s] /\ M["socket"] = inbox'[s]
        /\ L["frames"] = <<>> /\ M["frames"] = frames'
    BY <1>2, <1>3, LineStages DEF Stages
  <1>9. /\ "socket" \in Stages /\ "frames" \in Stages /\ "socket" # "frames"
        /\ "socket" \in DOMAIN Rank /\ Rank["socket"] = Rank["frames"] + 1
    BY DEF Stages, Rank
  <1> HIDE DEF L, M, len
  <1>10. CASE s = client
    <2>1. /\ 1 .. 0 = {} /\ DOMAIN <<>> = {} /\ 0 + n = n
          /\ \A j \in 1 .. n : 0 + j = j /\ 1 - 1 + j = j
          /\ \A j \in 1 .. len - n : ~(j < 1) /\ n + j = j + n
          /\ 1 - 1 + n <= len
      BY <1>2
    <2>2. Hands(L, M, "socket", "frames", 1, n, len, 0)
      <3>1. \A j \in 1 .. len - n :
              M["socket"][j] = IF j < 1 THEN L["socket"][j] ELSE L["socket"][j + n]
        BY <1>5, <1>6, <1>8, <1>10, <2>1
      <3>2. \A j \in 1 .. n : M["frames"][0 + j] = L["socket"][1 - 1 + j]
        BY <1>4, <1>8, <1>10, <2>1
      <3> QED
        BY <1>7, <1>8, <1>9, <1>10, <2>1, <3>1, <3>2 DEF Hands
    <2>3. LineOK(M, s, jobs[s]) /\ (Kept(L, s, jobs[s], answered) => Kept(M, s, jobs[s], answered))
      <3>1. /\ "socket" \in Stages /\ "frames" \in Stages /\ "socket" # "frames"
            /\ 1 \in Nat \ {0} /\ n \in Nat /\ len \in Nat /\ 0 \in Nat
            /\ 1 - 1 + n <= len /\ Numbering(L, M) /\ LineOK(L, s, jobs[s])
            /\ Hands(L, M, "socket", "frames", 1, n, len, 0)
        BY <1>1, <1>2, <1>9, <2>1, <2>2
      <3> QED
        BY ONLY <3>1, Handed
    <2> QED
      BY <1>2, <2>3 DEF L, M, LineStep, KeptStep
  <1>11. CASE s # client
    <2>1. \A k \in Stages \ {"frames"} : M[k] = L[k]
      BY <1>6, <1>8, <1>11
    <2>2. \A j \in DOMAIN M["frames"] : ~IsJob(M["frames"][j], s)
      <3>1. \A j \in 1 .. n : j \in 1 .. len
        BY <1>2
      <3>2. \A j \in 1 .. len : box[j].session = client
        BY <1>0 DEF ConnInv, len
      <3> QED
        BY <1>4, <1>7, <1>8, <1>11, <3>1, <3>2 DEF IsJob
    <2>3. DOMAIN L["frames"] \subseteq Nat /\ DOMAIN M["frames"] \subseteq Nat /\ 0 \in Nat
      BY <1>1, <1>9 DEF Numbering
    <2>4. LineOK(M, s, jobs[s])
      BY <1>1, <1>9, <2>1, <2>2, <2>3, Thinned
    <2>5. Carried(L, M, s, answered)
      <3>1. DOMAIN L["frames"] = {}
        BY <1>8
      <3> QED
        BY <2>1, <3>1 DEF Carried
    <2> QED
      BY <1>2, <2>4, <2>5, KeptMoved DEF L, M, LineStep, KeptStep
  <1> QED
    BY <1>10, <1>11

\* The first one of stage a goes, and the last takes its place.
LEMMA Shuffled ==
  ASSUME NEW L, NEW M, NEW s, NEW max, NEW a \in Stages, a \notin DOMAIN Rank,
         NEW len \in Nat \ {0}, DOMAIN L[a] = 1 .. len, DOMAIN M[a] = 1 .. len - 1,
         \A k \in Stages \ {a} : M[k] = L[k],
         \A j \in 1 .. len - 1 : M[a][j] = L[a][IF j = 1 THEN len ELSE j],
         LineOK(L, s, max)
  PROVE  LineOK(M, s, max)
  <1> DEFINE pos(k, j) == IF k = a /\ j = 1 THEN len ELSE j
  <1>1. ASSUME NEW k \in Stages, NEW j \in DOMAIN M[k]
        PROVE  pos(k, j) \in DOMAIN L[k] /\ L[k][pos(k, j)] = M[k][j]
    OBVIOUS
  <1>2. ASSUME NEW k \in Stages, NEW i \in DOMAIN M[k], NEW j \in DOMAIN M[k],
               pos(k, i) = pos(k, j)
        PROVE  i = j
    BY <1>2
  <1>3. \A k \in DOMAIN Rank : k \in Stages \ {a}
    BY DEF Rank, Stages
  <1> HIDE DEF pos
  <1>4. Single(M, s)
    <2> SUFFICES ASSUME NEW k \in Stages, NEW l \in Stages, NEW i \in DOMAIN M[k],
                        NEW j \in DOMAIN M[l], IsJob(M[k][i], s), IsJob(M[l][j], s),
                        M[k][i].job = M[l][j].job
                 PROVE  k = l /\ i = j
      BY DEF Single
    <2>1. k = l /\ pos(k, i) = pos(l, j)
      BY <1>1 DEF LineOK, Single
    <2> QED
      BY <1>2, <2>1
  <1>5. Ordered(M, s)
    BY <1>3 DEF LineOK, Ordered
  <1>6. Numbered(M, s, max)
    BY <1>1 DEF LineOK, Numbered
  <1> QED
    BY <1>4, <1>5, <1>6 DEF LineOK

LEMMA SendChunkLine ==
  ASSUME TypeOK, TypeOK', LineInv, ResponseInv,
         NEW n \in 1 .. (IF sendq = <<>> THEN 0 ELSE Len(sendq[1].left)), SendChunk(n),
         NEW s \in Sessions
  PROVE  LineStep(s) /\ KeptStep(s)
  <1> DEFINE L == Line(s)
             M == Line(s)'
             left == sendq[1].left
             len == Len(sendq)
  <1>1. Numbering(L, M) /\ LineOK(L, s, jobs[s])
    BY LineNumbering DEF LineInv
  <1>2. /\ sendq \in Seq(Entries) /\ sendq' \in Seq(Entries) /\ len \in Nat \ {0}
        /\ 1 \in 1 .. len /\ Written(left, n) /\ n \in 1 .. Len(left) /\ Len(left) \in Nat
    BY SendFacts
  <1>3. /\ n < Len(left) => /\ Len(sendq') = len
                            /\ sendq'[1].req = sendq[1].req
                            /\ \A k \in 2 .. len : sendq'[k] = sendq[k]
        /\ n = Len(left) => /\ Len(sendq') = len - 1
                            /\ \A k \in 1 .. len - 1 :
                                 sendq'[k] = sendq[IF k = 1 THEN len ELSE k]
    BY SendFacts
  <1>4. UNCHANGED <<inbox, frames, received, ui, buff, tasks, jobs>>
    BY DEF SendChunk, evars, uvars
  <1>5. /\ \A k \in Stages \ {"sending"} : M[k] = L[k]
        /\ L["sending"] = ReqsIn(sendq) /\ M["sending"] = ReqsIn(sendq')
        /\ "sending" \in Stages /\ "sending" \notin DOMAIN Rank
    BY <1>4, LineStages DEF Stages, Rank
  <1>6. /\ DOMAIN ReqsIn(sendq) = 1 .. len /\ DOMAIN ReqsIn(sendq') = 1 .. Len(sendq')
        /\ \A j \in 1 .. len : ReqsIn(sendq)[j] = sendq[j].req
        /\ \A j \in 1 .. Len(sendq') : ReqsIn(sendq')[j] = sendq'[j].req
    BY <1>2, Reqs
  <1>7. answered \subseteq answered'
    BY <1>2 DEF Written
  <1>8. n = Len(left) => sendq[1].req \in answered'
    <2> SUFFICES ASSUME n = Len(left) PROVE sendq[1].req \in answered'
      OBVIOUS
    <2>1. left[n].part = Pieces /\ left[n].req = sendq[1].req
      BY <1>2 DEF ResponseInv, WellFormed
    <2>2. n \in {j \in 1 .. n : left[j].part = Pieces}
      BY <1>2, <2>1
    <2> QED
      BY <1>2, <2>1, <2>2 DEF Written
  <1> HIDE DEF L, M, len
  <1>9. CASE n < Len(left)
    <2>1. \A j \in 1 .. len : sendq'[j].req = sendq[j].req
      <3> SUFFICES ASSUME NEW j \in 1 .. len, j # 1 PROVE sendq'[j].req = sendq[j].req
        BY <1>3, <1>9
      <3>1. j \in 2 .. len
        BY <1>2
      <3> QED
        BY <1>3, <1>9, <3>1
    <2>2. ReqsIn(sendq') = ReqsIn(sendq)
      BY <1>2, <1>3, <1>9, <2>1, ReqsSame DEF len
    <2>3. \A k \in Stages : M[k] = L[k]
      BY <1>5, <2>2
    <2>4. M = L
      BY <2>3 DEF L, M, Line
    <2>5. Carried(L, M, s, answered')
      BY <2>3 DEF Carried
    <2> QED
      BY <1>1, <1>4, <1>7, <2>4, <2>5, KeptMoved DEF L, M, LineStep, KeptStep
  <1>10. CASE n = Len(left)
    <2>1. /\ DOMAIN L["sending"] = 1 .. len /\ DOMAIN M["sending"] = 1 .. len - 1
          /\ \A j \in 1 .. len - 1 :
               M["sending"][j] = L["sending"][IF j = 1 THEN len ELSE j]
      <3>1. \A j \in 1 .. len - 1 : (IF j = 1 THEN len ELSE j) \in 1 .. len
        BY <1>2
      <3>2. \A j \in 1 .. len - 1 : M["sending"][j] = sendq'[j].req
        BY <1>3, <1>5, <1>6, <1>10
      <3>3. \A j \in 1 .. len - 1 : L["sending"][IF j = 1 THEN len ELSE j]
                                    = sendq[IF j = 1 THEN len ELSE j].req
        BY <1>5, <1>6, <3>1
      <3> QED
        BY <1>3, <1>5, <1>6, <1>10, <3>2, <3>3
    <2>2. LineOK(M, s, jobs[s])
      BY <1>1, <1>2, <1>5, <2>1, Shuffled
    <2>3. Carried(L, M, s, answered')
      <3> SUFFICES ASSUME NEW k \in Stages, NEW i \in DOMAIN L[k], IsJob(L[k][i], s)
                   PROVE  \/ \E req \in answered' : req.session = s /\ req.job = L[k][i].job
                          \/ \E l \in Stages : \E j \in DOMAIN M[l] : M[l][j] = L[k][i]
        BY DEF Carried
      <3>1. CASE k # "sending"
        BY <1>5, <3>1
      <3>2. CASE k = "sending" /\ i = 1
        <4>1. L["sending"][1] = sendq[1].req
          BY <1>2, <1>5, <1>6
        <4> QED
          BY <1>8, <1>10, <3>2, <4>1 DEF IsJob
      <3>3. CASE k = "sending" /\ i # 1 /\ i # len
        <4>1. i \in 1 .. len - 1
          BY <1>2, <2>1, <3>3
        <4> QED
          BY <1>5, <2>1, <3>3, <4>1
      <3>4. CASE k = "sending" /\ i # 1 /\ i = len
        <4>1. 1 \in 1 .. len - 1
          BY <1>2, <3>4
        <4> QED
          BY <1>5, <2>1, <3>4, <4>1
      <3> QED
        BY <3>1, <3>2, <3>3, <3>4
    <2> QED
      BY <1>4, <1>7, <2>2, <2>3, KeptMoved DEF L, M, LineStep, KeptStep
  <1> QED
    BY <1>2, <1>9, <1>10

LEMMA DropClientLine ==
  ASSUME TypeOK, TypeOK', LineInv, DropClient, NEW s \in Sessions
  PROVE  LineStep(s) /\ (s # client => KeptStep(s))
  <1> DEFINE L == Line(s)
             M == Line(s)'
  <1>1. Numbering(L, M) /\ LineOK(L, s, jobs[s])
    BY LineNumbering DEF LineInv
  <1>2. /\ client \in Sessions /\ inbox' = [inbox EXCEPT ![client] = <<>>]
        /\ UNCHANGED <<frames, received, ui, buff, tasks, sendq, jobs, answered>>
    BY DEF DropClient, TypeOK, uvars, out
  <1>3. /\ inbox'[client] = <<>> /\ \A c \in Sessions \ {client} : inbox'[c] = inbox[c]
    BY <1>2 DEF TypeOK
  <1>4. /\ \A k \in Stages \ {"socket"} : M[k] = L[k] /\ "socket" \in Stages
        /\ L["socket"] = inbox[s] /\ M["socket"] = inbox'[s]
    BY <1>2, LineStages DEF Stages
  <1> HIDE DEF L, M
  <1>5. CASE s = client
    <2>1. DOMAIN M["socket"] = {}
      BY <1>3, <1>4, <1>5
    <2>2. "socket" \in Stages
      BY DEF Stages
    <2>3. DOMAIN L["socket"] \subseteq Nat /\ DOMAIN M["socket"] \subseteq Nat /\ 0 \in Nat
      BY <1>1, <2>2 DEF Numbering
    <2>4. LineOK(M, s, jobs[s])
      BY <1>1, <1>4, <2>1, <2>2, <2>3, Thinned
    <2> QED
      BY <1>2, <1>5, <2>4 DEF M, LineStep
  <1>6. CASE s # client
    <2>1. \A k \in Stages : M[k] = L[k]
      BY <1>3, <1>4, <1>6
    <2>2. M = L
      BY <2>1 DEF L, M, Line
    <2> QED
      BY <1>1, <1>2, <2>2 DEF L, M, LineStep, KeptStep
  <1> QED
    BY <1>5, <1>6

LEMMA LineMessages ==
  ASSUME TypeOK, NEW s \in Sessions, NEW k \in Stages, NEW i \in DOMAIN Line(s)[k]
  PROVE  Line(s)[k][i] \in Messages
  <1> DEFINE Fine(q) == \A j \in DOMAIN q : q[j] \in Messages
  <1>1. ASSUME NEW q \in Seq(Messages) PROVE Fine(q)
    BY LenProperties, ElementOfSeq
  <1>2. ASSUME NEW S, \A x \in S : x.req \in Request, NEW q \in Seq(S)
        PROVE  Fine(ReqsIn(q))
    <2> SUFFICES ASSUME NEW j \in DOMAIN ReqsIn(q) PROVE ReqsIn(q)[j] \in Messages
      OBVIOUS
    <2>1. j \in 1 .. Len(q) /\ ReqsIn(q)[j] = q[j].req
      BY Reqs
    <2>2. q[j] \in S
      BY <2>1, ElementOfSeq
    <2>3. ReqsIn(q)[j] \in Request
      BY <1>2, <2>1, <2>2
    <2> QED
      BY <2>3, MessageTypes
  <1>3. /\ inbox[s] \in Seq(Messages) /\ frames \in Seq(Messages)
        /\ received \in Seq(Tasks) /\ buff \in Seq(Tasks) /\ tasks \in Seq(Tasks)
        /\ sendq \in Seq(Entries)
    BY LineTypes
  <1>4. (\A x \in Tasks : x.req \in Request) /\ (\A x \in Entries : x.req \in Request)
    BY DEF Tasks, Entries
  <1>5. Fine(inbox[s]) /\ Fine(frames)
    BY <1>1, <1>3
  <1>6. Fine(ReqsIn(received)) /\ Fine(ReqsIn(buff)) /\ Fine(ReqsIn(tasks)) /\ Fine(ReqsIn(sendq))
    <2>1. Fine(ReqsIn(received))
      BY <1>2, <1>3, <1>4
    <2>2. Fine(ReqsIn(buff))
      BY <1>2, <1>3, <1>4
    <2>3. Fine(ReqsIn(tasks))
      BY <1>2, <1>3, <1>4
    <2>4. Fine(ReqsIn(sendq))
      BY <1>2, <1>3, <1>4
    <2> QED
      BY <2>1, <2>2, <2>3, <2>4
  <1>7. Fine(<<>>)
    BY <1>1, EmptySeq
  <1> HIDE DEF Fine
  <1>8. /\ Fine(IF ui = "own" THEN ReqsIn(buff) ELSE <<>>)
        /\ Fine(IF ui = "take" THEN ReqsIn(buff) ELSE <<>>)
    BY <1>6, <1>7
  <1>9. k \in {"socket", "frames", "received", "own", "tasks", "taken", "sending"}
    BY DEF Stages
  <1>10. Fine(Line(s)[k])
    BY <1>5, <1>6, <1>8, <1>9, LineStages
  <1> QED
    BY <1>10 DEF Fine

\* Client t adds a message at the end of its socket: a request with the next number,
\* or an echo.
LEMMA SentLine ==
  ASSUME TypeOK, TypeOK', LineInv, NEW t \in Sessions, NEW msg \in Messages,
         msg.session = t,
         inbox' = [inbox EXCEPT ![t] = Append(@, msg)],
         IF msg.cmd = EchoCmd THEN jobs' = jobs
                              ELSE jobs' = [jobs EXCEPT ![t] = @ + 1] /\ msg.job = jobs[t] + 1,
         UNCHANGED <<frames, received, ui, buff, tasks, sendq, answered>>,
         NEW s \in Sessions
  PROVE  LineStep(s) /\ KeptStep(s)
  <1> DEFINE L == Line(s)
             M == Line(s)'
             len == Len(inbox[s])
  <1>1. Numbering(L, M) /\ LineOK(L, s, jobs[s])
    BY LineNumbering DEF LineInv
  <1>2. /\ inbox \in [Sessions -> Seq(Messages)] /\ jobs \in [Sessions -> Nat]
        /\ inbox[s] \in Seq(Messages) /\ len \in Nat /\ DOMAIN inbox[s] = 1 .. len
    BY LenProperties DEF TypeOK
  <1>3. /\ \A k \in Stages \ {"socket"} : M[k] = L[k]
        /\ L["socket"] = inbox[s] /\ M["socket"] = inbox'[s]
    BY LineStages DEF Stages
  <1>4. "socket" \in Stages /\ DOMAIN Rank \subseteq Stages /\ Rank["socket"] = 5
    BY DEF Stages, Rank
  <1> HIDE DEF L, M
  <1>5. CASE s # t
    <2>1. \A k \in Stages : M[k] = L[k]
      BY <1>2, <1>3, <1>5
    <2>2. M = L /\ jobs'[s] = jobs[s]
      BY <1>2, <1>5, <2>1 DEF L, M, Line
    <2> QED
      BY <1>1, <2>2 DEF L, M, LineStep, KeptStep
  <1>6. CASE s = t
    <2>1. inbox'[s] = Append(inbox[s], msg)
      BY <1>2, <1>6
    <2>2. /\ Len(inbox'[s]) = len + 1 /\ inbox'[s] \in Seq(Messages)
          /\ \A j \in 1 .. len : inbox'[s][j] = inbox[s][j]
          /\ inbox'[s][len + 1] = msg
      BY <1>2, <2>1, AppendProperties
    <2>3. DOMAIN inbox'[s] = 1 .. len + 1
      BY <2>2, LenProperties
    <2> HIDE DEF len
    <2>4. /\ \A j \in 1 .. len : j \in 1 .. len + 1
          /\ \A j \in 1 .. len + 1 : j \in 1 .. len \/ j = len + 1
          /\ len + 1 \in 1 .. len + 1 /\ len + 1 \notin 1 .. len
          /\ \A j \in 1 .. len : j < len + 1
      BY <1>2 DEF len
    <2>5. ASSUME NEW k \in Stages, NEW i \in DOMAIN L[k]
          PROVE  i \in DOMAIN M[k] /\ M[k][i] = L[k][i]
      <3>1. CASE k = "socket"
        <4>1. i \in 1 .. len
          BY <1>2, <1>3, <3>1 DEF len
        <4> QED
          BY <1>3, <2>2, <2>3, <2>4, <3>1, <4>1
      <3>2. CASE k # "socket"
        BY <1>3, <3>2
      <3> QED
        BY <3>1, <3>2
    <2>6. CASE msg.cmd = EchoCmd
      <3>1. \A j \in DOMAIN M["socket"] : IsJob(M["socket"][j], s) =>
              j + 0 \in DOMAIN L["socket"] /\ M["socket"][j] = L["socket"][j + 0]
        <4>1. \A j \in 1 .. len : j + 0 = j
          BY <1>2 DEF len
        <4> QED
          BY <1>2, <1>3, <2>2, <2>3, <2>4, <2>6, <4>1 DEF IsJob, len
      <3>2. DOMAIN L["socket"] \subseteq Nat /\ DOMAIN M["socket"] \subseteq Nat /\ 0 \in Nat
        BY <1>1, <1>4 DEF Numbering
      <3>3. LineOK(M, s, jobs[s])
        <4>1. /\ "socket" \in Stages /\ 0 \in Nat
              /\ DOMAIN L["socket"] \subseteq Nat /\ DOMAIN M["socket"] \subseteq Nat
              /\ \A k \in Stages \ {"socket"} : M[k] = L[k]
              /\ \A j \in DOMAIN M["socket"] : IsJob(M["socket"][j], s) =>
                   j + 0 \in DOMAIN L["socket"] /\ M["socket"][j] = L["socket"][j + 0]
              /\ LineOK(L, s, jobs[s])
          BY <1>1, <1>3, <1>4, <3>1, <3>2
        <4> QED
          BY ONLY <4>1, Thinned
      <3>4. Carried(L, M, s, answered)
        BY <2>5 DEF Carried
      <3> QED
        BY <2>6, <3>3, <3>4, KeptMoved DEF L, M, LineStep, KeptStep
    <2>7. CASE msg.cmd # EchoCmd
      <3>1. /\ jobs'[s] = jobs[s] + 1 /\ jobs[s] \in Nat /\ msg.job = jobs[s] + 1
            /\ IsJob(msg, s)
        BY <1>2, <1>6, <2>7 DEF IsJob
      <3>2. ASSUME NEW k \in Stages, NEW i \in DOMAIN M[k]
            PROVE  \/ i \in DOMAIN L[k] /\ M[k][i] = L[k][i]
                   \/ k = "socket" /\ i = len + 1 /\ M[k][i] = msg
        <4>1. CASE k = "socket" /\ i \in 1 .. len
          BY <1>2, <1>3, <2>2, <4>1 DEF len
        <4>2. CASE k = "socket" /\ i = len + 1
          BY <1>3, <2>2, <4>2
        <4>3. CASE k # "socket"
          BY <1>3, <4>3
        <4> QED
          BY <1>3, <2>3, <2>4, <4>1, <4>2, <4>3
      <3>3. \A k \in Stages : \A i \in DOMAIN L[k] : IsJob(L[k][i], s) =>
              L[k][i].job <= jobs[s]
        BY <1>1 DEF LineOK, Numbered
      <3>4. \A k \in Stages : \A i \in DOMAIN L[k] : IsJob(L[k][i], s) => L[k][i].job \in Nat
        <4>1. \A m \in Messages : m.cmd # EchoCmd => m.job \in Nat
          BY MessageTypes DEF Request
        <4> QED
          BY <4>1, LineMessages DEF L, IsJob
      <3>5. LineOK(M, s, jobs[s] + 1)
        <4>1. Single(M, s)
          <5> SUFFICES ASSUME NEW k \in Stages, NEW l \in Stages, NEW i \in DOMAIN M[k],
                              NEW j \in DOMAIN M[l], IsJob(M[k][i], s), IsJob(M[l][j], s),
                              M[k][i].job = M[l][j].job
                       PROVE  k = l /\ i = j
            BY DEF Single
          <5>1. CASE i \in DOMAIN L[k] /\ M[k][i] = L[k][i] /\ j \in DOMAIN L[l] /\ M[l][j] = L[l][j]
            BY <1>1, <5>1 DEF LineOK, Single
          <5>2. CASE i \in DOMAIN L[k] /\ M[k][i] = L[k][i] /\ M[l][j] = msg
            BY <3>1, <3>3, <3>4, <5>2
          <5>3. CASE M[k][i] = msg /\ j \in DOMAIN L[l] /\ M[l][j] = L[l][j]
            BY <3>1, <3>3, <3>4, <5>3
          <5>4. CASE k = "socket" /\ i = len + 1 /\ l = "socket" /\ j = len + 1
            BY <5>4
          <5> QED
            BY <3>2, <5>1, <5>2, <5>3, <5>4
        <4>2. Ordered(M, s)
          <5> SUFFICES ASSUME NEW k \in DOMAIN Rank, NEW l \in DOMAIN Rank, NEW i \in DOMAIN M[k],
                              NEW j \in DOMAIN M[l], IsJob(M[k][i], s), IsJob(M[l][j], s),
                              Before(k, i, l, j)
                       PROVE  M[k][i].job < M[l][j].job
            BY DEF Ordered
          <5>1. k \in Stages /\ l \in Stages
            BY <1>4
          <5>2. CASE i \in DOMAIN L[k] /\ M[k][i] = L[k][i] /\ j \in DOMAIN L[l] /\ M[l][j] = L[l][j]
            BY <1>1, <5>2 DEF LineOK, Ordered
          <5>3. CASE i \in DOMAIN L[k] /\ M[k][i] = L[k][i] /\ M[l][j] = msg
            BY <3>1, <3>3, <3>4, <5>1, <5>3
          <5>4. CASE k = "socket" /\ i = len + 1
            <6>1. ~(Rank["socket"] < Rank[l])
              BY DEF Rank
            <6>2. l = "socket" /\ len + 1 < j
              BY <5>4, <6>1 DEF Before
            <6>3. j \in 1 .. len + 1
              BY <1>3, <2>3, <6>2
            <6> QED
              BY <1>2, <6>2, <6>3 DEF len
          <5> QED
            BY <3>2, <5>1, <5>2, <5>3, <5>4
        <4>3. Numbered(M, s, jobs[s] + 1)
          <5> SUFFICES ASSUME NEW k \in Stages, NEW i \in DOMAIN M[k], IsJob(M[k][i], s)
                       PROVE  M[k][i].job <= jobs[s] + 1
            BY DEF Numbered
          <5>1. CASE i \in DOMAIN L[k] /\ M[k][i] = L[k][i]
            BY <3>1, <3>3, <3>4, <5>1
          <5>2. CASE M[k][i] = msg
            BY <3>1, <5>2
          <5> QED
            BY <3>2, <5>1, <5>2
        <4> QED
          BY <4>1, <4>2, <4>3 DEF LineOK
      <3>6. ASSUME Kept(L, s, jobs[s], answered)
            PROVE  Kept(M, s, jobs[s] + 1, answered)
        <4>1. Carried(L, M, s, answered)
          BY <2>5 DEF Carried
        <4>2. Kept(M, s, jobs[s], answered)
          BY <3>6, <4>1, KeptMoved
        <4> SUFFICES ASSUME NEW m \in 1 .. jobs[s] + 1
                     PROVE  \/ \E req \in answered : req.session = s /\ req.job = m
                            \/ \E k \in Stages : \E i \in DOMAIN M[k] :
                                 IsJob(M[k][i], s) /\ M[k][i].job = m
          BY DEF Kept
        <4>3. CASE m \in 1 .. jobs[s]
          BY <4>2, <4>3 DEF Kept
        <4>4. CASE m = jobs[s] + 1
          <5>1. len + 1 \in DOMAIN M["socket"] /\ M["socket"][len + 1] = msg
            BY <1>3, <2>2, <2>3, <2>4
          <5> QED
            BY <1>4, <3>1, <4>4, <5>1
        <4> QED
          BY <3>1, <4>3, <4>4
      <3> QED
        BY <3>1, <3>5, <3>6 DEF L, M, LineStep, KeptStep
    <2> QED
      BY <2>6, <2>7
  <1> QED
    BY <1>5, <1>6

LEMMA SameLines ==
  ASSUME LineInv, UNCHANGED <<inbox, frames, received, ui, buff, tasks, sendq, jobs, answered>>,
         NEW s \in Sessions
  PROVE  LineStep(s) /\ KeptStep(s)
  BY SameLine DEF LineInv, LineStep, KeptStep

LEMMA ClientLines ==
  ASSUME TypeInv, TypeInv', LineInv, ClientStep, NEW s \in Sessions
  PROVE  LineStep(s) /\ KeptStep(s) /\ (Waiting(s)' => Waiting(s))
  <1> USE DEF TypeInv
  <1>1. CASE Connect
    <2>1. LineStep(s) /\ KeptStep(s)
      BY <1>1, SameLines DEF Connect, gvars, uvars, out
    <2>2. /\ backlog \in Seq(Sessions) /\ backlog' = Append(backlog, sessions')
          /\ sessions' = sessions + 1 /\ sessions \in Nat /\ sessions < MaxSessions
          /\ client' = client /\ s \in Nat
      BY <1>1, BoundsAssumption DEF Connect, TypeOK, gvars, Sessions
    <2>3. /\ Len(backlog') = Len(backlog) + 1 /\ Len(backlog) \in Nat
          /\ \A i \in 1 .. Len(backlog) : backlog'[i] = backlog[i]
          /\ backlog'[Len(backlog) + 1] = sessions'
      <3>1. sessions' \in Sessions
        BY <2>2, BoundsAssumption DEF Sessions
      <3> QED
        BY <2>2, <3>1, AppendProperties, LenProperties
    <2>4. Waiting(s)' => Waiting(s)
      <3>1. CASE s = client' \/ s > sessions'
        BY <2>2, <3>1 DEF Waiting
      <3>2. ASSUME NEW i \in 1 .. Len(backlog'), backlog'[i] = s
            PROVE  Waiting(s)
        <4>1. CASE i \in 1 .. Len(backlog)
          BY <2>3, <3>2, <4>1 DEF Waiting
        <4>2. CASE i = Len(backlog) + 1
          BY <2>2, <2>3, <3>2, <4>2 DEF Waiting
        <4> QED
          BY <2>3, <4>1, <4>2
      <3> QED
        BY <3>1, <3>2 DEF Waiting
    <2> QED
      BY <2>1, <2>4
  <1>2. ASSUME NEW t \in alive, AnswerEcho(t)
        PROVE  LineStep(s) /\ KeptStep(s) /\ (Waiting(s)' => Waiting(s))
    <2>1. t \in Sessions
      BY DEF TypeOK
    <2>2. Echo(t) \in Messages /\ Echo(t).session = t /\ Echo(t).cmd = EchoCmd
      BY <2>1, MessageTypes DEF Echo
    <2>3. /\ inbox' = [inbox EXCEPT ![t] = Append(@, Echo(t))]
          /\ jobs' = jobs /\ UNCHANGED <<sessions, client, backlog>>
          /\ UNCHANGED <<frames, received, ui, buff, tasks, sendq, answered>>
      BY <1>2 DEF AnswerEcho, evars, gvars, uvars, out
    <2>4. LineStep(s) /\ KeptStep(s)
      BY <2>1, <2>2, <2>3, SentLine
    <2> QED
      BY <2>3, <2>4 DEF Waiting
  <1>3. ASSUME NEW t \in alive, Depart(t)
        PROVE  LineStep(s) /\ KeptStep(s) /\ (Waiting(s)' => Waiting(s))
    <2>1. LineStep(s) /\ KeptStep(s)
      BY <1>3, SameLines DEF Depart, gvars, uvars, out
    <2> QED
      BY <1>3, <2>1 DEF Depart, Waiting, gvars
  <1>4. ASSUME NEW t \in alive, NEW cmd \in Commands, NEW opts \in Options, Ask(t, cmd, opts)
        PROVE  LineStep(s) /\ KeptStep(s) /\ (Waiting(s)' => Waiting(s))
    <2>1. t \in Sessions
      BY DEF TypeOK
    <2> DEFINE req == [session |-> t, job |-> jobs'[t], cmd |-> cmd, opts |-> opts]
    <2>2. /\ jobs \in [Sessions -> Nat] /\ jobs' = [jobs EXCEPT ![t] = @ + 1]
          /\ inbox' = [inbox EXCEPT ![t] = Append(@, req)]
          /\ UNCHANGED <<sessions, client, backlog>>
          /\ UNCHANGED <<frames, received, ui, buff, tasks, sendq, answered>>
      BY <1>4 DEF Ask, TypeOK, gvars, uvars, out
    <2>3. jobs'[t] = jobs[t] + 1 /\ jobs'[t] \in Nat \ {0}
      BY <2>1, <2>2
    <2>4. req \in Request /\ req.session = t /\ req.job = jobs[t] + 1
      BY <2>1, <2>3 DEF Request
    <2> HIDE DEF req
    <2>5. req \in Messages /\ req.cmd # EchoCmd
      BY <2>4, MessageTypes
    <2>6. LineStep(s) /\ KeptStep(s)
      BY <2>1, <2>2, <2>4, <2>5, SentLine
    <2> QED
      BY <2>2, <2>6 DEF Waiting
  <1> QED
    BY <1>1, <1>2, <1>3, <1>4 DEF ClientStep

LEMMA GateLines ==
  ASSUME TypeInv, TypeInv', LineInv, ResponseInv, GateStep, NEW s \in Sessions
  PROVE  LineStep(s) /\ (Waiting(s)' => Waiting(s) /\ KeptStep(s))
  <1> USE DEF TypeInv
  <1>1. CASE Accept
    <2>1. LineStep(s) /\ KeptStep(s)
      BY <1>1, SameLines DEF Accept, evars, uvars, out
    <2>2. /\ backlog \in Seq(Sessions) /\ backlog # <<>>
          /\ client' = Head(backlog) /\ backlog' = Tail(backlog) /\ sessions' = sessions
      BY <1>1 DEF Accept, TypeOK, evars
    <2>3. /\ client' = backlog[1] /\ Len(backlog') = Len(backlog) - 1
          /\ Len(backlog) \in Nat \ {0}
          /\ \A i \in 1 .. Len(backlog') : backlog'[i] = backlog[i + 1]
      BY <2>2, HeadTailProperties, EmptySeq, LenProperties
    <2>4. 1 \in 1 .. Len(backlog) /\ \A i \in 1 .. Len(backlog') : i + 1 \in 1 .. Len(backlog)
      BY <2>3
    <2>5. Waiting(s)' => Waiting(s)
      BY <2>2, <2>3, <2>4 DEF Waiting
    <2> QED
      BY <2>1, <2>5
  <1>2. CASE LeaveLoop \/ SendNothing \/ Track
    <2>1. LineStep(s) /\ KeptStep(s)
      BY <1>2, SameLines DEF LeaveLoop, SendNothing, Track, evars, uvars, out
    <2> QED
      BY <1>2, <2>1 DEF LeaveLoop, SendNothing, Track, Waiting, evars
  <1>3. CASE SendSome
    <2>1. PICK n \in 1 .. (IF sendq = <<>> THEN 0 ELSE Len(sendq[1].left)) : SendChunk(n)
      BY <1>3 DEF SendSome
    <2>2. LineStep(s) /\ KeptStep(s)
      BY <2>1, SendChunkLine
    <2> QED
      BY <2>1, <2>2 DEF SendChunk, Waiting, evars
  <1>4. CASE ReceiveSome \/ Receive(0)
    <2>1. PICK n \in Nat : Receive(n)
      <3>1. CASE ReceiveSome
        <4>1. client \in Sessions
          BY <3>1 DEF ReceiveSome, TypeOK
        <4>2. Len(inbox[client]) \in Nat
          BY <4>1, LenProperties DEF TypeOK
        <4> QED
          BY <3>1, <4>2 DEF ReceiveSome
      <3> QED
        BY <1>4, <3>1
    <2>2. LineStep(s) /\ KeptStep(s)
      BY <2>1, ReceiveLine
    <2> QED
      BY <2>1, <2>2 DEF Receive, Waiting, evars
  <1>5. CASE HandleTelegram
    <2>1. LineStep(s) /\ KeptStep(s)
      BY <1>5, HandleRequestLine, HandleEchoLine
    <2> QED
      BY <1>5, <2>1 DEF HandleTelegram, Waiting, evars
  <1>6. CASE DropClient
    <2>1. LineStep(s) /\ (s # client => KeptStep(s))
      BY <1>6, DropClientLine
    <2>2. client' = NoClient /\ UNCHANGED <<sessions, backlog>> /\ client \in Nat
      BY <1>6, BoundsAssumption DEF DropClient, TypeOK, Sessions, NoClient
    <2>3. s # NoClient /\ s \in Nat /\ sessions \in Nat
      BY BoundsAssumption DEF Sessions, NoClient, TypeOK
    <2>4. Waiting(s)' => Waiting(s) /\ s # client
      BY <2>2, <2>3 DEF Waiting, ConnInv
    <2> QED
      BY <2>1, <2>4
  <1> QED
    BY <1>1, <1>2, <1>3, <1>4, <1>5, <1>6 DEF GateStep

LEMMA UILines ==
  ASSUME TypeInv, TypeInv', LineInv, TakenInv, UIStep, NEW s \in Sessions
  PROVE  LineStep(s) /\ KeptStep(s) /\ (Waiting(s)' => Waiting(s))
  <1>1. LineStep(s) /\ KeptStep(s)
    BY TakeReceivedLine, OwnNextLine, ResolveLine, TakeFinishedLine, ReportLine
       DEF UIStep, TypeInv
  <1>2. UNCHANGED <<sessions, client, backlog>>
    BY DEF UIStep, TakeReceived, OwnNext, Resolve, TakeFinished, Report, evars, gvars
  <1> QED
    BY <1>1, <1>2 DEF Waiting

LEMMA StepLines ==
  ASSUME TypeInv, TypeInv', TakenInv, ResponseInv, LineInv, KeptInv, [Next]_vars
  PROVE  LineInv' /\ KeptInv'
  <1>1. ASSUME NEW s \in Sessions
        PROVE  LineStep(s) /\ (Waiting(s)' => Waiting(s) /\ KeptStep(s))
    <2>1. CASE ClientStep
      BY <2>1, ClientLines
    <2>2. CASE GateStep
      BY <2>2, GateLines
    <2>3. CASE UIStep
      BY <2>3, UILines
    <2>4. CASE TimingReady \/ Stop \/ Stopped \/ UNCHANGED vars
      <3>1. LineStep(s) /\ KeptStep(s)
        BY <2>4, SameLines DEF TimingReady, Stop, Stopped, vars, evars, gvars, uvars, out
      <3>2. UNCHANGED <<sessions, client, backlog>>
        BY <2>4 DEF TimingReady, Stop, Stopped, vars, evars, gvars
      <3> QED
        BY <3>1, <3>2 DEF Waiting
    <2> QED
      BY <2>1, <2>2, <2>3, <2>4 DEF Next
  <1>2. LineInv'
    BY <1>1 DEF LineInv, LineStep, LineOK, Single, Ordered, Numbered, Before, IsJob
  <1>3. \A s \in Sessions : Waiting(s)' => Kept(Line(s)', s, jobs'[s], answered')
    BY <1>1 DEF KeptInv, KeptStep
  <1>4. KeptInv'
    BY <1>3 DEF KeptInv, Kept, IsJob
  <1> QED
    BY <1>2, <1>4

LEMMA InitLines == Init => LineInv /\ KeptInv
  <1> SUFFICES ASSUME Init PROVE LineInv /\ KeptInv
    OBVIOUS
  <1>1. ASSUME NEW s \in Sessions, NEW k \in Stages PROVE DOMAIN Line(s)[k] = {}
    <2>1. DOMAIN <<>> = {} /\ DOMAIN ReqsIn(<<>>) = {}
      BY DEF ReqsIn
    <2>2. k \in {"socket", "frames", "received", "own", "tasks", "taken", "sending"}
      BY DEF Stages
    <2>3. /\ inbox[s] = <<>> /\ frames = <<>> /\ received = <<>> /\ tasks = <<>>
          /\ sendq = <<>> /\ ui = "idle"
      BY DEF Init
    <2> QED
      BY <2>1, <2>2, <2>3, LineStages
  <1>2. DOMAIN Rank \subseteq Stages
    BY DEF Rank, Stages
  <1>3. LineInv
    BY <1>1, <1>2 DEF LineInv, LineOK, Single, Ordered, Numbered
  <1>4. \A s \in Sessions : jobs[s] = 0
    BY DEF Init
  <1>5. KeptInv
    BY <1>4 DEF KeptInv, Kept
  <1> QED
    BY <1>3, <1>5

-------------------------------------------------------------------------------
(* The resolver *)

LEMMA StepRuns ==
  ASSUME TypeInv, LineInv, OneRunsPerCommand, [Next]_vars
  PROVE  OneRunsPerCommand'
  <1>0. tasks \in Seq(Tasks) /\ buff \in Seq(Tasks)
    BY DEF TypeInv, TypeOK
  <1>1. /\ Len(tasks) \in Nat /\ DOMAIN tasks = 1 .. Len(tasks)
        /\ \A i \in 1 .. Len(tasks) : tasks[i] \in Tasks
    BY <1>0, LenProperties, ElementOfSeq
  <1>2. CASE OwnNext
    <2> DEFINE req == Head(buff).req
               ts == OwnTask(tasks, req)
               len == Len(tasks)
    <2>1. /\ buff # <<>> /\ ui = "own" /\ tasks' = ts /\ buff[1] = Head(buff)
          /\ Head(buff) \in Tasks /\ req \in Request /\ 1 \in 1 .. Len(buff)
      <3>1. buff # <<>> /\ ui = "own" /\ tasks' = ts
        BY <1>2 DEF OwnNext
      <3>2. buff[1] = Head(buff) /\ Head(buff) \in Tasks
        BY <1>0, <3>1, HeadTailProperties
      <3>3. Len(buff) \in Nat \ {0}
        BY <1>0, <3>1, LenProperties, EmptySeq
      <3> QED
        BY <3>1, <3>2, <3>3 DEF Tasks
    <2>2. /\ ts \in Seq(Tasks) /\ Len(ts) = len + 1
          /\ \A i \in 1 .. len :
               /\ ts[i].req = tasks[i].req
               /\ Finished(tasks[i]) => Finished(ts[i])
               /\ /\ tasks[i].req.cmd = req.cmd /\ tasks[i].req.opts # req.opts
                  /\ req.job > tasks[i].req.job
                  => Finished(ts[i])
          /\ ts[len + 1].req = req
          /\ (\E i \in 1 .. len : tasks[i].req.cmd = req.cmd /\ tasks[i].req.opts = req.opts)
               => Finished(ts[len + 1])
      <3> HIDE DEF req
      <3> QED
        BY <1>0, <2>1, Owned
    <2>3. \A i \in 1 .. len : tasks[i].req.session = req.session => tasks[i].req.job < req.job
      <3> SUFFICES ASSUME NEW i \in 1 .. len, tasks[i].req.session = req.session
                   PROVE  tasks[i].req.job < req.job
        OBVIOUS
      <3> DEFINE s == req.session
      <3>1. s \in Sessions /\ tasks[i].req \in Request
        BY <1>1, <2>1 DEF Request, Tasks
      <3>2. IsJob(tasks[i].req, s) /\ IsJob(req, s)
        BY <2>1, <3>1, MessageTypes DEF IsJob
      <3>3. /\ Line(s)["tasks"] = ReqsIn(tasks) /\ Line(s)["own"] = ReqsIn(buff)
        BY <2>1, <3>1, LineStages
      <3>4. /\ i \in DOMAIN Line(s)["tasks"] /\ Line(s)["tasks"][i] = tasks[i].req
            /\ 1 \in DOMAIN Line(s)["own"] /\ Line(s)["own"][1] = req
        BY <1>0, <2>1, <3>3, Reqs
      <3>5. Before("tasks", i, "own", 1) /\ "tasks" \in DOMAIN Rank /\ "own" \in DOMAIN Rank
        BY DEF Before, Rank
      <3>6. Ordered(Line(s), s)
        BY <3>1 DEF LineInv, LineOK
      <3> HIDE DEF s, req
      <3> QED
        BY <3>2, <3>4, <3>5, <3>6 DEF Ordered
    <2>4. \A i \in 1 .. len : tasks[i].req.job \in Nat /\ req.job \in Nat
      BY <1>1, <2>1 DEF Tasks, Request
    <2> HIDE DEF ts, req, len
    <2>5. DOMAIN tasks' = 1 .. len + 1
      BY <2>1, <2>2, LenProperties
    <2>6. ASSUME NEW i \in 1 .. len, ~Finished(ts[i]), ~Finished(ts[len + 1]),
                 ts[i].req.cmd = ts[len + 1].req.cmd,
                 ts[i].req.session = ts[len + 1].req.session
          PROVE  FALSE
      <3>1. tasks[i].req.cmd = req.cmd /\ tasks[i].req.session = req.session
        BY <2>2, <2>6
      <3>2. req.job > tasks[i].req.job
        BY <2>3, <2>4, <3>1
      <3> QED
        BY <2>2, <2>6, <3>1, <3>2
    <2>7. ASSUME NEW i \in 1 .. len, NEW j \in 1 .. len, ~Finished(ts[i]), ~Finished(ts[j]),
                 ts[i].req.cmd = ts[j].req.cmd, ts[i].req.session = ts[j].req.session
          PROVE  i = j
      BY <1>1, <2>2, <2>7 DEF OneRunsPerCommand, len
    <2>8. \A i \in 1 .. len + 1 : i \in 1 .. len \/ i = len + 1
      BY <1>1 DEF len
    <2>9. ASSUME NEW i \in 1 .. len + 1, NEW j \in 1 .. len + 1, ~Finished(ts[i]),
                 ~Finished(ts[j]), ts[i].req.cmd = ts[j].req.cmd,
                 ts[i].req.session = ts[j].req.session
          PROVE  i = j
      BY <2>6, <2>7, <2>8, <2>9
    <2> QED
      BY <2>1, <2>5, <2>9 DEF OneRunsPerCommand, Finished
  <1>3. CASE Resolve
    <2>1. /\ DOMAIN tasks' = DOMAIN tasks
          /\ \A i \in DOMAIN tasks : /\ tasks'[i].req = tasks[i].req
                                     /\ Finished(tasks[i]) => Finished(tasks'[i])
      <3>1. CASE ready
        BY <1>1, <1>3, <3>1 DEF Resolve, Tasks, Finished
      <3>2. CASE ~ready
        BY <1>3, <3>2 DEF Resolve
      <3> QED
        BY <3>1, <3>2
    <2> QED
      BY <2>1 DEF OneRunsPerCommand, Finished
  <1>4. ASSUME NEW i \in DOMAIN tasks, TakeFinished(i)
        PROVE  OneRunsPerCommand'
    <2> DEFINE len == Len(tasks)
               old(j) == IF j < i THEN j ELSE j + 1
    <2>1. i \in 1 .. len /\ tasks' = RemoveAt(tasks, i)
      BY <1>1, <1>4 DEF TakeFinished
    <2>2. /\ tasks' \in Seq(Tasks) /\ Len(tasks') = len - 1
          /\ \A j \in 1 .. len - 1 : tasks'[j] = IF j < i THEN tasks[j] ELSE tasks[j + 1]
      BY <1>0, <2>1, Removed
    <2>3. DOMAIN tasks' = 1 .. len - 1
      BY <2>2, LenProperties
    <2> HIDE DEF len
    <2>4. \A j \in 1 .. len - 1 : old(j) \in 1 .. len /\ tasks'[j] = tasks[old(j)]
      BY <1>1, <2>1, <2>2 DEF len
    <2>5. \A j, k \in 1 .. len - 1 : old(j) = old(k) => j = k
      BY <2>1
    <2> HIDE DEF old
    <2> QED
      BY <1>1, <2>3, <2>4, <2>5 DEF OneRunsPerCommand, Finished, len
  <1>5. CASE UNCHANGED tasks
    BY <1>5 DEF OneRunsPerCommand, Finished
  <1>6. \/ OwnNext \/ Resolve \/ UNCHANGED tasks
        \/ \E i \in DOMAIN tasks : TakeFinished(i)
    BY DEF Next, ClientStep, GateStep, UIStep, SendSome, ReceiveSome, Connect, AnswerEcho,
           Depart, Ask, Accept, LeaveLoop, SendChunk, SendNothing, Receive, HandleTelegram,
           Track, DropClient, TakeReceived, Report, TimingReady, Stop, Stopped, uvars, vars
  <1> QED
    BY <1>2, <1>3, <1>4, <1>5, <1>6

-------------------------------------------------------------------------------
(* Theorems *)

Inv ==
  TypeInv /\ TakenInv /\ ResponseInv /\ LineInv /\ KeptInv /\ OneRunsPerCommand

LEMMA InitInv == Init => Inv
  <1>1. Init => OneRunsPerCommand
    BY DEF Init, OneRunsPerCommand
  <1> QED
    BY <1>1, InitTypes, InitTaken, InitResponses, InitLines DEF Inv

LEMMA StepInv == Inv /\ [Next]_vars => Inv'
  <1> SUFFICES ASSUME Inv, [Next]_vars PROVE Inv'
    OBVIOUS
  <1>1. TypeInv' /\ TakenInv'
    BY StepTypes DEF Inv
  <1>2. ResponseInv'
    BY StepResponses DEF Inv, TypeInv
  <1>3. LineInv' /\ KeptInv'
    BY <1>1, StepLines DEF Inv
  <1>4. OneRunsPerCommand'
    BY StepRuns DEF Inv
  <1> QED
    BY <1>1, <1>2, <1>3, <1>4 DEF Inv

LEMMA AlwaysInv == Spec => []Inv
  BY InitInv, StepInv, PTL DEF Spec

\* The state of the server is of its type: nothing is received for, or sent to, no
\* client, and what is in the queues is requests and what is left of responses.
THEOREM ServerTypes == Spec => []TypeOK
  <1>1. Inv => TypeOK
    BY DEF Inv, TypeInv
  <1> QED
    BY <1>1, AlwaysInv, PTL

\* Between the socket, the gate thread, the UI thread and the send queue no request
\* is lost or repeated (the hand-over under m_tasks_mutex, own_task, take_finished_tasks).
THEOREM RequestsAreKept == Spec => []RequestsKept
  <1>1. Inv => RequestsKept
    <2> SUFFICES ASSUME Inv PROVE RequestsKept
      OBVIOUS
    <2>1. \A s \in Sessions : Single(Line(s), s)
      BY DEF Inv, LineInv, LineOK
    <2>2. client # NoClient => Kept(Line(client), client, jobs[client], answered)
      BY DEF Inv, KeptInv, Waiting, TypeInv, TypeOK
    <2>3. \A s : \A k \in Stages : Line(s)[k] = At(k, s)
      BY DEF Line
    <2> QED
      BY <2>1, <2>2, <2>3 DEF RequestsKept, Single, Kept
  <1> QED
    BY <1>1, AlwaysInv, PTL

\* On the socket a response is continued until it is complete, however the send queue
\* is reordered when one is done.
THEOREM ResponsesStayWhole == Spec => []ResponsesWhole
  <1>1. Inv => ResponsesWhole
    BY DEF Inv, ResponseInv
  <1> QED
    BY <1>1, AlwaysInv, PTL

\* The resolver works on a command for one request of a client at a time: requests
\* come to own_task in the order in which the client made them.
THEOREM OneRequestRuns == Spec => []OneRunsPerCommand
  <1>1. Inv => OneRunsPerCommand
    BY DEF Inv
  <1> QED
    BY <1>1, AlwaysInv, PTL
===============================================================================
