---------------------------- MODULE TelegramBuffer ----------------------------
(* comm::TelegramBuffer (vpr/src/server/telegrambuffer.cpp): bytes arrive from  *)
(* a socket in pieces of any size, and take_telegram_frames cuts them into      *)
(* telegrams, each a header (signature, length and checksum of the body) and a  *)
(* body.  The gate thread keeps one buffer for all the clients it serves, one   *)
(* after the other.                                                             *)
(*                                                                             *)
(* A byte is <<t, i>>, the i-th byte of telegram t; the first SigSize bytes of  *)
(* every telegram are the signature, and no other byte looks like a part of it. *)
(* The checksum of a body is the body: two bodies whose bytes have the same sum *)
(* are not told apart by the code, and do not occur here.                       *)
EXTENDS Naturals, FiniteSets, Sequences, SequencesExt

CONSTANTS
  Telegrams,
  Noise,                \* a byte that belongs to no telegram
  SigSize, HeaderSize,  \* TelegramHeader::SIGNATURE_SIZE and size(), in bytes
  BodySize,             \* of each telegram, in bytes
  Streams,              \* what each client sends: telegrams and noise
  MaxChunk              \* the most that one read_n returns

ASSUME SizesAssumption ==
  /\ SigSize \in Nat \ {0} /\ HeaderSize \in Nat /\ SigSize < HeaderSize
  /\ BodySize \in [Telegrams -> Nat \ {0}]
  /\ MaxChunk \in Nat \ {0}
ASSUME StreamsAssumption ==
  /\ Streams \in Seq(Seq(Telegrams \union {Noise})) /\ Streams # <<>>
  /\ Noise \notin Telegrams
  /\ \A s \in DOMAIN Streams : \A i, j \in DOMAIN Streams[s] :
       Streams[s][i] = Streams[s][j] /\ Streams[s][i] # Noise => i = j

VARIABLES
  client,    \* index of the client that is connected
  wire,      \* its bytes that have not been read yet
  raw,       \* m_raw_buffer
  header,    \* m_header_opt: no element, or one
  taking,    \* inside the loop of take_telegram_frames
  frames,    \* bodies handed on since this client connected
  cut,       \* history: telegrams with a chunk ending in their length or checksum
  stale      \* history: the client found a header of the one before it

vars == <<client, wire, raw, header, taking, frames, cut, stale>>

Bytes(t) == IF t = Noise THEN <<(<<Noise, 0>>)>>
            ELSE [i \in 1 .. HeaderSize + BodySize[t] |-> <<t, i>>]

Body(t) == SubSeq(Bytes(t), HeaderSize + 1, HeaderSize + BodySize[t])

Stream(c) == FlattenSeq([i \in DOMAIN Streams[c] |-> Bytes(Streams[c][i])])

Init ==
  /\ client = 1 /\ wire = Stream(1)
  /\ raw = <<>> /\ header = <<>> /\ taking = FALSE
  /\ frames = <<>> /\ cut = {} /\ stale = FALSE

-------------------------------------------------------------------------------
(* find_sequence, TelegramHeader(buffer) *)

SignatureAt(buf) ==
  {k \in 1 .. Len(buf) : /\ k + SigSize - 1 <= Len(buf)
                         /\ \A j \in 1 .. SigSize : buf[k + j - 1][2] = j}

\* A buffer shorter than a header leaves length and checksum zero, and the header
\* is marked valid all the same.
HeaderOf(buf) ==
  IF Len(buf) >= HeaderSize
    THEN LET t == buf[HeaderSize][1] IN [size |-> BodySize[t], sum |-> Body(t)]
    ELSE [size |-> 0, sum |-> <<>>]

\* The buffer and the header after the attempt to find one: what precedes a
\* signature is discarded.
Scanned ==
  IF header # <<>> \/ SignatureAt(raw) = {}
    THEN [raw |-> raw, header |-> header]
    ELSE LET first == CHOOSE k \in SignatureAt(raw) : \A j \in SignatureAt(raw) : k <= j
             buf   == SubSeq(raw, first, Len(raw))
         IN  [raw |-> buf, header |-> <<HeaderOf(buf)>>]

TelegramSize(s) == HeaderSize + s.header[1].size

\* Mutant: the last byte of a telegram is waited for in vain.
IsFull_OffByOne(s) == s.header # <<>> /\ Len(s.raw) > TelegramSize(s)

IsFull(s) == s.header # <<>> /\ Len(s.raw) >= TelegramSize(s)

\* Mutant: the checksum is not compared.
IsSound_Unchecked(s) == TRUE

IsSound(s) == SubSeq(s.raw, HeaderSize + 1, TelegramSize(s)) = s.header[1].sum

-------------------------------------------------------------------------------
\* Mutant: the bytes are read, and read again.
Receive_Twice(n) ==
  /\ ~taking /\ n <= Len(wire)
  /\ raw' = raw \o SubSeq(wire, 1, n)
  /\ taking' = (Len(raw') > HeaderSize)
  /\ UNCHANGED <<client, wire, header, frames, cut, stale>>

\* One read_n of the gate, append, and the start of take_telegram_frames, which
\* returns at once unless there is more than a header in the buffer.
Receive(n) ==
  /\ ~taking /\ n <= Len(wire)
  /\ raw' = raw \o SubSeq(wire, 1, n)
  /\ wire' = SubSeq(wire, n + 1, Len(wire))
  /\ taking' = (Len(raw') > HeaderSize)
  /\ cut' = IF wire' # <<>> /\ Head(wire')[2] \in SigSize + 1 .. HeaderSize
              THEN cut \union {Head(wire')[1]} ELSE cut
  /\ UNCHANGED <<client, header, frames, stale>>

\* An iteration that extracts a frame, or drops the bytes of one with a checksum
\* that does not match; another iteration follows.
TakeFrame ==
  /\ taking /\ IsFull(Scanned)
  /\ frames' = IF IsSound(Scanned)
                 THEN Append(frames, SubSeq(Scanned.raw, HeaderSize + 1,
                                            TelegramSize(Scanned)))
                 ELSE frames
  /\ raw' = SubSeq(Scanned.raw, TelegramSize(Scanned) + 1, Len(Scanned.raw))
  /\ header' = <<>>
  /\ UNCHANGED <<client, wire, taking, cut, stale>>

\* An iteration that finds no header, or not enough bytes after it, is the last.
StopTaking ==
  /\ taking /\ ~IsFull(Scanned)
  /\ raw' = Scanned.raw /\ header' = Scanned.header
  /\ taking' = FALSE
  /\ UNCHANGED <<client, wire, frames, cut, stale>>

\* The gate drops the client and clears the buffer (the bytes, not the header); the
\* next client connects.
NextClient ==
  /\ ~taking /\ client < Len(Streams)
  /\ client' = client + 1 /\ wire' = Stream(client')
  /\ raw' = <<>> /\ UNCHANGED header
  /\ frames' = <<>> /\ cut' = {} /\ stale' = (header # <<>>)
  /\ UNCHANGED taking

Next ==
  \/ \E n \in 1 .. MaxChunk : Receive(n)
  \/ TakeFrame \/ StopTaking \/ NextClient

Spec == Init /\ [][Next]_vars

-------------------------------------------------------------------------------
(* Properties *)

AllBytes == UNION {Range(Bytes(t)) : t \in Telegrams \union {Noise}}

TypeOK ==
  /\ client \in DOMAIN Streams
  /\ wire \in Seq(AllBytes) /\ raw \in Seq(AllBytes)
  /\ Len(raw) + Len(wire) <= Len(Stream(client))
  /\ Len(header) <= 1
  /\ \A i \in DOMAIN header : header[i] \in [size : Nat, sum : Seq(AllBytes)]
  /\ frames \in Seq(Seq(AllBytes))
  /\ cut \subseteq Telegrams
  /\ taking \in BOOLEAN /\ stale \in BOOLEAN

\* The telegrams the client has sent completely.
Received ==
  {t \in Telegrams : /\ t \in Range(Streams[client])
                     /\ \A i \in DOMAIN wire : wire[i][1] # t}

\* The place in the client's stream of the telegram with this body.
Position(body) ==
  CHOOSE i \in DOMAIN Streams[client] :
    Streams[client][i] # Noise /\ Body(Streams[client][i]) = body

\* What is handed on was sent: every frame that is not empty is the body of one
\* telegram of this client, and they keep their order, however the bytes are cut,
\* whatever noise precedes them and whatever the client before it left behind.
OnlyTelegrams ==
  LET whole == {i \in DOMAIN frames : frames[i] # <<>>} IN
  /\ \A i \in whole : \E t \in Received : frames[i] = Body(t)
  /\ \A i, j \in whole : i < j => Position(frames[i]) < Position(frames[j])

\* Framing recovers: noise, or a telegram that was lost, costs no telegram behind
\* it.  One whose length and checksum come in a single chunk is handed on when its last byte is
\* there, unless a header of an earlier client is still in the buffer.
WholeHeadersDelivered ==
  ~taking /\ ~stale => \A t \in Received \ cut : Body(t) \in Range(frames)

\* "Extracts well-formed telegram frames from the internal byte buffer": a telegram
\* that arrives completely is handed on.
EveryTelegramDelivered ==
  ~taking => \A t \in Received : Body(t) \in Range(frames)
===============================================================================
