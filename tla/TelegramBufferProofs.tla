------------------------- MODULE TelegramBufferProofs -------------------------
(* What holds of TelegramBuffer for any telegrams, sizes, streams and chunks:   *)
(* what is handed on was sent, in its order, and a telegram whose length and    *)
(* checksum come in one chunk is handed on.                                    *)
EXTENDS TelegramBuffer, Integers, SequenceTheorems, WellFoundedInduction, TLAPS

-------------------------------------------------------------------------------
(* Natural numbers *)

LEMMA Least ==
  ASSUME NEW S, S \subseteq Nat, S # {}
  PROVE  \E m \in S : \A n \in S : m <= n
<1>1. PICK m \in S : \A n \in S : ~(<<n, m>> \in OpToRel(<, Nat))
  BY NatLessThanWellFounded, WFMin
<1>2. \A n \in S : ~(n < m)
  BY <1>1 DEF OpToRel
<1> QED BY <1>2

\* Induction, for the set of the numbers that fail.
LEMMA NoneFails ==
  ASSUME NEW B, B \subseteq Nat, 0 \notin B,
         \A n \in Nat : n + 1 \in B => n \in B
  PROVE  B = {}
<1> SUFFICES ASSUME B # {} PROVE FALSE
  OBVIOUS
<1>1. PICK m \in B : \A n \in B : m <= n
  BY Least
<1>2. m \in Nat /\ m # 0
  OBVIOUS
<1>3. m - 1 \in Nat /\ (m - 1) + 1 = m
  BY <1>2
<1>4. m - 1 \in B
  BY <1>3
<1> QED BY <1>1, <1>2, <1>4

\* Places in two sequences one after the other.
LEMMA After ==
  ASSUME NEW a \in Nat, NEW b \in Nat, NEW i \in 1 .. b
  PROVE  a + i \in 1 .. a + b /\ ~(a + i <= a) /\ (a + i) - a = i
OBVIOUS

LEMMA Within ==
  ASSUME NEW a \in Nat, NEW b \in Nat, NEW p \in 1 .. a
  PROVE  p \in 1 .. a + b /\ p <= a /\ p <= a + b
OBVIOUS

LEMMA ConcatPlaces ==
  ASSUME NEW A, NEW s \in Seq(A), NEW t \in Seq(A)
  PROVE  /\ s \o t \in Seq(A) /\ Len(s \o t) = Len(s) + Len(t)
         /\ \A i \in 1 .. Len(s) : (s \o t)[i] = s[i]
BY ConcatProperties

LEMMA ConcatLast ==
  ASSUME NEW A, NEW s \in Seq(A), NEW t \in Seq(A), NEW i \in 1 .. Len(t)
  PROVE  (s \o t)[Len(s) + i] = t[i]
<1>1. Len(s) \in Nat /\ Len(t) \in Nat
  BY LenProperties
<1>2. Len(s) + i \in 1 .. Len(s) + Len(t) /\ ~(Len(s) + i <= Len(s))
      /\ (Len(s) + i) - Len(s) = i
  BY <1>1, After
<1> QED BY <1>2, ConcatProperties

LEMMA Slice ==
  ASSUME NEW A, NEW s \in Seq(A), NEW a \in Nat, NEW b \in Nat,
         a <= b, b <= Len(s)
  PROVE  /\ SubSeq(s, a + 1, b) \in Seq(A) /\ Len(SubSeq(s, a + 1, b)) = b - a
         /\ \A i \in 1 .. b - a : SubSeq(s, a + 1, b)[i] = s[a + i]
<1>1. Len(s) \in Nat /\ \A i \in 1 .. Len(s) : s[i] \in A
  OBVIOUS
<1>2. \A i \in a + 1 .. b : s[i] \in A
  BY <1>1
<1>3. /\ SubSeq(s, a + 1, b) \in Seq(A)
      /\ Len(SubSeq(s, a + 1, b)) = IF a + 1 <= b THEN b - (a + 1) + 1 ELSE 0
      /\ \A i \in 1 .. b - (a + 1) + 1 :
           SubSeq(s, a + 1, b)[i] = s[(a + 1) + i - 1]
  BY <1>2, SubSeqProperties
<1>4. (IF a + 1 <= b THEN b - (a + 1) + 1 ELSE 0) = b - a
      /\ b - (a + 1) + 1 = b - a
  OBVIOUS
<1>5. ASSUME NEW i \in 1 .. b - a PROVE SubSeq(s, a + 1, b)[i] = s[a + i]
  <2>1. (a + 1) + i - 1 = a + i
    OBVIOUS
  <2> QED BY <1>3, <1>4, <2>1
<1> QED BY <1>3, <1>4, <1>5

-------------------------------------------------------------------------------
(* A sequence of sequences, one after the other *)

\* it holds, for each m, the first m of the sequences one after the other.
Joins(it, seqs, m) ==
  it = [i \in 1 .. m |-> IF i = 1 THEN seqs[i] ELSE it[i - 1] \o seqs[i]]

LEMMA JoinTable ==
  ASSUME NEW seqs, NEW n \in Nat
  PROVE  \E it : Joins(it, seqs, n)
<1> DEFINE B == {m \in Nat : ~ \E it : Joins(it, seqs, m)}
<1>1. 0 \notin B
  <2> DEFINE it == [i \in 1 .. 0 |-> seqs[i]]
  <2>1. Joins(it, seqs, 0)
    BY DEF Joins
  <2> QED BY <2>1
<1>2. ASSUME NEW m \in Nat, m \notin B PROVE m + 1 \notin B
  <2>1. PICK it : Joins(it, seqs, m)
    BY <1>2
  <2> DEFINE new == [i \in 1 .. m + 1 |->
                       IF i = 1 THEN seqs[i] ELSE it[i - 1] \o seqs[i]]
  <2>2. \A i \in 1 .. m : new[i] = it[i]
    <3>1. \A i \in 1 .. m : it[i] = IF i = 1 THEN seqs[i] ELSE it[i - 1] \o seqs[i]
      BY <2>1, Zenon DEF Joins
    <3>2. \A i \in 1 .. m : i \in 1 .. m + 1
      OBVIOUS
    <3>3. \A i \in 1 .. m + 1 :
             new[i] = IF i = 1 THEN seqs[i] ELSE it[i - 1] \o seqs[i]
      BY Zenon
    <3> HIDE DEF new
    <3> QED BY <3>1, <3>2, <3>3, Zenon
  <2>3. \A i \in 1 .. m + 1 : i # 1 => new[i - 1] = it[i - 1]
    <3>1. \A i \in 1 .. m + 1 : i # 1 => i - 1 \in 1 .. m
      OBVIOUS
    <3> HIDE DEF new
    <3> QED BY <2>2, <3>1
  <2>4. Joins(new, seqs, m + 1)
    BY <2>3 DEF Joins
  <2> QED BY <2>4
<1>3. B = {}
  BY <1>1, <1>2, NoneFails
<1> QED BY <1>3

LEMMA FlattenIsJoin ==
  ASSUME NEW seqs, Len(seqs) \in Nat, Len(seqs) # 0
  PROVE  \E it : Joins(it, seqs, Len(seqs)) /\ FlattenSeq(seqs) = it[Len(seqs)]
<1> DEFINE it == CHOOSE it : it = [i \in 1 .. Len(seqs) |->
                     IF i = 1 THEN seqs[i] ELSE it[i - 1] \o seqs[i]]
<1>1. Joins(it, seqs, Len(seqs))
  BY JoinTable DEF Joins
<1>2. FlattenSeq(seqs) = it[Len(seqs)]
  BY DEF FlattenSeq
<1> QED BY <1>1, <1>2

\* The places of the parts in the whole: part k fills the bytes from off[k-1] + 1
\* to off[k].
Laid(off, seqs, flat) ==
  /\ off \in [0 .. Len(seqs) -> Nat] /\ off[0] = 0
  /\ Len(flat) = off[Len(seqs)]
  /\ \A k \in 1 .. Len(seqs) :
       /\ off[k] = off[k - 1] + Len(seqs[k])
       /\ \A i \in 1 .. Len(seqs[k]) : flat[off[k - 1] + i] = seqs[k][i]

LEMMA FlattenLaid ==
  ASSUME NEW A, NEW seqs \in Seq(Seq(A))
  PROVE  /\ FlattenSeq(seqs) \in Seq(A)
         /\ \E off : Laid(off, seqs, FlattenSeq(seqs))
<1> DEFINE n == Len(seqs)
<1>0. n \in Nat /\ \A k \in 1 .. n : seqs[k] \in Seq(A)
  OBVIOUS
<1>1. CASE n = 0
  <2>1. FlattenSeq(seqs) = seqs /\ seqs = <<>>
    BY <1>1 DEF FlattenSeq
  <2> DEFINE off == [k \in 0 .. n |-> 0]
  <2>2. Laid(off, seqs, FlattenSeq(seqs))
    BY <1>1, <2>1 DEF Laid
  <2> QED BY <2>1, <2>2
<1>2. CASE n # 0
  <2>1. PICK it : Joins(it, seqs, n) /\ FlattenSeq(seqs) = it[n]
    BY <1>0, <1>2, FlattenIsJoin
  <2>2. /\ it[1] = seqs[1]
        /\ \A k \in 1 .. n - 1 : it[k + 1] = it[k] \o seqs[k + 1]
    <3>1. \A i \in 1 .. n : it[i] = IF i = 1 THEN seqs[i] ELSE it[i - 1] \o seqs[i]
      BY <2>1, Zenon DEF Joins
    <3>2. 1 \in 1 .. n
      BY <1>0, <1>2
    <3>3. ASSUME NEW k \in 1 .. n - 1 PROVE it[k + 1] = it[k] \o seqs[k + 1]
      <4>1. k + 1 \in 1 .. n /\ k + 1 # 1 /\ (k + 1) - 1 = k
        BY <1>0
      <4> QED BY <3>1, <4>1
    <3> QED BY <3>1, <3>2, <3>3
  <2> HIDE DEF n
  <2> DEFINE B == {m \in Nat : m + 1 \in 1 .. n /\ it[m + 1] \notin Seq(A)}
  <2>3. B = {}
    <3>1. 0 \notin B
      BY <1>0, <2>2
    <3>2. ASSUME NEW m \in Nat, m + 1 \in B PROVE m \in B
      <4>1. m + 1 \in 1 .. n - 1 /\ m + 1 \in 1 .. n /\ (m + 1) + 1 \in 1 .. n
        BY <1>0, <3>2
      <4>2. it[(m + 1) + 1] = it[m + 1] \o seqs[(m + 1) + 1]
        BY <2>2, <4>1
      <4>3. it[m + 1] \in Seq(A) => it[(m + 1) + 1] \in Seq(A)
        BY <1>0, <4>1, <4>2, ConcatProperties
      <4> QED BY <3>2, <4>1, <4>3
    <3> QED BY <3>1, <3>2, NoneFails
  <2>4. \A k \in 1 .. n : it[k] \in Seq(A)
    <3>1. \A k \in 1 .. n : k - 1 \in Nat /\ (k - 1) + 1 = k
      BY <1>0
    <3> QED BY <2>3, <3>1
  <2> DEFINE off == [k \in 0 .. n |-> IF k = 0 THEN 0 ELSE Len(it[k])]
  <2>5. /\ off \in [0 .. n -> Nat] /\ off[0] = 0
        /\ \A k \in 1 .. n : off[k] = Len(it[k])
    BY <1>0, <2>4
  <2> HIDE DEF off, B
  \* part k ends the join of the first k parts
  <2>6. ASSUME NEW k \in 1 .. n
        PROVE  /\ off[k] = off[k - 1] + Len(seqs[k])
               /\ \A i \in 1 .. Len(seqs[k]) :
                    /\ off[k - 1] + i \in 1 .. off[k]
                    /\ it[k][off[k - 1] + i] = seqs[k][i]
    <3>1. CASE k = 1
      BY <1>0, <2>2, <2>5, <3>1
    <3>2. CASE k # 1
      <4>0. k - 1 \in 1 .. n - 1 /\ k - 1 \in 1 .. n /\ k = (k - 1) + 1
        BY <1>0, <3>2
      <4>1. PICK j : j \in 1 .. n - 1 /\ j \in 1 .. n /\ k = j + 1 /\ j = k - 1
        BY <4>0
      <4>2. it[k] = it[j] \o seqs[k] /\ it[j] \in Seq(A) /\ seqs[k] \in Seq(A)
        BY <1>0, <2>2, <2>4, <4>1
      <4>3. off[j] = Len(it[j]) /\ off[k] = Len(it[k])
        BY <2>5, <4>1
      <4>4. /\ Len(it[j] \o seqs[k]) = Len(it[j]) + Len(seqs[k])
            /\ Len(it[j]) \in Nat /\ Len(seqs[k]) \in Nat
            /\ \A i \in 1 .. Len(seqs[k]) :
                 (it[j] \o seqs[k])[Len(it[j]) + i] = seqs[k][i]
        <5>1. it[j] \in Seq(A)
          BY <4>2, Zenon
        <5>2. seqs[k] \in Seq(A)
          BY <4>2, Zenon
        <5>3. /\ Len(it[j] \o seqs[k]) = Len(it[j]) + Len(seqs[k])
              /\ \A i \in 1 .. Len(seqs[k]) :
                   (it[j] \o seqs[k])[Len(it[j]) + i] = seqs[k][i]
          <6>1. Len(it[j] \o seqs[k]) = Len(it[j]) + Len(seqs[k])
            BY <5>1, <5>2, ConcatPlaces, SMT
          <6>2. ASSUME NEW i \in 1 .. Len(seqs[k])
                PROVE  (it[j] \o seqs[k])[Len(it[j]) + i] = seqs[k][i]
            <7>1. PICK s \in Seq(A) : s = it[j]
              BY <5>1, Zenon
            <7>2. PICK t \in Seq(A) : t = seqs[k]
              BY <5>2, Zenon
            <7>3. i \in 1 .. Len(t)
              BY <7>2, Zenon
            <7>4. (s \o t)[Len(s) + i] = t[i]
              BY <7>3, ConcatLast, SMT
            <7> QED BY <7>1, <7>2, <7>4, Zenon
          <6> QED BY <6>1, <6>2, Zenon
        <5>4. Len(it[j]) \in Nat /\ Len(seqs[k]) \in Nat
          BY <5>1, <5>2, LenProperties, Zenon
        <5> QED BY <5>3, <5>4, Zenon
      <4>5. ASSUME NEW i \in 1 .. Len(seqs[k])
            PROVE  /\ off[j] + i \in 1 .. off[k]
                   /\ it[k][off[j] + i] = seqs[k][i]
        <5>1. off[j] + i \in 1 .. Len(it[j]) + Len(seqs[k])
          <6>1. Len(it[j]) \in Nat /\ Len(seqs[k]) \in Nat /\ off[j] = Len(it[j])
            BY <4>3, <4>4, Zenon
          <6> QED BY <6>1, After, Zenon
        <5> QED BY <4>2, <4>3, <4>4, <5>1
      <4>6. k - 1 = j /\ off[k] = off[j] + Len(seqs[k])
        BY <4>1, <4>2, <4>3, <4>4
      <4> QED BY <4>5, <4>6
    <3> QED BY <3>1, <3>2
  \* a join is a prefix of every longer one
  <2> DEFINE C == {m \in Nat : m \in 1 .. n /\ \E k \in 1 .. m :
                      \E p \in 1 .. off[k] : it[m][p] # it[k][p] \/ p > off[m]}
  <2>7. C = {}
    <3>1. 0 \notin C
      OBVIOUS
    <3>2. ASSUME NEW m \in Nat, m + 1 \in C PROVE m \in C
      <4>1. PICK k \in 1 .. m + 1 : \E p \in 1 .. off[k] :
                     it[m + 1][p] # it[k][p] \/ p > off[m + 1]
        BY <3>2
      <4>2. PICK p \in 1 .. off[k] : it[m + 1][p] # it[k][p] \/ p > off[m + 1]
        BY <4>1
      <4>3. k # m + 1
        <5>1. m + 1 \in 1 .. n /\ off[m + 1] \in Nat
          BY <1>0, <2>5, <3>2
        <5> QED BY <4>2, <5>1
      <4>4. k \in 1 .. m /\ m \in 1 .. n - 1 /\ m \in 1 .. n /\ m + 1 \in 1 .. n
        BY <1>0, <3>2, <4>3
      <4>5. it[m + 1] = it[m] \o seqs[m + 1] /\ it[m] \in Seq(A)
            /\ seqs[m + 1] \in Seq(A)
        BY <1>0, <2>2, <2>4, <4>4
      <4>6. off[m] = Len(it[m]) /\ off[m + 1] = Len(it[m + 1])
        BY <2>5, <4>4
      <4>7. p \in 1 .. off[m] => it[m + 1][p] = it[m][p] /\ p <= off[m + 1]
        <5>1. /\ Len(it[m + 1]) = Len(it[m]) + Len(seqs[m + 1])
              /\ Len(it[m]) \in Nat /\ Len(seqs[m + 1]) \in Nat
          BY <4>5, ConcatProperties, LenProperties
        <5>2. ASSUME p \in 1 .. off[m]
              PROVE  it[m + 1][p] = it[m][p] /\ p <= off[m + 1]
          <6>1. p \in 1 .. Len(it[m]) + Len(seqs[m + 1]) /\ p <= Len(it[m])
                /\ p <= Len(it[m]) + Len(seqs[m + 1])
            <7>1. Len(it[m]) \in Nat /\ Len(seqs[m + 1]) \in Nat
              BY <5>1, Zenon
            <7>2. p \in 1 .. Len(it[m])
              BY <4>6, <5>2, Zenon
            <7> QED BY <7>1, <7>2, Within, Zenon
          <6>2. (it[m] \o seqs[m + 1])[p] = it[m][p]
            <7>1. it[m] \in Seq(A)
              BY <4>5, Zenon
            <7>2. seqs[m + 1] \in Seq(A)
              BY <4>5, Zenon
            <7>3. p \in 1 .. Len(it[m])
              BY <4>6, <5>2, Zenon
            <7> QED BY <7>1, <7>2, <7>3, ConcatPlaces, Zenon
          <6>3. it[m + 1][p] = it[m][p]
            BY <4>5, <6>2, Zenon
          <6>4. off[m + 1] = Len(it[m]) + Len(seqs[m + 1])
            BY <4>6, <5>1, Zenon
          <6> QED BY <6>1, <6>3, <6>4, Zenon
        <5> QED BY <5>2
      <4>8. /\ p \in Int /\ p >= 1 /\ off[m] \in Nat /\ off[m + 1] \in Nat
            /\ off[k] \in Nat
        <5>1. k \in 0 .. n /\ m \in 0 .. n /\ m + 1 \in 0 .. n
          BY <1>0, <4>4
        <5> QED BY <2>5, <4>2, <5>1
      <4>9. it[m][p] # it[k][p] \/ p > off[m]
        BY <4>2, <4>7, <4>8
      <4> QED BY <4>2, <4>4, <4>9
    <3> QED BY <3>1, <3>2, NoneFails
  <2>8. \A k \in 1 .. n : \A p \in 1 .. off[k] : it[n][p] = it[k][p]
    <3>1. n \in Nat /\ n \in 1 .. n
      BY <1>0, <1>2
    <3> QED BY <2>7, <3>1
  <2>9. Laid(off, seqs, it[n])
    <3>1. Len(it[n]) = off[n]
      BY <1>0, <1>2, <2>5
    <3>2. ASSUME NEW k \in 1 .. n, NEW i \in 1 .. Len(seqs[k])
          PROVE  it[n][off[k - 1] + i] = seqs[k][i]
      <4>1. /\ off[k - 1] + i \in 1 .. off[k]
            /\ it[k][off[k - 1] + i] = seqs[k][i]
        BY <2>6, Zenon
      <4>2. it[n][off[k - 1] + i] = it[k][off[k - 1] + i]
        BY <2>8, <4>1, Zenon
      <4> QED BY <4>1, <4>2, Zenon
    <3> QED BY <2>5, <2>6, <3>1, <3>2 DEF Laid, n
  <2>10. it[n] \in Seq(A)
    BY <1>0, <1>2, <2>4
  <2> QED BY <2>1, <2>9, <2>10
<1> QED BY <1>1, <1>2

-------------------------------------------------------------------------------
(* The bytes of the telegrams and of the streams *)

Sz(t) == HeaderSize + BodySize[t]

SentBy(c) == {t \in Telegrams : \E j \in 1 .. Len(Streams[c]) : Streams[c][j] = t}

Parts(c) == [i \in DOMAIN Streams[c] |-> Bytes(Streams[c][i])]

\* The place in the stream of the first byte of a telegram.
Place(c, t) == CHOOSE p \in 1 .. Len(Stream(c)) : Stream(c)[p] = <<t, 1>>

Lengths(seqs) ==
  Len(seqs) \in Nat /\ \A k \in 1 .. Len(seqs) : Len(seqs[k]) \in Nat

LEMMA LaidGrows ==
  ASSUME NEW off, NEW seqs, NEW flat, Laid(off, seqs, flat), Lengths(seqs),
         NEW a \in 0 .. Len(seqs), NEW b \in 0 .. Len(seqs), a <= b
  PROVE  off[a] <= off[b]
<1> DEFINE n == Len(seqs)
<1> DEFINE B == {d \in Nat : a + d \in 0 .. n /\ ~(off[a] <= off[a + d])}
<1>0. /\ n \in Nat /\ off \in [0 .. n -> Nat]
      /\ \A k \in 1 .. n : off[k] = off[k - 1] + Len(seqs[k])
      /\ \A k \in 1 .. n : Len(seqs[k]) \in Nat
  BY Zenon DEF Laid, Lengths
<1> HIDE DEF n
<1>00. a \in 0 .. n /\ b \in 0 .. n
  BY DEF n
<1>1. 0 \notin B
  BY <1>0, <1>00
<1>2. ASSUME NEW d \in Nat, d + 1 \in B PROVE d \in B
  <2>1. a + d \in 0 .. n /\ a + (d + 1) \in 1 .. n /\ (a + (d + 1)) - 1 = a + d
    BY <1>0, <1>00, <1>2
  <2>2. off[a + (d + 1)] = off[a + d] + Len(seqs[a + (d + 1)])
        /\ Len(seqs[a + (d + 1)]) \in Nat
    BY <1>0, <2>1
  <2>3. off[a] \in Nat /\ off[a + d] \in Nat
    BY <1>0, <1>00, <2>1
  <2>4. ~(off[a] <= off[a + (d + 1)])
    BY <1>2
  <2>5. ~(off[a] <= off[a + d])
    BY <2>2, <2>3, <2>4
  <2> QED BY <2>1, <2>5
<1>3. B = {}
  <2> HIDE DEF B
  <2>1. B \subseteq Nat
    BY DEF B
  <2> QED BY <1>1, <1>2, <2>1, NoneFails
<1>4. b - a \in Nat /\ a + (b - a) = b
  BY <1>0, <1>00
<1> QED BY <1>00, <1>3, <1>4

\* Every byte is in one of the parts.
Covered(off, seqs, flat) ==
  \A p \in 1 .. Len(flat) :
    \E k \in 1 .. Len(seqs) : \E i \in 1 .. Len(seqs[k]) :
      p = off[k - 1] + i /\ flat[p] = seqs[k][i]

LEMMA LaidCovers ==
  ASSUME NEW off, NEW seqs, NEW flat, Laid(off, seqs, flat), Lengths(seqs)
  PROVE  Covered(off, seqs, flat)
<1> SUFFICES ASSUME NEW p \in 1 .. Len(flat)
             PROVE  \E k \in 1 .. Len(seqs) : \E i \in 1 .. Len(seqs[k]) :
                      p = off[k - 1] + i /\ flat[p] = seqs[k][i]
  BY DEF Covered
<1> DEFINE n == Len(seqs)
<1> DEFINE S == {k \in Nat : k \in 0 .. n /\ p <= off[k]}
<1>0. /\ n \in Nat /\ off \in [0 .. n -> Nat] /\ off[0] = 0 /\ Len(flat) = off[n]
      /\ \A k \in 1 .. n : off[k] = off[k - 1] + Len(seqs[k])
      /\ \A k \in 1 .. n : Len(seqs[k]) \in Nat
  BY Zenon DEF Laid, Lengths
<1>01. \A k \in 1 .. n : \A i \in 1 .. Len(seqs[k]) :
           flat[off[k - 1] + i] = seqs[k][i]
  BY Zenon DEF Laid
<1> HIDE DEF n
<1>1. n \in S
  <2>1. p <= off[n] /\ n \in 0 .. n
    BY <1>0
  <2> QED BY <1>0, <2>1
<1>2. PICK k \in S : \A m \in S : k <= m
  <2>1. S \subseteq Nat /\ S # {}
    BY <1>1
  <2> HIDE DEF S
  <2> QED BY <2>1, Least
<1>3. k \in 1 .. n /\ p <= off[k]
  BY <1>0, <1>2
<1>4. k - 1 \in 0 .. n /\ k - 1 \in Nat /\ ~(k <= k - 1)
  BY <1>0, <1>3
<1>5. ~(p <= off[k - 1])
  BY <1>2, <1>4
<1>6. off[k - 1] \in Nat /\ off[k] = off[k - 1] + Len(seqs[k]) /\ Len(seqs[k]) \in Nat
  BY <1>0, <1>3, <1>4
<1>7. /\ p - off[k - 1] \in 1 .. Len(seqs[k])
      /\ p = off[k - 1] + (p - off[k - 1])
  BY <1>3, <1>5, <1>6
<1>8. flat[p] = seqs[k][p - off[k - 1]]
  BY <1>01, <1>3, <1>7
<1> QED BY <1>3, <1>7, <1>8 DEF n

LEMMA SzFacts ==
  ASSUME NEW t \in Telegrams
  PROVE  /\ BodySize[t] \in Nat /\ BodySize[t] >= 1 /\ Sz(t) \in Nat
         /\ HeaderSize \in Nat /\ SigSize \in Nat /\ SigSize >= 1
         /\ SigSize < HeaderSize /\ HeaderSize < Sz(t)
         /\ Sz(t) = HeaderSize + BodySize[t]
BY SizesAssumption DEF Sz

LEMMA BytesFacts ==
  ASSUME NEW t \in Telegrams
  PROVE  /\ Bytes(t) \in Seq(AllBytes) /\ Len(Bytes(t)) = Sz(t)
         /\ \A i \in 1 .. Sz(t) : Bytes(t)[i] = <<t, i>> /\ <<t, i>> \in AllBytes
<1>1. t # Noise
  BY StreamsAssumption
<1>2. Bytes(t) = [i \in 1 .. Sz(t) |-> <<t, i>>]
  BY <1>1 DEF Bytes, Sz
<1>3. \A i \in 1 .. Sz(t) : Bytes(t)[i] = <<t, i>>
  BY <1>2
<1>4. \A i \in 1 .. Sz(t) : <<t, i>> \in AllBytes
  <2>1. \A i \in 1 .. Sz(t) : <<t, i>> \in Range(Bytes(t))
    BY <1>2 DEF Range
  <2> QED BY <2>1 DEF AllBytes
<1>5. Sz(t) \in Nat
  BY SzFacts
<1>6. Bytes(t) \in Seq(AllBytes) /\ Len(Bytes(t)) = Sz(t)
  BY <1>2, <1>4, <1>5
<1> QED BY <1>3, <1>4, <1>6

LEMMA NoiseFacts ==
  /\ Bytes(Noise) \in Seq(AllBytes) /\ Len(Bytes(Noise)) = 1
  /\ Bytes(Noise)[1] = <<Noise, 0>> /\ <<Noise, 0>> \in AllBytes
<1>1. Bytes(Noise) = <<(<<Noise, 0>>)>>
  BY DEF Bytes
<1>2. <<Noise, 0>> \in Range(Bytes(Noise))
  <2>1. 1 \in DOMAIN Bytes(Noise) /\ Bytes(Noise)[1] = <<Noise, 0>>
    BY <1>1
  <2> QED BY <2>1 DEF Range
<1>3. <<Noise, 0>> \in AllBytes
  BY <1>2 DEF AllBytes
<1> QED BY <1>1, <1>3

LEMMA BodyFacts ==
  ASSUME NEW t \in Telegrams
  PROVE  /\ Body(t) \in Seq(AllBytes) /\ Len(Body(t)) = BodySize[t] /\ Body(t) # <<>>
         /\ \A i \in 1 .. BodySize[t] : Body(t)[i] = <<t, HeaderSize + i>>
<1>1. /\ Bytes(t) \in Seq(AllBytes) /\ Len(Bytes(t)) = Sz(t)
      /\ \A i \in 1 .. Sz(t) : Bytes(t)[i] = <<t, i>>
  BY BytesFacts
<1>2. /\ BodySize[t] \in Nat /\ BodySize[t] >= 1 /\ HeaderSize \in Nat
      /\ Sz(t) = HeaderSize + BodySize[t]
  BY SzFacts
<1>3. HeaderSize + BodySize[t] \in Nat /\ HeaderSize <= HeaderSize + BodySize[t]
      /\ HeaderSize + BodySize[t] <= Len(Bytes(t))
      /\ (HeaderSize + BodySize[t]) - HeaderSize = BodySize[t]
  BY <1>1, <1>2
<1>4. /\ Body(t) \in Seq(AllBytes)
      /\ Len(Body(t)) = BodySize[t]
      /\ \A i \in 1 .. BodySize[t] : Body(t)[i] = Bytes(t)[HeaderSize + i]
  <2> DEFINE b == HeaderSize + BodySize[t]
  <2>1. /\ Body(t) = SubSeq(Bytes(t), HeaderSize + 1, b)
        /\ b \in Nat /\ HeaderSize <= b /\ b <= Len(Bytes(t))
        /\ b - HeaderSize = BodySize[t]
    BY <1>3 DEF Body
  <2> HIDE DEF b
  <2>2. /\ SubSeq(Bytes(t), HeaderSize + 1, b) \in Seq(AllBytes)
        /\ Len(SubSeq(Bytes(t), HeaderSize + 1, b)) = b - HeaderSize
        /\ \A i \in 1 .. b - HeaderSize :
             SubSeq(Bytes(t), HeaderSize + 1, b)[i] = Bytes(t)[HeaderSize + i]
    BY <1>1, <1>2, <2>1, Slice
  <2> QED BY <2>1, <2>2, Zenon
<1>5. ASSUME NEW i \in 1 .. BodySize[t] PROVE Body(t)[i] = <<t, HeaderSize + i>>
  <2>1. HeaderSize + i \in 1 .. Sz(t)
    BY <1>2
  <2> QED BY <1>1, <1>4, <2>1
<1> QED BY <1>2, <1>4, <1>5

\* Bodies of two telegrams differ.
LEMMA BodiesDiffer ==
  ASSUME NEW t \in Telegrams, NEW u \in Telegrams, Body(t) = Body(u)
  PROVE  t = u
<1>1. Body(t)[1] = <<t, HeaderSize + 1>> /\ Body(u)[1] = <<u, HeaderSize + 1>>
  BY BodyFacts, SzFacts
<1> QED BY <1>1

LEMMA StreamLaid ==
  ASSUME NEW c \in DOMAIN Streams
  PROVE  /\ Streams[c] \in Seq(Telegrams \union {Noise})
         /\ Len(Parts(c)) = Len(Streams[c]) /\ Len(Streams[c]) \in Nat
         /\ \A k \in 1 .. Len(Streams[c]) :
              /\ Streams[c][k] \in Telegrams \union {Noise}
              /\ Parts(c)[k] = Bytes(Streams[c][k])
         /\ Stream(c) \in Seq(AllBytes)
         /\ \E off : Laid(off, Parts(c), Stream(c))
<1>1. Streams[c] \in Seq(Telegrams \union {Noise})
  BY StreamsAssumption
<1>2. /\ Len(Streams[c]) \in Nat /\ DOMAIN Streams[c] = 1 .. Len(Streams[c])
      /\ \A k \in 1 .. Len(Streams[c]) : Streams[c][k] \in Telegrams \union {Noise}
  BY <1>1
<1>3. \A x \in Telegrams \union {Noise} : Bytes(x) \in Seq(AllBytes)
  BY BytesFacts, NoiseFacts
<1>4. Parts(c) = [k \in 1 .. Len(Streams[c]) |-> Bytes(Streams[c][k])]
  BY <1>2 DEF Parts
<1>5. \A k \in 1 .. Len(Streams[c]) : Parts(c)[k] = Bytes(Streams[c][k])
  BY <1>4
<1>6. Parts(c) \in Seq(Seq(AllBytes)) /\ Len(Parts(c)) = Len(Streams[c])
  BY <1>2, <1>3, <1>4
<1>7. Stream(c) = FlattenSeq(Parts(c))
  BY DEF Stream, Parts
<1>8. Stream(c) \in Seq(AllBytes) /\ \E off : Laid(off, Parts(c), Stream(c))
  BY <1>6, <1>7, FlattenLaid, Zenon
<1> QED BY <1>1, <1>2, <1>5, <1>6, <1>8

\* Where the bytes of a stream come from.
LEMMA StreamFacts ==
  ASSUME NEW c \in DOMAIN Streams
  PROVE  /\ \A t \in SentBy(c) :
              /\ Place(c, t) \in Nat /\ Place(c, t) >= 1
              /\ Place(c, t) + Sz(t) - 1 <= Len(Stream(c))
              /\ \A i \in 1 .. Sz(t) : Stream(c)[Place(c, t) + i - 1] = <<t, i>>
         /\ \A p \in 1 .. Len(Stream(c)) :
              \/ Stream(c)[p] = <<Noise, 0>>
              \/ \E t \in SentBy(c) : \E i \in 1 .. Sz(t) :
                   Stream(c)[p] = <<t, i>> /\ p = Place(c, t) + i - 1
         /\ \A j, k \in 1 .. Len(Streams[c]) :
              /\ Streams[c][j] # Noise /\ Streams[c][k] # Noise
              /\ Place(c, Streams[c][j]) < Place(c, Streams[c][k])
              => j < k
<1> DEFINE n == Len(Streams[c])
<1> DEFINE sent(k) == Streams[c][k]
<1>1. /\ Len(Parts(c)) = n /\ n \in Nat
      /\ \A k \in 1 .. n : sent(k) \in Telegrams \union {Noise}
      /\ \A k \in 1 .. n : Parts(c)[k] = Bytes(sent(k))
      /\ Stream(c) \in Seq(AllBytes)
  BY StreamLaid
<1>2. PICK off : Laid(off, Parts(c), Stream(c))
  BY StreamLaid
<1>3. \A j, k \in 1 .. n : sent(j) = sent(k) /\ sent(j) # Noise => j = k
  <2>1. DOMAIN Streams[c] = 1 .. n
    BY StreamLaid
  <2> QED BY <2>1, StreamsAssumption
<1> HIDE DEF n, sent
<1>4. /\ off \in [0 .. n -> Nat] /\ Len(Stream(c)) = off[n]
      /\ \A k \in 1 .. n : off[k] = off[k - 1] + Len(Bytes(sent(k)))
      /\ \A k \in 1 .. n : \A i \in 1 .. Len(Bytes(sent(k))) :
           Stream(c)[off[k - 1] + i] = Bytes(sent(k))[i]
  BY <1>1, <1>2 DEF Laid
<1>5. \A k \in 1 .. n : Len(Bytes(sent(k))) \in Nat
  BY <1>1, BytesFacts, NoiseFacts, SzFacts
<1>6. \A a, b \in 0 .. n : a <= b => off[a] <= off[b]
  <2>1. Lengths(Parts(c))
    BY <1>1, <1>5 DEF Lengths
  <2>2. \A a, b \in 0 .. Len(Parts(c)) : a <= b => off[a] <= off[b]
    BY <1>2, <2>1, LaidGrows, Zenon
  <2> QED BY <1>1, <2>2
<1>7. \A p \in 1 .. Len(Stream(c)) :
        \E k \in 1 .. n : \E i \in 1 .. Len(Bytes(sent(k))) :
          p = off[k - 1] + i /\ Stream(c)[p] = Bytes(sent(k))[i]
  <2>1. Lengths(Parts(c))
    BY <1>1, <1>5 DEF Lengths
  <2>2. \A p \in 1 .. Len(Stream(c)) :
          \E k \in 1 .. Len(Parts(c)) : \E i \in 1 .. Len(Parts(c)[k]) :
            p = off[k - 1] + i /\ Stream(c)[p] = Parts(c)[k][i]
    <3>1. Covered(off, Parts(c), Stream(c))
      BY <1>2, <2>1, LaidCovers, SMT
    <3> QED BY <3>1, Zenon DEF Covered
  <2> QED BY <1>1, <2>2
\* the parts that are telegrams are at their places
<1>8. ASSUME NEW k \in 1 .. n, sent(k) # Noise
      PROVE  /\ sent(k) \in Telegrams /\ sent(k) \in SentBy(c)
             /\ Place(c, sent(k)) = off[k - 1] + 1
             /\ off[k - 1] \in Nat /\ off[k] = off[k - 1] + Sz(sent(k))
             /\ off[k] <= Len(Stream(c))
             /\ \A i \in 1 .. Sz(sent(k)) :
                  Stream(c)[off[k - 1] + i] = <<sent(k), i>>
  <2> DEFINE t == sent(k)
  <2>1. t \in Telegrams
    BY <1>1, <1>8
  <2>2. t \in SentBy(c)
    BY <2>1 DEF SentBy, n, sent
  <2>3. Len(Bytes(t)) = Sz(t) /\ \A i \in 1 .. Sz(t) : Bytes(t)[i] = <<t, i>>
    BY <2>1, BytesFacts
  <2>4. k - 1 \in 0 .. n /\ k \in 0 .. n /\ n \in 0 .. n /\ k <= n
    BY <1>1
  <2>5. /\ off[k - 1] \in Nat /\ off[k] = off[k - 1] + Sz(t)
        /\ off[k] <= Len(Stream(c)) /\ Sz(t) \in Nat /\ Sz(t) >= 1
    <3>1. Sz(t) \in Nat /\ Sz(t) >= 1
      BY <2>1, SzFacts
    <3>2. off[k - 1] \in Nat /\ off[k] = off[k - 1] + Len(Bytes(t))
      BY <1>4, <2>4
    <3>3. off[k] <= off[n] /\ Len(Stream(c)) = off[n]
      BY <1>4, <1>6, <2>4, Zenon
    <3> QED BY <2>3, <3>1, <3>2, <3>3, Zenon
  <2>6. \A i \in 1 .. Sz(t) : Stream(c)[off[k - 1] + i] = <<t, i>>
    BY <1>4, <2>3
  <2>7. off[k - 1] + 1 \in 1 .. Len(Stream(c)) /\ Stream(c)[off[k - 1] + 1] = <<t, 1>>
    <3>1. 1 \in 1 .. Sz(t) /\ Len(Stream(c)) \in Nat
      BY <1>1, <2>5
    <3> QED BY <2>5, <2>6, <3>1
  <2>8. ASSUME NEW p \in 1 .. Len(Stream(c)), Stream(c)[p] = <<t, 1>>
        PROVE  p = off[k - 1] + 1
    <3>1. PICK j \in 1 .. n : \E i \in 1 .. Len(Bytes(sent(j))) :
             p = off[j - 1] + i /\ Stream(c)[p] = Bytes(sent(j))[i]
      BY <1>7
    <3>2. PICK i \in 1 .. Len(Bytes(sent(j))) :
             p = off[j - 1] + i /\ Stream(c)[p] = Bytes(sent(j))[i]
      BY <3>1
    <3>3. t # Noise
      BY <1>8
    <3>4. sent(j) # Noise
      <4>1. ASSUME sent(j) = Noise PROVE FALSE
        <5>1. i = 1 /\ Bytes(sent(j))[i] = <<Noise, 0>>
          BY <3>2, <4>1, NoiseFacts
        <5> QED BY <2>8, <3>2, <3>3, <5>1
      <4> QED BY <4>1
    <3>5. sent(j) \in Telegrams
      BY <1>1, <3>4
    <3>6. Bytes(sent(j))[i] = <<sent(j), i>>
      BY <3>2, <3>5, BytesFacts
    <3>7. sent(j) = t /\ i = 1
      BY <2>8, <3>2, <3>6
    <3>8. j = k
      BY <1>3, <3>3, <3>7
    <3> QED BY <3>2, <3>7, <3>8
  <2>9. Place(c, t) = off[k - 1] + 1
    <3>1. \E p \in 1 .. Len(Stream(c)) : Stream(c)[p] = <<t, 1>>
      BY <2>7
    <3>2. /\ Place(c, t) \in 1 .. Len(Stream(c))
          /\ Stream(c)[Place(c, t)] = <<t, 1>>
      BY <3>1, Zenon DEF Place
    <3> QED BY <2>8, <3>2
  <2> QED BY <2>1, <2>2, <2>5, <2>6, <2>9
<1>9. ASSUME NEW t \in SentBy(c)
      PROVE  /\ Place(c, t) \in Nat /\ Place(c, t) >= 1
             /\ Place(c, t) + Sz(t) - 1 <= Len(Stream(c))
             /\ \A i \in 1 .. Sz(t) : Stream(c)[Place(c, t) + i - 1] = <<t, i>>
  <2>1. PICK k \in 1 .. n : sent(k) = t
    BY DEF SentBy, n, sent
  <2>2. t # Noise /\ t \in Telegrams
    BY StreamsAssumption DEF SentBy
  <2>3. /\ Place(c, t) = off[k - 1] + 1 /\ off[k - 1] \in Nat
        /\ off[k] = off[k - 1] + Sz(t) /\ off[k] <= Len(Stream(c))
        /\ \A i \in 1 .. Sz(t) : Stream(c)[off[k - 1] + i] = <<t, i>>
    BY <1>8, <2>1, <2>2
  <2>4. Sz(t) \in Nat
    BY <2>2, SzFacts
  <2>5. \A i \in 1 .. Sz(t) : Place(c, t) + i - 1 = off[k - 1] + i
    BY <2>3
  <2>6. Len(Stream(c)) \in Nat
    BY <1>1
  <2>7. ASSUME NEW i \in 1 .. Sz(t)
        PROVE  Stream(c)[Place(c, t) + i - 1] = <<t, i>>
    BY <2>3, <2>5, Zenon
  <2>8. Place(c, t) \in Nat /\ Place(c, t) >= 1
    BY <2>3
  <2>9. Place(c, t) + Sz(t) - 1 = off[k]
    BY <2>3, <2>4
  <2>10. Place(c, t) + Sz(t) - 1 <= Len(Stream(c))
    BY <2>3, <2>9, Zenon
  <2> QED BY <2>7, <2>8, <2>10
<1>10. ASSUME NEW p \in 1 .. Len(Stream(c))
       PROVE  \/ Stream(c)[p] = <<Noise, 0>>
              \/ \E t \in SentBy(c) : \E i \in 1 .. Sz(t) :
                   Stream(c)[p] = <<t, i>> /\ p = Place(c, t) + i - 1
  <2>1. PICK k \in 1 .. n : \E i \in 1 .. Len(Bytes(sent(k))) :
           p = off[k - 1] + i /\ Stream(c)[p] = Bytes(sent(k))[i]
    BY <1>7
  <2>2. PICK i \in 1 .. Len(Bytes(sent(k))) :
           p = off[k - 1] + i /\ Stream(c)[p] = Bytes(sent(k))[i]
    BY <2>1
  <2>3. CASE sent(k) = Noise
    <3>1. i = 1 /\ Bytes(sent(k))[i] = <<Noise, 0>>
      BY <2>2, <2>3, NoiseFacts
    <3> QED BY <2>2, <3>1
  <2>4. CASE sent(k) # Noise
    <3>1. /\ sent(k) \in Telegrams /\ sent(k) \in SentBy(c)
          /\ Place(c, sent(k)) = off[k - 1] + 1 /\ off[k - 1] \in Nat
      BY <1>8, <2>4
    <3>2. i \in 1 .. Sz(sent(k)) /\ Bytes(sent(k))[i] = <<sent(k), i>>
      BY <2>2, <3>1, BytesFacts
    <3>3. p = Place(c, sent(k)) + i - 1
      BY <2>2, <3>1, <3>2
    <3> QED BY <2>2, <3>1, <3>2, <3>3
  <2> QED BY <2>3, <2>4
<1>11. ASSUME NEW j \in 1 .. n, NEW k \in 1 .. n, sent(j) # Noise, sent(k) # Noise,
              Place(c, sent(j)) < Place(c, sent(k))
       PROVE  j < k
  <2>1. /\ Place(c, sent(j)) = off[j - 1] + 1 /\ off[j - 1] \in Nat
        /\ Place(c, sent(k)) = off[k - 1] + 1 /\ off[k - 1] \in Nat
    BY <1>8, <1>11
  <2>2. ~(off[k - 1] <= off[j - 1])
    BY <1>11, <2>1
  <2>3. k - 1 \in 0 .. n /\ j - 1 \in 0 .. n
    BY <1>1
  <2>4. ~(k - 1 <= j - 1)
    BY <1>6, <2>2, <2>3
  <2> QED BY <1>1, <2>4
<1> QED BY <1>9, <1>10, <1>11 DEF n, sent

\* Telegrams of one stream do not overlap.
LEMMA Apart ==
  ASSUME NEW c \in DOMAIN Streams, NEW t \in SentBy(c), NEW u \in SentBy(c), t # u,
         Place(c, t) <= Place(c, u)
  PROVE  Place(c, t) + Sz(t) <= Place(c, u)
<1>1. t \in Telegrams /\ u \in Telegrams
  BY DEF SentBy
<1>2. /\ Place(c, t) \in Nat /\ Place(c, u) \in Nat /\ Sz(t) \in Nat
      /\ Sz(u) \in Nat /\ Sz(u) >= 1
  BY <1>1, StreamFacts, SzFacts
<1> SUFFICES ASSUME ~(Place(c, t) + Sz(t) <= Place(c, u)) PROVE FALSE
  OBVIOUS
<1> DEFINE i == Place(c, u) - Place(c, t) + 1
<1>3. i \in 1 .. Sz(t) /\ Place(c, t) + i - 1 = Place(c, u)
  BY <1>2
<1>4. Stream(c)[Place(c, u)] = <<t, i>>
  <2> HIDE DEF i
  <2> QED BY <1>3, StreamFacts
<1>5. 1 \in 1 .. Sz(u) /\ Place(c, u) + 1 - 1 = Place(c, u)
  BY <1>2
<1>6. Stream(c)[Place(c, u)] = <<u, 1>>
  BY <1>5, StreamFacts
<1> HIDE DEF i
<1> QED BY <1>4, <1>6

\* Byte p of the stream is the i-th of t, and not noise.
IsByte(c, p, t, i) ==
  p \in 1 .. Len(Stream(c)) /\ Stream(c)[p] = <<t, i>> /\ i # 0

LEMMA Source ==
  ASSUME NEW c \in DOMAIN Streams, NEW p, NEW t, NEW i, IsByte(c, p, t, i)
  PROVE  t \in SentBy(c) /\ i \in 1 .. Sz(t) /\ p = Place(c, t) + i - 1
<1>1. p \in 1 .. Len(Stream(c)) /\ Stream(c)[p] = <<t, i>>
  BY DEF IsByte
<1>2. Stream(c)[p] # <<Noise, 0>>
  BY DEF IsByte
<1>3. PICK u \in SentBy(c) : \E j \in 1 .. Sz(u) :
         Stream(c)[p] = <<u, j>> /\ p = Place(c, u) + j - 1
  BY <1>1, <1>2, StreamFacts
<1>4. PICK j \in 1 .. Sz(u) : Stream(c)[p] = <<u, j>> /\ p = Place(c, u) + j - 1
  BY <1>3
<1>5. u = t /\ j = i
  BY <1>1, <1>4
<1> QED BY <1>3, <1>4, <1>5

LEMMA SentFacts ==
  ASSUME NEW c \in DOMAIN Streams, NEW t \in SentBy(c)
  PROVE  /\ t \in Telegrams
         /\ Place(c, t) \in Nat /\ Place(c, t) >= 1
         /\ Place(c, t) + Sz(t) - 1 <= Len(Stream(c))
         /\ \A i \in 1 .. Sz(t) : Stream(c)[Place(c, t) + i - 1] = <<t, i>>
<1>1. t \in Telegrams
  BY DEF SentBy
<1> QED BY <1>1, StreamFacts

\* Every byte of a stream is a pair, and only noise has index 0.
LEMMA ByteIsPair ==
  ASSUME NEW c \in DOMAIN Streams, NEW p \in 1 .. Len(Stream(c)),
         Stream(c)[p][2] \in Nat, Stream(c)[p][2] # 0
  PROVE  \E t \in SentBy(c) : \E i \in 1 .. Sz(t) :
           /\ Stream(c)[p] = <<t, i>> /\ p = Place(c, t) + i - 1
           /\ Stream(c)[p][1] = t /\ Stream(c)[p][2] = i
<1>1. Stream(c)[p] # <<Noise, 0>>
  OBVIOUS
<1> QED BY <1>1, StreamFacts

-------------------------------------------------------------------------------
(* The inductive invariant: what is in the buffer and on the wire is the stream *)
(* from a place on, and nothing that may be delivered lies before it            *)

\* How many bytes of the stream are read, and how many are behind the buffer.
Read == Len(Stream(client)) - Len(wire)
Base == Read - Len(raw)

EndOf(c, t) == Place(c, t) + Sz(t) - 1

FullHeader(t) == [size |-> BodySize[t], sum |-> Body(t)]
EmptyHeader == [size |-> 0, sum |-> <<>>]

IsHeader(h) ==
  \/ h = <<>> \/ h = <<EmptyHeader>>
  \/ \E t \in Telegrams : h = <<FullHeader(t)>>

TypeInv ==
  /\ client \in DOMAIN Streams
  /\ wire \in Seq(AllBytes) /\ raw \in Seq(AllBytes)
  /\ IsHeader(header)
  /\ frames \in Seq(Seq(AllBytes))
  /\ cut \subseteq Telegrams
  /\ taking \in BOOLEAN /\ stale \in BOOLEAN

SliceInv ==
  /\ Base \in Nat
  /\ \A i \in 1 .. Len(raw) : raw[i] = Stream(client)[Base + i]
  /\ \A i \in 1 .. Len(wire) : wire[i] = Stream(client)[Read + i]

\* Frames are bodies of telegrams behind the buffer, in the order of the stream.
FramesOf(c, f, base) ==
  /\ \A i \in 1 .. Len(f) : f[i] # <<>> =>
       \E t \in SentBy(c) : f[i] = Body(t) /\ EndOf(c, t) <= base
  /\ \A i, j \in 1 .. Len(f) : \A t, u \in SentBy(c) :
       i < j /\ f[i] = Body(t) /\ f[j] = Body(u) => Place(c, t) < Place(c, u)

FrameInv == FramesOf(client, frames, Base)

\* A chunk that ended in a length or a checksum is on record.
CutInv ==
  wire # <<>> /\ wire[1][2] \in SigSize + 1 .. HeaderSize => wire[1][1] \in cut

\* A header is of the telegram that the buffer starts with.
HeadOf(c, h, base, cuts) ==
  h # <<>> => \E u \in SentBy(c) :
    /\ Place(c, u) = base + 1
    /\ h = <<FullHeader(u)>> \/ (h = <<EmptyHeader>> /\ u \in cuts)

HeaderInv == HeadOf(client, header, Base, cut)

DeliveredBefore(c, f, base, cuts) ==
  \A t \in SentBy(c) \ cuts : Body(t) \in Range(f) \/ Place(c, t) > base

DeliverInv == DeliveredBefore(client, frames, Base, cut)

IdleInv ==
  ~taking => \/ Len(raw) <= HeaderSize
             \/ header = <<>> /\ SignatureAt(raw) = {}
             \/ header # <<>> /\ Len(raw) < HeaderSize + header[1].size

BufferInv ==
  /\ TypeInv /\ SliceInv /\ FrameInv /\ CutInv /\ IdleInv
  /\ ~stale => HeaderInv /\ DeliverInv

LEMMA SliceFacts ==
  ASSUME TypeInv, SliceInv
  PROVE  /\ Stream(client) \in Seq(AllBytes) /\ Len(Stream(client)) \in Nat
         /\ Len(wire) \in Nat /\ Len(raw) \in Nat /\ Base \in Nat /\ Read \in Nat
         /\ Read = Base + Len(raw) /\ Read + Len(wire) = Len(Stream(client))
<1>1. Stream(client) \in Seq(AllBytes)
  BY StreamLaid DEF TypeInv
<1>2. Len(Stream(client)) \in Nat /\ Len(wire) \in Nat /\ Len(raw) \in Nat
  BY <1>1 DEF TypeInv
<1>3. Base \in Nat
  BY DEF SliceInv
<1>4. Read = Len(Stream(client)) - Len(wire) /\ Base = Read - Len(raw)
  BY DEF Read, Base
<1> HIDE DEF Read, Base
<1> QED BY <1>1, <1>2, <1>3, <1>4

LEMMA HeaderFacts ==
  ASSUME NEW h, IsHeader(h), h # <<>>
  PROVE  /\ Len(h) = 1 /\ h[1].size \in Nat
         /\ h[1].sum \in Seq(AllBytes)
         /\ h \in Seq([size : Nat, sum : Seq(AllBytes)])
<1>1. CASE h = <<EmptyHeader>>
  <2>1. EmptyHeader \in [size : Nat, sum : Seq(AllBytes)]
        /\ EmptyHeader.size = 0 /\ EmptyHeader.sum = <<>>
    <3>1. <<>> \in Seq(AllBytes)
      OBVIOUS
    <3> QED BY <3>1, 0 \in Nat, Zenon DEF EmptyHeader
  <2>2. h[1] = EmptyHeader /\ Len(h) = 1
    BY <1>1
  <2>3. <<>> \in Seq(AllBytes) /\ 0 \in Nat
    OBVIOUS
  <2> QED BY <1>1, <2>1, <2>2, <2>3
<1>2. ASSUME NEW t \in Telegrams, h = <<FullHeader(t)>>
      PROVE  /\ Len(h) = 1 /\ h[1].size \in Nat
             /\ h[1].sum \in Seq(AllBytes)
             /\ h \in Seq([size : Nat, sum : Seq(AllBytes)])
  <2>1. BodySize[t] \in Nat /\ Body(t) \in Seq(AllBytes)
    BY SzFacts, BodyFacts
  <2>2. FullHeader(t) \in [size : Nat, sum : Seq(AllBytes)]
        /\ FullHeader(t).size = BodySize[t] /\ FullHeader(t).sum = Body(t)
    BY <2>1 DEF FullHeader
  <2> QED BY <1>2, <2>1, <2>2
<1> QED BY <1>1, <1>2 DEF IsHeader

-------------------------------------------------------------------------------
(* What an iteration finds in the buffer *)

\* The buffer and the header that an iteration works on: nothing but bytes that
\* no telegram behind them needs is discarded.
ScanInv(d) ==
  /\ Scanned.raw \in Seq(AllBytes) /\ Len(Scanned.raw) = Len(raw) - d
  /\ \A i \in 1 .. Len(raw) - d : Scanned.raw[i] = Stream(client)[Base + d + i]
  /\ IsHeader(Scanned.header)
  /\ Scanned.header = <<>> =>
       Scanned.raw = raw /\ SignatureAt(raw) = {} /\ header = <<>>
  /\ \A t \in SentBy(client) : Place(client, t) > Base => Place(client, t) > Base + d
  /\ header = <<>> \/ ~stale => HeadOf(client, Scanned.header, Base + d, cut)

LEMMA SignatureFound ==
  ASSUME TypeInv, SliceInv, NEW k \in SignatureAt(raw)
  PROVE  /\ k \in 1 .. Len(raw) /\ k + SigSize - 1 <= Len(raw)
         /\ \E u \in SentBy(client) : Place(client, u) = Base + k
<1>1. /\ Len(raw) \in Nat /\ Base \in Nat /\ Len(Stream(client)) \in Nat
      /\ Base + Len(raw) <= Len(Stream(client))
  BY SliceFacts
<1>2. k \in 1 .. Len(raw) /\ k + SigSize - 1 <= Len(raw)
      /\ \A j \in 1 .. SigSize : raw[k + j - 1][2] = j
  BY DEF SignatureAt
<1>3. 1 \in 1 .. SigSize
  BY SizesAssumption
<1>4. k + 1 - 1 = k /\ raw[k + 1 - 1][2] = 1
  BY <1>2, <1>3
<1>5. raw[k][2] = 1 /\ raw[k] = Stream(client)[Base + k]
  BY <1>2, <1>4 DEF SliceInv
<1>6. Base + k \in 1 .. Len(Stream(client))
  BY <1>1, <1>2
<1>7. client \in DOMAIN Streams
  BY DEF TypeInv
<1>8. PICK u \in SentBy(client) : \E i \in 1 .. Sz(u) :
         /\ Base + k = Place(client, u) + i - 1
         /\ Stream(client)[Base + k][2] = i
  <2>1. Stream(client)[Base + k][2] \in Nat /\ Stream(client)[Base + k][2] # 0
    BY <1>5
  <2> HIDE DEF Base
  <2> QED BY <1>6, <1>7, <2>1, ByteIsPair
<1>9. PICK i \in 1 .. Sz(u) :
         Base + k = Place(client, u) + i - 1 /\ Stream(client)[Base + k][2] = i
  BY <1>8
<1>10. i = 1
  BY <1>5, <1>9
<1>11. Place(client, u) \in Nat
  BY <1>7, SentFacts
<1>12. Place(client, u) = Base + k
  BY <1>1, <1>2, <1>9, <1>10, <1>11
<1> QED BY <1>2, <1>12

LEMMA SignatureSeen ==
  ASSUME TypeInv, SliceInv, NEW t \in SentBy(client), NEW k \in Nat,
         Place(client, t) = Base + k, k >= 1, k + SigSize - 1 <= Len(raw)
  PROVE  k \in SignatureAt(raw)
<1>1. /\ Len(raw) \in Nat /\ Base \in Nat
      /\ Base + Len(raw) <= Len(Stream(client))
  BY SliceFacts
<1>2. client \in DOMAIN Streams /\ t \in Telegrams
  BY DEF TypeInv, SentBy
<1>3. SigSize \in Nat /\ SigSize >= 1 /\ SigSize < Sz(t) /\ Sz(t) \in Nat
  BY <1>2, SzFacts
<1>4. \A i \in 1 .. Sz(t) : Stream(client)[Place(client, t) + i - 1] = <<t, i>>
  BY <1>2, SentFacts
<1>5. ASSUME NEW j \in 1 .. SigSize PROVE raw[k + j - 1][2] = j
  <2>1. j \in 1 .. Sz(t) /\ k + j - 1 \in 1 .. Len(raw)
        /\ Base + (k + j - 1) = Place(client, t) + j - 1
    BY <1>1, <1>3
  <2>2. raw[k + j - 1] = Stream(client)[Base + (k + j - 1)]
    BY <2>1 DEF SliceInv
  <2>3. raw[k + j - 1] = <<t, j>>
    BY <1>4, <2>1, <2>2
  <2> QED BY <2>3
<1>6. k \in 1 .. Len(raw)
  BY <1>1, <1>3
<1> QED BY <1>5, <1>6 DEF SignatureAt

\* A header is read from the telegram that starts there, or left empty because a
\* chunk ended in it.
LEMMA HeaderRead ==
  ASSUME TypeInv, SliceInv, CutInv, NEW u \in SentBy(client), NEW d \in Nat,
         Place(client, u) = Base + d + 1, d + SigSize <= Len(raw),
         NEW buf \in Seq(AllBytes), Len(buf) = Len(raw) - d,
         \A i \in 1 .. Len(raw) - d : buf[i] = Stream(client)[Base + d + i]
  PROVE  \/ HeaderOf(buf) = FullHeader(u)
         \/ HeaderOf(buf) = EmptyHeader /\ u \in cut
<1>1. /\ Len(raw) \in Nat /\ Base \in Nat /\ Read \in Nat
      /\ Len(wire) \in Nat /\ Len(Stream(client)) \in Nat
      /\ Read = Base + Len(raw) /\ Read + Len(wire) = Len(Stream(client))
  BY SliceFacts
<1>2. client \in DOMAIN Streams /\ u \in Telegrams
  BY DEF TypeInv, SentBy
<1>3. /\ SigSize \in Nat /\ SigSize >= 1 /\ SigSize < HeaderSize /\ HeaderSize \in Nat
      /\ HeaderSize < Sz(u) /\ Sz(u) \in Nat
  BY <1>2, SzFacts
<1>4. /\ \A i \in 1 .. Sz(u) : Stream(client)[Place(client, u) + i - 1] = <<u, i>>
      /\ Place(client, u) + Sz(u) - 1 <= Len(Stream(client))
  BY <1>2, SentFacts
<1>5. CASE Len(buf) >= HeaderSize
  <2>1. HeaderSize \in 1 .. Len(raw) - d /\ HeaderSize \in 1 .. Sz(u)
        /\ Base + d + HeaderSize = Place(client, u) + HeaderSize - 1
    BY <1>1, <1>3, <1>5
  <2>2. buf[HeaderSize] = <<u, HeaderSize>>
    BY <1>4, <2>1
  <2>3. buf[HeaderSize][1] = u
    BY <2>2
  <2> QED BY <1>5, <2>3, Zenon DEF HeaderOf, FullHeader
<1>6. CASE ~(Len(buf) >= HeaderSize)
  <2>1. HeaderOf(buf) = EmptyHeader
    BY <1>6, Zenon DEF HeaderOf, EmptyHeader
  <2> DEFINE i == Len(raw) - d + 1
  <2>2. i \in SigSize + 1 .. HeaderSize /\ i \in 1 .. Sz(u)
        /\ Read + 1 = Place(client, u) + i - 1 /\ 1 \in 1 .. Len(wire)
    BY <1>1, <1>3, <1>4, <1>6
  <2> HIDE DEF i
  <2>3. wire[1] = <<u, i>>
    BY <1>4, <2>2 DEF SliceInv
  <2>4. wire # <<>> /\ wire[1][1] = u /\ wire[1][2] = i
    BY <2>2, <2>3
  <2>5. u \in cut
    BY <2>2, <2>4 DEF CutInv
  <2> QED BY <2>1, <2>5
<1> QED BY <1>5, <1>6

\* A stream begins with noise or with a signature.
LEMMA FreshWire ==
  ASSUME NEW c \in DOMAIN Streams, NEW w, w = Stream(c), w # <<>>
  PROVE  ~(w[1][2] \in SigSize + 1 .. HeaderSize)
<1> SUFFICES ASSUME w[1][2] \in SigSize + 1 .. HeaderSize PROVE FALSE
  OBVIOUS
<1>1. w \in Seq(AllBytes)
  BY StreamLaid
<1>2. 1 \in 1 .. Len(Stream(c))
  BY <1>1
<1>3. Stream(c)[1][2] \in Nat /\ Stream(c)[1][2] # 0 /\ Stream(c)[1][2] > 1
  BY SizesAssumption
<1>4. PICK t \in SentBy(c) : \E i \in 1 .. Sz(t) :
         1 = Place(c, t) + i - 1 /\ Stream(c)[1][2] = i
  BY <1>2, <1>3, ByteIsPair
<1>5. Place(c, t) \in Nat /\ Place(c, t) >= 1
  BY SentFacts
<1> QED BY <1>3, <1>4, <1>5

\* The frames stay behind the buffer when it moves on.
LEMMA FramesBehind ==
  ASSUME NEW c \in DOMAIN Streams, NEW f, NEW base \in Nat, NEW d \in Nat,
         FramesOf(c, f, base)
  PROVE  FramesOf(c, f, base + d)
<1>1. ASSUME NEW t \in SentBy(c), EndOf(c, t) <= base PROVE EndOf(c, t) <= base + d
  <2>1. EndOf(c, t) \in Int
    BY SentFacts, SzFacts DEF EndOf
  <2> QED BY <1>1, <2>1
<1> QED BY <1>1 DEF FramesOf

LEMMA ScanFacts ==
  ASSUME TypeInv, SliceInv, CutInv, ~stale => HeaderInv
  PROVE  \E d \in 0 .. Len(raw) : ScanInv(d)
<1>1. /\ Len(raw) \in Nat /\ Base \in Nat /\ raw \in Seq(AllBytes)
      /\ client \in DOMAIN Streams /\ IsHeader(header)
      /\ \A i \in 1 .. Len(raw) : raw[i] = Stream(client)[Base + i]
  BY SliceFacts DEF TypeInv, SliceInv
<1>2. \A t \in SentBy(client) : Place(client, t) \in Nat
  BY <1>1, SentFacts
<1>3. CASE header # <<>> \/ SignatureAt(raw) = {}
  <2>1. Scanned.raw = raw /\ Scanned.header = header
    BY <1>3 DEF Scanned
  <2>2. 0 \in 0 .. Len(raw) /\ Len(raw) - 0 = Len(raw) /\ Base + 0 = Base
    BY <1>1
  <2>3. ASSUME header = <<>> \/ ~stale PROVE HeadOf(client, header, Base, cut)
    <3>1. CASE header = <<>>
      BY <3>1 DEF HeadOf
    <3>2. CASE ~stale
      BY <3>2 DEF HeaderInv
    <3> QED BY <2>3, <3>1, <3>2
  <2>4. ScanInv(0)
    <3>1. \A i \in 1 .. Len(raw) - 0 : raw[i] = Stream(client)[Base + 0 + i]
      BY <1>1, <2>2
    <3>2. header = <<>> => SignatureAt(raw) = {}
      BY <1>3
    <3> QED BY <1>1, <2>1, <2>2, <2>3, <3>1, <3>2 DEF ScanInv
  <2> QED BY <2>2, <2>4
<1>4. CASE ~(header # <<>> \/ SignatureAt(raw) = {})
  <2> DEFINE first == CHOOSE k \in SignatureAt(raw) : \A j \in SignatureAt(raw) : k <= j
  <2> DEFINE buf == SubSeq(raw, first, Len(raw))
  <2>1. /\ first \in SignatureAt(raw)
        /\ \A j \in SignatureAt(raw) : first <= j
    <3>1. SignatureAt(raw) \subseteq Nat /\ SignatureAt(raw) # {}
      <4>1. SignatureAt(raw) \subseteq 1 .. Len(raw)
        BY DEF SignatureAt
      <4>2. SignatureAt(raw) # {}
        BY <1>4
      <4>3. 1 .. Len(raw) \subseteq Nat
        BY <1>1
      <4> QED BY <4>1, <4>2, <4>3
    <3>2. \E k \in SignatureAt(raw) : \A j \in SignatureAt(raw) : k <= j
      BY <3>1, Least
    <3> QED BY <3>2, Zenon
  <2>2. Scanned.raw = buf /\ Scanned.header = <<HeaderOf(buf)>>
    BY <1>4 DEF Scanned
  <2>3. PICK f : f = first /\ buf = SubSeq(raw, f, Len(raw))
    OBVIOUS
  <2> HIDE DEF first, buf
  <2>4. f \in 1 .. Len(raw) /\ f + SigSize - 1 <= Len(raw)
        /\ \E u \in SentBy(client) : Place(client, u) = Base + f
    BY <2>1, <2>3, SignatureFound
  <2>5. PICK u \in SentBy(client) : Place(client, u) = Base + f
    BY <2>4
  <2>6. SigSize \in Nat /\ SigSize >= 1
    BY SizesAssumption
  <2>7. PICK d \in Nat : /\ f = d + 1 /\ d + 1 = f /\ d \in 0 .. Len(raw)
                         /\ d + SigSize <= Len(raw) /\ d <= Len(raw)
    <3>1. f - 1 \in Nat /\ f = (f - 1) + 1 /\ (f - 1) + 1 = f /\ f - 1 \in 0 .. Len(raw)
          /\ (f - 1) + SigSize <= Len(raw) /\ f - 1 <= Len(raw)
      BY <1>1, <2>4, <2>6
    <3> QED BY <3>1
  <2>8. /\ buf \in Seq(AllBytes) /\ Len(buf) = Len(raw) - d
        /\ \A i \in 1 .. Len(raw) - d : buf[i] = raw[d + i]
    <3>1. buf = SubSeq(raw, d + 1, Len(raw))
      BY <2>3, <2>7
    <3>2. Len(raw) <= Len(raw)
      BY <1>1
    <3>3. raw \in Seq(AllBytes) /\ Len(raw) \in Nat /\ d <= Len(raw)
      BY <1>1, <2>7
    <3>4. /\ SubSeq(raw, d + 1, Len(raw)) \in Seq(AllBytes)
          /\ Len(SubSeq(raw, d + 1, Len(raw))) = Len(raw) - d
          /\ \A i \in 1 .. Len(raw) - d : SubSeq(raw, d + 1, Len(raw))[i] = raw[d + i]
      BY <3>2, <3>3, Slice
    <3> QED BY <3>1, <3>4
  <2>9. \A i \in 1 .. Len(raw) - d : buf[i] = Stream(client)[Base + d + i]
    <3>1. ASSUME NEW i \in 1 .. Len(raw) - d
          PROVE  buf[i] = Stream(client)[Base + d + i]
      <4>1. d + i \in 1 .. Len(raw) /\ Base + (d + i) = Base + d + i
        BY <1>1, <2>7
      <4> QED BY <1>1, <2>8, <4>1
    <3> QED BY <3>1
  <2>10. Place(client, u) = Base + d + 1 /\ u \in Telegrams
    <3>1. Base + f = Base + d + 1
      BY <1>1, <2>7
    <3> QED BY <2>5, <3>1 DEF SentBy
  <2>11. HeaderOf(buf) = FullHeader(u) \/ (HeaderOf(buf) = EmptyHeader /\ u \in cut)
    BY <2>7, <2>8, <2>9, <2>10, HeaderRead
  <2>12. IsHeader(Scanned.header) /\ Scanned.header # <<>>
         /\ HeadOf(client, Scanned.header, Base + d, cut)
    BY <2>2, <2>10, <2>11 DEF IsHeader, HeadOf
  <2>13. ASSUME NEW t \in SentBy(client), Place(client, t) > Base
         PROVE  Place(client, t) > Base + d
    <3>1. CASE Place(client, t) <= Base + d
      <4>0. /\ Place(client, t) \in Nat /\ Base \in Nat /\ d \in Nat
            /\ Place(client, t) > Base /\ Place(client, t) <= Base + d
        BY <1>1, <1>2, <2>7, <2>13, <3>1
      <4>1. PICK k \in Nat : /\ Place(client, t) = Base + k /\ k >= 1 /\ k <= d
                             /\ k + SigSize - 1 <= Len(raw)
        <5>1. PICK k \in Nat : Place(client, t) = Base + k /\ k >= 1 /\ k <= d
          <6>1. Place(client, t) - Base \in Nat
                /\ Place(client, t) = Base + (Place(client, t) - Base)
                /\ Place(client, t) - Base >= 1 /\ Place(client, t) - Base <= d
            BY <4>0
          <6> QED BY <6>1
        <5>2. k + SigSize - 1 <= Len(raw)
          BY <1>1, <2>6, <2>7, <5>1
        <5> QED BY <5>1, <5>2
      <4>2. k \in SignatureAt(raw)
        BY <4>1, SignatureSeen
      <4>3. f <= k
        BY <2>1, <2>3, <4>2
      <4> QED BY <2>7, <4>1, <4>3
    <3>2. Place(client, t) \in Nat /\ Base + d \in Nat
      BY <1>1, <1>2, <2>7
    <3> QED BY <3>1, <3>2
  <2>14. ScanInv(d)
    BY <2>2, <2>8, <2>9, <2>12, <2>13 DEF ScanInv
  <2> QED BY <2>7, <2>14
<1> QED BY <1>3, <1>4

-------------------------------------------------------------------------------
(* The steps *)

LEMMA InitBuffer == Init => BufferInv
<1> SUFFICES ASSUME Init PROVE BufferInv
  OBVIOUS
<1>1. /\ client = 1 /\ wire = Stream(1) /\ raw = <<>> /\ header = <<>>
      /\ taking = FALSE /\ frames = <<>> /\ cut = {} /\ stale = FALSE
  BY DEF Init
<1>2. 1 \in DOMAIN Streams
  BY StreamsAssumption
<1>3. Stream(1) \in Seq(AllBytes) /\ Len(Stream(1)) \in Nat
  <2>1. Stream(1) \in Seq(AllBytes)
    BY <1>2, StreamLaid
  <2> QED BY <2>1
<1>4. Len(raw) = 0 /\ Read = 0 /\ Base = 0
  <2>1. Len(raw) = 0
    BY <1>1
  <2>2. Read = Len(Stream(1)) - Len(Stream(1))
    BY <1>1 DEF Read
  <2>3. Read = 0
    BY <1>3, <2>2
  <2> QED BY <2>1, <2>3 DEF Base
<1>5. TypeInv
  <2>1. <<>> \in Seq(AllBytes) /\ <<>> \in Seq(Seq(AllBytes))
    OBVIOUS
  <2>2. IsHeader(header)
    BY <1>1 DEF IsHeader
  <2> QED BY <1>1, <1>2, <1>3, <2>1, <2>2 DEF TypeInv
<1>6. SliceInv
  <2>1. \A i \in 1 .. Len(wire) : 0 + i = i
    OBVIOUS
  <2> QED BY <1>1, <1>4, <2>1 DEF SliceInv
<1>7. FrameInv
  <2>1. Len(frames) = 0
    BY <1>1
  <2> QED BY <2>1 DEF FrameInv, FramesOf
<1>8. CutInv
  BY <1>1, <1>2, FreshWire DEF CutInv
<1>9. IdleInv
  BY <1>1, <1>4, SizesAssumption DEF IdleInv
<1>10. HeaderInv
  BY <1>1 DEF HeaderInv, HeadOf
<1>11. DeliverInv
  <2>1. \A t \in SentBy(client) : Place(client, t) \in Nat /\ Place(client, t) >= 1
    BY <1>1, <1>2, SentFacts
  <2> QED BY <1>4, <2>1 DEF DeliverInv, DeliveredBefore
<1> QED BY <1>5, <1>6, <1>7, <1>8, <1>9, <1>10, <1>11 DEF BufferInv

LEMMA ReceiveStep ==
  ASSUME BufferInv, NEW n \in 1 .. MaxChunk, Receive(n)
  PROVE  BufferInv'
<1>0. TypeInv /\ SliceInv /\ FrameInv /\ CutInv /\ IdleInv
      /\ (~stale => HeaderInv /\ DeliverInv)
  BY DEF BufferInv
<1>1. /\ client \in DOMAIN Streams /\ wire \in Seq(AllBytes) /\ raw \in Seq(AllBytes)
      /\ IsHeader(header) /\ frames \in Seq(Seq(AllBytes)) /\ cut \subseteq Telegrams
      /\ taking \in BOOLEAN /\ stale \in BOOLEAN
  BY <1>0 DEF TypeInv
<1>2. /\ Stream(client) \in Seq(AllBytes) /\ Len(Stream(client)) \in Nat
      /\ Len(wire) \in Nat /\ Len(raw) \in Nat /\ Base \in Nat /\ Read \in Nat
      /\ Read = Base + Len(raw) /\ Read + Len(wire) = Len(Stream(client))
  BY <1>0, SliceFacts
<1>3. /\ n <= Len(wire) /\ ~taking
      /\ raw' = raw \o SubSeq(wire, 1, n)
      /\ wire' = SubSeq(wire, n + 1, Len(wire))
      /\ taking' = (Len(raw') > HeaderSize)
      /\ cut' = IF wire' # <<>> /\ Head(wire')[2] \in SigSize + 1 .. HeaderSize
                  THEN cut \union {Head(wire')[1]} ELSE cut
      /\ client' = client /\ header' = header /\ frames' = frames /\ stale' = stale
  BY DEF Receive
<1>4. n \in Nat /\ n >= 1
  BY SizesAssumption
<1> DEFINE chunk == SubSeq(wire, 1, n)
<1>5. /\ chunk \in Seq(AllBytes) /\ Len(chunk) = n
      /\ \A i \in 1 .. n : chunk[i] = wire[i]
  <2>1. 0 \in Nat /\ 0 <= n /\ 0 + 1 = 1 /\ n - 0 = n
    BY <1>4
  <2>2. /\ SubSeq(wire, 0 + 1, n) \in Seq(AllBytes) /\ Len(SubSeq(wire, 0 + 1, n)) = n - 0
        /\ \A i \in 1 .. n - 0 : SubSeq(wire, 0 + 1, n)[i] = wire[0 + i]
    BY <1>1, <1>3, <1>4, <2>1, Slice
  <2>3. \A i \in 1 .. n : 0 + i = i
    OBVIOUS
  <2> QED BY <2>1, <2>2, <2>3
<1>6. /\ wire' \in Seq(AllBytes) /\ Len(wire') = Len(wire) - n
      /\ \A i \in 1 .. Len(wire) - n : wire'[i] = wire[n + i]
  <2>1. Len(wire) <= Len(wire)
    BY <1>2
  <2>2. /\ SubSeq(wire, n + 1, Len(wire)) \in Seq(AllBytes)
        /\ Len(SubSeq(wire, n + 1, Len(wire))) = Len(wire) - n
        /\ \A i \in 1 .. Len(wire) - n : SubSeq(wire, n + 1, Len(wire))[i] = wire[n + i]
    <3>1. wire \in Seq(AllBytes)
      BY <1>1
    <3>2. n \in Nat /\ Len(wire) \in Nat
      BY <1>2, <1>4
    <3>3. n <= Len(wire)
      BY <1>3
    <3> QED BY <2>1, <3>1, <3>2, <3>3, Slice
  <2> QED BY <1>3, <2>2
<1>7. raw' = raw \o chunk
  BY <1>3
<1> HIDE DEF chunk
<1>8. /\ raw' \in Seq(AllBytes) /\ Len(raw') = Len(raw) + n
      /\ \A i \in 1 .. Len(raw) : raw'[i] = raw[i]
  BY <1>1, <1>5, <1>7, ConcatPlaces
<1>9. \A i \in 1 .. n : raw'[Len(raw) + i] = chunk[i]
  BY <1>1, <1>5, <1>7, ConcatLast
<1>10. Read' = Read + n /\ Base' = Base
  <2>1. Read' = Len(Stream(client')) - Len(wire') /\ Base' = Read' - Len(raw')
        /\ Read = Len(Stream(client)) - Len(wire)
    BY DEF Read, Base
  <2>2. Stream(client') = Stream(client)
    BY <1>3
  <2>3. Read' = Read + n
    <3>1. Len(Stream(client)) \in Nat /\ Len(wire) \in Nat /\ n \in Nat
      BY <1>2, <1>4
    <3>2. Read' = Len(Stream(client)) - (Len(wire) - n)
      BY <1>6, <2>1, <2>2, Zenon
    <3>3. Read = Len(Stream(client)) - Len(wire)
      BY <2>1, Zenon
    <3>4. Len(Stream(client)) - (Len(wire) - n) = Len(Stream(client)) - Len(wire) + n
      BY <3>1
    <3> QED BY <3>2, <3>3, <3>4, Zenon
  <2> QED BY <1>2, <1>4, <1>8, <2>1, <2>3
<1>11. SliceInv'
  <2>1. ASSUME NEW i \in 1 .. Len(raw') PROVE raw'[i] = Stream(client)[Base + i]
    <3>1. CASE i <= Len(raw)
      <4>1. i \in 1 .. Len(raw)
        BY <1>2, <1>4, <1>8, <3>1
      <4> QED BY <1>0, <1>8, <4>1 DEF SliceInv
    <3>2. CASE ~(i <= Len(raw))
      <4>1. PICK j \in 1 .. n : i = Len(raw) + j
        <5>1. i - Len(raw) \in 1 .. n /\ i = Len(raw) + (i - Len(raw))
          BY <1>2, <1>4, <1>8, <3>2
        <5> QED BY <5>1
      <4>2. raw'[i] = wire[j]
        BY <1>5, <1>9, <4>1
      <4>3. j \in 1 .. Len(wire) /\ Read + j = Base + i
        BY <1>2, <1>3, <1>4, <4>1
      <4> QED BY <1>0, <4>2, <4>3 DEF SliceInv
    <3> QED BY <3>1, <3>2
  <2>2. ASSUME NEW i \in 1 .. Len(wire') PROVE wire'[i] = Stream(client)[Read + n + i]
    <3>1. i \in 1 .. Len(wire) - n /\ n + i \in 1 .. Len(wire)
          /\ Read + (n + i) = Read + n + i
      BY <1>2, <1>3, <1>4, <1>6
    <3>2. wire'[i] = wire[n + i] /\ wire[n + i] = Stream(client)[Read + (n + i)]
      BY <1>0, <1>6, <3>1 DEF SliceInv
    <3> QED BY <3>1, <3>2
  <2>3. \A i \in 1 .. Len(raw') : raw'[i] = Stream(client')[Base' + i]
    BY <1>3, <1>10, <2>1
  <2>4. \A i \in 1 .. Len(wire') : wire'[i] = Stream(client')[Read' + i]
    BY <1>3, <1>10, <2>2
  <2>5. Base' \in Nat
    BY <1>2, <1>10
  <2> QED BY <2>3, <2>4, <2>5 DEF SliceInv
<1>12. wire' # <<>> => Head(wire') = wire'[1] /\ 1 \in 1 .. Len(wire')
  BY <1>6
\* the byte that a chunk stops before is a telegram's
<1>13. wire' # <<>> /\ wire'[1][2] \in SigSize + 1 .. HeaderSize => wire'[1][1] \in Telegrams
  <2> SUFFICES ASSUME wire' # <<>>, wire'[1][2] \in SigSize + 1 .. HeaderSize
               PROVE  wire'[1][1] \in Telegrams
    OBVIOUS
  <2>1. wire'[1] = Stream(client)[Read + n + 1] /\ 1 \in 1 .. Len(wire')
    BY <1>3, <1>10, <1>11, <1>12 DEF SliceInv
  <2>2. Read + n + 1 \in 1 .. Len(Stream(client))
    BY <1>2, <1>3, <1>4, <1>6, <2>1
  <2>3. wire'[1][2] \in Nat /\ wire'[1][2] # 0
    BY SizesAssumption
  <2>4. \E t \in SentBy(client) : Stream(client)[Read + n + 1][1] = t
    BY <1>1, <2>1, <2>2, <2>3, ByteIsPair
  <2> QED BY <2>1, <2>4 DEF SentBy
<1>14. cut' \subseteq Telegrams /\ cut \subseteq cut'
  BY <1>1, <1>3, <1>12, <1>13
<1>15. CutInv'
  BY <1>3, <1>12 DEF CutInv
<1>16. TypeInv'
  <2>1. taking' \in BOOLEAN
    BY <1>3
  <2> QED BY <1>1, <1>3, <1>6, <1>8, <1>14, <2>1 DEF TypeInv
<1>17. FrameInv'
  BY <1>0, <1>3, <1>10 DEF FrameInv
<1>18. IdleInv'
  <2>1. ~taking' => Len(raw') <= HeaderSize
    <3>1. ~taking' => ~(Len(raw') > HeaderSize)
      BY <1>3, Zenon
    <3>2. Len(raw') \in Nat /\ HeaderSize \in Nat
      BY <1>8, SizesAssumption
    <3>3. ~(Len(raw') > HeaderSize) => Len(raw') <= HeaderSize
      BY <3>2
    <3> QED BY <3>1, <3>3, Zenon
  <2> QED BY <2>1 DEF IdleInv
<1>19. ~stale' => HeaderInv' /\ DeliverInv'
  <2>1. HeaderInv => HeaderInv'
    BY <1>3, <1>10, <1>14 DEF HeaderInv, HeadOf
  <2>2. DeliverInv => DeliverInv'
    BY <1>3, <1>10, <1>14 DEF DeliverInv, DeliveredBefore
  <2> QED BY <1>0, <1>3, <2>1, <2>2
<1> QED BY <1>11, <1>15, <1>16, <1>17, <1>18, <1>19 DEF BufferInv

LEMMA NextClientStep ==
  ASSUME BufferInv, NextClient
  PROVE  BufferInv'
<1>1. /\ client \in DOMAIN Streams /\ wire \in Seq(AllBytes)
      /\ IsHeader(header) /\ taking \in BOOLEAN
  BY DEF BufferInv, TypeInv
<1>2. /\ ~taking /\ client < Len(Streams) /\ client' = client + 1
      /\ wire' = Stream(client') /\ raw' = <<>> /\ header' = header /\ frames' = <<>>
      /\ cut' = {} /\ stale' = (header # <<>>) /\ taking' = taking
  BY DEF NextClient
<1>3. client' \in DOMAIN Streams
  <2>1. Streams \in Seq(Seq(Telegrams \union {Noise}))
    BY StreamsAssumption
  <2>2. DOMAIN Streams = 1 .. Len(Streams) /\ Len(Streams) \in Nat
    BY <2>1
  <2> QED BY <1>1, <1>2, <2>2
<1>4. wire' \in Seq(AllBytes) /\ Len(wire') \in Nat
  <2>1. Stream(client') \in Seq(AllBytes)
    BY <1>3, StreamLaid
  <2> QED BY <1>2, <2>1
<1>5. Len(raw') = 0 /\ Read' = 0 /\ Base' = 0
  <2>1. Len(raw') = 0
    BY <1>2
  <2>2. Read' = Len(wire') - Len(wire')
    BY <1>2 DEF Read
  <2>3. Read' = 0
    BY <1>4, <2>2
  <2> QED BY <2>1, <2>3 DEF Base
<1>6. TypeInv'
  <2>1. <<>> \in Seq(AllBytes) /\ <<>> \in Seq(Seq(AllBytes))
    OBVIOUS
  <2>2. stale' \in BOOLEAN /\ cut' \subseteq Telegrams
    BY <1>2
  <2> QED BY <1>1, <1>2, <1>3, <1>4, <2>1, <2>2 DEF TypeInv
<1>7. SliceInv'
  <2>1. \A i \in 1 .. Len(wire') : 0 + i = i
    OBVIOUS
  <2> QED BY <1>2, <1>5, <2>1 DEF SliceInv
<1>8. FrameInv'
  <2>1. Len(frames') = 0
    BY <1>2
  <2> QED BY <2>1 DEF FrameInv, FramesOf
<1>9. CutInv'
  BY <1>2, <1>3, FreshWire DEF CutInv
<1>10. IdleInv'
  BY <1>5, SizesAssumption DEF IdleInv
<1>11. ~stale' => HeaderInv'
  BY <1>2 DEF HeaderInv, HeadOf
<1>12. DeliverInv'
  <2>1. \A t \in SentBy(client') : Place(client', t) \in Nat /\ Place(client', t) >= 1
    BY <1>3, SentFacts
  <2> QED BY <1>5, <2>1 DEF DeliverInv, DeliveredBefore
<1> QED BY <1>6, <1>7, <1>8, <1>9, <1>10, <1>11, <1>12 DEF BufferInv

LEMMA StopTakingStep ==
  ASSUME BufferInv, StopTaking
  PROVE  BufferInv'
<1>0. TypeInv /\ SliceInv /\ FrameInv /\ CutInv
      /\ (~stale => HeaderInv /\ DeliverInv)
  BY DEF BufferInv
<1>1. PICK d \in 0 .. Len(raw) : ScanInv(d)
  BY <1>0, ScanFacts
<1>2. /\ Stream(client) \in Seq(AllBytes) /\ Len(Stream(client)) \in Nat
      /\ Len(wire) \in Nat /\ Len(raw) \in Nat /\ Base \in Nat /\ Read \in Nat
      /\ Read = Base + Len(raw)
  BY <1>0, SliceFacts
<1>3. /\ ~IsFull(Scanned) /\ raw' = Scanned.raw /\ header' = Scanned.header
      /\ taking' = FALSE /\ client' = client /\ wire' = wire /\ frames' = frames
      /\ cut' = cut /\ stale' = stale
  BY DEF StopTaking
<1>4. /\ Scanned.raw \in Seq(AllBytes) /\ Len(Scanned.raw) = Len(raw) - d
      /\ \A i \in 1 .. Len(raw) - d : Scanned.raw[i] = Stream(client)[Base + d + i]
      /\ IsHeader(Scanned.header)
      /\ Scanned.header = <<>> =>
           Scanned.raw = raw /\ SignatureAt(raw) = {} /\ header = <<>>
      /\ \A t \in SentBy(client) : Place(client, t) > Base => Place(client, t) > Base + d
      /\ header = <<>> \/ ~stale => HeadOf(client, Scanned.header, Base + d, cut)
  BY <1>1 DEF ScanInv
<1>5. d \in Nat /\ d <= Len(raw)
  BY <1>2
<1>6. Read' = Read /\ Base' = Base + d /\ Len(raw') = Len(raw) - d
  <2>1. Read' = Read
    BY <1>3 DEF Read
  <2>2. Base' = Read' - Len(raw') /\ Len(raw') = Len(raw) - d
    BY <1>3, <1>4 DEF Base
  <2> QED BY <1>2, <1>5, <2>1, <2>2
<1>7. TypeInv'
  BY <1>0, <1>3, <1>4 DEF TypeInv
<1>8. SliceInv'
  <2>1. Base' \in Nat
    BY <1>2, <1>5, <1>6
  <2>2. \A i \in 1 .. Len(raw') : raw'[i] = Stream(client')[Base' + i]
    BY <1>3, <1>4, <1>6
  <2>3. \A i \in 1 .. Len(wire') : wire'[i] = Stream(client')[Read' + i]
    BY <1>0, <1>3, <1>6 DEF SliceInv
  <2> QED BY <2>1, <2>2, <2>3 DEF SliceInv
<1>9. FrameInv'
  <2>1. FramesOf(client, frames, Base)
    BY <1>0 DEF FrameInv
  <2>2. FramesOf(client, frames, Base + d)
    BY <1>0, <1>2, <1>5, <2>1, FramesBehind DEF TypeInv
  <2> QED BY <1>3, <1>6, <2>2 DEF FrameInv
<1>10. CutInv'
  BY <1>0, <1>3 DEF CutInv
<1>11. IdleInv'
  <2>1. CASE Scanned.header = <<>>
    BY <1>3, <1>4, <2>1 DEF IdleInv
  <2>2. CASE Scanned.header # <<>>
    <3>1. ~(Len(raw') >= HeaderSize + header'[1].size)
      BY <1>3, <2>2, Zenon DEF IsFull, TelegramSize
    <3>2. header'[1].size \in Nat /\ HeaderSize \in Nat /\ Len(raw') \in Nat
      <4>1. IsHeader(header') /\ header' # <<>>
        BY <1>3, <1>4, <2>2, Zenon
      <4>2. header'[1].size \in Nat
        BY <4>1, HeaderFacts, Zenon
      <4>3. Len(raw') \in Nat
        BY <1>2, <1>5, <1>6
      <4> QED BY <4>2, <4>3, SizesAssumption
    <3>3. Len(raw') < HeaderSize + header'[1].size
      BY <3>1, <3>2
    <3> QED BY <1>3, <2>2, <3>3 DEF IdleInv
  <2> QED BY <2>1, <2>2
<1>12. ~stale' => HeaderInv' /\ DeliverInv'
  <2> SUFFICES ASSUME ~stale PROVE HeaderInv' /\ DeliverInv'
    BY <1>3
  <2>1. HeaderInv'
    BY <1>3, <1>4, <1>6 DEF HeaderInv
  <2>2. DeliveredBefore(client, frames, Base, cut)
    BY <1>0 DEF DeliverInv
  <2>3. DeliveredBefore(client, frames, Base + d, cut)
    BY <1>4, <2>2 DEF DeliveredBefore
  <2> QED BY <1>3, <1>6, <2>1, <2>3 DEF DeliverInv
<1> QED BY <1>7, <1>8, <1>9, <1>10, <1>11, <1>12 DEF BufferInv

LEMMA FramesGrow ==
  ASSUME NEW c \in DOMAIN Streams, NEW f \in Seq(Seq(AllBytes)),
         NEW base \in Nat, NEW d \in Nat, FramesOf(c, f, base),
         NEW got \in Seq(AllBytes),
         \/ got = <<>>
         \/ \E t \in SentBy(c) : /\ got = Body(t) /\ Place(c, t) > base
                                 /\ EndOf(c, t) <= base + d
  PROVE  FramesOf(c, Append(f, got), base + d)
<1>1. FramesOf(c, f, base + d)
  BY FramesBehind
<1>2. /\ Len(f) \in Nat /\ Len(Append(f, got)) = Len(f) + 1
      /\ \A i \in 1 .. Len(f) : Append(f, got)[i] = f[i]
      /\ Append(f, got)[Len(f) + 1] = got
  BY AppendProperties
<1> DEFINE g == Append(f, got)
<1> HIDE DEF g
<1>3. /\ Len(g) = Len(f) + 1 /\ g[Len(f) + 1] = got
      /\ \A i \in 1 .. Len(f) : g[i] = f[i]
  BY <1>2 DEF g
<1>4. ASSUME NEW i \in 1 .. Len(g), g[i] # <<>>
      PROVE  \E t \in SentBy(c) : g[i] = Body(t) /\ EndOf(c, t) <= base + d
  <2>1. CASE i \in 1 .. Len(f)
    BY <1>1, <1>3, <1>4, <2>1 DEF FramesOf
  <2>2. CASE i = Len(f) + 1
    BY <1>3, <1>4, <2>2
  <2> QED BY <1>2, <1>3, <2>1, <2>2
<1>5. ASSUME NEW i \in 1 .. Len(g), NEW j \in 1 .. Len(g),
             NEW t \in SentBy(c), NEW u \in SentBy(c),
             i < j, g[i] = Body(t), g[j] = Body(u)
      PROVE  Place(c, t) < Place(c, u)
  <2>1. i \in 1 .. Len(f)
    BY <1>2, <1>3, <1>5
  <2>2. CASE j \in 1 .. Len(f)
    BY <1>1, <1>3, <1>5, <2>1, <2>2 DEF FramesOf
  <2>3. CASE j = Len(f) + 1
    <3>1. t \in Telegrams /\ u \in Telegrams
      BY DEF SentBy
    <3>2. got = Body(u) /\ got # <<>>
      BY <1>3, <1>5, <2>3, <3>1, BodyFacts
    <3>3. Place(c, u) > base
      <4>1. PICK v \in SentBy(c) : got = Body(v) /\ Place(c, v) > base
        BY <3>2
      <4>2. v = u
        BY <3>1, <3>2, <4>1, BodiesDiffer DEF SentBy
      <4> QED BY <4>1, <4>2
    <3>4. EndOf(c, t) <= base
      <4>1. f[i] = Body(t) /\ f[i] # <<>>
        BY <1>3, <1>5, <2>1, <3>1, BodyFacts
      <4>2. PICK v \in SentBy(c) : f[i] = Body(v) /\ EndOf(c, v) <= base
        BY <2>1, <4>1 DEF FramesOf
      <4>3. v = t
        BY <3>1, <4>1, <4>2, BodiesDiffer DEF SentBy
      <4> QED BY <4>2, <4>3
    <3>5. /\ Place(c, t) \in Nat /\ Place(c, u) \in Nat /\ Sz(t) \in Nat /\ Sz(t) >= 1
          /\ EndOf(c, t) = Place(c, t) + Sz(t) - 1
      BY <3>1, SentFacts, SzFacts DEF EndOf
    <3> QED BY <3>3, <3>4, <3>5
  <2> QED BY <1>2, <1>3, <2>2, <2>3
<1>6. FramesOf(c, g, base + d)
  BY <1>4, <1>5 DEF FramesOf
<1> QED BY <1>6 DEF g

LEMMA SameSeq ==
  ASSUME NEW A, NEW s \in Seq(A), NEW t \in Seq(A), Len(s) = Len(t),
         \A i \in 1 .. Len(s) : s[i] = t[i]
  PROVE  s = t
BY SeqEqual

\* A telegram whose body was found in the buffer is the one the buffer starts with.
LEMMA BodyFound ==
  ASSUME TypeInv, SliceInv, NEW d \in Nat, NEW t \in Telegrams,
         Base + d + HeaderSize + 1 <= Base + Len(raw),
         Stream(client)[Base + d + HeaderSize + 1] = Body(t)[1]
  PROVE  t \in SentBy(client) /\ Place(client, t) = Base + d + 1
<1>1. /\ Len(raw) \in Nat /\ Base \in Nat /\ Len(Stream(client)) \in Nat
      /\ Base + Len(raw) <= Len(Stream(client)) /\ client \in DOMAIN Streams
  BY SliceFacts DEF TypeInv
<1>2. HeaderSize \in Nat /\ HeaderSize + 1 # 0
  BY SizesAssumption
<1>3. Body(t)[1] = <<t, HeaderSize + 1>>
  BY BodyFacts, SzFacts
<1>4. PICK p : p = Base + d + HeaderSize + 1
  OBVIOUS
<1>5. p \in 1 .. Len(Stream(client))
  BY <1>1, <1>2, <1>4
<1>6. Stream(client)[p] = <<t, HeaderSize + 1>>
  BY <1>3, <1>4
<1>7. t \in SentBy(client) /\ p = Place(client, t) + (HeaderSize + 1) - 1
  <2>1. client \in DOMAIN Streams
    BY <1>1, Zenon
  <2>2. PICK i : i = HeaderSize + 1
    OBVIOUS
  <2>3. IsByte(client, p, t, i)
    BY <1>2, <1>5, <1>6, <2>2, Zenon DEF IsByte
  <2>4. t \in SentBy(client) /\ p = Place(client, t) + i - 1
    BY <2>1, <2>3, Source, SMT
  <2> QED BY <2>2, <2>4, Zenon
<1>8. Place(client, t) \in Nat
  BY <1>1, <1>7, SentFacts
<1> QED BY <1>1, <1>2, <1>4, <1>7, <1>8

LEMMA TakeFrameStep ==
  ASSUME BufferInv, TakeFrame
  PROVE  BufferInv'
<1>0. TypeInv /\ SliceInv /\ FrameInv /\ CutInv
      /\ (~stale => HeaderInv /\ DeliverInv)
  BY DEF BufferInv
<1>1. PICK d \in 0 .. Len(raw) : ScanInv(d)
  BY <1>0, ScanFacts
<1>2. /\ Stream(client) \in Seq(AllBytes) /\ Len(Stream(client)) \in Nat
      /\ Len(wire) \in Nat /\ Len(raw) \in Nat /\ Base \in Nat /\ Read \in Nat
      /\ Read = Base + Len(raw) /\ client \in DOMAIN Streams
      /\ frames \in Seq(Seq(AllBytes))
  BY <1>0, SliceFacts DEF TypeInv
<1> DEFINE b == Scanned.raw
           h == Scanned.header
           z == TelegramSize(Scanned)
           got == SubSeq(b, HeaderSize + 1, z)
<1>3. /\ h # <<>> /\ Len(b) >= z /\ z = HeaderSize + h[1].size
      /\ frames' = IF got = h[1].sum THEN Append(frames, got) ELSE frames
      /\ raw' = SubSeq(b, z + 1, Len(b)) /\ header' = <<>>
      /\ client' = client /\ wire' = wire /\ taking' = taking /\ cut' = cut
      /\ stale' = stale /\ taking
  BY Zenon DEF TakeFrame, IsFull, IsSound, TelegramSize
<1>4. /\ b \in Seq(AllBytes) /\ Len(b) = Len(raw) - d
      /\ \A i \in 1 .. Len(raw) - d : b[i] = Stream(client)[Base + d + i]
      /\ IsHeader(h)
      /\ \A t \in SentBy(client) : Place(client, t) > Base => Place(client, t) > Base + d
      /\ header = <<>> \/ ~stale => HeadOf(client, h, Base + d, cut)
  BY <1>1 DEF ScanInv
<1>5. got = SubSeq(b, HeaderSize + 1, z)
  OBVIOUS
<1> HIDE DEF b, h, z, got
<1>6. /\ d \in Nat /\ d <= Len(raw) /\ h[1].size \in Nat /\ HeaderSize \in Nat
      /\ z \in Nat /\ HeaderSize <= z /\ z <= Len(b) /\ z - HeaderSize = h[1].size
  <2>1. h[1].size \in Nat /\ HeaderSize \in Nat
    BY <1>3, <1>4, HeaderFacts, SizesAssumption
  <2>2. z \in Nat /\ HeaderSize <= z /\ z - HeaderSize = h[1].size
    <3>1. PICK m \in Nat : m = h[1].size
      BY <2>1
    <3>2. z = HeaderSize + m
      BY <1>3, <3>1, Zenon
    <3>3. z \in Nat /\ HeaderSize <= z /\ z - HeaderSize = m
      BY <2>1, <3>2
    <3> QED BY <3>1, <3>3, Zenon
  <2>3. z <= Len(b)
    <3>1. Len(b) \in Nat /\ Len(b) >= z
      BY <1>3, <1>4
    <3> QED BY <2>2, <3>1
  <2>4. d \in Nat /\ d <= Len(raw)
    BY <1>2
  <2> QED BY <2>1, <2>2, <2>3, <2>4
<1>7. /\ got \in Seq(AllBytes) /\ Len(got) = h[1].size
      /\ \A i \in 1 .. h[1].size : got[i] = Stream(client)[Base + d + HeaderSize + i]
  <2>1. b \in Seq(AllBytes)
    BY <1>4
  <2>2. /\ SubSeq(b, HeaderSize + 1, z) \in Seq(AllBytes)
        /\ Len(SubSeq(b, HeaderSize + 1, z)) = z - HeaderSize
        /\ \A i \in 1 .. z - HeaderSize :
             SubSeq(b, HeaderSize + 1, z)[i] = b[HeaderSize + i]
    BY <1>6, <2>1, Slice
  <2>3. ASSUME NEW i \in 1 .. h[1].size
        PROVE  b[HeaderSize + i] = Stream(client)[Base + d + HeaderSize + i]
    <3>1. HeaderSize + i \in 1 .. Len(raw) - d
          /\ Base + d + (HeaderSize + i) = Base + d + HeaderSize + i
      BY <1>2, <1>4, <1>6
    <3> QED BY <1>4, <3>1
  <2> QED BY <1>5, <1>6, <2>2, <2>3
<1>8. /\ raw' \in Seq(AllBytes) /\ Len(raw') = Len(raw) - (d + z)
      /\ \A i \in 1 .. Len(raw') : raw'[i] = Stream(client)[Base + (d + z) + i]
  <2>1. b \in Seq(AllBytes) /\ Len(b) \in Nat /\ Len(b) <= Len(b)
    BY <1>4
  <2>2. /\ SubSeq(b, z + 1, Len(b)) \in Seq(AllBytes)
        /\ Len(SubSeq(b, z + 1, Len(b))) = Len(b) - z
        /\ \A i \in 1 .. Len(b) - z : SubSeq(b, z + 1, Len(b))[i] = b[z + i]
    BY <1>6, <2>1, Slice
  <2>3. raw' \in Seq(AllBytes) /\ Len(raw') = Len(b) - z
        /\ \A i \in 1 .. Len(b) - z : raw'[i] = b[z + i]
    BY <1>3, <2>2
  <2>4. Len(b) - z = Len(raw) - (d + z)
    BY <1>2, <1>4, <1>6
  <2>5. ASSUME NEW i \in 1 .. Len(raw')
        PROVE  raw'[i] = Stream(client)[Base + (d + z) + i]
    <3>1. z + i \in 1 .. Len(raw) - d /\ Base + d + (z + i) = Base + (d + z) + i
      BY <1>2, <1>4, <1>6, <2>3
    <3> QED BY <1>4, <2>3, <3>1
  <2> QED BY <2>3, <2>4, <2>5
<1>9. Read' = Read /\ Base' = Base + (d + z) /\ d + z \in Nat /\ d + z <= Len(raw)
  <2>1. Read' = Read
    BY <1>3 DEF Read
  <2>2. Base' = Read' - Len(raw')
    BY DEF Base
  <2>3. d + z \in Nat /\ d + z <= Len(raw)
    BY <1>2, <1>4, <1>6
  <2>4. Base' = (Base + Len(raw)) - (Len(raw) - (d + z))
    BY <1>2, <1>8, <2>1, <2>2, Zenon
  <2>5. PICK m \in Nat : m = d + z
    BY <2>3
  <2>6. Base \in Nat /\ Len(raw) \in Nat
    BY <1>2, Zenon
  <2>7. (Base + Len(raw)) - (Len(raw) - m) = Base + m
    BY <2>5, <2>6
  <2> QED BY <2>1, <2>3, <2>4, <2>5, <2>7, Zenon
<1>10. SliceInv'
  <2>1. Base' \in Nat
    BY <1>2, <1>9
  <2>2. \A i \in 1 .. Len(raw') : raw'[i] = Stream(client')[Base' + i]
    BY <1>3, <1>8, <1>9
  <2>3. \A i \in 1 .. Len(wire') : wire'[i] = Stream(client')[Read' + i]
    BY <1>0, <1>3, <1>9 DEF SliceInv
  <2> QED BY <2>1, <2>2, <2>3 DEF SliceInv
<1>11. frames' \in Seq(Seq(AllBytes))
  BY <1>2, <1>3, <1>7
<1>12. TypeInv'
  BY <1>0, <1>3, <1>8, <1>11 DEF TypeInv, IsHeader
\* what is handed on is nothing, or the telegram that the buffer starts with
<1>13. ASSUME got = h[1].sum
       PROVE  \/ got = <<>>
              \/ \E t \in SentBy(client) : /\ got = Body(t) /\ Place(client, t) > Base
                                           /\ EndOf(client, t) <= Base + (d + z)
  <2>1. CASE h = <<EmptyHeader>>
    BY <1>13, <2>1 DEF EmptyHeader
  <2>2. ASSUME NEW t \in Telegrams, h = <<FullHeader(t)>>
        PROVE  \E u \in SentBy(client) : /\ got = Body(u) /\ Place(client, u) > Base
                                         /\ EndOf(client, u) <= Base + (d + z)
    <3>1. h[1].size = BodySize[t] /\ got = Body(t)
      BY <1>13, <2>2 DEF FullHeader
    <3>2. BodySize[t] \in Nat /\ BodySize[t] >= 1 /\ Sz(t) = HeaderSize + BodySize[t]
      BY SzFacts
    <3>3. Stream(client)[Base + d + HeaderSize + 1] = Body(t)[1]
      <4>1. 1 \in 1 .. h[1].size
        BY <3>1, <3>2
      <4> QED BY <1>7, <3>1, <4>1
    <3>4. Base + d + HeaderSize + 1 <= Base + Len(raw)
      BY <1>2, <1>4, <1>6, <3>1, <3>2
    <3>5. t \in SentBy(client) /\ Place(client, t) = Base + d + 1
      BY <1>0, <1>6, <3>3, <3>4, BodyFound
    <3>6. Place(client, t) > Base
      BY <1>2, <1>6, <3>5
    <3>7. EndOf(client, t) <= Base + (d + z)
      <4>1. z = Sz(t) /\ Sz(t) \in Nat
        BY <1>3, <1>6, <3>1, <3>2, Zenon
      <4>2. EndOf(client, t) = Base + d + 1 + z - 1
        BY <3>5, <4>1, Zenon DEF EndOf
      <4>3. Base \in Nat /\ d \in Nat /\ z \in Nat
        BY <1>2, <1>6, Zenon
      <4>4. Base + d + 1 + z - 1 <= Base + (d + z)
        BY <4>3
      <4> QED BY <4>2, <4>4, Zenon
    <3> QED BY <3>1, <3>5, <3>6, <3>7
  <2> QED BY <1>3, <1>4, <2>1, <2>2 DEF IsHeader
<1>14. FrameInv'
  <2>1. FramesOf(client, frames, Base)
    BY <1>0 DEF FrameInv
  <2>2. CASE got = h[1].sum
    <3>1. FramesOf(client, Append(frames, got), Base + (d + z))
      BY <1>2, <1>7, <1>9, <1>13, <2>1, <2>2, FramesGrow
    <3> QED BY <1>3, <1>9, <2>2, <3>1 DEF FrameInv
  <2>3. CASE got # h[1].sum
    <3>1. FramesOf(client, frames, Base + (d + z))
      BY <1>2, <1>9, <2>1, FramesBehind
    <3> QED BY <1>3, <1>9, <2>3, <3>1 DEF FrameInv
  <2> QED BY <2>2, <2>3
<1>15. CutInv'
  BY <1>0, <1>3 DEF CutInv
<1>16. IdleInv'
  BY <1>3 DEF IdleInv
<1>17. HeaderInv'
  BY <1>3 DEF HeaderInv, HeadOf
<1>18. ASSUME ~stale PROVE DeliverInv'
  <2>1. /\ \A t \in SentBy(client) \ cut : Body(t) \in Range(frames) \/ Place(client, t) > Base
        /\ HeadOf(client, h, Base + d, cut)
    BY <1>0, <1>4, <1>18 DEF DeliverInv, DeliveredBefore
  <2>2. PICK u \in SentBy(client) :
          /\ Place(client, u) = Base + d + 1
          /\ h = <<FullHeader(u)>> \/ (h = <<EmptyHeader>> /\ u \in cut)
    BY <1>3, <2>1 DEF HeadOf
  <2>3. /\ u \in Telegrams /\ Sz(u) \in Nat /\ BodySize[u] \in Nat
        /\ Sz(u) = HeaderSize + BodySize[u]
    BY SzFacts DEF SentBy
  <2>4. z <= Sz(u)
    <3>1. h[1].size = BodySize[u] \/ h[1].size = 0
      BY <2>2 DEF FullHeader, EmptyHeader
    <3> QED BY <1>3, <1>6, <2>3, <3>1
  <2>5. \A x \in Range(frames) : x \in Range(frames')
    <3>1. /\ Len(frames) \in Nat /\ Len(Append(frames, got)) = Len(frames) + 1
          /\ \A i \in 1 .. Len(frames) : Append(frames, got)[i] = frames[i]
          /\ DOMAIN frames = 1 .. Len(frames)
          /\ DOMAIN Append(frames, got) = 1 .. Len(Append(frames, got))
      BY <1>2, <1>7, AppendProperties
    <3>2. \A x \in Range(frames) : x \in Range(Append(frames, got))
      BY <3>1 DEF Range
    <3> QED BY <1>3, <3>2
  <2>6. ASSUME u \notin cut PROVE Body(u) \in Range(frames')
    <3>1. h[1].size = BodySize[u] /\ h[1].sum = Body(u)
      BY <2>2, <2>6 DEF FullHeader
    <3>2. /\ Body(u) \in Seq(AllBytes) /\ Len(Body(u)) = BodySize[u]
          /\ \A i \in 1 .. BodySize[u] : Body(u)[i] = <<u, HeaderSize + i>>
      BY <2>3, BodyFacts
    <3>3. \A i \in 1 .. Sz(u) : Stream(client)[Place(client, u) + i - 1] = <<u, i>>
      BY <1>2, SentFacts
    <3>4. ASSUME NEW i \in 1 .. BodySize[u] PROVE got[i] = Body(u)[i]
      <4>1. HeaderSize + i \in 1 .. Sz(u)
            /\ Place(client, u) + (HeaderSize + i) - 1 = Base + d + HeaderSize + i
        <5>1. Base \in Nat /\ d \in Nat /\ HeaderSize \in Nat
          BY <1>2, <1>6, Zenon
        <5>2. HeaderSize + i \in 1 .. Sz(u)
          BY <2>3, <5>1
        <5>3. (Base + d + 1) + (HeaderSize + i) - 1 = Base + d + HeaderSize + i
          BY <5>1
        <5> QED BY <2>2, <5>2, <5>3, Zenon
      <4>2. Stream(client)[Base + d + HeaderSize + i] = <<u, HeaderSize + i>>
        BY <3>3, <4>1
      <4> QED BY <1>7, <3>1, <3>2, <4>2
    <3>5. got = Body(u)
      <4>1. Len(got) = Len(Body(u)) /\ \A i \in 1 .. Len(got) : got[i] = Body(u)[i]
        BY <1>7, <3>1, <3>2, <3>4
      <4> QED BY <1>7, <3>2, <4>1, SameSeq
    <3>6. frames' = Append(frames, Body(u))
      BY <1>3, <3>1, <3>5
    <3>7. /\ Len(frames) + 1 \in DOMAIN Append(frames, got)
          /\ Append(frames, got)[Len(frames) + 1] = got
      <4>1. Len(frames) \in Nat /\ Len(frames) + 1 \in 1 .. Len(frames) + 1
        BY <1>2
      <4> QED BY <1>2, <1>7, <4>1, AppendProperties
    <3> QED BY <3>5, <3>6, <3>7 DEF Range
  <2>7. ASSUME NEW t \in SentBy(client), t \notin cut, Body(t) \notin Range(frames')
        PROVE  Place(client, t) > Base + (d + z)
    <3>1. Place(client, t) > Base + d
      BY <1>4, <2>1, <2>5, <2>7
    <3>2. t # u
      BY <2>6, <2>7
    <3>3. Place(client, t) \in Nat /\ Place(client, u) \in Nat
      BY <1>2, SentFacts
    <3>4. Place(client, u) <= Place(client, t)
      BY <1>2, <1>6, <2>2, <3>1, <3>3
    <3>5. Place(client, u) + Sz(u) <= Place(client, t)
      BY <1>2, <3>2, <3>4, Apart
    <3>6. PICK w \in Nat : w = Sz(u) /\ z <= w
      BY <2>3, <2>4
    <3>7. Base + d + 1 + w <= Place(client, t)
      BY <2>2, <3>5, <3>6
    <3>8. Base \in Nat /\ d \in Nat /\ z \in Nat
      BY <1>2, <1>6
    <3> QED BY <3>3, <3>6, <3>7, <3>8
  <2> QED BY <1>3, <1>9, <2>7 DEF DeliverInv, DeliveredBefore
<1> QED BY <1>3, <1>10, <1>12, <1>14, <1>15, <1>16, <1>17, <1>18 DEF BufferInv

-------------------------------------------------------------------------------
(* The theorems *)

\* BufferInv holds in every reachable state, whatever the chunks are.
THEOREM BufferInvHolds == Spec => []BufferInv
<1>1. BufferInv /\ [Next]_vars => BufferInv'
  <2> SUFFICES ASSUME BufferInv, [Next]_vars PROVE BufferInv'
    OBVIOUS
  <2>1. ASSUME NEW n \in 1 .. MaxChunk, Receive(n) PROVE BufferInv'
    BY <2>1, ReceiveStep
  <2>2. CASE TakeFrame
    BY <2>2, TakeFrameStep
  <2>3. CASE StopTaking
    BY <2>3, StopTakingStep
  <2>4. CASE NextClient
    BY <2>4, NextClientStep
  <2>5. CASE UNCHANGED vars
    BY <2>5 DEF vars, BufferInv, TypeInv, SliceInv, FrameInv, CutInv, IdleInv,
                HeaderInv, DeliverInv, Base, Read
  <2> QED BY <2>1, <2>2, <2>3, <2>4, <2>5 DEF Next
<1> QED BY <1>1, InitBuffer, PTL DEF Spec

\* Types, and nothing is read that was not sent.
THEOREM TypeCorrect == Spec => []TypeOK
<1>1. BufferInv => TypeOK
  <2> SUFFICES ASSUME BufferInv PROVE TypeOK
    OBVIOUS
  <2>1. TypeInv /\ SliceInv
    BY DEF BufferInv
  <2>2. Len(raw) + Len(wire) <= Len(Stream(client))
    BY <2>1, SliceFacts
  <2>3. Len(header) <= 1 /\ \A i \in DOMAIN header : header[i] \in [size : Nat, sum : Seq(AllBytes)]
    <3>1. CASE header = <<>>
      BY <3>1
    <3>2. CASE header # <<>>
      <4>1. /\ Len(header) = 1
            /\ header \in Seq([size : Nat, sum : Seq(AllBytes)])
        BY <2>1, <3>2, HeaderFacts DEF TypeInv
      <4>2. DOMAIN header = 1 .. Len(header)
        BY <4>1, LenProperties, Zenon
      <4>3. \A i \in DOMAIN header : header[i] \in [size : Nat, sum : Seq(AllBytes)]
        BY <4>1, <4>2, ElementOfSeq, Zenon
      <4>4. Len(header) <= 1
        BY <4>1
      <4> QED BY <4>3, <4>4, Zenon
    <3> QED BY <3>1, <3>2
  <2> QED BY <2>1, <2>2, <2>3 DEF TypeOK, TypeInv
<1> QED BY <1>1, BufferInvHolds, PTL

\* The telegrams that came in completely are those that end before the wire.
LEMMA ReceivedEnds ==
  ASSUME TypeInv, SliceInv
  PROVE  Received = {t \in SentBy(client) : EndOf(client, t) <= Read}
<1>1. /\ Len(raw) \in Nat /\ Base \in Nat /\ Read \in Nat
      /\ Len(wire) \in Nat /\ Len(Stream(client)) \in Nat
      /\ Read + Len(wire) = Len(Stream(client))
      /\ client \in DOMAIN Streams /\ wire \in Seq(AllBytes)
      /\ DOMAIN wire = 1 .. Len(wire)
  BY SliceFacts DEF TypeInv
<1>2. SentBy(client) = {t \in Telegrams : t \in Range(Streams[client])}
  <2>1. DOMAIN Streams[client] = 1 .. Len(Streams[client])
    BY <1>1, StreamLaid
  <2> QED BY <2>1 DEF SentBy, Range
<1>3. ASSUME NEW t \in SentBy(client)
      PROVE  (\A i \in DOMAIN wire : wire[i][1] # t) <=> EndOf(client, t) <= Read
  <2>1. /\ t \in Telegrams /\ Place(client, t) \in Nat /\ Place(client, t) >= 1
        /\ Place(client, t) + Sz(t) - 1 <= Len(Stream(client))
        /\ \A i \in 1 .. Sz(t) : Stream(client)[Place(client, t) + i - 1] = <<t, i>>
    BY <1>1, SentFacts
  <2>2. Sz(t) \in Nat /\ Sz(t) >= 1 /\ t # Noise
        /\ EndOf(client, t) = Place(client, t) + Sz(t) - 1
    BY <2>1, SzFacts, StreamsAssumption DEF EndOf
  <2>3. ASSUME ~(EndOf(client, t) <= Read)
        PROVE  \E i \in DOMAIN wire : wire[i][1] = t
    <3>1. PICK e \in Nat : e = EndOf(client, t) /\ e = Place(client, t) + Sz(t) - 1
      BY <2>1, <2>2
    <3>2. Stream(client)[e] = <<t, Sz(t)>>
      <4>1. Sz(t) \in 1 .. Sz(t)
        BY <2>2
      <4> QED BY <2>1, <3>1, <4>1
    <3>3. e - Read \in 1 .. Len(wire) /\ Read + (e - Read) = e
      BY <1>1, <2>1, <2>3, <3>1
    <3>4. wire[e - Read] = <<t, Sz(t)>>
      BY <3>2, <3>3 DEF SliceInv
    <3> QED BY <1>1, <3>3, <3>4
  <2>4. ASSUME EndOf(client, t) <= Read, NEW i \in DOMAIN wire
        PROVE  wire[i][1] # t
    <3>1. i \in 1 .. Len(wire) /\ Read + i \in 1 .. Len(Stream(client))
      BY <1>1
    <3>2. PICK p : p = Read + i
      OBVIOUS
    <3>3. wire[i] = Stream(client)[p] /\ p \in 1 .. Len(Stream(client))
      BY <3>1, <3>2 DEF SliceInv
    <3>4. CASE Stream(client)[p] = <<Noise, 0>>
      BY <2>2, <3>3, <3>4
    <3>5. ASSUME NEW u \in SentBy(client), NEW j \in 1 .. Sz(u),
                 Stream(client)[p] = <<u, j>>, p = Place(client, u) + j - 1
          PROVE  wire[i][1] # t
      <4> SUFFICES ASSUME wire[i][1] = t PROVE FALSE
        OBVIOUS
      <4>1. u = t
        BY <3>3, <3>5
      <4>2. p <= EndOf(client, t)
        BY <2>1, <2>2, <3>5, <4>1
      <4> QED BY <1>1, <2>1, <2>2, <2>4, <3>1, <3>2, <4>2
    <3> QED BY <1>1, <3>3, <3>4, <3>5, StreamFacts
  <2> QED BY <2>3, <2>4
<1> QED BY <1>2, <1>3 DEF Received

\* What is handed on was sent by this client, in this order, whatever the chunks,
\* the noise and what the client before it left behind.
THEOREM OnlyTelegramsHandedOn == Spec => []OnlyTelegrams
<1>1. BufferInv => OnlyTelegrams
  <2> SUFFICES ASSUME BufferInv PROVE OnlyTelegrams
    OBVIOUS
  <2>1. TypeInv /\ SliceInv /\ FramesOf(client, frames, Base)
    BY DEF BufferInv, FrameInv
  <2>2. /\ client \in DOMAIN Streams /\ frames \in Seq(Seq(AllBytes))
        /\ DOMAIN frames = 1 .. Len(frames)
        /\ Read = Base + Len(raw) /\ Base \in Nat /\ Len(raw) \in Nat
    BY <2>1, SliceFacts DEF TypeInv
  <2>3. ASSUME NEW i \in DOMAIN frames, frames[i] # <<>>
        PROVE  \E t \in Received : t \in SentBy(client) /\ frames[i] = Body(t)
    <3>1. PICK t \in SentBy(client) : frames[i] = Body(t) /\ EndOf(client, t) <= Base
      BY <2>1, <2>2, <2>3 DEF FramesOf
    <3>2. EndOf(client, t) \in Int
      BY <2>2, SentFacts, SzFacts DEF EndOf
    <3>3. EndOf(client, t) <= Read
      BY <2>2, <3>1, <3>2
    <3> QED BY <2>1, <3>1, <3>3, ReceivedEnds
  \* a body is at one place
  <2>4. ASSUME NEW t \in SentBy(client)
        PROVE  /\ Position(Body(t)) \in 1 .. Len(Streams[client])
               /\ Streams[client][Position(Body(t))] = t
    <3>1. DOMAIN Streams[client] = 1 .. Len(Streams[client])
          /\ \A k \in 1 .. Len(Streams[client]) :
               Streams[client][k] \in Telegrams \union {Noise}
      BY <2>2, StreamLaid
    <3>2. t \in Telegrams /\ t # Noise
      BY StreamsAssumption DEF SentBy
    <3>3. \E k \in DOMAIN Streams[client] :
            Streams[client][k] # Noise /\ Body(Streams[client][k]) = Body(t)
      BY <3>1, <3>2 DEF SentBy
    <3>4. /\ Position(Body(t)) \in DOMAIN Streams[client]
          /\ Streams[client][Position(Body(t))] # Noise
          /\ Body(Streams[client][Position(Body(t))]) = Body(t)
      BY <3>3, Zenon DEF Position
    <3>5. Streams[client][Position(Body(t))] \in Telegrams
      BY <3>1, <3>4
    <3>6. Streams[client][Position(Body(t))] = t
      BY <3>2, <3>4, <3>5, BodiesDiffer
    <3> QED BY <3>1, <3>4, <3>6
  <2>5. ASSUME NEW i \in DOMAIN frames, NEW j \in DOMAIN frames,
               frames[i] # <<>>, frames[j] # <<>>, i < j
        PROVE  Position(frames[i]) < Position(frames[j])
    <3>1. PICK t \in SentBy(client) : frames[i] = Body(t)
      BY <2>3, <2>5
    <3>2. PICK u \in SentBy(client) : frames[j] = Body(u)
      BY <2>3, <2>5
    <3>3. Place(client, t) < Place(client, u)
      BY <2>1, <2>2, <2>5, <3>1, <3>2 DEF FramesOf
    <3>4. PICK k \in 1 .. Len(Streams[client]) :
             k = Position(Body(t)) /\ Streams[client][k] = t
      BY <2>4
    <3>5. PICK m \in 1 .. Len(Streams[client]) :
             m = Position(Body(u)) /\ Streams[client][m] = u
      BY <2>4
    <3>6. t # Noise /\ u # Noise
      BY StreamsAssumption DEF SentBy
    <3>7. k < m
      BY <2>2, <3>3, <3>4, <3>5, <3>6, StreamFacts
    <3> QED BY <3>1, <3>2, <3>4, <3>5, <3>7
  <2> QED BY <2>3, <2>5 DEF OnlyTelegrams
<1> QED BY <1>1, BufferInvHolds, PTL

\* A telegram whose length and checksum came in one chunk is handed on once it is
\* complete, whatever was lost before it.
THEOREM WholeHeadersAreDelivered == Spec => []WholeHeadersDelivered
<1>1. BufferInv => WholeHeadersDelivered
  <2> SUFFICES ASSUME BufferInv, ~taking, ~stale, NEW t \in Received \ cut,
                      Body(t) \notin Range(frames)
               PROVE  FALSE
    BY DEF WholeHeadersDelivered
  <2>1. TypeInv /\ SliceInv /\ IdleInv /\ HeaderInv /\ DeliverInv
    BY DEF BufferInv
  <2>2. /\ client \in DOMAIN Streams /\ Read = Base + Len(raw)
        /\ Base \in Nat /\ Len(raw) \in Nat
    BY <2>1, SliceFacts DEF TypeInv
  <2>3. t \in SentBy(client) /\ EndOf(client, t) <= Read /\ t \notin cut
    BY <2>1, ReceivedEnds
  <2>4. Place(client, t) > Base
    BY <2>1, <2>3 DEF DeliverInv, DeliveredBefore
  <2>5. /\ t \in Telegrams /\ Place(client, t) \in Nat
        /\ Sz(t) \in Nat /\ Sz(t) > HeaderSize /\ SigSize < HeaderSize
        /\ SigSize \in Nat /\ HeaderSize \in Nat
    BY <2>2, <2>3, SentFacts, SzFacts
  <2>6. Place(client, t) + Sz(t) - 1 <= Base + Len(raw)
    BY <2>2, <2>3 DEF EndOf
  <2>7. ~(Len(raw) <= HeaderSize)
    BY <2>2, <2>4, <2>5, <2>6
  <2>8. SignatureAt(raw) # {}
    <3>1. PICK k \in Nat : /\ Place(client, t) = Base + k /\ k >= 1
                           /\ k + SigSize - 1 <= Len(raw)
      <4>1. /\ Place(client, t) - Base \in Nat
            /\ Place(client, t) = Base + (Place(client, t) - Base)
            /\ Place(client, t) - Base >= 1
            /\ (Place(client, t) - Base) + SigSize - 1 <= Len(raw)
        <5>1. PICK p \in Nat : p = Place(client, t)
          BY <2>5
        <5>2. p > Base /\ p + Sz(t) - 1 <= Base + Len(raw)
          BY <2>4, <2>6, <5>1, Zenon
        <5>3. p - Base \in Nat /\ p = Base + (p - Base) /\ p - Base >= 1
          BY <2>2, <5>2
        <5>4. (p - Base) + SigSize - 1 <= Len(raw)
          BY <2>2, <2>5, <5>2
        <5> QED BY <5>1, <5>3, <5>4, Zenon
      <4> QED BY <4>1
    <3> QED BY <2>1, <2>3, <3>1, SignatureSeen
  <2>9. header # <<>> /\ Len(raw) < HeaderSize + header[1].size
    BY <2>1, <2>7, <2>8 DEF IdleInv
  <2>10. PICK u \in SentBy(client) :
           /\ Place(client, u) = Base + 1
           /\ header = <<FullHeader(u)>> \/ (header = <<EmptyHeader>> /\ u \in cut)
    BY <2>1, <2>9 DEF HeaderInv, HeadOf
  <2>11. CASE header = <<EmptyHeader>>
    <3>1. header[1].size = 0
      BY <2>11 DEF EmptyHeader
    <3> QED BY <2>2, <2>5, <2>7, <2>9, <3>1
  <2>12. CASE header = <<FullHeader(u)>>
    <3>1. header[1].size = BodySize[u]
      BY <2>12 DEF FullHeader
    <3>2. Sz(u) = HeaderSize + BodySize[u] /\ Sz(u) \in Nat
      BY SzFacts DEF SentBy
    <3>3. Len(raw) < Sz(u)
      BY <2>9, <3>1, <3>2, Zenon
    <3>4. t # u
      BY <2>2, <2>5, <2>6, <2>10, <3>2, <3>3
    <3>5. Place(client, u) + Sz(u) <= Place(client, t)
      <4>1. Place(client, u) <= Place(client, t)
        BY <2>2, <2>4, <2>5, <2>10
      <4> QED BY <2>2, <2>3, <3>4, <4>1, Apart
    <3> QED BY <2>2, <2>5, <2>6, <2>10, <3>2, <3>3, <3>5
  <2> QED BY <2>10, <2>11, <2>12
<1> QED BY <1>1, BufferInvHolds, PTL
===============================================================================
