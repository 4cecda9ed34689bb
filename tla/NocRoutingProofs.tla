-------------------------- MODULE NocRoutingProofs --------------------------
(***************************************************************************)
(* On a mesh of one layer, of any size, with any blocks, flows and hash    *)
(* values: route_flow always finds a link to take, the routes it leaves    *)
(* are minimal and lead from source to sink, they take no turn the turn    *)
(* model forbids, and no turn model makes flows wait in a cycle.           *)
(***************************************************************************)
EXTENDS NocRouting, WellFoundedInduction, TLAPS

TurnModels == {"xy", "west_first", "north_last", "negative_first", "odd_even"}

-----------------------------------------------------------------------------
(* Sets of natural numbers *)

\* A nonempty set of natural numbers has a least element.
LEMMA Least ==
    ASSUME NEW S, S \subseteq Nat, S # {}
    PROVE  \E m \in S : \A n \in S : m <= n
<1>1. PICK m \in S : \A n \in S : ~(<<n, m>> \in OpToRel(<, Nat))
  BY NatLessThanWellFounded, WFMin
<1>2. \A n \in S : ~(n < m)
  BY <1>1 DEF OpToRel
<1> QED
  BY <1>2

\* A bounded one has a greatest.
LEMMA Greatest ==
    ASSUME NEW S, S \subseteq Nat, S # {}, NEW K \in Nat, \A n \in S : n <= K
    PROVE  \E m \in S : \A n \in S : n <= m
<1> DEFINE T == {K - n : n \in S}
<1>0. \A n \in S : K - n \in Nat
  OBVIOUS
<1>1. T \subseteq Nat /\ T # {}
  BY <1>0
<1>2. PICK t \in T : \A u \in T : t <= u
  BY <1>1, Least
<1>3. PICK m \in S : t = K - m
  OBVIOUS
<1>4. \A n \in S : K - m <= K - n
  BY <1>2, <1>3
<1>5. m \in Nat /\ \A n \in S : n \in Nat
  OBVIOUS
<1>6. \A n \in S : n <= m
  BY <1>4, <1>5
<1> QED
  BY <1>6

\* A nonempty set in which something always ranks above, by a first rank and,
\* among equals, by a second one, cannot have bounded ranks.
LEMMA NoEndlessClimb ==
    ASSUME NEW C, C # {}, NEW K \in Nat,
           NEW P \in [C -> 0 .. K], NEW Q \in [C -> 0 .. K],
           \A a \in C : \E b \in C : \/ P[b] > P[a]
                                     \/ P[b] = P[a] /\ Q[b] > Q[a]
    PROVE  FALSE
<1> DEFINE PS == {P[a] : a \in C}
<1>1. PS \subseteq Nat /\ PS # {} /\ \A n \in PS : n <= K
  OBVIOUS
<1>2. PICK p \in PS : \A n \in PS : n <= p
  BY <1>1, Greatest
<1> DEFINE Top == {a \in C : P[a] = p}
           QS == {Q[a] : a \in Top}
<1>3. QS \subseteq Nat /\ QS # {} /\ \A n \in QS : n <= K
  OBVIOUS
<1>4. PICK q \in QS : \A n \in QS : n <= q
  BY <1>3, Greatest
<1>5. PICK a \in Top : Q[a] = q
  OBVIOUS
<1>6. PICK b \in C : P[b] > P[a] \/ (P[b] = P[a] /\ Q[b] > Q[a])
  OBVIOUS
<1>7. P[b] \in PS /\ P[b] \in Nat /\ P[a] \in Nat /\ Q[b] \in Nat /\ Q[a] \in Nat
  BY <1>5, <1>6
<1>8. P[a] = p /\ P[b] <= p
  BY <1>2, <1>5, <1>6
<1>9. P[b] = P[a] /\ Q[b] > Q[a]
  BY <1>6, <1>7, <1>8
<1>10. b \in Top
  BY <1>6, <1>8, <1>9
<1>11. Q[b] \in QS
  BY <1>10
<1>12. Q[b] <= q
  BY <1>4, <1>11
<1> QED
  BY <1>5, <1>7, <1>9, <1>12

-----------------------------------------------------------------------------
(* Legal turns climb *)

\* A link of a mesh of one layer changes one coordinate by one.
Step2D(p, q) == \/ q.x = p.x - 1 /\ q.y = p.y
                \/ q.x = p.x + 1 /\ q.y = p.y
                \/ q.y = p.y - 1 /\ q.x = p.x
                \/ q.y = p.y + 1 /\ q.x = p.x

InMesh(p) == p.x \in 0 .. Width - 1 /\ p.y \in 0 .. Height - 1 /\ p.z = 0

LEMMA RouterShape ==
    ASSUME Depth = 1
    PROVE  /\ \A p \in Routers : InMesh(p)
           /\ \A p, q \in Routers : p.x = q.x /\ p.y = q.y => p = q
  BY MeshAssumption DEF Routers, InMesh

LEMMA LinkShape ==
    ASSUME Depth = 1, NEW l \in Links
    PROVE  /\ l[1] \in Routers /\ l[2] \in Routers /\ l = <<l[1], l[2]>>
           /\ Step2D(l[1], l[2])
<1>1. l \in Routers \X Routers
  BY DEF Links
<1>2. PICK d \in Directions : l[2] = Beyond(l[1], d)
  BY DEF Links
<1>3. l[1] \in Routers /\ l[2] \in Routers /\ l = <<l[1], l[2]>>
  BY <1>1
<1>4. l[2].z = l[1].z
  BY <1>3, RouterShape DEF InMesh
<1>5. Step2D(l[1], l[2])
  BY <1>2, <1>3, <1>4, MeshAssumption DEF Step2D, Beyond, Directions, Routers
<1> QED
  BY <1>3, <1>5

\* The ranks of a link that ends at q and started at p: legal turns never lower
\* the first one and raise the second one when they keep the first.  The
\* algorithms use the directions in classes, one after the other, and within a
\* class by columns or by rows.
Rank1(alg, p, q) ==
    CASE alg = "xy" -> IF p.x # q.x THEN 0 ELSE 1
      [] alg = "west_first" -> IF q.x < p.x THEN 0 ELSE 1 + q.x
      [] alg = "north_last" ->
            IF q.y > p.y THEN 2 * Height + 2
            ELSE IF q.y < p.y THEN 2 * (Height - q.y) - 1
            ELSE 2 * (Height - q.y)
      [] alg = "negative_first" -> IF q.x < p.x \/ q.y < p.y THEN 0 ELSE 1
      [] alg = "odd_even" ->
            IF q.x < p.x \/ (q.x = p.x /\ ~Odd(q.x))
            THEN Width - q.x ELSE Width + 1 + q.x

Rank2(alg, p, q) ==
    IF alg = "negative_first"
    THEN IF q.x < p.x \/ q.y < p.y THEN Width + Height - (q.x + q.y)
         ELSE q.x + q.y
    ELSE IF q.y > p.y THEN 1 + q.y
    ELSE IF q.y < p.y THEN 1 + Height - q.y
    ELSE IF alg \in {"west_first", "odd_even"} /\ q.x > p.x THEN 0
    ELSE IF alg = "odd_even" THEN 0
    ELSE IF q.x > p.x THEN q.x ELSE Width - q.x

MaxRank == 2 * Width + 2 * Height + 2

LEMMA RankBounds ==
    ASSUME Depth = 1, NEW alg \in TurnModels, NEW l \in Links
    PROVE  /\ Rank1(alg, l[1], l[2]) \in 0 .. MaxRank
           /\ Rank2(alg, l[1], l[2]) \in 0 .. MaxRank
<1>1. InMesh(l[1]) /\ InMesh(l[2])
  BY LinkShape, RouterShape
<1>2. alg \in {"xy", "west_first", "north_last", "negative_first", "odd_even"}
  BY DEF TurnModels
<1>3. Rank1(alg, l[1], l[2]) \in 0 .. MaxRank
  BY <1>1, <1>2, MeshAssumption DEF Rank1, MaxRank, InMesh
<1>4. Rank2(alg, l[1], l[2]) \in 0 .. MaxRank
  BY <1>1, <1>2, MeshAssumption DEF Rank2, MaxRank, InMesh
<1> QED
  BY <1>3, <1>4

Climbs(alg, a, b) ==
    \/ Rank1(alg, b[1], b[2]) > Rank1(alg, a[1], a[2])
    \/ /\ Rank1(alg, b[1], b[2]) = Rank1(alg, a[1], a[2])
       /\ Rank2(alg, b[1], b[2]) > Rank2(alg, a[1], a[2])

LEMMA LegalTurnClimbs ==
    ASSUME Depth = 1, NEW alg \in TurnModels, NEW a \in Links, NEW b \in Links,
           a[2] = b[1], is_turn_legal(alg, a[1], a[2], b[2])
    PROVE  Climbs(alg, a, b)
<1> DEFINE p == a[1]
           q == a[2]
           r == b[2]
<1>1. p \in Routers /\ q \in Routers /\ r \in Routers /\ Step2D(p, q) /\ Step2D(q, r)
  BY LinkShape
<1>2. InMesh(p) /\ InMesh(q) /\ InMesh(r)
  BY <1>1, RouterShape
<1>3. p.x # r.x \/ p.y # r.y
  BY <1>1, RouterShape DEF is_turn_legal
<1>4. SUFFICES \/ Rank1(alg, q, r) > Rank1(alg, p, q)
               \/ Rank1(alg, q, r) = Rank1(alg, p, q) /\ Rank2(alg, q, r) > Rank2(alg, p, q)
  BY DEF Climbs
<1> HIDE DEF p, q, r
<1>5. CASE alg = "xy"
  <2>1. XYTurn(p, q, r)
    BY <1>5 DEF is_turn_legal, p, q, r
  <2> QED
    BY <1>2, <1>3, <1>1, <1>5, <2>1, MeshAssumption DEF XYTurn, InMesh, Step2D, Rank1, Rank2
<1>6. CASE alg = "west_first"
  <2>1. WestFirstTurn(p, q, r)
    BY <1>6 DEF is_turn_legal, p, q, r
  <2> QED
    BY <1>2, <1>3, <1>1, <1>6, <2>1, MeshAssumption DEF WestFirstTurn, InMesh, Step2D, Rank1, Rank2
<1>7. CASE alg = "north_last"
  <2>1. NorthLastTurn(p, q, r)
    BY <1>7 DEF is_turn_legal, p, q, r
  <2> QED
    BY <1>2, <1>3, <1>1, <1>7, <2>1, MeshAssumption DEF NorthLastTurn, InMesh, Step2D, Rank1, Rank2
<1>8. CASE alg = "negative_first"
  <2>1. NegativeFirstTurn(p, q, r)
    BY <1>8 DEF is_turn_legal, p, q, r
  <2> QED
    BY <1>2, <1>3, <1>1, <1>8, <2>1, MeshAssumption DEF NegativeFirstTurn, InMesh, Step2D, Rank1, Rank2
<1>9. CASE alg = "odd_even"
  <2>1. OddEvenTurn(p, q, r)
    BY <1>9 DEF is_turn_legal, p, q, r
  <2> QED
    BY <1>2, <1>3, <1>1, <1>9, <2>1, MeshAssumption DEF OddEvenTurn, InMesh, Step2D, Rank1, Rank2
<1> QED
  BY <1>5, <1>6, <1>7, <1>8, <1>9 DEF TurnModels
-----------------------------------------------------------------------------
(* The direction selected *)

LEMMA Remainder ==
    ASSUME NEW h \in Nat, NEW m \in Nat, m > 0
    PROVE  h % m \in Nat /\ h % m < m
OBVIOUS

LEMMA DistanceType ==
    ASSUME Depth = 1, NEW p \in Routers, NEW q \in Routers
    PROVE  /\ Distance(p, q) \in Nat
           /\ Distance(p, q) = Apart(p.x, q.x) + Apart(p.y, q.y)
           /\ p # q => Distance(p, q) > 0
<1>1. InMesh(p) /\ InMesh(q) /\ (p # q => p.x # q.x \/ p.y # q.y)
  BY RouterShape
<1> QED
  BY <1>1, MeshAssumption DEF Distance, Apart, InMesh

\* One of a set of directions is selected if each of them gets closer or if one
\* is along each coordinate to go.
LEMMA SelectedFromAll ==
    ASSUME Depth = 1, NEW at \in Routers, NEW dst \in Routers, at # dst,
           NEW h \in Nat, NEW dirs,
           dirs # {}, dirs \subseteq Minimal(at, dst)
    PROVE  LET D == select_next_direction(dirs, h, at, dst)
           IN  D # {} /\ D \subseteq dirs
<1> DEFINE D == select_next_direction(dirs, h, at, dst)
           r == h % Distance(at, dst)
<1>1. r \in Nat /\ r < Apart(at.x, dst.x) + Apart(at.y, dst.y)
  BY DistanceType, Remainder
<1>2. D \subseteq dirs
  BY DEF select_next_direction
<1>3. InMesh(at) /\ InMesh(dst)
  BY RouterShape
<1>4. ASSUME D = {} PROVE FALSE
  <2>1. ~\E d \in Directions : dirs = {d}
    BY <1>4 DEF select_next_direction
  <2>2. dirs \subseteq Xward(at, dst) \cup Yward(at, dst)
    BY <1>3 DEF Minimal, Zward, InMesh
  <2>3. Xward(at, dst) \subseteq dirs /\ Yward(at, dst) \subseteq dirs
    BY <2>1, <2>2 DEF Xward, Yward, Directions
  <2>4. Xward(at, dst) # {} /\ Yward(at, dst) # {}
    BY <2>1, <2>2 DEF Xward, Yward, Directions
  <2>5. CASE r < Apart(at.x, dst.x)
    BY <1>4, <2>1, <2>3, <2>4, <2>5 DEF select_next_direction, Xward
  <2>6. CASE ~(r < Apart(at.x, dst.x))
    BY <1>1, <1>4, <2>1, <2>3, <2>4, <2>6 DEF select_next_direction, Yward
  <2> QED
    BY <2>5, <2>6
<1> QED
  BY <1>2, <1>4

Algs == TurnModels \cup {"bfs"}

Legal(alg, src, at, dst, prev) == get_legal_directions(alg, src, at, dst, prev)

\* Without odd-even, the legal directions are minimal and there is one.
LEMMA LegalIsMinimal ==
    ASSUME Depth = 1, NEW alg \in Algs \ {"odd_even"},
           NEW src, NEW prev,
           NEW at \in Routers, NEW dst \in Routers, at # dst
    PROVE  LET L == Legal(alg, src, at, dst, prev)
           IN  L # {} /\ L \subseteq Minimal(at, dst)
<1>1. InMesh(at) /\ InMesh(dst) /\ (at.x # dst.x \/ at.y # dst.y)
  BY RouterShape
<1>2. Minimal(at, dst) # {}
  <2>1. \/ at.x < dst.x \/ dst.x < at.x \/ at.y < dst.y \/ dst.y < at.y
    BY <1>1, MeshAssumption DEF InMesh
  <2>2. "E" \in Minimal(at, dst) \/ "W" \in Minimal(at, dst)
        \/ "N" \in Minimal(at, dst) \/ "S" \in Minimal(at, dst)
    BY <1>1, <2>1, MeshAssumption DEF InMesh, Minimal, Xward, Yward
  <2> QED
    BY <2>2
<1>3. CASE alg = "xy"
  BY <1>1, <1>3, MeshAssumption DEF Legal, get_legal_directions, XY, Minimal, Xward, Yward, InMesh
<1>4. CASE alg = "west_first"
  BY <1>2, <1>4 DEF Legal, get_legal_directions, WestFirst
<1>5. CASE alg = "north_last"
  BY <1>2, <1>5 DEF Legal, get_legal_directions, NorthLast
<1>6. CASE alg = "negative_first"
  BY <1>2, <1>6 DEF Legal, get_legal_directions, NegativeFirst
<1>7. CASE alg = "bfs"
  BY <1>2, <1>7 DEF Legal, get_legal_directions
<1> QED
  BY <1>3, <1>4, <1>5, <1>6, <1>7 DEF Algs, TurnModels

LEMMA OddNext ==
    ASSUME NEW n \in Nat
    PROVE  Odd(n + 1) <=> ~Odd(n)
BY DEF Odd

\* Odd-even may offer south to a westbound flow that is in the row of its
\* destination, but does not select it.
LEMMA OddEvenSelected ==
    ASSUME Depth = 1, NEW src, NEW prev, NEW h \in Nat,
           NEW at \in Routers, NEW dst \in Routers, at # dst
    PROVE  LET L == OddEven2D(src, at, dst, prev)
               D == select_next_direction(L, h, at, dst)
           IN  D # {} /\ D \subseteq L /\ D \subseteq Minimal(at, dst)
<1> DEFINE L == OddEven2D(src, at, dst, prev)
           D == select_next_direction(L, h, at, dst)
<1>1. InMesh(at) /\ InMesh(dst) /\ (at.x # dst.x \/ at.y # dst.y)
  BY RouterShape
<1>2. at.x \in Nat /\ dst.x \in Nat /\ at.y \in Nat /\ dst.y \in Nat
  BY <1>1, MeshAssumption DEF InMesh
<1>3. L # {} /\ L \subseteq Minimal(at, dst) => D # {} /\ D \subseteq L
  BY SelectedFromAll
<1>4. CASE dst.x = at.x
  BY <1>1, <1>2, <1>3, <1>4 DEF OddEven2D, Minimal, Yward
<1>5. CASE dst.x > at.x /\ dst.y = at.y
  BY <1>2, <1>3, <1>5 DEF OddEven2D, Minimal, Xward
<1>6. CASE dst.x > at.x /\ dst.y # at.y
  <2>1. L \subseteq Minimal(at, dst)
    BY <1>2, <1>6 DEF OddEven2D, Minimal, Xward, Yward
  <2>2. CASE Odd(dst.x) \/ dst.x - at.x # 1
    <3>1. "E" \in L
      BY <1>2, <1>6, <2>2 DEF OddEven2D
    <3> QED
      BY <1>3, <2>1, <3>1
  <2>3. CASE ~Odd(dst.x) /\ dst.x = at.x + 1
    <3>1. Odd(at.x)
      BY <1>2, <2>3, OddNext
    <3>2. "N" \in L \/ "S" \in L
      BY <1>2, <1>6, <3>1 DEF OddEven2D
    <3> QED
      BY <1>3, <2>1, <3>2
  <2> QED
    BY <1>2, <2>2, <2>3
<1>7. CASE dst.x < at.x /\ (Odd(at.x) \/ dst.y # at.y)
  <2>1. "W" \in L
    BY <1>2, <1>7 DEF OddEven2D
  <2>2. L \subseteq Minimal(at, dst)
    BY <1>2, <1>7 DEF OddEven2D, Minimal, Xward, Yward
  <2> QED
    BY <1>3, <2>1, <2>2
<1>8. CASE dst.x < at.x /\ ~Odd(at.x) /\ dst.y = at.y
  <2>1. L = {"W", "S"}
    BY <1>2, <1>8 DEF OddEven2D
  <2>2. /\ h % Distance(at, dst) \in Nat
        /\ h % Distance(at, dst) < Apart(at.x, dst.x) + Apart(at.y, dst.y)
    BY DistanceType, Remainder
  <2>3. Apart(at.y, dst.y) = 0 /\ Apart(at.x, dst.x) \in Nat
    BY <1>2, <1>8 DEF Apart
  <2>4. h % Distance(at, dst) < Apart(at.x, dst.x)
    BY <2>2, <2>3
  <2>5. D = {"W"}
    BY <2>1, <2>4 DEF select_next_direction
  <2> QED
    BY <1>2, <1>8, <2>1, <2>5 DEF Minimal, Xward
<1> QED
  BY <1>2, <1>4, <1>5, <1>6, <1>7, <1>8

\* So whatever the algorithm, one direction at least is selected, it is legal,
\* and it leads closer to the destination.
LEMMA Selected ==
    ASSUME Depth = 1, NEW alg \in Algs, NEW src, NEW prev, NEW h \in Nat,
           NEW at \in Routers, NEW dst \in Routers, at # dst
    PROVE  LET L == Legal(alg, src, at, dst, prev)
               D == select_next_direction(L, h, at, dst)
           IN  D # {} /\ D \subseteq L /\ D \subseteq Minimal(at, dst)
<1>1. CASE alg = "odd_even"
  <2>1. Legal(alg, src, at, dst, prev) = OddEven2D(src, at, dst, prev)
    BY <1>1 DEF Legal, get_legal_directions, is_noc_3d
  <2> QED
    BY <2>1, OddEvenSelected
<1>2. CASE alg # "odd_even"
  <2>1. /\ Legal(alg, src, at, dst, prev) # {}
        /\ Legal(alg, src, at, dst, prev) \subseteq Minimal(at, dst)
    BY <1>2, LegalIsMinimal
  <2> QED
    BY <2>1, SelectedFromAll
<1> QED
  BY <1>1, <1>2
-----------------------------------------------------------------------------
(* One hop *)

\* A minimal direction leads over a link to a router that is one closer.
LEMMA Closer ==
    ASSUME Depth = 1, NEW at \in Routers, NEW dst \in Routers,
           NEW d \in Minimal(at, dst)
    PROVE  LET next == Beyond(at, d)
           IN  /\ d \in {"W", "E", "N", "S"}
               /\ next \in Routers /\ <<at, next>> \in Links
               /\ Distance(next, dst) = Distance(at, dst) - 1
               /\ d = "W" => dst.x < at.x /\ next.x = at.x - 1 /\ next.y = at.y
               /\ d = "E" => dst.x > at.x /\ next.x = at.x + 1 /\ next.y = at.y
               /\ d = "S" => dst.y < at.y /\ next.y = at.y - 1 /\ next.x = at.x
               /\ d = "N" => dst.y > at.y /\ next.y = at.y + 1 /\ next.x = at.x
<1> DEFINE next == Beyond(at, d)
<1>1. InMesh(at) /\ InMesh(dst)
  BY RouterShape
<1>2. /\ d \in {"W", "E", "N", "S"}
      /\ d = "W" => dst.x < at.x
      /\ d = "E" => dst.x > at.x
      /\ d = "S" => dst.y < at.y
      /\ d = "N" => dst.y > at.y
  BY <1>1, MeshAssumption DEF InMesh, Minimal, Xward, Yward, Zward
<1>3. /\ d = "W" => next = [at EXCEPT !.x = @ - 1]
      /\ d = "E" => next = [at EXCEPT !.x = @ + 1]
      /\ d = "S" => next = [at EXCEPT !.y = @ - 1]
      /\ d = "N" => next = [at EXCEPT !.y = @ + 1]
  BY DEF Beyond
<1>4. /\ d = "W" => next.x = at.x - 1 /\ next.y = at.y
      /\ d = "E" => next.x = at.x + 1 /\ next.y = at.y
      /\ d = "S" => next.y = at.y - 1 /\ next.x = at.x
      /\ d = "N" => next.y = at.y + 1 /\ next.x = at.x
  BY <1>3 DEF Routers
<1>5. next \in Routers
  BY <1>1, <1>2, <1>3, MeshAssumption DEF Routers, InMesh
<1>6. <<at, next>> \in Links
  BY <1>2, <1>5 DEF Links, Directions
<1>7. Distance(next, dst) = Distance(at, dst) - 1
  <2>1. InMesh(next)
    BY <1>5, RouterShape
  <2>2. /\ Distance(at, dst) = Apart(at.x, dst.x) + Apart(at.y, dst.y)
        /\ Distance(next, dst) = Apart(next.x, dst.x) + Apart(next.y, dst.y)
    BY <1>5, DistanceType
  <2> QED
    BY <1>1, <1>2, <1>4, <2>1, <2>2, MeshAssumption DEF InMesh, Apart
<1> QED
  BY <1>2, <1>4, <1>5, <1>6, <1>7

Between(a, b, c) == (a <= b /\ b <= c) \/ (c <= b /\ b <= a)

\* What the last direction taken says of the place that was reached: it did not
\* pass the destination, and what the turn model asks of the moves still to come
\* can be met.
Heading(alg, src, at, dst, prev) ==
    /\ Between(src.x, at.x, dst.x)
    /\ prev = "E" => at.x <= dst.x /\ src.x < at.x
    /\ prev = "W" => at.x >= dst.x
    /\ prev = "N" => at.y <= dst.y
    /\ prev = "S" => at.y >= dst.y
    /\ alg = "xy" /\ prev \in {"N", "S"} => at.x = dst.x
    /\ alg = "west_first" /\ prev \in {"N", "S"} => at.x <= dst.x
    /\ alg = "north_last" /\ prev = "N" => at.x = dst.x
    /\ alg = "negative_first" /\ prev \in {"N", "E"}
          => at.x <= dst.x /\ at.y <= dst.y
    /\ alg = "odd_even" /\ prev \in {"N", "S"} /\ dst.x < at.x => ~Odd(at.x)
    /\ alg = "odd_even" /\ prev = "E" /\ at.x = dst.x /\ ~Odd(at.x)
          => at.y = dst.y

LEMMA HeadingStep ==
    ASSUME Depth = 1, NEW alg \in Algs, NEW src \in Routers,
           NEW at \in Routers, NEW dst \in Routers, at # dst,
           NEW prev, Heading(alg, src, at, dst, prev),
           NEW d \in Minimal(at, dst), d \in Legal(alg, src, at, dst, prev)
    PROVE  Heading(alg, src, Beyond(at, d), dst, d)
<1> DEFINE next == Beyond(at, d)
<1>1. InMesh(at) /\ InMesh(dst) /\ InMesh(src)
  BY RouterShape
<1>2. /\ at.x \in Nat /\ dst.x \in Nat /\ src.x \in Nat
      /\ at.y \in Nat /\ dst.y \in Nat
  BY <1>1, MeshAssumption DEF InMesh
<1>3. /\ d \in {"W", "E", "N", "S"}
      /\ d = "W" => dst.x < at.x /\ next.x = at.x - 1 /\ next.y = at.y
      /\ d = "E" => dst.x > at.x /\ next.x = at.x + 1 /\ next.y = at.y
      /\ d = "S" => dst.y < at.y /\ next.y = at.y - 1 /\ next.x = at.x
      /\ d = "N" => dst.y > at.y /\ next.y = at.y + 1 /\ next.x = at.x
  BY Closer
<1> HIDE DEF next
<1>4. Between(src.x, next.x, dst.x)
  BY <1>2, <1>3 DEF Heading, Between
<1>5. /\ d = "E" => next.x <= dst.x /\ src.x < next.x
      /\ d = "W" => next.x >= dst.x
      /\ d = "N" => next.y <= dst.y
      /\ d = "S" => next.y >= dst.y
  BY <1>2, <1>3 DEF Heading, Between
<1>6. alg = "xy" /\ d \in {"N", "S"} => next.x = dst.x
  BY <1>2, <1>3 DEF Legal, get_legal_directions, XY, Xward
<1>7. alg = "west_first" /\ d \in {"N", "S"} => next.x <= dst.x
  <2>1. SUFFICES ASSUME alg = "west_first", d \in {"N", "S"}, dst.x < at.x
                 PROVE  FALSE
    BY <1>2, <1>3
  <2>2. "W" \in Minimal(at, dst)
    BY <1>2, <2>1 DEF Minimal, Xward
  <2> QED
    BY <2>1, <2>2 DEF Legal, get_legal_directions, WestFirst, is_noc_3d
<1>8. alg = "north_last" /\ d = "N" => next.x = dst.x
  <2>1. SUFFICES ASSUME alg = "north_last", d = "N", at.x # dst.x
                 PROVE  FALSE
    BY <1>2, <1>3
  <2>2. "W" \in Minimal(at, dst) \/ "E" \in Minimal(at, dst)
    BY <1>2, <2>1 DEF Minimal, Xward
  <2> QED
    BY <2>1, <2>2 DEF Legal, get_legal_directions, NorthLast
<1>9. alg = "negative_first" /\ d \in {"N", "E"} => next.x <= dst.x /\ next.y <= dst.y
  <2>1. SUFFICES ASSUME alg = "negative_first", d \in {"N", "E"},
                        dst.x < at.x \/ dst.y < at.y
                 PROVE  FALSE
    BY <1>2, <1>3
  <2>2. "W" \in Minimal(at, dst) \/ "S" \in Minimal(at, dst)
    BY <1>2, <2>1 DEF Minimal, Xward, Yward
  <2> QED
    BY <2>1, <2>2 DEF Legal, get_legal_directions, NegativeFirst
<1>10. alg = "odd_even" /\ d \in {"N", "S"} /\ dst.x < next.x => ~Odd(next.x)
  <2>1. SUFFICES ASSUME alg = "odd_even", d \in {"N", "S"}, dst.x < at.x
                 PROVE  ~Odd(at.x)
    BY <1>3
  <2> QED
    BY <1>2, <2>1 DEF Legal, get_legal_directions, OddEven2D, is_noc_3d
<1>11. alg = "odd_even" /\ d = "E" /\ next.x = dst.x /\ ~Odd(next.x) => next.y = dst.y
  <2>1. SUFFICES ASSUME alg = "odd_even", d = "E", dst.x - at.x = 1, ~Odd(dst.x)
                 PROVE  at.y = dst.y
    BY <1>2, <1>3
  <2> QED
    BY <1>2, <2>1 DEF Legal, get_legal_directions, OddEven2D, is_noc_3d
<1> QED
  BY <1>4, <1>5, <1>6, <1>7, <1>8, <1>9, <1>10, <1>11 DEF Heading, next

LEMMA TurnStep ==
    ASSUME Depth = 1, NEW alg \in Algs, NEW src \in Routers,
           NEW at \in Routers, NEW dst \in Routers, at # dst,
           NEW prev \in Directions, Heading(alg, src, at, dst, prev),
           NEW d \in Minimal(at, dst), d \in Legal(alg, src, at, dst, prev),
           NEW before \in Routers, at = Beyond(before, prev)
    PROVE  is_turn_legal(alg, before, at, Beyond(at, d))
<1> DEFINE next == Beyond(at, d)
<1>1. InMesh(at) /\ InMesh(dst) /\ InMesh(src) /\ InMesh(before)
  BY RouterShape
<1>2. /\ at.x \in Nat /\ dst.x \in Nat /\ src.x \in Nat /\ before.x \in Nat
      /\ at.y \in Nat /\ dst.y \in Nat /\ before.y \in Nat
      /\ at.z = before.z
  BY <1>1, MeshAssumption DEF InMesh
<1>3. /\ d \in {"W", "E", "N", "S"} /\ next \in Routers
      /\ d = "W" => dst.x < at.x /\ next.x = at.x - 1 /\ next.y = at.y
      /\ d = "E" => dst.x > at.x /\ next.x = at.x + 1 /\ next.y = at.y
      /\ d = "S" => dst.y < at.y /\ next.y = at.y - 1 /\ next.x = at.x
      /\ d = "N" => dst.y > at.y /\ next.y = at.y + 1 /\ next.x = at.x
  BY Closer
<1>4. /\ prev \in {"W", "E", "N", "S"}
      /\ prev = "W" => at.x = before.x - 1 /\ at.y = before.y
      /\ prev = "E" => at.x = before.x + 1 /\ at.y = before.y
      /\ prev = "S" => at.y = before.y - 1 /\ at.x = before.x
      /\ prev = "N" => at.y = before.y + 1 /\ at.x = before.x
  BY <1>2 DEF Beyond, Directions, Routers
<1>5. next.z = at.z
  BY <1>1, <1>3, RouterShape DEF InMesh
<1> HIDE DEF next
<1>6. before # next
  BY <1>2, <1>3, <1>4 DEF Heading
<1>7. CASE alg = "xy"
  <2>1. XYTurn(before, at, next)
    BY <1>2, <1>3, <1>4, <1>5, <1>7 DEF Heading, XYTurn
  <2> QED
    BY <1>6, <1>7, <2>1 DEF is_turn_legal, next
<1>8. CASE alg = "west_first"
  <2>1. WestFirstTurn(before, at, next)
    BY <1>2, <1>3, <1>4, <1>8 DEF Heading, WestFirstTurn
  <2> QED
    BY <1>6, <1>8, <2>1 DEF is_turn_legal, next
<1>9. CASE alg = "north_last"
  <2>1. NorthLastTurn(before, at, next)
    BY <1>2, <1>3, <1>4, <1>9 DEF Heading, NorthLastTurn
  <2> QED
    BY <1>6, <1>9, <2>1 DEF is_turn_legal, next
<1>10. CASE alg = "negative_first"
  <2>1. NegativeFirstTurn(before, at, next)
    BY <1>2, <1>3, <1>4, <1>10 DEF Heading, NegativeFirstTurn
  <2> QED
    BY <1>6, <1>10, <2>1 DEF is_turn_legal, next
<1>11. CASE alg = "odd_even"
  <2>1. OddEvenTurn(before, at, next)
    <3>1. CASE Odd(at.x)
      BY <1>2, <1>3, <1>4, <1>11, <3>1 DEF Heading, OddEvenTurn
    <3>2. CASE ~Odd(at.x)
      <4>1. SUFFICES ASSUME prev = "E", d \in {"N", "S"} PROVE FALSE
        BY <1>2, <1>3, <1>4, <3>2 DEF OddEvenTurn
      <4>2. at.x # dst.x
        BY <1>2, <1>3, <1>11, <3>2, <4>1 DEF Heading
      <4>3. at.x < dst.x /\ src.x < at.x
        BY <1>2, <4>1, <4>2 DEF Heading
      <4>4. d \in OddEven2D(src, at, dst, prev)
        BY <1>11 DEF Legal, get_legal_directions, is_noc_3d
      <4> QED
        BY <1>2, <3>2, <4>1, <4>3, <4>4 DEF OddEven2D
    <3> QED
      BY <3>1, <3>2
  <2> QED
    BY <1>6, <1>11, <2>1 DEF is_turn_legal, next
<1>12. CASE alg = "bfs"
  BY <1>6, <1>12 DEF is_turn_legal, next
<1> QED
  BY <1>7, <1>8, <1>9, <1>10, <1>11, <1>12 DEF Algs, TurnModels
-----------------------------------------------------------------------------
(* Types *)

LEMMA SelectedDirections ==
    ASSUME NEW dirs, NEW h, NEW at, NEW dst
    PROVE  select_next_direction(dirs, h, at, dst) \subseteq Directions
BY DEF select_next_direction, Directions

LEMMA OriginIsRouter == NoWalk.at \in Routers
BY MeshAssumption DEF NoWalk, Routers

LEMMA NextLink ==
    ASSUME TypeOK, NEW d \in NextDirections
    PROVE  /\ d \in Directions /\ Beyond(walk.at, d) \in Routers
           /\ <<walk.at, Beyond(walk.at, d)>> \in Links
<1>1. d \in Directions /\ Beyond(walk.at, d) \in Routers
  BY SelectedDirections DEF NextDirections
<1>2. walk.at \in Routers
  BY OriginIsRouter DEF TypeOK
<1> QED
  BY <1>1, <1>2 DEF Links

\* A move or a swap leaves every block on a router of its own.
LEMMA MovedPlacement ==
    ASSUME loc \in Placements, NEW b \in Logical, NEW to \in Routers
    PROVE  apply_move_blocks(b, to) \in Placements
<1> DEFINE new == apply_move_blocks(b, to)
<1>1. loc \in [Logical -> Routers] /\ \A a, c \in Logical : a # c => loc[a] # loc[c]
  BY DEF Placements
<1>2. new \in [Logical -> Routers]
  BY <1>1 DEF apply_move_blocks
<1>3. ASSUME NEW a \in Logical, NEW c \in Logical, a # c
      PROVE  new[a] # new[c]
  BY <1>1, <1>3 DEF apply_move_blocks
<1> QED
  BY <1>2, <1>3 DEF Placements

LEMMA InitTypeOK == Init => TypeOK
<1> SUFFICES ASSUME Init PROVE TypeOK
  OBVIOUS
<1>1. loc \in Placements /\ undo \in Placements
  BY StartAssumption DEF Init
<1>2. routes \in [Flows -> Seq(Links)] /\ backup \in [Flows -> Seq(Links)]
  BY DEF Init
<1>3. walk = NoWalk
  BY DEF Init
<1>4. DOMAIN usage = Links /\ moves \in Nat
  BY StartAssumption DEF Init
<1>5. checkpoint.valid = FALSE
  BY DEF Init, NoCheckpoint
<1> QED
  BY <1>1, <1>2, <1>3, <1>4, <1>5 DEF Init, TypeOK

LEMMA NextTypeOK ==
    ASSUME TypeOK, [Next]_vars
    PROVE  TypeOK'
<1> USE DEF TypeOK
<1> DEFINE Walks == [flow : Flows, at : Routers,
                     prev : Directions \cup {"none"}, visited : SUBSET Routers]
           WalkSet == {NoWalk} \cup Walks
<1>0. walk \in WalkSet
  OBVIOUS
<1>w. ASSUME NEW f \in Flows, StartWalk(f) PROVE walk' \in WalkSet
  <2>1. loc[Source[f]] \in Routers
    BY FlowAssumption DEF Placements
  <2> QED
    BY <1>w, <2>1 DEF StartWalk
<1>1. CASE \E f \in Flows : RouteFlow(f)
  <2>1. PICK f \in Flows : RouteFlow(f)
    BY <1>1
  <2>2. walk' \in WalkSet
    BY <2>1, <1>w DEF RouteFlow
  <2>3. routes' \in [Flows -> Seq(Links)] /\ pending' \subseteq Flows
    BY <2>1 DEF RouteFlow
  <2> QED
    BY <2>1, <2>2, <2>3 DEF RouteFlow
<1>2. CASE \E f \in Flows : ReRouteFlow(f)
  <2>1. PICK f \in Flows : ReRouteFlow(f)
    BY <1>2
  <2>2. walk' \in WalkSet
    BY <2>1, <1>w DEF ReRouteFlow
  <2>3. /\ routes' \in [Flows -> Seq(Links)] /\ pending' \subseteq Flows
        /\ backup' \in [Flows -> Seq(Links)]
    BY <2>1 DEF ReRouteFlow
  <2>4. DOMAIN usage' = Links
    BY <2>1 DEF ReRouteFlow, update_traffic_flow_link_usage
  <2> QED
    BY <2>1, <2>2, <2>3, <2>4 DEF ReRouteFlow
<1>3. CASE Hop
  <2>1. PICK d \in NextDirections :
            /\ routes' = [routes EXCEPT ![walk.flow] =
                              Append(@, <<walk.at, Beyond(walk.at, d)>>)]
            /\ walk' = [walk EXCEPT !.at = Beyond(walk.at, d), !.prev = d,
                                    !.visited = @ \cup {Beyond(walk.at, d)}]
    BY <1>3 DEF Hop
  <2>2. /\ d \in Directions /\ Beyond(walk.at, d) \in Routers
        /\ <<walk.at, Beyond(walk.at, d)>> \in Links
    BY NextLink
  <2>3. walk \in Walks
    BY <1>3 DEF Hop
  <2>4. walk' \in Walks
    BY <2>1, <2>2, <2>3
  <2>5. routes' \in [Flows -> Seq(Links)]
    <3>1. routes[walk.flow] \in Seq(Links)
      BY <2>3
    <3>2. Append(routes[walk.flow], <<walk.at, Beyond(walk.at, d)>>) \in Seq(Links)
      BY <2>2, <3>1
    <3> QED
      BY <2>1, <2>3, <3>2
  <2> QED
    BY <1>3, <2>4, <2>5 DEF Hop
<1>4. CASE FinishFlow
  <2>1. DOMAIN usage' = Links
    BY <1>4 DEF FinishFlow, update_traffic_flow_link_usage
  <2>2. walk' \in WalkSet
    BY <1>4 DEF FinishFlow
  <2>3. affectedLinks' \subseteq Links
    <3>1. walk.flow \in Flows
      BY <1>4 DEF FinishFlow
    <3>2. LinksOf(backup[walk.flow]) \subseteq Links /\ LinksOf(routes[walk.flow]) \subseteq Links
      BY <3>1 DEF LinksOf
    <3> QED
      BY <1>4, <3>2 DEF FinishFlow, find_affected_links_by_flow_reroute
  <2> QED
    BY <1>4, <2>1, <2>2, <2>3 DEF FinishFlow
<1>5. CASE ComputeCosts
  BY <1>5 DEF ComputeCosts
<1>6. CASE ProposeMove
  <2>1. PICK b \in Logical, to \in Routers :
            loc' = apply_move_blocks(b, to)
            /\ pending' = FlowsOf({b} \cup {a \in Logical : loc[a] = to})
    BY <1>6 DEF ProposeMove
  <2>2. loc' \in Placements
    BY <2>1, MovedPlacement
  <2>3. pending' \subseteq Flows
    BY <2>1 DEF FlowsOf
  <2>4. moves' \in Nat
    BY <1>6 DEF ProposeMove
  <2> QED
    BY <1>6, <2>2, <2>3, <2>4 DEF ProposeMove
<1>7. CASE ProposeCosts
  BY <1>7 DEF ProposeCosts
<1>8. CASE Commit
  <2>1. backup' \in [Flows -> Seq(Links)] /\ affectedLinks' \subseteq Links
    BY <1>8 DEF Commit, ForgetProposal
  <2>2. checkpoint' = checkpoint \/ (checkpoint'.valid = TRUE /\ checkpoint'.locs = loc)
    BY <1>8 DEF Commit
  <2>3. checkpoint'.valid \in BOOLEAN /\ (checkpoint'.valid => checkpoint'.locs \in Placements)
    BY <2>2
  <2> QED
    BY <1>8, <2>1, <2>3 DEF Commit
<1>9. CASE Revert
  <2>1. backup' \in [Flows -> Seq(Links)] /\ affectedLinks' \subseteq Links
    BY <1>9 DEF Revert, ForgetProposal
  <2>2. routes' \in [Flows -> Seq(Links)] /\ DOMAIN usage' = Links
    BY <1>9 DEF Revert
  <2> QED
    BY <1>9, <2>1, <2>2 DEF Revert
<1>10. CASE EndAnneal
  <2>1. CASE checkpoint.valid /\ checkpoint.cost < NocCost(costs.total)
    BY <1>10, <2>1 DEF EndAnneal, restore_checkpoint
  <2>2. CASE ~(checkpoint.valid /\ checkpoint.cost < NocCost(costs.total))
    BY <1>10, <2>2 DEF EndAnneal
  <2> QED
    BY <2>1, <2>2
<1>11. CASE StartMainAnneal
  BY <1>11, StartAssumption DEF StartMainAnneal, NoCheckpoint
<1>12. CASE EndPlacement
  BY <1>12 DEF EndPlacement
<1>13. CASE CycleFound
  BY <1>13 DEF CycleFound
<1>14. CASE UNCHANGED vars
  BY <1>14 DEF vars
<1> QED
  BY <1>1, <1>2, <1>3, <1>4, <1>5, <1>6, <1>7, <1>8, <1>9, <1>10, <1>11,
     <1>12, <1>13, <1>14 DEF Next

\* Every variable keeps its type, on a mesh of any size and depth.
THEOREM NocTypes == Spec => []TypeOK
<1>1. Init => TypeOK
  BY InitTypeOK
<1>2. TypeOK /\ [Next]_vars => TypeOK'
  BY NextTypeOK
<1> QED
  BY <1>1, <1>2, PTL DEF Spec
-----------------------------------------------------------------------------
(* The inductive invariant of the routes *)

Chained(r) == \A i \in 1 .. Len(r) - 1 : r[i][2] = r[i + 1][1]

LegalRoute(alg, r) ==
    \A i \in 1 .. Len(r) - 1 :
        is_turn_legal(alg, r[i][1], r[i][2], r[i + 1][2])

\* A route under way: it leads from src to w.at, w.prev was its last direction,
\* and what is missing to the distance from src to dst is still to go.
Underway(alg, r, src, dst, w) ==
    /\ Heading(alg, src, w.at, dst, w.prev)
    /\ Len(r) + Distance(w.at, dst) = Distance(src, dst)
    /\ Chained(r)
    /\ Len(r) = 0 => w.at = src
    /\ Len(r) # 0 => /\ r[1][1] = src /\ r[Len(r)][2] = w.at
                     /\ w.prev \in Directions
                     /\ w.at = Beyond(r[Len(r)][1], w.prev)
    /\ \A v \in w.visited : Distance(v, dst) >= Distance(w.at, dst)

Walking == phase \in {"routing", "rerouting"}

PhaseInv ==
    /\ walk # NoWalk => Walking /\ walk.flow \notin pending
    /\ ~Walking => pending = {}
    /\ phase \notin {"rerouting", "proposed"} => undo = loc
    /\ phase = "rerouting" => pending \subseteq FlowsOf(Moved)

TurnsInv ==
    /\ \A f \in Flows : LegalRoute(algorithm, routes[f]) /\ LegalRoute(algorithm, backup[f])

WalkInv ==
    walk # NoWalk =>
        Underway(algorithm, routes[walk.flow], loc[Source[walk.flow]],
                 loc[Sink[walk.flow]], walk)

\* What a revert brings back serves the places it goes back to.
UndoInv ==
    phase \in {"rerouting", "proposed"} =>
        /\ \A f \in pending :
               Serves(routes[f], undo[Source[f]], undo[Sink[f]])
        /\ \A f \in FlowsOf(Moved) \ pending :
               Serves(backup[f], undo[Source[f]], undo[Sink[f]])

RouteInv == /\ TypeOK /\ PhaseInv /\ TurnsInv /\ WalkInv /\ UndoInv
            /\ RoutesServeTheirFlows

LEMMA PlacesOfFlow ==
    ASSUME NEW p \in Placements, NEW f \in Flows
    PROVE  /\ p[Source[f]] \in Routers /\ p[Sink[f]] \in Routers
           /\ p[Source[f]] # p[Sink[f]]
BY FlowAssumption DEF Placements

LEMMA AlgorithmKnown == TypeOK => algorithm \in Algs
BY AlgorithmAssumption DEF TypeOK, Algs, TurnModels

LEMMA NoWalkFlow == NoWalk.flow \notin Flows
BY FlowAssumption DEF NoWalk

\* What every next direction is like while a flow is being routed.
LEMMA NextDirection ==
    ASSUME Depth = 1, RouteInv, walk # NoWalk,
           walk.at # loc[Sink[walk.flow]]
    PROVE  LET src == loc[Source[walk.flow]]
               dst == loc[Sink[walk.flow]]
           IN  /\ NextDirections # {}
               /\ NextDirections \subseteq Minimal(walk.at, dst)
               /\ NextDirections \subseteq
                      Legal(algorithm, src, walk.at, dst, walk.prev)
<1> DEFINE src == loc[Source[walk.flow]]
           dst == loc[Sink[walk.flow]]
           hash == IF algorithm = "bfs" THEN LinkOrder(src, dst, walk.at)
                   ELSE Hash(src, dst, walk.at, walk.flow)
           L == Legal(algorithm, src, walk.at, dst, walk.prev)
           D == select_next_direction(L, hash, walk.at, dst)
<1>1. walk.flow \in Flows /\ walk.at \in Routers /\ walk.visited \subseteq Routers
  BY DEF RouteInv, TypeOK
<1>2. src \in Routers /\ dst \in Routers /\ src # dst
  BY <1>1, PlacesOfFlow DEF RouteInv, TypeOK
<1>3. hash \in Nat
  BY <1>1, <1>2, HashAssumption
<1>4. D # {} /\ D \subseteq L /\ D \subseteq Minimal(walk.at, dst)
  <2> HIDE DEF hash, src, dst
  <2>1. walk.at # dst
    BY DEF dst
  <2> QED
    BY <1>1, <1>2, <1>3, <2>1, AlgorithmKnown, Selected DEF RouteInv
<1>5. NextDirections = {d \in D : Beyond(walk.at, d) \in Routers \ walk.visited}
  BY DEF NextDirections, Legal
<1>6. \A v \in walk.visited : Distance(v, dst) >= Distance(walk.at, dst)
  BY DEF RouteInv, WalkInv, Underway
<1>7. ASSUME NEW d \in D
      PROVE  Beyond(walk.at, d) \in Routers \ walk.visited
  <2>1. /\ Beyond(walk.at, d) \in Routers
        /\ Distance(Beyond(walk.at, d), dst) = Distance(walk.at, dst) - 1
    BY <1>1, <1>2, <1>4, <1>7, Closer
  <2>2. Distance(walk.at, dst) \in Nat
    BY <1>1, <1>2, DistanceType
  <2> QED
    BY <1>6, <2>1, <2>2
<1> QED
  BY <1>4, <1>5, <1>7

LEMMA InitRouteInv == Init => RouteInv
<1> SUFFICES ASSUME Init PROVE RouteInv
  OBVIOUS
<1>1. TypeOK
  BY InitTypeOK
<1>2. PhaseInv /\ WalkInv /\ UndoInv
  BY DEF Init, PhaseInv, WalkInv, UndoInv, Walking
<1>3. TurnsInv
  BY DEF Init, TurnsInv, LegalRoute
<1>4. RoutesServeTheirFlows
  BY DEF Init, RoutesServeTheirFlows
<1> QED
  BY <1>1, <1>2, <1>3, <1>4 DEF RouteInv

\* The start of a walk.
LEMMA StartUnderway ==
    ASSUME Depth = 1, TypeOK, NEW f \in Flows, StartWalk(f),
           routes' = [routes EXCEPT ![f] = <<>>], UNCHANGED <<loc, algorithm>>
    PROVE  /\ walk' # NoWalk /\ walk'.flow = f /\ WalkInv'
           /\ \A g \in Flows \ {f} : routes'[g] = routes[g]
           /\ routes'[f] = <<>>
<1> DEFINE src == loc[Source[f]]
           dst == loc[Sink[f]]
<1>1. /\ walk'.flow = f /\ walk'.at = src /\ walk'.prev = "none"
      /\ walk'.visited = {}
  BY DEF StartWalk
<1>2. walk' # NoWalk
  BY <1>1, NoWalkFlow
<1>3. src \in Routers /\ dst \in Routers
  BY PlacesOfFlow DEF TypeOK
<1>4. routes'[f] = <<>> /\ \A g \in Flows \ {f} : routes'[g] = routes[g]
  BY DEF TypeOK
<1>5. Heading(algorithm, src, src, dst, "none")
  <2>1. InMesh(src) /\ InMesh(dst)
    BY <1>3, RouterShape
  <2>2. Between(src.x, src.x, dst.x)
    BY <2>1, MeshAssumption DEF InMesh, Between
  <2> QED
    BY <2>2 DEF Heading
<1>6. Distance(src, dst) \in Nat
  BY <1>3, DistanceType
<1>7. Underway(algorithm', routes'[f], src, dst, walk')
  BY <1>1, <1>4, <1>5, <1>6 DEF Underway, Chained
<1> QED
  BY <1>1, <1>2, <1>4, <1>7 DEF WalkInv

LEMMA EmptyLegal == \A alg : LegalRoute(alg, <<>>)
BY DEF LegalRoute

LEMMA RouteFlowInv ==
    ASSUME Depth = 1, RouteInv, TypeOK', NEW f \in Flows, RouteFlow(f)
    PROVE  RouteInv'
<1>1. /\ phase = "routing" /\ walk = NoWalk /\ f \in pending
      /\ pending' = pending \ {f} /\ routes' = [routes EXCEPT ![f] = <<>>]
      /\ StartWalk(f) /\ UNCHANGED <<algorithm, phase, loc, undo, backup>>
  BY DEF RouteFlow
<1>2. /\ walk'.flow = f /\ WalkInv' /\ routes'[f] = <<>>
      /\ \A g \in Flows \ {f} : routes'[g] = routes[g]
  BY <1>1, StartUnderway DEF RouteInv
<1>3. PhaseInv'
  BY <1>1, <1>2 DEF RouteInv, PhaseInv, Walking
<1>4. TurnsInv'
  BY <1>1, <1>2, EmptyLegal DEF RouteInv, TurnsInv
<1>5. UndoInv'
  BY <1>1 DEF UndoInv
<1>6. RoutesServeTheirFlows'
  BY <1>1, <1>2, NoWalkFlow DEF RouteInv, RoutesServeTheirFlows
<1> QED
  BY <1>2, <1>3, <1>4, <1>5, <1>6 DEF RouteInv

LEMMA ReRouteFlowInv ==
    ASSUME Depth = 1, RouteInv, TypeOK', NEW f \in Flows, ReRouteFlow(f)
    PROVE  RouteInv'
<1>1. /\ phase = "rerouting" /\ walk = NoWalk /\ f \in pending
      /\ pending' = pending \ {f} /\ routes' = [routes EXCEPT ![f] = <<>>]
      /\ backup' = [backup EXCEPT ![f] = routes[f]]
      /\ StartWalk(f) /\ UNCHANGED <<algorithm, phase, loc, undo>>
  BY DEF ReRouteFlow
<1>2. /\ walk'.flow = f /\ WalkInv' /\ routes'[f] = <<>>
      /\ \A g \in Flows \ {f} : routes'[g] = routes[g]
  BY <1>1, StartUnderway DEF RouteInv
<1>b. backup'[f] = routes[f] /\ \A g \in Flows \ {f} : backup'[g] = backup[g]
  BY <1>1 DEF RouteInv, TypeOK
<1>m. FlowsOf(Moved)' = FlowsOf(Moved)
  BY <1>1 DEF FlowsOf, Moved
<1>3. PhaseInv'
  BY <1>1, <1>2, <1>m DEF RouteInv, PhaseInv, Walking
<1>4. TurnsInv'
  BY <1>1, <1>b, <1>2, EmptyLegal DEF RouteInv, TurnsInv
<1>5. UndoInv'
  <2>1. \A g \in pending' : Serves(routes[g], undo[Source[g]], undo[Sink[g]])'
    BY <1>1, <1>2 DEF RouteInv, UndoInv, TypeOK
  <2>2. FlowsOf(Moved) \subseteq Flows
    BY DEF FlowsOf
  <2>3. \A g \in FlowsOf(Moved) \ pending' :
            Serves(backup[g], undo[Source[g]], undo[Sink[g]])'
    <3>1. Serves(routes[f], undo[Source[f]], undo[Sink[f]])
      BY <1>1 DEF RouteInv, UndoInv
    <3>2. \A g \in FlowsOf(Moved) \ pending :
              Serves(backup[g], undo[Source[g]], undo[Sink[g]])
      BY <1>1 DEF RouteInv, UndoInv
    <3> QED
      BY <1>1, <1>b, <2>2, <3>1, <3>2
  <2> QED
    BY <1>m, <2>1, <2>3 DEF UndoInv
<1>6. RoutesServeTheirFlows'
  BY <1>1, <1>2, NoWalkFlow DEF RouteInv, RoutesServeTheirFlows
<1> QED
  BY <1>2, <1>3, <1>4, <1>5, <1>6 DEF RouteInv

LEMMA HopInv ==
    ASSUME Depth = 1, RouteInv, TypeOK', Hop
    PROVE  RouteInv'
<1> DEFINE f == walk.flow
           r == routes[f]
           src == loc[Source[f]]
           dst == loc[Sink[f]]
<1>1. /\ Walking /\ walk # NoWalk /\ walk.at # dst
      /\ UNCHANGED <<algorithm, phase, loc, undo, backup, pending>>
  BY DEF Hop, Walking
<1>2. PICK d \in NextDirections :
          /\ routes' = [routes EXCEPT ![f] =
                            Append(@, <<walk.at, Beyond(walk.at, d)>>)]
          /\ walk' = [walk EXCEPT !.at = Beyond(walk.at, d), !.prev = d,
                                  !.visited = @ \cup {Beyond(walk.at, d)}]
  BY DEF Hop
<1> DEFINE next == Beyond(walk.at, d)
           s == Append(r, <<walk.at, next>>)
<1>3. f \in Flows /\ walk.at \in Routers /\ walk.visited \subseteq Routers /\ r \in Seq(Links)
  BY <1>1 DEF RouteInv, TypeOK
<1>4. /\ walk'.flow = f /\ walk'.at = next /\ walk'.prev = d
      /\ walk'.visited = walk.visited \cup {next}
  BY <1>1, <1>2 DEF RouteInv, TypeOK
<1>5. routes'[f] = s /\ \A g \in Flows \ {f} : routes'[g] = routes[g]
  BY <1>2, <1>3 DEF RouteInv, TypeOK
<1>6. src \in Routers /\ dst \in Routers /\ src # dst
  BY <1>3, PlacesOfFlow DEF RouteInv, TypeOK
<1>7. d \in Minimal(walk.at, dst) /\ d \in Legal(algorithm, src, walk.at, dst, walk.prev)
  BY <1>1, NextDirection
<1>8. /\ next \in Routers /\ <<walk.at, next>> \in Links
      /\ Distance(next, dst) = Distance(walk.at, dst) - 1
      /\ d \in Directions
  BY <1>3, <1>6, <1>7, Closer DEF Directions
<1>9. Underway(algorithm, r, src, dst, walk)
  BY <1>1 DEF RouteInv, WalkInv
<1>10. algorithm \in Algs
  BY AlgorithmKnown DEF RouteInv
<1>11. /\ Len(r) \in Nat /\ Len(s) = Len(r) + 1
       /\ \A i \in 1 .. Len(r) : s[i] = r[i] /\ s[Len(s)] = <<walk.at, next>>
       /\ s[Len(s)][1] = walk.at /\ s[Len(s)][2] = next
  BY <1>3, <1>8
<1> HIDE DEF next, s, src, dst, r, f
<1>12. Heading(algorithm, src, next, dst, d)
  BY <1>1, <1>3, <1>6, <1>7, <1>9, <1>10, HeadingStep DEF Underway, next, dst
<1>13. Underway(algorithm, s, src, dst, walk')
  <2>1. Heading(algorithm, src, walk'.at, dst, walk'.prev)
    BY <1>4, <1>12
  <2>2. Len(s) + Distance(walk'.at, dst) = Distance(src, dst)
    <3>1. Distance(walk.at, dst) \in Nat /\ Distance(src, dst) \in Nat
      BY <1>3, <1>6, DistanceType
    <3> QED
      BY <1>4, <1>8, <1>9, <1>11, <3>1 DEF Underway
  <2>3. Chained(s)
    BY <1>9, <1>11 DEF Underway, Chained
  <2>4. s[1][1] = src
    BY <1>9, <1>11 DEF Underway
  <2>5. \A v \in walk'.visited : Distance(v, dst) >= Distance(walk'.at, dst)
    <3>1. \A v \in walk.visited : Distance(v, dst) \in Nat
      BY <1>3, <1>6, DistanceType
    <3>2. Distance(walk.at, dst) \in Nat /\ Distance(next, dst) \in Nat
      BY <1>3, <1>6, <1>8, DistanceType
    <3> QED
      BY <1>4, <1>8, <1>9, <3>1, <3>2 DEF Underway
  <2>6. /\ s[Len(s)][2] = walk'.at /\ walk'.prev \in Directions
        /\ walk'.at = Beyond(s[Len(s)][1], walk'.prev)
    BY <1>4, <1>8, <1>11 DEF next
  <2>7. Len(s) # 0
    BY <1>11
  <2> QED
    BY <2>1, <2>2, <2>3, <2>4, <2>5, <2>6, <2>7 DEF Underway
<1>14. LegalRoute(algorithm, s)
  <2>1. LegalRoute(algorithm, r)
    BY <1>3 DEF RouteInv, TurnsInv, r
  <2>2. ASSUME NEW i \in 1 .. Len(s) - 1
        PROVE  is_turn_legal(algorithm, s[i][1], s[i][2], s[i + 1][2])
    <3>1. CASE i < Len(r)
      BY <1>11, <2>1, <3>1 DEF LegalRoute
    <3>2. CASE i = Len(r)
      <4>1. /\ r[i] \in Links /\ r[i][2] = walk.at /\ walk.prev \in Directions
            /\ walk.at = Beyond(r[i][1], walk.prev)
        BY <1>3, <1>9, <1>11, <3>2 DEF Underway
      <4>2. is_turn_legal(algorithm, r[i][1], walk.at, next)
        <5>1. r[i][1] \in Routers
          BY <4>1 DEF Links
        <5> QED
          BY <1>1, <1>3, <1>6, <1>7, <1>9, <1>10, <4>1, <5>1, TurnStep
             DEF Underway, next, dst
      <4>3. s[i] = r[i] /\ s[i + 1][2] = next
        BY <1>11, <3>2
      <4> QED
        BY <4>1, <4>2, <4>3
    <3> QED
      BY <1>11, <3>1, <3>2
  <2> QED
    BY <2>2 DEF LegalRoute
<1>15. f' = f /\ src' = src /\ dst' = dst
  BY <1>1, <1>4 DEF f, src, dst
<1>16. WalkInv'
  <2>1. routes'[walk'.flow] = s
    BY <1>4, <1>5 DEF f
  <2>2. loc'[Source[walk'.flow]] = src /\ loc'[Sink[walk'.flow]] = dst
    BY <1>1, <1>4 DEF src, dst, f
  <2> QED
    BY <1>1, <1>13, <2>1, <2>2 DEF WalkInv
<1>17. TurnsInv'
  BY <1>1, <1>5, <1>14 DEF RouteInv, TurnsInv
<1>18. PhaseInv'
  <2>1. FlowsOf(Moved)' = FlowsOf(Moved)
    BY <1>1 DEF FlowsOf, Moved
  <2> QED
    BY <1>1, <1>4, <2>1 DEF RouteInv, PhaseInv, Walking, f
<1>19. UndoInv'
  <2>1. FlowsOf(Moved)' = FlowsOf(Moved)
    BY <1>1 DEF FlowsOf, Moved
  <2>2. f \notin pending /\ pending \subseteq Flows
    BY <1>1 DEF RouteInv, PhaseInv, TypeOK, f
  <2> QED
    BY <1>1, <1>5, <2>1, <2>2 DEF RouteInv, UndoInv
<1>20. RoutesServeTheirFlows'
  BY <1>1, <1>4, <1>5 DEF RouteInv, RoutesServeTheirFlows, f
<1> QED
  BY <1>16, <1>17, <1>18, <1>19, <1>20 DEF RouteInv

LEMMA FinishFlowInv ==
    ASSUME Depth = 1, RouteInv, TypeOK', FinishFlow
    PROVE  RouteInv'
<1> DEFINE f == walk.flow
           src == loc[Source[f]]
           dst == loc[Sink[f]]
<1>1. /\ Walking /\ walk # NoWalk /\ walk.at = dst /\ walk' = NoWalk
      /\ UNCHANGED <<algorithm, phase, loc, undo, routes, backup, pending>>
  BY DEF FinishFlow, Walking
<1>2. f \in Flows /\ f \notin pending
  BY <1>1 DEF RouteInv, TypeOK, PhaseInv
<1>3. src \in Routers /\ dst \in Routers /\ src # dst
  BY <1>2, PlacesOfFlow DEF RouteInv, TypeOK
<1>4. Distance(dst, dst) = 0 /\ Distance(src, dst) \in Nat /\ Distance(src, dst) > 0
  <2>1. InMesh(dst)
    BY <1>3, RouterShape
  <2> QED
    BY <1>3, <2>1, DistanceType, MeshAssumption DEF InMesh, Apart
<1>5. Underway(algorithm, routes[f], src, dst, walk)
  BY <1>1 DEF RouteInv, WalkInv
<1>6. Serves(routes[f], src, dst)
  <2>1. Len(routes[f]) \in Nat
    BY <1>2 DEF RouteInv, TypeOK
  <2>2. Len(routes[f]) = Distance(src, dst)
    BY <1>1, <1>4, <1>5, <2>1 DEF Underway
  <2> QED
    BY <1>1, <1>4, <1>5, <2>2 DEF Underway, Serves, Chained
<1>7. RoutesServeTheirFlows'
  BY <1>1, <1>6 DEF RouteInv, RoutesServeTheirFlows
<1>8. WalkInv' /\ TurnsInv'
  BY <1>1 DEF RouteInv, WalkInv, TurnsInv
<1>9. FlowsOf(Moved)' = FlowsOf(Moved)
  BY <1>1 DEF FlowsOf, Moved
<1>10. PhaseInv'
  BY <1>1, <1>9 DEF RouteInv, PhaseInv, Walking
<1>11. UndoInv'
  BY <1>1, <1>9 DEF RouteInv, UndoInv
<1> QED
  BY <1>7, <1>8, <1>10, <1>11 DEF RouteInv

\* A proposed move changes the places of the flows that are to be routed again,
\* and of no other one.
LEMMA ProposeMoveInv ==
    ASSUME Depth = 1, RouteInv, TypeOK', ProposeMove
    PROVE  RouteInv'
<1>1. /\ phase = "idle" /\ phase' = "rerouting"
      /\ UNCHANGED <<algorithm, undo, routes, backup, walk>>
  BY DEF ProposeMove
<1>2. PICK b \in Logical, to \in Routers :
          /\ to # loc[b] /\ loc' = apply_move_blocks(b, to)
          /\ pending' = FlowsOf({b} \cup {a \in Logical : loc[a] = to})
  BY DEF ProposeMove
<1>3. /\ walk = NoWalk /\ pending = {} /\ undo = loc
      /\ loc \in [Logical -> Routers]
  BY <1>1 DEF RouteInv, PhaseInv, Walking, TypeOK, Placements
<1>4. Moved' = {b} \cup {a \in Logical : loc[a] = to}
  BY <1>1, <1>2, <1>3 DEF Moved, apply_move_blocks
<1>5. pending' = FlowsOf(Moved')
  BY <1>2, <1>4
<1>6. FlowsOf(Moved)' = FlowsOf(Moved')
  BY DEF FlowsOf
<1>7. PhaseInv'
  BY <1>1, <1>3, <1>5, <1>6 DEF PhaseInv, Walking
<1>8. TurnsInv' /\ WalkInv'
  BY <1>1, <1>3 DEF RouteInv, TurnsInv, WalkInv
<1>9. \A f \in Flows : Serves(routes[f], loc[Source[f]], loc[Sink[f]])
  BY <1>3, NoWalkFlow DEF RouteInv, RoutesServeTheirFlows
<1>10. UndoInv'
  <2>1. \A f \in pending' : Serves(routes'[f], undo'[Source[f]], undo'[Sink[f]])
    BY <1>1, <1>3, <1>5, <1>9 DEF FlowsOf
  <2> QED
    BY <1>5, <1>6, <2>1 DEF UndoInv
<1>11. RoutesServeTheirFlows'
  <2>1. ASSUME NEW f \in Flows \ pending'
        PROVE  loc'[Source[f]] = loc[Source[f]] /\ loc'[Sink[f]] = loc[Sink[f]]
    <3>1. Source[f] \notin Moved' /\ Sink[f] \notin Moved'
      BY <1>5 DEF FlowsOf
    <3>2. Source[f] \in Logical /\ Sink[f] \in Logical
      BY FlowAssumption
    <3> QED
      BY <1>1, <1>3, <3>1, <3>2 DEF Moved
  <2> QED
    BY <1>1, <1>9, <2>1 DEF RoutesServeTheirFlows
<1> QED
  BY <1>7, <1>8, <1>10, <1>11 DEF RouteInv

LEMMA CommitInv ==
    ASSUME Depth = 1, RouteInv, TypeOK', Commit
    PROVE  RouteInv'
<1>1. /\ phase = "proposed" /\ phase' = "idle" /\ undo' = loc
      /\ backup' = [f \in Flows |-> <<>>]
      /\ UNCHANGED <<algorithm, loc, routes, walk, pending>>
  BY DEF Commit, ForgetProposal
<1>2. walk = NoWalk /\ pending = {}
  BY <1>1 DEF RouteInv, PhaseInv, Walking
<1>3. PhaseInv' /\ UndoInv' /\ WalkInv'
  BY <1>1, <1>2 DEF PhaseInv, UndoInv, WalkInv, Walking
<1>4. TurnsInv'
  BY <1>1, EmptyLegal DEF RouteInv, TurnsInv
<1>5. RoutesServeTheirFlows'
  BY <1>1 DEF RouteInv, RoutesServeTheirFlows
<1> QED
  BY <1>3, <1>4, <1>5 DEF RouteInv

LEMMA RevertInv ==
    ASSUME Depth = 1, RouteInv, TypeOK', Revert
    PROVE  RouteInv'
<1>1. /\ phase = "proposed" /\ phase' = "idle" /\ loc' = undo
      /\ backup' = [f \in Flows |-> <<>>]
      /\ routes' = [f \in Flows |-> IF f \in FlowsOf(Moved)
                                    THEN backup[f] ELSE routes[f]]
      /\ UNCHANGED <<algorithm, undo, walk, pending>>
  BY DEF Revert, ForgetProposal
<1>2. walk = NoWalk /\ pending = {}
  BY <1>1 DEF RouteInv, PhaseInv, Walking
<1>3. PhaseInv' /\ UndoInv' /\ WalkInv'
  BY <1>1, <1>2 DEF PhaseInv, UndoInv, WalkInv, Walking
<1>4. TurnsInv'
  BY <1>1, EmptyLegal DEF RouteInv, TurnsInv
<1>5. RoutesServeTheirFlows'
  <2>1. ASSUME NEW f \in Flows
        PROVE  Serves(routes'[f], undo[Source[f]], undo[Sink[f]])
    <3>1. CASE f \in FlowsOf(Moved)
      BY <1>1, <1>2, <3>1 DEF RouteInv, UndoInv
    <3>2. CASE f \notin FlowsOf(Moved)
      <4>1. /\ loc[Source[f]] = undo[Source[f]]
            /\ loc[Sink[f]] = undo[Sink[f]]
        BY <3>2, FlowAssumption DEF FlowsOf, Moved
      <4>2. Serves(routes[f], loc[Source[f]], loc[Sink[f]])
        BY <1>2, NoWalkFlow DEF RouteInv, RoutesServeTheirFlows
      <4> QED
        BY <1>1, <3>2, <4>1, <4>2
    <3> QED
      BY <3>1, <3>2
  <2> QED
    BY <1>1, <2>1 DEF RoutesServeTheirFlows
<1> QED
  BY <1>3, <1>4, <1>5 DEF RouteInv

LEMMA EndAnnealInv ==
    ASSUME Depth = 1, RouteInv, TypeOK', EndAnneal
    PROVE  RouteInv'
<1>1. phase = "idle" /\ UNCHANGED <<algorithm, routes, backup, walk>>
  BY DEF EndAnneal
<1>2. walk = NoWalk /\ pending = {} /\ undo = loc
  BY <1>1 DEF RouteInv, PhaseInv, Walking
<1>3. TurnsInv' /\ WalkInv'
  BY <1>1, <1>2 DEF RouteInv, TurnsInv, WalkInv
<1>4. CASE loc' = undo' /\ pending' = Flows /\ phase' = "routing"
  <2>1. PhaseInv' /\ UndoInv'
    BY <1>1, <1>2, <1>4 DEF PhaseInv, UndoInv, Walking
  <2>2. RoutesServeTheirFlows'
    BY <1>4 DEF RoutesServeTheirFlows
  <2> QED
    BY <1>3, <2>1, <2>2 DEF RouteInv
<1>5. CASE UNCHANGED <<loc, undo, pending, phase>>
  <2>1. PhaseInv' /\ UndoInv'
    BY <1>1, <1>2, <1>5 DEF PhaseInv, UndoInv, Walking
  <2>2. RoutesServeTheirFlows'
    BY <1>1, <1>5 DEF RouteInv, RoutesServeTheirFlows
  <2> QED
    BY <1>3, <2>1, <2>2 DEF RouteInv
<1> QED
  BY <1>4, <1>5 DEF EndAnneal, restore_checkpoint

\* The steps that leave places, routes and walks alone.
LEMMA QuietStepInv ==
    ASSUME RouteInv, TypeOK',
           UNCHANGED <<algorithm, loc, undo, routes, backup, pending, walk>>,
           \/ phase' = phase
           \/ phase = "routing" /\ walk = NoWalk /\ pending = {} /\ phase' = "idle"
           \/ phase = "rerouting" /\ walk = NoWalk /\ pending = {} /\ phase' = "proposed"
           \/ phase = "idle" /\ phase' = "cycle"
    PROVE  RouteInv'
<1>1. FlowsOf(Moved)' = FlowsOf(Moved)
  BY DEF FlowsOf, Moved
<1>2. PhaseInv'
  BY <1>1 DEF RouteInv, PhaseInv, Walking
<1>3. UndoInv'
  BY <1>1 DEF RouteInv, UndoInv
<1>4. WalkInv' /\ TurnsInv' /\ RoutesServeTheirFlows'
  BY DEF RouteInv, WalkInv, TurnsInv, RoutesServeTheirFlows
<1> QED
  BY <1>2, <1>3, <1>4 DEF RouteInv

LEMMA NextRouteInv ==
    ASSUME Depth = 1, RouteInv, [Next]_vars
    PROVE  RouteInv'
<1>0. TypeOK'
  BY NextTypeOK DEF RouteInv
<1>1. CASE \E f \in Flows : RouteFlow(f)
  BY <1>0, <1>1, RouteFlowInv
<1>2. CASE \E f \in Flows : ReRouteFlow(f)
  BY <1>0, <1>2, ReRouteFlowInv
<1>3. CASE ComputeCosts
  BY <1>0, <1>3, QuietStepInv DEF ComputeCosts
<1>4. CASE ProposeCosts
  BY <1>0, <1>4, QuietStepInv DEF ProposeCosts
<1>5. CASE StartMainAnneal
  BY <1>0, <1>5, QuietStepInv DEF StartMainAnneal
<1>6. CASE EndPlacement
  BY <1>0, <1>6, QuietStepInv DEF EndPlacement
<1>7. CASE CycleFound
  BY <1>0, <1>7, QuietStepInv DEF CycleFound
<1>8. CASE UNCHANGED vars
  BY <1>0, <1>8, QuietStepInv DEF vars
<1> QED
  BY <1>0, <1>1, <1>2, <1>3, <1>4, <1>5, <1>6, <1>7, <1>8, HopInv,
     FinishFlowInv, ProposeMoveInv, CommitInv, RevertInv, EndAnnealInv DEF Next

LEMMA RoutesInductive == Depth = 1 => (Spec => []RouteInv)
<1> SUFFICES ASSUME Depth = 1 PROVE Spec => []RouteInv
  OBVIOUS
<1>1. Init => RouteInv
  BY InitRouteInv
<1>2. RouteInv /\ [Next]_vars => RouteInv'
  BY NextRouteInv
<1> QED
  BY <1>1, <1>2, PTL DEF Spec
-----------------------------------------------------------------------------
(* What follows *)

\* A route that is not being computed is a shortest one from its source to its
\* sink, whatever was moved, committed, reverted or restored before.
THEOREM RoutesServe == Depth = 1 => (Spec => []RoutesServeTheirFlows)
<1> SUFFICES ASSUME Depth = 1 PROVE Spec => []RoutesServeTheirFlows
  OBVIOUS
<1>1. Spec => []RouteInv
  BY RoutesInductive
<1>2. RouteInv => RoutesServeTheirFlows
  BY DEF RouteInv
<1> QED
  BY <1>1, <1>2, PTL

\* route_flow never fails on a mesh of one layer, whatever the hash values.
THEOREM RouteAlwaysFound == Depth = 1 => (Spec => []RouteFound)
<1> SUFFICES ASSUME Depth = 1 PROVE Spec => []RouteFound
  OBVIOUS
<1>1. Spec => []RouteInv
  BY RoutesInductive
<1>2. RouteInv => RouteFound
  BY NextDirection DEF RouteFound
<1> QED
  BY <1>1, <1>2, PTL

\* The directions chosen keep the rules on turns they are checked against.
THEOREM TurnsAreAllowed == Spec => []TurnsAllowed
<1>1. CASE Depth = 1
  <2>1. Spec => []RouteInv
    BY <1>1, RoutesInductive
  <2>2. RouteInv => TurnsAllowed
    BY DEF RouteInv, TurnsInv, TurnsAllowed, LegalRoute
  <2> QED
    BY <2>1, <2>2, PTL
<1>2. CASE Depth # 1
  <2>1. TurnsAllowed
    BY <1>2, MeshAssumption DEF TurnsAllowed, is_noc_3d
  <2> QED
    BY <2>1, PTL
<1> QED
  BY <1>1, <1>2

\* Links that wait for each other would climb for ever.
LEMMA NoCycles ==
    ASSUME Depth = 1, algorithm \in TurnModels, routes \in [Flows -> Seq(Links)],
           \A f \in Flows : Chained(routes[f]) /\ LegalRoute(algorithm, routes[f])
    PROVE  ~has_cycles
<1> SUFFICES ASSUME has_cycles PROVE FALSE
  OBVIOUS
<1>1. PICK C \in SUBSET {e[1] : e \in Dependencies} :
          C # {} /\ \A a \in C : \E b \in C : <<a, b>> \in Dependencies
  BY DEF has_cycles
<1>2. ASSUME NEW a, NEW b, <<a, b>> \in Dependencies
      PROVE  a \in Links /\ b \in Links /\ Climbs(algorithm, a, b)
  <2>0. PICK f \in Flows : \E i \in 1 .. Len(routes[f]) - 1 :
            a = routes[f][i] /\ b = routes[f][i + 1]
    BY <1>2 DEF Dependencies
  <2>1. PICK i \in 1 .. Len(routes[f]) - 1 :
            a = routes[f][i] /\ b = routes[f][i + 1]
    BY <2>0
  <2>2. routes[f] \in Seq(Links) /\ Len(routes[f]) \in Nat
    OBVIOUS
  <2>3. a \in Links /\ b \in Links
    BY <2>1, <2>2
  <2>4. a[2] = b[1] /\ is_turn_legal(algorithm, a[1], a[2], b[2])
    BY <2>1 DEF Chained, LegalRoute
  <2> QED
    BY <2>3, <2>4, LegalTurnClimbs
<1>3. C \subseteq Links
  <2>1. ASSUME NEW a \in C PROVE a \in Links
    <3>1. PICK b \in C : <<a, b>> \in Dependencies
      BY <1>1
    <3> QED
      BY <1>2, <3>1
  <2> QED
    BY <2>1
<1>4. \A a \in C : \E b \in C : Climbs(algorithm, a, b)
  BY <1>1, <1>2
<1> DEFINE P == [a \in C |-> Rank1(algorithm, a[1], a[2])]
           Q == [a \in C |-> Rank2(algorithm, a[1], a[2])]
<1>5. MaxRank \in Nat
  BY MeshAssumption DEF MaxRank
<1>6. P \in [C -> 0 .. MaxRank] /\ Q \in [C -> 0 .. MaxRank]
  BY <1>3, RankBounds
<1>7. \A a \in C : \E b \in C : P[b] > P[a] \/ (P[b] = P[a] /\ Q[b] > Q[a])
  BY <1>4 DEF Climbs
<1> HIDE DEF P, Q
<1> QED
  BY <1>1, <1>5, <1>6, <1>7, NoEndlessClimb

DeadlockInv == RouteInv /\ (algorithm # "bfs" => phase # "cycle")

LEMMA NextDeadlockInv ==
    ASSUME Depth = 1, DeadlockInv, [Next]_vars
    PROVE  DeadlockInv'
<1>1. RouteInv'
  BY NextRouteInv DEF DeadlockInv
<1>2. SUFFICES ASSUME algorithm' # "bfs" PROVE phase' # "cycle"
  BY <1>1 DEF DeadlockInv
<1>3. CASE CycleFound
  <2>1. /\ phase = "idle" /\ has_cycles /\ algorithm # "bfs"
    BY <1>2, <1>3 DEF CycleFound
  <2>2. walk = NoWalk /\ pending = {}
    BY <2>1 DEF DeadlockInv, RouteInv, PhaseInv, Walking
  <2>3. \A f \in Flows : Chained(routes[f])
    BY <2>2, NoWalkFlow
       DEF DeadlockInv, RouteInv, RoutesServeTheirFlows, Serves, Chained
  <2>4. \A f \in Flows : LegalRoute(algorithm, routes[f])
    BY DEF DeadlockInv, RouteInv, TurnsInv
  <2>5. algorithm \in TurnModels
    BY <2>1, AlgorithmKnown DEF DeadlockInv, RouteInv, Algs
  <2>6. routes \in [Flows -> Seq(Links)]
    BY DEF DeadlockInv, RouteInv, TypeOK
  <2> QED
    BY <2>1, <2>3, <2>4, <2>5, <2>6, NoCycles
<1>4. CASE \E f \in Flows : RouteFlow(f) \/ ReRouteFlow(f)
  BY <1>2, <1>4 DEF RouteFlow, ReRouteFlow
<1>5. CASE Hop \/ FinishFlow
  BY <1>2, <1>5 DEF Hop, FinishFlow
<1>6. CASE ComputeCosts \/ ProposeMove \/ ProposeCosts
  BY <1>2, <1>6 DEF ComputeCosts, ProposeMove, ProposeCosts
<1>7. CASE Commit \/ Revert
  BY <1>2, <1>7 DEF Commit, Revert
<1>8. CASE EndAnneal
  BY <1>2, <1>8 DEF EndAnneal, restore_checkpoint
<1>9. CASE StartMainAnneal \/ EndPlacement
  BY <1>2, <1>9 DEF StartMainAnneal, EndPlacement
<1>10. CASE UNCHANGED vars
  BY <1>2, <1>10 DEF DeadlockInv, vars
<1> QED
  BY <1>3, <1>4, <1>5, <1>6, <1>7, <1>8, <1>9, <1>10 DEF Next

\* No turn model makes flows wait for each other's links in a cycle: the check
\* of the channel dependency graph never refuses one of their placements.
THEOREM TurnModelsAreDeadlockFree == Spec => []DeadlockFree
<1>1. CASE Depth = 1
  <2>1. Init => DeadlockInv
    BY <1>1, InitRouteInv DEF Init, DeadlockInv
  <2>2. DeadlockInv /\ [Next]_vars => DeadlockInv'
    BY <1>1, NextDeadlockInv
  <2>3. DeadlockInv => DeadlockFree
    BY DEF DeadlockInv, DeadlockFree
  <2> QED
    BY <2>1, <2>2, <2>3, PTL DEF Spec
<1>2. CASE Depth # 1
  <2>1. DeadlockFree
    BY <1>2, MeshAssumption DEF DeadlockFree, is_noc_3d
  <2> QED
    BY <2>1, PTL
<1> QED
  BY <1>1, <1>2
=============================================================================
