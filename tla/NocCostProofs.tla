---------------------------- MODULE NocCostProofs ----------------------------
(***************************************************************************)
(* The bookkeeping of the network-on-chip costs, on a mesh of any size and *)
(* depth: the bandwidth used on a link and the costs kept by increments    *)
(* are those of the routes, and a restored checkpoint costs what it did.   *)
(***************************************************************************)
EXTENDS NocRoutingProofs, FiniteSetTheorems

-----------------------------------------------------------------------------
(* Sums of functions with finite domains *)

\* Induction over the natural numbers, for the set of those that fail.
LEMMA NoneFails ==
    ASSUME NEW B, B \subseteq Nat, 0 \notin B,
           \A n \in Nat : n + 1 \in B => n \in B
    PROVE  B = {}
<1> SUFFICES ASSUME B # {} PROVE FALSE
  OBVIOUS
<1>1. PICK m \in B : \A n \in B : m <= n
  BY Least
<1>2. m \in Nat /\ m # 0
  OBVIOUS
<1>3. m - 1 \in Nat /\ (m - 1) + 1 = m
  BY <1>2
<1>4. m - 1 \in B
  BY <1>3
<1> QED
  BY <1>1, <1>2, <1>4

First(s) == CHOOSE x \in s : TRUE

Less(s, x) == s \ {x}

\* it sums f over the sets of T, element by element.
SumsUp(it, f, T) ==
    it = [s \in T |-> IF s = {} THEN 0 ELSE f[First(s)] + it[s \ {First(s)}]]

Sized(S, n) == {s \in SUBSET S : Cardinality(s) <= n}

LEMMA SumTable ==
    ASSUME NEW S, IsFiniteSet(S), NEW f
    PROVE  \E it : SumsUp(it, f, SUBSET S)
<1> DEFINE B == {n \in Nat : ~ \E it : SumsUp(it, f, Sized(S, n))}
<1>0. \A s \in SUBSET S : IsFiniteSet(s) /\ Cardinality(s) \in Nat
  BY FS_Subset, FS_CardinalityType
<1>1. 0 \notin B
  <2> DEFINE it == [s \in Sized(S, 0) |-> 0]
  <2>1. \A s \in Sized(S, 0) : s = {}
    BY <1>0, FS_EmptySet DEF Sized
  <2>2. SumsUp(it, f, Sized(S, 0))
    BY <2>1 DEF SumsUp
  <2> QED
    BY <2>2
<1>2. ASSUME NEW n \in Nat, n \notin B PROVE n + 1 \notin B
  <2>1. PICK it : SumsUp(it, f, Sized(S, n))
    BY <1>2
  <2> DEFINE new == [s \in Sized(S, n + 1) |->
                        IF s = {} THEN 0 ELSE f[First(s)] + it[s \ {First(s)}]]
  <2>2. ASSUME NEW s \in Sized(S, n + 1), s # {}
        PROVE  s \ {First(s)} \in Sized(S, n) /\ s \ {First(s)} \in Sized(S, n + 1)
    <3>1. First(s) \in s
      BY <2>2 DEF First
    <3>2. Cardinality(s \ {First(s)}) = Cardinality(s) - 1
      BY <1>0, <3>1, FS_RemoveElement DEF Sized
    <3>3. s \in SUBSET S /\ Cardinality(s) <= n + 1 /\ Cardinality(s) \in Nat
      BY <1>0 DEF Sized
    <3> QED
      BY <3>2, <3>3 DEF Sized
  <2>3. \A s \in Sized(S, n) : new[s] = it[s]
    <3>1. \A s \in Sized(S, n) : s \in Sized(S, n + 1)
      BY <1>0 DEF Sized
    <3> QED
      BY <2>1, <3>1 DEF SumsUp
  <2>4. SumsUp(new, f, Sized(S, n + 1))
    BY <2>2, <2>3 DEF SumsUp
  <2> QED
    BY <2>4
<1>3. B = {}
  BY <1>1, <1>2, NoneFails
<1>4. Cardinality(S) \in Nat
  BY FS_CardinalityType
<1>5. Sized(S, Cardinality(S)) = SUBSET S
  BY FS_Subset DEF Sized
<1>6. \E it : SumsUp(it, f, Sized(S, Cardinality(S)))
  BY <1>3, <1>4
<1> QED
  BY <1>5, <1>6

\* The table of the sums of f over all subsets of S.
IsTable(it, f, S) == SumsUp(it, f, SUBSET S)

LEMMA SumIsTable ==
    ASSUME NEW f, IsFiniteSet(DOMAIN f)
    PROVE  \E it : IsTable(it, f, DOMAIN f) /\ SumFunction(f) = it[DOMAIN f]
<1>1. \E it : IsTable(it, f, DOMAIN f)
  BY SumTable DEF IsTable
<1> DEFINE it == CHOOSE it : IsTable(it, f, DOMAIN f)
<1>2. IsTable(it, f, DOMAIN f)
  BY <1>1
<1>3. SumFunction(f) = it[DOMAIN f]
  BY DEF IsTable, SumFunction, SumFunctionOnSet, FoldFunctionOnSet, MapThenFoldSet, SumsUp, First
<1> QED
  BY <1>2, <1>3

\* Among subsets of a finite set there is one that contains no other of them.
LEMMA MinimalSet ==
    ASSUME NEW S, IsFiniteSet(S), NEW B, B \subseteq SUBSET S, B # {}
    PROVE  \E s \in B : IsFiniteSet(s) /\ \A x \in s : Less(s, x) \notin B
<1> DEFINE sizes == {Cardinality(s) : s \in B}
<1>1. \A s \in B : IsFiniteSet(s) /\ Cardinality(s) \in Nat
  BY FS_Subset, FS_CardinalityType
<1>2. sizes \subseteq Nat /\ sizes # {}
  BY <1>1
<1>3. PICK m \in sizes : \A n \in sizes : m <= n
  BY <1>2, Least
<1>4. PICK s \in B : Cardinality(s) = m
  BY <1>3
<1>5. ASSUME NEW x \in s, s \ {x} \in B PROVE FALSE
  <2>1. Cardinality(s \ {x}) = Cardinality(s) - 1
    BY <1>1, FS_RemoveElement
  <2>2. Cardinality(s \ {x}) \in sizes
    BY <1>5
  <2>3. m <= Cardinality(s \ {x})
    BY <1>3, <2>2
  <2> QED
    BY <1>1, <1>4, <2>1, <2>3
<1> QED
  BY <1>1, <1>5 DEF Less

LEMMA TableUnfold ==
    ASSUME NEW S, NEW f, NEW it, IsTable(it, f, S), NEW r \in SUBSET S
    PROVE  /\ it[{}] = 0
           /\ r # {} => /\ First(r) \in r
                        /\ it[r] = f[First(r)] + it[Less(r, First(r))]
  BY DEF IsTable, SumsUp, First, Less

\* The sums of integers are integers.
LEMMA TableType ==
    ASSUME NEW S, IsFiniteSet(S), NEW f, \A x \in S : f[x] \in Int,
           NEW it, IsTable(it, f, S)
    PROVE  \A s \in SUBSET S : it[s] \in Int
<1> DEFINE B == {s \in SUBSET S : it[s] \notin Int}
<1> SUFFICES ASSUME B # {} PROVE FALSE
  OBVIOUS
<1>1. PICK s \in B : \A x \in s : Less(s, x) \notin B
  BY MinimalSet
<1>0. it[{}] \in Int
  <2> HIDE DEF B
  <2>1. it[{}] = 0
    BY TableUnfold
  <2> QED
    BY <2>1
<1>2. s # {}
  BY <1>0, <1>1, Zenon
<1>3. First(s) \in s /\ it[s] = f[First(s)] + it[Less(s, First(s))]
  BY <1>1, <1>2, TableUnfold
<1>4. it[Less(s, First(s))] \in Int
  <2>1. Less(s, First(s)) \notin B /\ Less(s, First(s)) \in SUBSET S
    BY <1>1, <1>3 DEF Less
  <2> QED
    BY <2>1
<1>5. f[First(s)] \in Int
  BY <1>3
<1> HIDE DEF B
<1>6. it[s] \in Int
  BY <1>3, <1>4, <1>5
<1> QED
  BY <1>1, <1>6 DEF B

\* Any element may be taken first.
LEMMA TableStep ==
    ASSUME NEW S, IsFiniteSet(S), NEW f, \A x \in S : f[x] \in Int,
           NEW it, IsTable(it, f, S), NEW r \in SUBSET S, NEW z \in r
    PROVE  it[r] = f[z] + it[Less(r, z)]
<1> DEFINE B == {s \in SUBSET S : \E x \in s : it[s] # f[x] + it[Less(s, x)]}
<1> SUFFICES ASSUME B # {} PROVE FALSE
  OBVIOUS
<1>1. PICK s \in B : \A x \in s : Less(s, x) \notin B
  BY MinimalSet
<1>2. PICK x \in s : it[s] # f[x] + it[Less(s, x)]
  BY <1>1
<1>0. s \in SUBSET S /\ s # {}
  BY <1>1, <1>2
<1>3. PICK y \in s : it[s] = f[y] + it[Less(s, y)]
  <2> HIDE DEF B
  <2>1. First(s) \in s /\ it[s] = f[First(s)] + it[Less(s, First(s))]
    BY <1>0, TableUnfold
  <2> QED
    BY <2>1
<1>4. x # y
  BY <1>2, <1>3
<1>5. Less(s, y) \in SUBSET S /\ x \in Less(s, y) /\ Less(s, y) \notin B
  BY <1>1, <1>4 DEF Less
<1>6. it[Less(s, y)] = f[x] + it[Less(Less(s, y), x)]
  BY <1>5
<1>7. Less(s, x) \in SUBSET S /\ y \in Less(s, x) /\ Less(s, x) \notin B
  BY <1>1, <1>4 DEF Less
<1>8. it[Less(s, x)] = f[y] + it[Less(Less(s, x), y)]
  BY <1>7
<1>9. Less(Less(s, y), x) = Less(Less(s, x), y)
  BY DEF Less
<1>10. it[Less(Less(s, x), y)] \in Int
  <2>1. Less(Less(s, x), y) \in SUBSET S
    BY <1>7 DEF Less
  <2> HIDE DEF B
  <2> QED
    BY <2>1, TableType
<1>11. f[x] \in Int /\ f[y] \in Int
  BY <1>2, <1>3
<1> DEFINE w == it[Less(Less(s, x), y)]
<1>12. it[Less(s, y)] = f[x] + w /\ it[Less(s, x)] = f[y] + w
  BY <1>6, <1>8, <1>9
<1> HIDE DEF B, w
<1>13. f[y] + (f[x] + w) = f[x] + (f[y] + w)
  BY <1>10, <1>11 DEF w
<1>14. it[s] = f[x] + it[Less(s, x)]
  BY <1>3, <1>12, <1>13
<1> QED
  BY <1>2, <1>14

\* Functions that agree on a set have the same sum over it.
LEMMA TablesAgree ==
    ASSUME NEW S, IsFiniteSet(S), NEW T, NEW f, NEW g,
           NEW it, IsTable(it, f, S), NEW jt, IsTable(jt, g, T),
           NEW r \in SUBSET (S \cap T), \A x \in r : f[x] = g[x]
    PROVE  it[r] = jt[r]
<1> DEFINE B == {s \in SUBSET (S \cap T) :
                     (\A x \in s : f[x] = g[x]) /\ it[s] # jt[s]}
<1> SUFFICES ASSUME B # {} PROVE FALSE
  OBVIOUS
<1>0. B \subseteq SUBSET S
  OBVIOUS
<1>1. PICK s \in B : \A x \in s : Less(s, x) \notin B
  BY <1>0, MinimalSet
<1>2. s # {}
  BY <1>1, TableUnfold
<1>3. First(s) \in s /\ it[s] = f[First(s)] + it[Less(s, First(s))]
  BY <1>0, <1>1, <1>2, TableUnfold
<1>4. jt[s] = g[First(s)] + jt[Less(s, First(s))]
  <2>1. s \in SUBSET T
    BY <1>1
  <2> QED
    BY <1>2, <2>1, TableUnfold
<1>5. Less(s, First(s)) \notin B /\ f[First(s)] = g[First(s)]
  BY <1>1, <1>3
<1>6. Less(s, First(s)) \in SUBSET (S \cap T) /\ \A x \in Less(s, First(s)) : f[x] = g[x]
  BY <1>1 DEF Less
<1>7. it[Less(s, First(s))] = jt[Less(s, First(s))]
  BY <1>5, <1>6
<1>8. it[s] # jt[s]
  BY <1>1
<1> HIDE DEF B
<1> QED
  BY <1>3, <1>4, <1>5, <1>7, <1>8

LEMMA SumEmpty ==
    ASSUME NEW f, DOMAIN f = {}
    PROVE  SumFunction(f) = 0
<1>1. IsFiniteSet(DOMAIN f)
  BY FS_EmptySet
<1>2. PICK it : IsTable(it, f, DOMAIN f) /\ SumFunction(f) = it[DOMAIN f]
  BY <1>1, SumIsTable
<1> QED
  BY <1>2 DEF IsTable, SumsUp

\* A sum is an integer, and the summand of any element may be set apart.
LEMMA SumStep ==
    ASSUME NEW S, IsFiniteSet(S), NEW f \in [S -> Int]
    PROVE  /\ SumFunction(f) \in Int
           /\ \A x \in S : SumFunction(f) = f[x] + SumFunction([y \in S \ {x} |-> f[y]])
<1>0. DOMAIN f = S /\ \A x \in S : f[x] \in Int
  OBVIOUS
<1>1. PICK it : IsTable(it, f, S) /\ SumFunction(f) = it[S]
  BY <1>0, SumIsTable
<1>2. SumFunction(f) \in Int
  <2>1. it[S] \in Int
    BY <1>0, <1>1, TableType
  <2> QED
    BY <1>1, <2>1
<1>3. ASSUME NEW x \in S
      PROVE  SumFunction(f) = f[x] + SumFunction([y \in S \ {x} |-> f[y]])
  <2> DEFINE g == [y \in S \ {x} |-> f[y]]
  <2>1. DOMAIN g = S \ {x} /\ IsFiniteSet(S \ {x}) /\ \A y \in S \ {x} : g[y] = f[y]
    BY <1>0, FS_RemoveElement
  <2> HIDE DEF g
  <2>2. PICK jt : IsTable(jt, g, S \ {x}) /\ SumFunction(g) = jt[S \ {x}]
    BY <2>1, SumIsTable
  <2>3. it[S] = f[x] + it[S \ {x}]
    <3>1. S \in SUBSET S /\ (\A z \in S : f[z] \in Int) /\ IsTable(it, f, S)
      BY <1>0, <1>1
    <3>2. it[S] = f[x] + it[Less(S, x)]
      BY <3>1, TableStep
    <3> QED
      BY <3>2 DEF Less
  <2>4. it[S \ {x}] = jt[S \ {x}]
    <3> DEFINE T == S \ {x}
    <3>1. IsTable(it, f, S) /\ IsTable(jt, g, T)
      BY <1>1, <2>2
    <3>2. T \in SUBSET (S \cap T) /\ \A y \in T : f[y] = g[y]
      BY <2>1
    <3> HIDE DEF T
    <3> QED
      BY <3>1, <3>2, TablesAgree DEF T
  <2>5. SumFunction(f) = f[x] + SumFunction(g)
    BY <1>1, <2>2, <2>3, <2>4
  <2> QED
    BY <2>5 DEF g
<1> QED
  BY <1>2, <1>3

\* What is added to the values of f on a part of its domain is added to its sum.
LEMMA SumUpdate ==
    ASSUME NEW S, IsFiniteSet(S), NEW T \in SUBSET S,
           NEW f \in [S -> Int], NEW g \in [S -> Int], NEW d \in [T -> Int],
           \A x \in T : d[x] = g[x] - f[x],
           \A x \in S : x \notin T => g[x] = f[x]
    PROVE  SumFunction(g) = SumFunction(f) + SumFunction(d)
<1>0. /\ DOMAIN f = S /\ DOMAIN g = S /\ DOMAIN d = T /\ IsFiniteSet(T)
      /\ \A x \in S : f[x] \in Int /\ g[x] \in Int
      /\ \A x \in T : d[x] \in Int
  BY FS_Subset
<1>1. PICK it : IsTable(it, f, S) /\ SumFunction(f) = it[S]
  BY <1>0, SumIsTable
<1>2. PICK jt : IsTable(jt, g, S) /\ SumFunction(g) = jt[S]
  BY <1>0, SumIsTable
<1>3. PICK kt : IsTable(kt, d, T) /\ SumFunction(d) = kt[T]
  BY <1>0, SumIsTable
<1>4. ASSUME NEW s \in SUBSET S, NEW x \in s
      PROVE  /\ it[s] = f[x] + it[Less(s, x)] /\ jt[s] = g[x] + jt[Less(s, x)]
             /\ it[Less(s, x)] \in Int /\ jt[Less(s, x)] \in Int
             /\ f[x] \in Int /\ g[x] \in Int
  <2>1. Less(s, x) \in SUBSET S
    BY DEF Less
  <2>2. it[s] = f[x] + it[Less(s, x)]
    BY <1>0, <1>1, TableStep
  <2>3. jt[s] = g[x] + jt[Less(s, x)]
    BY <1>0, <1>2, TableStep
  <2>4. it[Less(s, x)] \in Int
    BY <1>0, <1>1, <2>1, TableType
  <2>5. jt[Less(s, x)] \in Int
    BY <1>0, <1>2, <2>1, TableType
  <2> QED
    BY <1>0, <2>2, <2>3, <2>4, <2>5
<1>5. ASSUME NEW s \in SUBSET T, NEW x \in s
      PROVE  kt[s] = d[x] + kt[Less(s, x)] /\ kt[Less(s, x)] \in Int
  <2>1. Less(s, x) \in SUBSET T
    BY DEF Less
  <2>2. kt[s] = d[x] + kt[Less(s, x)]
    BY <1>0, <1>3, TableStep
  <2>3. kt[Less(s, x)] \in Int
    BY <1>0, <1>3, <2>1, TableType
  <2> QED
    BY <2>2, <2>3
<1>6. it[{}] = 0 /\ jt[{}] = 0 /\ kt[{}] = 0
  <2>1. {} \in SUBSET S /\ {} \in SUBSET T
    OBVIOUS
  <2>2. it[{}] = 0
    BY <1>1, <2>1, TableUnfold
  <2>3. jt[{}] = 0
    BY <1>2, <2>1, TableUnfold
  <2>4. kt[{}] = 0
    BY <1>3, <2>1, TableUnfold
  <2> QED
    BY <2>2, <2>3, <2>4
\* on the part that changes
<1>7. ASSUME NEW r \in SUBSET T PROVE jt[r] = it[r] + kt[r]
  <2> DEFINE B == {s \in SUBSET T : jt[s] # it[s] + kt[s]}
  <2> SUFFICES ASSUME B # {} PROVE FALSE
    OBVIOUS
  <2>1. PICK s \in B : \A x \in s : Less(s, x) \notin B
    BY <1>0, MinimalSet
  <2>2. s \in SUBSET T /\ jt[s] # it[s] + kt[s]
    OBVIOUS
  <2>3. s # {}
    <3>1. jt[{}] = it[{}] + kt[{}]
      BY <1>6
    <3> QED
      BY <2>2, <3>1, Zenon
  <2>4. PICK x \in s : TRUE
    BY <2>3
  <2>5. Less(s, x) \in SUBSET T /\ Less(s, x) \notin B
    BY <2>1, <2>2 DEF Less
  <2>6. jt[Less(s, x)] = it[Less(s, x)] + kt[Less(s, x)]
    BY <2>5
  <2> HIDE DEF B
  <2>7. s \in SUBSET S /\ d[x] = g[x] - f[x]
    BY <2>2
  <2>8. /\ it[s] = f[x] + it[Less(s, x)] /\ jt[s] = g[x] + jt[Less(s, x)]
        /\ it[Less(s, x)] \in Int /\ jt[Less(s, x)] \in Int
        /\ f[x] \in Int /\ g[x] \in Int
    BY <1>4, <2>7
  <2>9. kt[s] = d[x] + kt[Less(s, x)] /\ kt[Less(s, x)] \in Int
    BY <1>5, <2>2
  <2> DEFINE a == it[Less(s, x)]
             b == kt[Less(s, x)]
             c == jt[Less(s, x)]
  <2>10. jt[s] = g[x] + c /\ it[s] = f[x] + a /\ kt[s] = (g[x] - f[x]) + b
         /\ c = a + b /\ a \in Int /\ b \in Int /\ f[x] \in Int /\ g[x] \in Int
    BY <2>6, <2>7, <2>8, <2>9
  <2> HIDE DEF a, b, c
  <2>11. g[x] + (a + b) = (f[x] + a) + ((g[x] - f[x]) + b)
    BY <2>10
  <2> QED
    BY <2>2, <2>10, <2>11
\* and on everything that contains it
<1>8. jt[S] = it[S] + kt[T]
  <2> DEFINE B == {s \in SUBSET S : T \subseteq s /\ jt[s] # it[s] + kt[T]}
  <2> SUFFICES ASSUME B # {} PROVE FALSE
    OBVIOUS
  <2>1. PICK s \in B : \A x \in s : Less(s, x) \notin B
    BY <1>0, MinimalSet
  <2>2. s \in SUBSET S /\ T \subseteq s /\ jt[s] # it[s] + kt[T]
    OBVIOUS
  <2>3. s # T
    BY <1>7, <2>2
  <2>4. PICK x \in s : x \notin T
    BY <2>2, <2>3
  <2>5. Less(s, x) \in SUBSET S /\ T \subseteq Less(s, x) /\ Less(s, x) \notin B
    BY <2>1, <2>2, <2>4 DEF Less
  <2>6. jt[Less(s, x)] = it[Less(s, x)] + kt[T]
    BY <2>5
  <2> HIDE DEF B
  <2>7. g[x] = f[x]
    BY <2>2, <2>4
  <2>8. /\ it[s] = f[x] + it[Less(s, x)] /\ jt[s] = g[x] + jt[Less(s, x)]
        /\ it[Less(s, x)] \in Int /\ f[x] \in Int
    BY <1>4, <2>2
  <2>9. kt[T] \in Int
    BY <1>0, <1>3, TableType
  <2> DEFINE a == it[Less(s, x)]
             b == kt[T]
             c == jt[Less(s, x)]
  <2>10. jt[s] = f[x] + c /\ it[s] = f[x] + a /\ c = a + b
         /\ a \in Int /\ b \in Int /\ f[x] \in Int
    BY <2>6, <2>7, <2>8, <2>9
  <2>12. jt[s] # it[s] + b
    BY <2>2
  <2> HIDE DEF a, b, c
  <2>11. f[x] + (a + b) = (f[x] + a) + b
    BY <2>10
  <2> QED
    BY <2>12, <2>10, <2>11
<1> QED
  BY <1>1, <1>2, <1>3, <1>8

-----------------------------------------------------------------------------
(* Links and what flows use of them *)

LEMMA FiniteLinks == IsFiniteSet(Links)
<1> DEFINE N == ((0 .. Width - 1) \X (0 .. Height - 1)) \X (0 .. Depth - 1)
           at == [n \in N |-> [x |-> n[1][1], y |-> n[1][2], z |-> n[2]]]
<1>1. IsFiniteSet(N)
  <2>1. /\ IsFiniteSet(0 .. Width - 1) /\ IsFiniteSet(0 .. Height - 1)
        /\ IsFiniteSet(0 .. Depth - 1)
    BY FS_Interval, MeshAssumption
  <2>2. IsFiniteSet((0 .. Width - 1) \X (0 .. Height - 1))
    BY <2>1, FS_Product
  <2> QED
    BY <2>1, <2>2, FS_Product
<1>2. at \in Surjection(N, Routers)
  <2>1. at \in [N -> Routers]
    BY DEF Routers
  <2>2. ASSUME NEW p \in Routers PROVE \E n \in N : at[n] = p
    <3>1. <<(<<p.x, p.y>>), p.z>> \in N
      BY DEF Routers
    <3>2. at[<<(<<p.x, p.y>>), p.z>>] = p
      BY <3>1 DEF Routers
    <3> QED
      BY <3>1, <3>2
  <2> QED
    BY <2>1, <2>2 DEF Surjection
<1>3. IsFiniteSet(Routers)
  BY <1>1, <1>2, FS_Surjection
<1>4. IsFiniteSet(Routers \X Routers)
  BY <1>3, FS_Product
<1>5. Links \subseteq Routers \X Routers
  BY DEF Links
<1> QED
  BY <1>4, <1>5, FS_Subset

\* What the flows of C use of link l on the routes rt.
Used(rt, C, l) == SumFunction([f \in C |-> Share(rt[f], f, l)])

LEMMA ShareType ==
    ASSUME NEW f \in Flows, NEW r, NEW l
    PROVE  Share(r, f, l) \in Int
  BY FlowAssumption DEF Share

LEMMA UsedType ==
    ASSUME NEW rt, NEW C \in SUBSET Flows, NEW l
    PROVE  Used(rt, C, l) \in Int
<1>1. IsFiniteSet(C)
  BY FlowAssumption, FS_Subset
<1> DEFINE u == [f \in C |-> Share(rt[f], f, l)]
<1>2. u \in [C -> Int]
  BY ShareType
<1> HIDE DEF u
<1>3. SumFunction(u) \in Int
  BY <1>1, <1>2, SumStep
<1> QED
  BY <1>3 DEF Used, u

LEMMA UsedStep ==
    ASSUME NEW rt, NEW C \in SUBSET Flows, NEW g \in C, NEW l
    PROVE  Used(rt, C, l) = Share(rt[g], g, l) + Used(rt, C \ {g}, l)
<1>1. IsFiniteSet(C)
  BY FlowAssumption, FS_Subset
<1> DEFINE u == [f \in C |-> Share(rt[f], f, l)]
<1>2. u \in [C -> Int]
  BY ShareType
<1>3. u[g] = Share(rt[g], g, l)
  OBVIOUS
<1>4. [f \in C \ {g} |-> u[f]] = [f \in C \ {g} |-> Share(rt[f], f, l)]
  OBVIOUS
<1> HIDE DEF u
<1>5. SumFunction(u) = u[g] + SumFunction([f \in C \ {g} |-> u[f]])
  BY <1>1, <1>2, SumStep
<1> QED
  BY <1>3, <1>4, <1>5 DEF Used, u

LEMMA UsedSame ==
    ASSUME NEW rt, NEW st, NEW C, NEW l,
           \A f \in C : Share(rt[f], f, l) = Share(st[f], f, l)
    PROVE  Used(rt, C, l) = Used(st, C, l)
<1>1. [f \in C |-> Share(rt[f], f, l)] = [f \in C |-> Share(st[f], f, l)]
  OBVIOUS
<1> QED
  BY <1>1 DEF Used

-----------------------------------------------------------------------------
(* The bandwidth used on the links *)

\* The flows whose routes are counted.
Counted == Flows \ ({walk.flow} \cup (IF phase = "routing" THEN pending ELSE {}))

LEMMA UsageUnfold ==
    UsageMatchesRoutes <=> \A l \in Links : usage[l] = Used(routes, Counted, l)
  BY DEF UsageMatchesRoutes, Used, Counted

UsageInv == TypeOK /\ PhaseInv /\ UsageMatchesRoutes

\* The phases do not depend on how deep the mesh is.
LEMMA NextPhaseInv ==
    ASSUME TypeOK, PhaseInv, [Next]_vars
    PROVE  PhaseInv'
<1> USE DEF Walking, FlowsOf, Moved
<1>0. NoWalk.flow \notin Flows
  BY NoWalkFlow
<1>1. ASSUME NEW f \in Flows, RouteFlow(f) PROVE PhaseInv'
  BY <1>1 DEF RouteFlow, StartWalk, PhaseInv
<1>2. ASSUME NEW f \in Flows, ReRouteFlow(f) PROVE PhaseInv'
  BY <1>2 DEF ReRouteFlow, StartWalk, PhaseInv
<1>3. CASE Hop
  <2>1. walk'.flow = walk.flow
    BY <1>3 DEF Hop, TypeOK
  <2> QED
    BY <1>3, <2>1 DEF Hop, PhaseInv
<1>4. CASE FinishFlow
  BY <1>4 DEF FinishFlow, PhaseInv
<1>5. CASE ComputeCosts
  BY <1>5 DEF ComputeCosts, PhaseInv
<1>6. CASE ProposeMove
  <2>1. PICK b \in Logical, to \in Routers :
            /\ to # loc[b] /\ loc' = apply_move_blocks(b, to)
            /\ pending' = FlowsOf({b} \cup {a \in Logical : loc[a] = to})
    BY <1>6 DEF ProposeMove
  <2>2. phase = "idle" /\ phase' = "rerouting" /\ UNCHANGED <<walk, undo>>
    BY <1>6 DEF ProposeMove
  <2>3. walk = NoWalk /\ undo = loc /\ loc \in [Logical -> Routers]
    BY <2>2 DEF PhaseInv, TypeOK, Placements
  <2>4. Moved' = {b} \cup {a \in Logical : loc[a] = to}
    BY <2>1, <2>2, <2>3 DEF apply_move_blocks
  <2>5. pending' \subseteq FlowsOf(Moved)'
    BY <2>1, <2>4
  <2> QED
    BY <2>2, <2>3, <2>5 DEF PhaseInv
<1>7. CASE ProposeCosts
  BY <1>7 DEF ProposeCosts, PhaseInv
<1>8. CASE Commit
  BY <1>8 DEF Commit, PhaseInv
<1>9. CASE Revert
  BY <1>9 DEF Revert, PhaseInv
<1>10. CASE EndAnneal
  BY <1>10 DEF EndAnneal, restore_checkpoint, PhaseInv
<1>11. CASE StartMainAnneal
  BY <1>11 DEF StartMainAnneal, PhaseInv
<1>12. CASE EndPlacement
  BY <1>12 DEF EndPlacement, PhaseInv
<1>13. CASE CycleFound
  BY <1>13 DEF CycleFound, PhaseInv
<1>14. CASE UNCHANGED vars
  BY <1>14 DEF vars, PhaseInv
<1> QED
  BY <1>1, <1>2, <1>3, <1>4, <1>5, <1>6, <1>7, <1>8, <1>9, <1>10, <1>11,
     <1>12, <1>13, <1>14 DEF Next

\* Steps that change no usage, no counted flow and no route of one.
LEMMA UsageKept ==
    ASSUME UsageMatchesRoutes, usage' = usage, Counted' = Counted,
           \A f \in Counted : routes'[f] = routes[f]
    PROVE  UsageMatchesRoutes'
<1>1. ASSUME NEW l \in Links PROVE usage'[l] = Used(routes', Counted', l)
  <2>1. usage[l] = Used(routes, Counted, l)
    BY UsageUnfold
  <2>2. Used(routes, Counted, l) = Used(routes', Counted, l)
    BY UsedSame
  <2> QED
    BY <2>1, <2>2
<1> QED
  BY <1>1 DEF UsageMatchesRoutes, Used, Counted

LEMMA ReRouteUsage ==
    ASSUME UsageInv, NEW f \in Flows, ReRouteFlow(f)
    PROVE  UsageMatchesRoutes'
<1>1. /\ phase = "rerouting" /\ walk = NoWalk /\ phase' = phase
      /\ usage' = [l \in Links |-> usage[l] + (-1) * Share(routes[f], f, l)]
      /\ routes' = [routes EXCEPT ![f] = <<>>]
      /\ walk'.flow = f
  BY DEF ReRouteFlow, StartWalk, update_traffic_flow_link_usage
<1>2. Counted = Flows /\ Counted' = Flows \ {f}
  BY <1>1, NoWalkFlow DEF Counted
<1>3. ASSUME NEW l \in Links PROVE usage'[l] = Used(routes', Counted', l)
  <2>1. usage[l] = Used(routes, Flows, l)
    BY <1>2, UsageUnfold DEF UsageInv
  <2>2. Used(routes, Flows, l) = Share(routes[f], f, l) + Used(routes, Flows \ {f}, l)
    BY UsedStep
  <2>3. Used(routes, Flows \ {f}, l) = Used(routes', Flows \ {f}, l)
    <3>1. \A g \in Flows \ {f} : routes'[g] = routes[g]
      BY <1>1 DEF UsageInv, TypeOK
    <3> QED
      BY <3>1, UsedSame
  <2>4. Share(routes[f], f, l) \in Int /\ Used(routes, Flows \ {f}, l) \in Int
    BY ShareType, UsedType
  <2>5. usage'[l] = usage[l] + (-1) * Share(routes[f], f, l)
    BY <1>1
  <2>6. usage'[l] = Used(routes, Flows \ {f}, l)
    BY <2>1, <2>2, <2>4, <2>5
  <2> QED
    BY <1>2, <2>3, <2>6
<1> QED
  BY <1>3 DEF UsageMatchesRoutes, Used, Counted

LEMMA FinishUsage ==
    ASSUME UsageInv, FinishFlow
    PROVE  UsageMatchesRoutes'
<1> DEFINE f == walk.flow
<1>1. /\ walk # NoWalk /\ walk' = NoWalk /\ UNCHANGED <<phase, routes, pending>>
      /\ usage' = [l \in Links |-> usage[l] + 1 * Share(routes[f], f, l)]
  BY DEF FinishFlow, update_traffic_flow_link_usage
<1>2. f \in Flows /\ f \notin pending
  BY <1>1 DEF UsageInv, TypeOK, PhaseInv
<1>3. f \in Counted' /\ Counted = Counted' \ {f} /\ Counted' \in SUBSET Flows
  BY <1>1, <1>2, NoWalkFlow DEF Counted
<1>4. ASSUME NEW l \in Links PROVE usage'[l] = Used(routes', Counted', l)
  <2>1. usage[l] = Used(routes, Counted, l)
    BY UsageUnfold DEF UsageInv
  <2>2. Used(routes, Counted', l) = Share(routes[f], f, l) + Used(routes, Counted, l)
    <3>1. PICK g : g = f
      OBVIOUS
    <3>2. PICK C \in SUBSET Flows : C = Counted'
      BY <1>3, Zenon
    <3>3. g \in C /\ Counted = C \ {g}
      BY <1>3, <3>1, <3>2, Zenon
    <3>4. Used(routes, C, l) = Share(routes[g], g, l) + Used(routes, C \ {g}, l)
      <4>1. g \in C
        BY <3>3, Zenon
      <4> QED
        BY <4>1, UsedStep, Zenon
    <3> QED
      BY <3>1, <3>2, <3>3, <3>4, Zenon
  <2>3. Share(routes[f], f, l) \in Int /\ Used(routes, Counted, l) \in Int
    <3>1. Counted \in SUBSET Flows
      BY <1>3
    <3> QED
      BY <1>2, <3>1, ShareType, UsedType
  <2>4. usage'[l] = usage[l] + 1 * Share(routes[f], f, l)
    BY <1>1
  <2> QED
    BY <1>1, <2>1, <2>2, <2>3, <2>4
<1> QED
  BY <1>4 DEF UsageMatchesRoutes, Used, Counted

\* Swapping the backups in moves the sums by the differences they make.
LEMMA RevertUsage ==
    ASSUME UsageInv, Revert
    PROVE  UsageMatchesRoutes'
<1> DEFINE T == FlowsOf(Moved)
<1>1. /\ phase = "proposed" /\ phase' = "idle" /\ UNCHANGED <<walk, pending>>
      /\ usage' = [l \in Links |->
                       usage[l] + SumFunction([f \in T |->
                           Share(backup[f], f, l) - Share(routes[f], f, l)])]
      /\ routes' = [f \in Flows |-> IF f \in T THEN backup[f] ELSE routes[f]]
  BY DEF Revert
<1>2. Counted = Flows /\ Counted' = Flows
  BY <1>1, NoWalkFlow DEF UsageInv, PhaseInv, Walking, Counted
<1>3. T \in SUBSET Flows
  BY DEF FlowsOf
<1>4. ASSUME NEW l \in Links PROVE usage'[l] = Used(routes', Counted', l)
  <2> DEFINE u == [f \in Flows |-> Share(routes[f], f, l)]
             v == [f \in Flows |-> Share(routes'[f], f, l)]
             d == [f \in T |-> Share(backup[f], f, l) - Share(routes[f], f, l)]
  <2> HIDE DEF T
  <2>1. u \in [Flows -> Int] /\ v \in [Flows -> Int]
    BY ShareType
  <2>2. d \in [T -> Int]
    BY <1>3, ShareType
  <2>3. \A f \in T : d[f] = v[f] - u[f]
    BY <1>1, <1>3
  <2>4. \A f \in Flows : f \notin T => v[f] = u[f]
    BY <1>1
  <2>5. usage'[l] = usage[l] + SumFunction(d)
    BY <1>1
  <2>6. usage[l] = SumFunction(u)
    BY <1>2, UsageUnfold DEF UsageInv, Used
  <2>7. Used(routes', Counted', l) = SumFunction(v)
    BY <1>2 DEF Used
  <2>9. IsFiniteSet(Flows)
    BY FlowAssumption
  <2> HIDE DEF u, v, d
  <2>8. SumFunction(v) = SumFunction(u) + SumFunction(d)
    BY ONLY <1>3, <2>1, <2>2, <2>3, <2>4, <2>9, SumUpdate
  <2> QED
    BY <2>5, <2>6, <2>7, <2>8
<1> QED
  BY <1>4 DEF UsageMatchesRoutes, Used, Counted

LEMMA InitUsageInv == Init => UsageInv
<1> SUFFICES ASSUME Init PROVE UsageInv
  OBVIOUS
<1>1. TypeOK
  BY InitTypeOK
<1>2. PhaseInv
  BY DEF Init, PhaseInv, Walking
<1>3. Counted = {}
  BY DEF Init, Counted
<1>4. ASSUME NEW l \in Links PROVE usage[l] = Used(routes, Counted, l)
  <2>1. DOMAIN [f \in Counted |-> Share(routes[f], f, l)] = {}
    BY <1>3
  <2>2. Used(routes, Counted, l) = 0
    BY <2>1, SumEmpty DEF Used
  <2> QED
    BY <2>2 DEF Init
<1> QED
  BY <1>1, <1>2, <1>4, UsageUnfold DEF UsageInv

LEMMA NextUsageInv ==
    ASSUME UsageInv, [Next]_vars
    PROVE  UsageInv'
<1>1. TypeOK' /\ PhaseInv'
  BY NextTypeOK, NextPhaseInv DEF UsageInv
<1> SUFFICES UsageMatchesRoutes'
  BY <1>1 DEF UsageInv
<1>2. ASSUME NEW f \in Flows, RouteFlow(f) PROVE UsageMatchesRoutes'
  <2>1. /\ phase = "routing" /\ phase' = phase /\ walk = NoWalk /\ walk'.flow = f
        /\ f \in pending /\ pending' = pending \ {f} /\ usage' = usage
        /\ routes' = [routes EXCEPT ![f] = <<>>]
    BY <1>2 DEF RouteFlow, StartWalk
  <2>2. Counted' = Counted /\ f \notin Counted
    BY <2>1, NoWalkFlow DEF Counted
  <2>3. \A g \in Counted : routes'[g] = routes[g]
    BY <2>1, <2>2 DEF UsageInv, TypeOK, Counted
  <2> QED
    BY <2>1, <2>2, <2>3, UsageKept DEF UsageInv
<1>3. CASE Hop
  <2>1. /\ walk'.flow = walk.flow /\ UNCHANGED <<phase, pending, usage>>
        /\ \A g \in Flows \ {walk.flow} : routes'[g] = routes[g]
    BY <1>3 DEF Hop, UsageInv, TypeOK
  <2>2. Counted' = Counted /\ walk.flow \notin Counted
    BY <2>1 DEF Counted
  <2>3. \A g \in Counted : routes'[g] = routes[g]
    BY <2>1, <2>2 DEF Counted
  <2> QED
    BY <2>1, <2>2, <2>3, UsageKept DEF UsageInv
<1>4. CASE EndAnneal
  <2>1. CASE restore_checkpoint
    <3>1. Counted' = {}
      BY <2>1 DEF restore_checkpoint, Counted
    <3>2. ASSUME NEW l \in Links PROVE usage'[l] = Used(routes', Counted', l)
      <4>1. DOMAIN [f \in Counted' |-> Share(routes'[f], f, l)] = {}
        BY <3>1
      <4>2. Used(routes', Counted', l) = 0
        BY <4>1, SumEmpty DEF Used
      <4> QED
        BY <2>1, <4>2 DEF restore_checkpoint
    <3> QED
      BY <3>2 DEF UsageMatchesRoutes, Used, Counted
  <2>2. CASE UNCHANGED <<loc, undo, usage, pending, phase>>
    <3>1. UNCHANGED <<usage, routes, Counted>>
      BY <1>4, <2>2 DEF EndAnneal, Counted
    <3> QED
      BY <3>1, UsageKept DEF UsageInv
  <2> QED
    BY <1>4, <2>1, <2>2 DEF EndAnneal
<1>5. ASSUME UNCHANGED <<usage, routes, walk>>,
             \/ phase = "routing" /\ pending = {} /\ phase' = "idle"
             \/ phase # "routing" /\ phase' # "routing"
             \/ UNCHANGED <<phase, pending>>
      PROVE  UsageMatchesRoutes'
  <2>1. Counted' = Counted
    BY <1>5 DEF Counted
  <2> QED
    BY <1>5, <2>1, UsageKept DEF UsageInv
<1>6. CASE ComputeCosts
  BY <1>5, <1>6 DEF ComputeCosts
<1>7. CASE ProposeMove
  BY <1>5, <1>7 DEF ProposeMove
<1>8. CASE ProposeCosts
  BY <1>5, <1>8 DEF ProposeCosts
<1>9. CASE Commit
  BY <1>5, <1>9 DEF Commit
<1>10. CASE StartMainAnneal
  BY <1>5, <1>10 DEF StartMainAnneal
<1>11. CASE EndPlacement
  BY <1>5, <1>11 DEF EndPlacement
<1>12. CASE CycleFound
  BY <1>5, <1>12 DEF CycleFound
<1>13. CASE UNCHANGED vars
  BY <1>5, <1>13 DEF vars
<1> QED
  BY <1>2, <1>3, <1>4, <1>6, <1>7, <1>8, <1>9, <1>10, <1>11, <1>12, <1>13,
     ReRouteUsage, FinishUsage, RevertUsage DEF Next

\* The increments and decrements of the link usages never drift from the routes:
\* not while a flow is routed again, not after a revert, a commit or a restored
\* checkpoint.
THEOREM UsageIsOfRoutes == Spec => []UsageMatchesRoutes
<1>1. Init => UsageInv
  BY InitUsageInv
<1>2. UsageInv /\ [Next]_vars => UsageInv'
  BY NextUsageInv
<1>3. UsageInv => UsageMatchesRoutes
  BY DEF UsageInv
<1> QED
  BY <1>1, <1>2, <1>3, PTL DEF Spec

-----------------------------------------------------------------------------
(* The costs *)

Proposing == phase \in {"rerouting", "proposed"}

\* The routes of the last accepted placement: those a revert would bring back.
OldRoutes == [f \in Flows |-> IF Proposing /\ f \in FlowsOf(Moved) \ pending
                              THEN backup[f] ELSE routes[f]]

FlowCosts(rt) == [f \in Flows |-> FlowCost(f, rt[f])]

LinkCosts(rt) == [l \in Links |-> Positive(Used(rt, Flows, l) - Capacity)]

RouteCosts(rt) == [flows |-> FlowCosts(rt), links |-> LinkCosts(rt),
                   total |-> [aggregate  |-> SumFunction(FlowCosts(rt)),
                              congestion |-> SumFunction(LinkCosts(rt))]]

\* The costs are those of the last accepted routes.
OldCosts == phase # "routing" => costs = RouteCosts(OldRoutes)

\* A link that is not remembered is used by the new route of a moved flow
\* exactly when it was used by the old one.
AffectedInv ==
    /\ phase = "rerouting" /\ walk # NoWalk => walk.flow \in FlowsOf(Moved)
    /\ Proposing =>
           \A f \in FlowsOf(Moved) \ (pending \cup {walk.flow}) :
               \A l \in Links \ affectedLinks :
                   Share(backup[f], f, l) = Share(routes[f], f, l)

NewFlowCosts == [f \in FlowsOf(Moved) |-> FlowCost(f, routes[f])]

NewLinkCosts == [l \in affectedLinks |-> Positive(usage[l] - Capacity)]

\* A proposal holds the costs of the moved flows and the affected links.
ProposedInv ==
    phase = "proposed" =>
        /\ proposed.flows = NewFlowCosts
        /\ proposed.links = NewLinkCosts
        /\ proposed.delta.aggregate =
               SumFunction([f \in FlowsOf(Moved) |->
                                NewFlowCosts[f] - costs.flows[f]])
        /\ proposed.delta.congestion =
               SumFunction([l \in affectedLinks |->
                                NewLinkCosts[l] - costs.links[l]])

CostInv == UsageInv /\ OldCosts /\ AffectedInv /\ ProposedInv

LEMMA CostTypes ==
    ASSUME NEW rt \in [Flows -> Seq(Links)]
    PROVE  /\ FlowCosts(rt) \in [Flows -> Int]
           /\ LinkCosts(rt) \in [Links -> Int]
<1>1. ASSUME NEW f \in Flows PROVE FlowCost(f, rt[f]) \in Int
  <2>1. Bandwidth[f] \in Nat /\ Len(rt[f]) \in Nat
    BY FlowAssumption
  <2> QED
    BY <2>1 DEF FlowCost
<1>2. ASSUME NEW l \in Links PROVE Positive(Used(rt, Flows, l) - Capacity) \in Int
  BY UsedType, FlowAssumption DEF Positive
<1> QED
  BY <1>1, <1>2 DEF FlowCosts, LinkCosts

LEMMA TotalTypes ==
    ASSUME NEW rt \in [Flows -> Seq(Links)]
    PROVE  /\ SumFunction(FlowCosts(rt)) \in Int
           /\ SumFunction(LinkCosts(rt)) \in Int
<1>1. IsFiniteSet(Flows) /\ IsFiniteSet(Links)
  BY FlowAssumption, FiniteLinks
<1> QED
  BY <1>1, CostTypes, SumStep

\* When every flow is routed, the costs from scratch are those of the routes.
LEMMA FromScratch ==
    ASSUME UsageMatchesRoutes, Counted = Flows
    PROVE  CostsFromScratch = RouteCosts(routes)
<1>1. \A l \in Links : usage[l] = Used(routes, Flows, l)
  BY UsageUnfold
<1>2. [l \in Links |-> get_link_congestion_cost(l)] = LinkCosts(routes)
  BY <1>1 DEF get_link_congestion_cost, LinkCosts
<1>3. [f \in Flows |-> FlowCost(f, routes[f])] = FlowCosts(routes)
  BY DEF FlowCosts
<1> QED
  BY <1>2, <1>3 DEF CostsFromScratch, RouteCosts

\* No flow is being routed: all are counted.
LEMMA AllCounted ==
    ASSUME PhaseInv, walk = NoWalk, phase = "routing" => pending = {}
    PROVE  Counted = Flows
  BY NoWalkFlow DEF Counted

\* Between moves the last accepted routes are the routes.
LEMMA AcceptedRoutes ==
    ASSUME TypeOK, ~Proposing
    PROVE  OldRoutes = routes
  BY DEF OldRoutes, TypeOK

LEMMA OldRoutesType == TypeOK => OldRoutes \in [Flows -> Seq(Links)]
  BY DEF OldRoutes, TypeOK

\* Steps that leave the accepted routes and their costs alone.
LEMMA OldCostsKept ==
    ASSUME OldCosts, costs' = costs, OldRoutes' = OldRoutes,
           phase' = "routing" \/ phase # "routing"
    PROVE  OldCosts'
<1>1. RouteCosts(OldRoutes)' = RouteCosts(OldRoutes')
  BY DEF RouteCosts, FlowCosts, LinkCosts, Used
<1> QED
  BY <1>1 DEF OldCosts

LEMMA ReRouteCost ==
    ASSUME CostInv, TypeOK', NEW f \in Flows, ReRouteFlow(f)
    PROVE  OldCosts' /\ AffectedInv' /\ ProposedInv'
<1>1. /\ phase = "rerouting" /\ walk = NoWalk /\ walk'.flow = f
      /\ f \in pending /\ pending' = pending \ {f}
      /\ routes' = [routes EXCEPT ![f] = <<>>]
      /\ backup' = [backup EXCEPT ![f] = routes[f]]
      /\ UNCHANGED <<phase, loc, undo, costs, affectedLinks>>
  BY DEF ReRouteFlow, StartWalk
<1>2. FlowsOf(Moved)' = FlowsOf(Moved) /\ f \in FlowsOf(Moved)
  BY <1>1 DEF FlowsOf, Moved, CostInv, UsageInv, PhaseInv
<1>3. /\ \A g \in Flows \ {f} : routes'[g] = routes[g] /\ backup'[g] = backup[g]
      /\ backup'[f] = routes[f]
  BY <1>1 DEF CostInv, UsageInv, TypeOK
<1>4. OldRoutes' = OldRoutes
  <2>1. ASSUME NEW g \in Flows
        PROVE  (IF g \in FlowsOf(Moved) \ pending' THEN backup'[g] ELSE routes'[g])
                 = (IF g \in FlowsOf(Moved) \ pending THEN backup[g] ELSE routes[g])
    <3>1. CASE g = f
      BY <1>1, <1>2, <1>3, <3>1
    <3>2. CASE g # f
      <4>1. g \in pending' <=> g \in pending
        BY <1>1, <3>2
      <4>2. routes'[g] = routes[g] /\ backup'[g] = backup[g]
        BY <1>3, <3>2
      <4> QED
        BY <4>1, <4>2
    <3> QED
      BY <3>1, <3>2
  <2>2. Proposing /\ Proposing'
    BY <1>1 DEF Proposing
  <2>3. OldRoutes = [g \in Flows |-> IF g \in FlowsOf(Moved) \ pending
                                     THEN backup[g] ELSE routes[g]]
    BY <2>2 DEF OldRoutes
  <2>4. OldRoutes' = [g \in Flows |-> IF g \in FlowsOf(Moved) \ pending'
                                      THEN backup'[g] ELSE routes'[g]]
    BY <1>2, <2>2 DEF OldRoutes
  <2> QED
    BY <2>1, <2>3, <2>4
<1>5. OldCosts'
  BY <1>1, <1>4, OldCostsKept DEF CostInv
<1>6. AffectedInv'
  <2>1. ASSUME NEW g \in FlowsOf(Moved) \ (pending' \cup {walk'.flow})
        PROVE  /\ g \in FlowsOf(Moved) \ (pending \cup {walk.flow})
               /\ routes'[g] = routes[g] /\ backup'[g] = backup[g]
    <3>1. g \in Flows /\ g # f
      BY <1>1 DEF FlowsOf
    <3> QED
      BY <1>1, <1>3, <3>1, NoWalkFlow
  <2>2. Proposing
    BY <1>1 DEF Proposing
  <2>3. \A g \in FlowsOf(Moved) \ (pending' \cup {walk'.flow}) :
            \A l \in Links \ affectedLinks' :
                Share(backup'[g], g, l) = Share(routes'[g], g, l)
    BY <1>1, <2>1, <2>2 DEF CostInv, AffectedInv
  <2> QED
    BY <1>1, <1>2, <2>3 DEF AffectedInv, Share
<1> QED
  BY <1>1, <1>5, <1>6 DEF ProposedInv

LEMMA HopCost ==
    ASSUME CostInv, Hop
    PROVE  OldCosts' /\ AffectedInv' /\ ProposedInv'
<1> DEFINE f == walk.flow
<1>1. /\ phase \in {"routing", "rerouting"} /\ walk # NoWalk /\ walk'.flow = f
      /\ f \in Flows /\ f \notin pending
      /\ \A g \in Flows \ {f} : routes'[g] = routes[g]
      /\ UNCHANGED <<phase, loc, undo, costs, affectedLinks, backup, pending>>
  BY DEF Hop, CostInv, UsageInv, TypeOK, PhaseInv
<1>2. FlowsOf(Moved)' = FlowsOf(Moved)
  BY <1>1 DEF FlowsOf, Moved
<1>3. OldCosts'
  <2>1. CASE phase = "routing"
    BY <1>1, <2>1 DEF OldCosts
  <2>2. CASE phase = "rerouting"
    <3>1. f \in FlowsOf(Moved)
      BY <1>1, <2>2 DEF CostInv, AffectedInv
    <3>2. OldRoutes' = OldRoutes
      BY <1>1, <1>2, <2>2, <3>1 DEF OldRoutes, Proposing
    <3> QED
      BY <1>1, <2>2, <3>2, OldCostsKept DEF CostInv
  <2> QED
    BY <1>1, <2>1, <2>2
<1>4. AffectedInv'
  <2>1. ASSUME phase = "rerouting",
               NEW g \in FlowsOf(Moved) \ (pending \cup {f}),
               NEW l \in Links \ affectedLinks
        PROVE  Share(backup[g], g, l) = Share(routes'[g], g, l)
    <3>1. g \in Flows \ {f}
      BY DEF FlowsOf
    <3>2. Share(backup[g], g, l) = Share(routes[g], g, l)
      BY <2>1 DEF CostInv, AffectedInv, Proposing
    <3> QED
      BY <1>1, <3>1, <3>2
  <2>2. phase = "rerouting" => f \in FlowsOf(Moved)
    BY <1>1 DEF CostInv, AffectedInv
  <2> QED
    BY <1>1, <1>2, <2>1, <2>2 DEF AffectedInv, Proposing, Share
<1> QED
  BY <1>1, <1>3, <1>4 DEF ProposedInv

LEMMA FinishCost ==
    ASSUME CostInv, FinishFlow
    PROVE  OldCosts' /\ AffectedInv' /\ ProposedInv'
<1> DEFINE f == walk.flow
           diff == find_affected_links_by_flow_reroute(backup[f], routes[f])
<1>1. /\ phase \in {"routing", "rerouting"} /\ walk # NoWalk /\ walk' = NoWalk
      /\ affectedLinks' = IF phase = "routing" THEN affectedLinks
                          ELSE affectedLinks \cup diff
      /\ UNCHANGED <<phase, loc, undo, costs, backup, routes, pending>>
  BY DEF FinishFlow
<1>2. FlowsOf(Moved)' = FlowsOf(Moved)
  BY <1>1 DEF FlowsOf, Moved
<1>3. OldRoutes' = OldRoutes
  BY <1>1, <1>2 DEF OldRoutes, Proposing
<1>4. OldCosts'
  BY <1>1, <1>3, OldCostsKept DEF CostInv, OldCosts
<1>5. ASSUME phase = "rerouting",
             NEW g \in FlowsOf(Moved) \ pending, NEW l \in Links \ affectedLinks'
      PROVE  Share(backup[g], g, l) = Share(routes[g], g, l)
  <2>1. CASE g = f
    <3>1. l \notin diff
      BY <1>1, <1>5
    <3>2. l \in LinksOf(backup[f]) <=> l \in LinksOf(routes[f])
      BY <3>1 DEF find_affected_links_by_flow_reroute
    <3> QED
      BY <2>1, <3>2 DEF Share
  <2>2. CASE g # f
    <3>1. l \in Links \ affectedLinks
      BY <1>1, <1>5
    <3> QED
      BY <1>5, <2>2, <3>1 DEF CostInv, AffectedInv, Proposing
  <2> QED
    BY <2>1, <2>2
<1>6. AffectedInv'
  BY <1>1, <1>2, <1>5 DEF AffectedInv, Proposing, Share
<1> QED
  BY <1>1, <1>4, <1>6 DEF ProposedInv

\* A proposed move: no flow has been routed again yet.
LEMMA ProposeMoveCost ==
    ASSUME CostInv, PhaseInv', ProposeMove
    PROVE  OldCosts' /\ AffectedInv' /\ ProposedInv'
<1>1. PICK b \in Logical, to \in Routers :
          /\ to # loc[b] /\ loc' = apply_move_blocks(b, to)
          /\ pending' = FlowsOf({b} \cup {a \in Logical : loc[a] = to})
  BY DEF ProposeMove
<1>2. /\ phase = "idle" /\ phase' = "rerouting"
      /\ UNCHANGED <<walk, undo, routes, costs>>
  BY DEF ProposeMove
<1>3. walk = NoWalk /\ undo = loc /\ loc \in [Logical -> Routers]
  BY <1>2 DEF CostInv, UsageInv, PhaseInv, Walking, TypeOK, Placements
<1>4. Moved' = {b} \cup {a \in Logical : loc[a] = to}
  BY <1>1, <1>2, <1>3 DEF Moved, apply_move_blocks
<1>5. pending' = FlowsOf(Moved)'
  BY <1>1, <1>4 DEF FlowsOf
<1>6. OldRoutes' = OldRoutes
  BY <1>2, <1>5 DEF OldRoutes, Proposing
<1>7. OldCosts'
  BY <1>2, <1>6, OldCostsKept DEF CostInv
<1>8. AffectedInv'
  BY <1>2, <1>3, <1>5 DEF AffectedInv
<1> QED
  BY <1>2, <1>7, <1>8 DEF ProposedInv

LEMMA ProposeCostsCost ==
    ASSUME CostInv, ProposeCosts
    PROVE  OldCosts' /\ AffectedInv' /\ ProposedInv'
<1>1. /\ phase = "rerouting" /\ phase' = "proposed"
      /\ UNCHANGED <<walk, loc, undo, routes, backup, usage, pending,
                     affectedLinks, costs>>
  BY DEF ProposeCosts
<1>2. FlowsOf(Moved)' = FlowsOf(Moved)
  BY <1>1 DEF FlowsOf, Moved
<1>3. OldRoutes' = OldRoutes
  BY <1>1, <1>2 DEF OldRoutes, Proposing
<1>4. OldCosts'
  BY <1>1, <1>3, OldCostsKept DEF CostInv
<1>5. AffectedInv'
  BY <1>1, <1>2 DEF CostInv, AffectedInv, Proposing, Share
<1>6. NewFlowCosts' = NewFlowCosts /\ NewLinkCosts' = NewLinkCosts
  BY <1>1, <1>2 DEF NewFlowCosts, NewLinkCosts, FlowCost, Positive
<1>7. proposed' =
          [flows |-> NewFlowCosts, links |-> NewLinkCosts,
           delta |-> [aggregate  |-> SumFunction([f \in DOMAIN NewFlowCosts |->
                                             NewFlowCosts[f] - costs.flows[f]]),
                      congestion |-> SumFunction([l \in DOMAIN NewLinkCosts |->
                                             NewLinkCosts[l] - costs.links[l]])]]
  BY DEF ProposeCosts, NewFlowCosts, NewLinkCosts, get_link_congestion_cost
<1>8. DOMAIN NewFlowCosts = FlowsOf(Moved) /\ DOMAIN NewLinkCosts = affectedLinks
  BY DEF NewFlowCosts, NewLinkCosts
<1>9. ProposedInv'
  BY <1>1, <1>2, <1>6, <1>7, <1>8 DEF ProposedInv
<1> QED
  BY <1>4, <1>5, <1>9

\* An accepted move: what the increments add up to is what the new routes cost.
LEMMA CommitCost ==
    ASSUME CostInv, Commit
    PROVE  costs' = RouteCosts(routes)
<1> DEFINE T == FlowsOf(Moved)
           A == affectedLinks
<1>1. /\ phase = "proposed" /\ routes' = routes
      /\ costs' = [flows |-> [f \in Flows |-> IF f \in DOMAIN proposed.flows
                                  THEN proposed.flows[f] ELSE costs.flows[f]],
                   links |-> [l \in Links |-> IF l \in A
                                  THEN proposed.links[l] ELSE costs.links[l]],
                   total |-> [aggregate  |-> costs.total.aggregate
                                                 + proposed.delta.aggregate,
                              congestion |-> costs.total.congestion
                                                 + proposed.delta.congestion]]
  BY DEF Commit
<1>2. walk = NoWalk /\ pending = {} /\ Counted = Flows
  BY <1>1, AllCounted DEF CostInv, UsageInv, PhaseInv, Walking
<1>3. T \in SUBSET Flows /\ A \in SUBSET Links
  BY DEF FlowsOf, CostInv, UsageInv, TypeOK
<1>4. costs = RouteCosts(OldRoutes)
  BY <1>1 DEF CostInv, OldCosts
<1>5. \A f \in Flows : OldRoutes[f] = IF f \in T THEN backup[f] ELSE routes[f]
  BY <1>1, <1>2 DEF OldRoutes, Proposing
<1>6. /\ routes \in [Flows -> Seq(Links)] /\ OldRoutes \in [Flows -> Seq(Links)]
  BY OldRoutesType DEF CostInv, UsageInv, TypeOK
<1>7. /\ proposed.flows = NewFlowCosts /\ proposed.links = NewLinkCosts
      /\ proposed.delta.aggregate =
             SumFunction([f \in T |-> NewFlowCosts[f] - costs.flows[f]])
      /\ proposed.delta.congestion =
             SumFunction([l \in A |-> NewLinkCosts[l] - costs.links[l]])
  BY <1>1 DEF CostInv, ProposedInv
<1> DEFINE fo == FlowCosts(OldRoutes)
           fn == FlowCosts(routes)
           lo == LinkCosts(OldRoutes)
           ln == LinkCosts(routes)
<1>8. costs.flows = fo /\ costs.links = lo
      /\ costs.total.aggregate = SumFunction(fo)
      /\ costs.total.congestion = SumFunction(lo)
  BY <1>4 DEF RouteCosts
<1>9. /\ \A f \in T : NewFlowCosts[f] = fn[f]
      /\ \A f \in Flows : f \notin T => fn[f] = fo[f]
  BY <1>3, <1>5 DEF NewFlowCosts, FlowCosts
<1>10. \A l \in A : NewLinkCosts[l] = ln[l]
  <2>1. \A l \in Links : usage[l] = Used(routes, Flows, l)
    BY <1>2, UsageUnfold DEF CostInv, UsageInv
  <2> QED
    BY <1>3, <2>1 DEF NewLinkCosts, LinkCosts
<1>11. \A l \in Links : l \notin A => ln[l] = lo[l]
  <2>1. ASSUME NEW l \in Links, l \notin A
        PROVE  Used(OldRoutes, Flows, l) = Used(routes, Flows, l)
    <3>1. ASSUME NEW f \in Flows
          PROVE  Share(OldRoutes[f], f, l) = Share(routes[f], f, l)
      <4>1. CASE f \in T
        <5>1. f \in FlowsOf(Moved) \ (pending \cup {walk.flow})
          BY <1>2, <4>1, NoWalkFlow
        <5> QED
          BY <1>1, <1>5, <2>1, <4>1, <5>1 DEF CostInv, AffectedInv, Proposing
      <4>2. CASE f \notin T
        BY <1>5, <4>2
      <4> QED
        BY <4>1, <4>2
    <3> QED
      BY <3>1, UsedSame
  <2> QED
    BY <2>1 DEF LinkCosts
<1>12. IsFiniteSet(Flows) /\ IsFiniteSet(Links)
  BY FlowAssumption, FiniteLinks
<1>13. /\ fo \in [Flows -> Int] /\ fn \in [Flows -> Int]
       /\ lo \in [Links -> Int] /\ ln \in [Links -> Int]
  BY <1>6, CostTypes
<1> DEFINE fd == [f \in T |-> NewFlowCosts[f] - costs.flows[f]]
           ld == [l \in A |-> NewLinkCosts[l] - costs.links[l]]
<1> HIDE DEF T, A, fo, fn, lo, ln
<1>14. /\ fd \in [T -> Int] /\ \A f \in T : fd[f] = fn[f] - fo[f]
  BY <1>3, <1>8, <1>9, <1>13
<1>15. /\ ld \in [A -> Int] /\ \A l \in A : ld[l] = ln[l] - lo[l]
  BY <1>3, <1>8, <1>10, <1>13
<1> HIDE DEF fd, ld
<1>16. SumFunction(fn) = SumFunction(fo) + SumFunction(fd)
  <2>1. fo \in [Flows -> Int] /\ fn \in [Flows -> Int]
    BY <1>13
  <2>2. fd \in [T -> Int]
    BY <1>14
  <2>3. \A x \in T : fd[x] = fn[x] - fo[x]
    BY <1>14
  <2>4. \A x \in Flows : x \notin T => fn[x] = fo[x]
    BY <1>9
  <2>5. IsFiniteSet(Flows)
    BY <1>12
  <2> QED
    BY ONLY <1>3, <2>1, <2>2, <2>3, <2>4, <2>5, SumUpdate
<1>17. SumFunction(ln) = SumFunction(lo) + SumFunction(ld)
  <2>1. lo \in [Links -> Int] /\ ln \in [Links -> Int]
    BY <1>13
  <2>2. ld \in [A -> Int]
    BY <1>15
  <2>3. \A x \in A : ld[x] = ln[x] - lo[x]
    BY <1>15
  <2>4. \A x \in Links : x \notin A => ln[x] = lo[x]
    BY <1>11
  <2>5. IsFiniteSet(Links)
    BY <1>12
  <2> QED
    BY ONLY <1>3, <2>1, <2>2, <2>3, <2>4, <2>5, SumUpdate
<1>18. costs'.total = [aggregate |-> SumFunction(fn), congestion |-> SumFunction(ln)]
  BY <1>1, <1>7, <1>8, <1>16, <1>17 DEF fd, ld, T, A
<1>19. [f \in Flows |-> IF f \in DOMAIN proposed.flows
                        THEN proposed.flows[f] ELSE costs.flows[f]] = fn
  <2>1. DOMAIN proposed.flows = T
    BY <1>7 DEF NewFlowCosts, T
  <2>2. ASSUME NEW f \in Flows
        PROVE  (IF f \in T THEN proposed.flows[f] ELSE costs.flows[f]) = fn[f]
    BY <1>7, <1>8, <1>9
  <2>3. fn = [f \in Flows |-> fn[f]]
    BY <1>13
  <2> QED
    BY <2>1, <2>2, <2>3
<1>20. [l \in Links |-> IF l \in A THEN proposed.links[l] ELSE costs.links[l]] = ln
  <2>1. ASSUME NEW l \in Links
        PROVE  (IF l \in A THEN proposed.links[l] ELSE costs.links[l]) = ln[l]
    BY <1>7, <1>8, <1>10, <1>11
  <2>2. ln = [l \in Links |-> ln[l]]
    BY <1>13
  <2> QED
    BY <2>1, <2>2
<1> QED
  BY <1>1, <1>18, <1>19, <1>20 DEF RouteCosts, fn, ln

LEMMA CommitKeeps ==
    ASSUME CostInv, TypeOK', Commit
    PROVE  OldCosts' /\ AffectedInv' /\ ProposedInv'
<1>1. costs' = RouteCosts(routes)
  BY CommitCost
<1>2. phase' = "idle" /\ routes' = routes
  BY DEF Commit
<1>3. OldRoutes' = routes
  BY <1>2 DEF OldRoutes, Proposing, CostInv, UsageInv, TypeOK
<1>4. RouteCosts(OldRoutes)' = RouteCosts(OldRoutes')
  BY DEF RouteCosts, FlowCosts, LinkCosts, Used
<1> QED
  BY <1>1, <1>2, <1>3, <1>4 DEF OldCosts, AffectedInv, ProposedInv, Proposing

LEMMA RevertCost ==
    ASSUME CostInv, Revert
    PROVE  OldCosts' /\ AffectedInv' /\ ProposedInv'
<1>1. /\ phase = "proposed" /\ phase' = "idle" /\ costs' = costs
      /\ routes' = [f \in Flows |-> IF f \in FlowsOf(Moved)
                                    THEN backup[f] ELSE routes[f]]
  BY DEF Revert
<1>2. pending = {}
  BY <1>1 DEF CostInv, UsageInv, PhaseInv, Walking
<1>3. OldRoutes' = OldRoutes
  BY <1>1, <1>2 DEF OldRoutes, Proposing
<1> QED
  BY <1>1, <1>3, OldCostsKept DEF CostInv, AffectedInv, ProposedInv, Proposing

\* Every cost is computed again.
LEMMA ScratchCost ==
    ASSUME CostInv, TypeOK', walk = NoWalk, phase = "routing" => pending = {},
           routes' = routes, costs' = CostsFromScratch, phase' = "idle"
    PROVE  OldCosts' /\ AffectedInv' /\ ProposedInv'
<1>1. costs' = RouteCosts(routes)
  BY AllCounted, FromScratch DEF CostInv, UsageInv
<1>2. OldRoutes' = routes
  BY DEF OldRoutes, Proposing, CostInv, UsageInv, TypeOK
<1>3. RouteCosts(OldRoutes)' = RouteCosts(OldRoutes')
  BY DEF RouteCosts, FlowCosts, LinkCosts, Used
<1> QED
  BY <1>1, <1>2, <1>3 DEF OldCosts, AffectedInv, ProposedInv, Proposing

LEMMA NextCostInv ==
    ASSUME CostInv, [Next]_vars
    PROVE  CostInv'
<1>1. UsageInv' /\ TypeOK' /\ PhaseInv'
  BY NextUsageInv DEF CostInv, UsageInv
<1> SUFFICES OldCosts' /\ AffectedInv' /\ ProposedInv'
  BY <1>1 DEF CostInv
<1>2. ASSUME NEW f \in Flows, RouteFlow(f)
      PROVE  OldCosts' /\ AffectedInv' /\ ProposedInv'
  BY <1>2 DEF RouteFlow, OldCosts, AffectedInv, ProposedInv, Proposing
<1>3. ASSUME NEW f \in Flows, ReRouteFlow(f)
      PROVE  OldCosts' /\ AffectedInv' /\ ProposedInv'
  BY <1>1, <1>3, ReRouteCost
<1>4. CASE ComputeCosts
  BY <1>1, <1>4, ScratchCost DEF ComputeCosts
<1>5. CASE StartMainAnneal
  <2>1. walk = NoWalk /\ phase = "idle" /\ phase' = "idle"
    BY <1>5 DEF StartMainAnneal, CostInv, UsageInv, PhaseInv, Walking
  <2> QED
    BY <1>1, <1>5, <2>1, ScratchCost DEF StartMainAnneal
<1>6. ASSUME UNCHANGED <<costs, routes>>, phase = "idle", phase' # "rerouting",
             phase' # "proposed"
      PROVE  OldCosts' /\ AffectedInv' /\ ProposedInv'
  <2>1. OldRoutes' = OldRoutes
    BY <1>6 DEF OldRoutes, Proposing
  <2> QED
    BY <1>6, <2>1, OldCostsKept DEF CostInv, AffectedInv, ProposedInv, Proposing
<1>7. CASE EndAnneal
  BY <1>6, <1>7 DEF EndAnneal, restore_checkpoint
<1>8. CASE EndPlacement
  BY <1>6, <1>8 DEF EndPlacement
<1>9. CASE CycleFound
  BY <1>6, <1>9 DEF CycleFound
<1>10. CASE UNCHANGED vars
  <2>1. UNCHANGED <<FlowsOf(Moved), OldRoutes, NewFlowCosts, NewLinkCosts, walk,
                    pending, affectedLinks, backup, routes, phase, costs, proposed>>
    BY <1>10 DEF vars, OldRoutes, Proposing, FlowsOf, Moved, NewFlowCosts,
                 NewLinkCosts, FlowCost, Positive
  <2>2. OldCosts'
    BY <2>1, OldCostsKept DEF CostInv, OldCosts
  <2>3. AffectedInv'
    BY <2>1 DEF CostInv, AffectedInv, Proposing, Share
  <2>4. ProposedInv'
    BY <2>1 DEF CostInv, ProposedInv
  <2> QED
    BY <2>2, <2>3, <2>4
<1> QED
  BY <1>1, <1>2, <1>3, <1>4, <1>5, <1>7, <1>8, <1>9, <1>10, HopCost, FinishCost,
     ProposeMoveCost, ProposeCostsCost, CommitKeeps, RevertCost DEF Next

LEMMA InitCostInv == Init => CostInv
  BY InitUsageInv DEF Init, CostInv, OldCosts, AffectedInv, ProposedInv, Proposing

LEMMA CostsInductive == Spec => []CostInv
  BY InitCostInv, NextCostInv, PTL DEF Spec

LEMMA IdleCosts ==
    ASSUME CostInv, phase = "idle"
    PROVE  costs = RouteCosts(routes) /\ costs = CostsFromScratch
<1>1. walk = NoWalk /\ Counted = Flows
  BY AllCounted DEF CostInv, UsageInv, PhaseInv, Walking
<1>2. OldRoutes = routes
  BY AcceptedRoutes DEF CostInv, UsageInv, Proposing
<1> QED
  BY <1>1, <1>2, FromScratch DEF CostInv, UsageInv, OldCosts

\* The costs the placer keeps by increments never drift from those computed from
\* scratch, whatever moves were proposed, committed, reverted or restored.
THEOREM CostsAreOfRoutes == Spec => []CostsMatchRoutes
<1>1. CostInv => CostsMatchRoutes
  BY IdleCosts DEF CostsMatchRoutes
<1> QED
  BY <1>1, CostsInductive, PTL

-----------------------------------------------------------------------------
(* Routes are determined by the places of their blocks *)

\* The directions route_flow may take in walk w, with the blocks at p.
DirectionsAt(alg, p, w) ==
    LET src  == p[Source[w.flow]]
        dst  == p[Sink[w.flow]]
        dirs == get_legal_directions(alg, src, w.at, dst, w.prev)
        hash == IF alg = "bfs" THEN LinkOrder(src, dst, w.at)
                ELSE Hash(src, dst, w.at, w.flow)
    IN  {d \in select_next_direction(dirs, hash, w.at, dst) :
             Beyond(w.at, d) \in Routers \ w.visited}

Onward(w, d) == [w EXCEPT !.at = Beyond(w.at, d), !.prev = d,
                          !.visited = @ \cup {Beyond(w.at, d)}]

StartOf(p, f) == [flow |-> f, at |-> p[Source[f]], prev |-> "none",
                  visited |-> {}]

\* ws are the walks of route_flow, one for each link of the route r.
WalkedBy(alg, p, f, r, ws) ==
    /\ ws[0] = StartOf(p, f)
    /\ \A i \in 0 .. Len(r) - 1 :
           /\ ws[i].at # p[Sink[f]]
           /\ \E d \in DirectionsAt(alg, p, ws[i]) :
                  /\ ws[i + 1] = Onward(ws[i], d)
                  /\ r[i + 1] = <<ws[i].at, Beyond(ws[i].at, d)>>

\* r is a route as far as walk w, and a route that reached the sink.
Reaches(alg, p, f, r, w) == \E ws : WalkedBy(alg, p, f, r, ws) /\ ws[Len(r)] = w

Routed(alg, p, f, r) == \E w : Reaches(alg, p, f, r, w) /\ w.at = p[Sink[f]]

\* At most one direction along each coordinate is legal.
OneWay(dirs) == /\ ~ {"W", "E"} \subseteq dirs
                /\ ~ {"N", "S"} \subseteq dirs
                /\ ~ {"U", "D"} \subseteq dirs

LEMMA MinimalOneWay ==
    ASSUME NEW at \in Routers, NEW dst \in Routers
    PROVE  OneWay(Minimal(at, dst))
<1>1. /\ at.x \in Int /\ at.y \in Int /\ at.z \in Int
      /\ dst.x \in Int /\ dst.y \in Int /\ dst.z \in Int
  BY MeshAssumption DEF Routers
<1> QED
  BY <1>1 DEF OneWay, Minimal, Xward, Yward, Zward

LEMMA SubsetOneWay ==
    ASSUME NEW D, NEW E, OneWay(E), D \subseteq E
    PROVE  OneWay(D)
  BY DEF OneWay

LEMMA PlaneOneWay ==
    ASSUME NEW src, NEW at, NEW dst, NEW prev
    PROVE  /\ OneWay(OddEvenPlane(src, at, dst, prev))
           /\ OddEvenPlane(src, at, dst, prev) \subseteq {"N", "S", "U", "D"}
  BY DEF OneWay, OddEvenPlane

LEMMA LegalOneWay ==
    ASSUME NEW alg \in Algs, NEW src \in Routers, NEW at \in Routers,
           NEW dst \in Routers, NEW prev
    PROVE  OneWay(get_legal_directions(alg, src, at, dst, prev))
<1>1. OneWay(Minimal(at, dst))
  BY MinimalOneWay
<1>2. /\ XY(at, dst) \subseteq Minimal(at, dst)
      /\ WestFirst(at, dst) \subseteq Minimal(at, dst)
      /\ NorthLast(at, dst) \subseteq Minimal(at, dst)
      /\ NegativeFirst(at, dst) \subseteq Minimal(at, dst)
  BY DEF XY, WestFirst, NorthLast, NegativeFirst, Minimal
<1>3. OneWay(OddEven2D(src, at, dst, prev))
  BY DEF OneWay, OddEven2D
<1>4. OneWay(OddEven3D(src, at, dst, prev))
  <2> DEFINE plane == OddEvenPlane(src, at, dst, prev)
  <2>1. OneWay(plane) /\ plane \subseteq {"N", "S", "U", "D"}
    BY PlaneOneWay
  <2>2. \/ OddEven3D(src, at, dst, prev) \subseteq plane \cup {"W"}
        \/ OddEven3D(src, at, dst, prev) \subseteq plane \cup {"E"}
    BY DEF OddEven3D
  <2> HIDE DEF plane
  <2> QED
    BY <2>1, <2>2 DEF OneWay
<1>5. alg \in {"xy", "west_first", "north_last", "negative_first", "odd_even", "bfs"}
  BY DEF Algs, TurnModels
<1>6. CASE alg = "odd_even"
  BY <1>3, <1>4, <1>6 DEF get_legal_directions
<1>7. CASE alg # "odd_even"
  <2>1. get_legal_directions(alg, src, at, dst, prev) \subseteq Minimal(at, dst)
    BY <1>2, <1>5, <1>7 DEF get_legal_directions
  <2> QED
    BY <1>1, <2>1, SubsetOneWay
<1> QED
  BY <1>6, <1>7

\* What is selected is one direction, whatever the hash value.
LEMMA OneSelected ==
    ASSUME NEW dirs, OneWay(dirs), NEW hash, NEW at, NEW dst,
           NEW d \in select_next_direction(dirs, hash, at, dst),
           NEW e \in select_next_direction(dirs, hash, at, dst)
    PROVE  d = e
<1>1. CASE \E c \in Directions : dirs = {c}
  BY <1>1 DEF select_next_direction
<1>2. CASE ~ \E c \in Directions : dirs = {c}
  <2>1. \E pair \in {{"W", "E"}, {"N", "S"}, {"U", "D"}} :
            select_next_direction(dirs, hash, at, dst) = dirs \cap pair
    BY <1>2 DEF select_next_direction
  <2> QED
    BY <2>1 DEF OneWay
<1> QED
  BY <1>1, <1>2

LEMMA OneDirection ==
    ASSUME NEW alg \in Algs, NEW p \in Placements, NEW w, w.flow \in Flows,
           w.at \in Routers,
           NEW d \in DirectionsAt(alg, p, w), NEW e \in DirectionsAt(alg, p, w)
    PROVE  d = e
<1> DEFINE src  == p[Source[w.flow]]
           dst  == p[Sink[w.flow]]
           dirs == get_legal_directions(alg, src, w.at, dst, w.prev)
           hash == IF alg = "bfs" THEN LinkOrder(src, dst, w.at)
                   ELSE Hash(src, dst, w.at, w.flow)
<1>1. src \in Routers /\ dst \in Routers
  BY PlacesOfFlow
<1>2. OneWay(dirs)
  <2> HIDE DEF src, dst
  <2> QED
    BY <1>1, LegalOneWay
<1>3. /\ d \in select_next_direction(dirs, hash, w.at, dst)
      /\ e \in select_next_direction(dirs, hash, w.at, dst)
  BY DEF DirectionsAt
<1> HIDE DEF src, dst, dirs, hash
<1> QED
  BY <1>2, <1>3, OneSelected

Walks == [flow : Flows, at : Routers, prev : Directions \cup {"none"},
          visited : SUBSET Routers]

LEMMA OnwardType ==
    ASSUME NEW alg, NEW p, NEW w \in Walks, NEW d \in DirectionsAt(alg, p, w)
    PROVE  /\ Onward(w, d) \in Walks /\ Onward(w, d).flow = w.flow
           /\ Onward(w, d).at = Beyond(w.at, d) /\ Beyond(w.at, d) \in Routers
<1>1. d \in Directions
  BY DEF DirectionsAt, select_next_direction, Directions
<1>2. Beyond(w.at, d) \in Routers
  BY DEF DirectionsAt
<1> QED
  BY <1>1, <1>2 DEF Onward, Walks

LEMMA WalkTypes ==
    ASSUME NEW alg, NEW p \in Placements, NEW f \in Flows, NEW r, Len(r) \in Nat,
           NEW ws, WalkedBy(alg, p, f, r, ws)
    PROVE  \A i \in 0 .. Len(r) : ws[i] \in Walks /\ ws[i].flow = f
<1> DEFINE B == {n \in Nat : n <= Len(r) /\ ~ (ws[n] \in Walks /\ ws[n].flow = f)}
<1>1. 0 \notin B
  BY PlacesOfFlow DEF WalkedBy, StartOf, Walks
<1>2. ASSUME NEW n \in Nat, n + 1 \in B PROVE n \in B
  <2>1. SUFFICES ASSUME n \notin B PROVE FALSE
    OBVIOUS
  <2>2. n \in 0 .. Len(r) - 1
    BY <1>2
  <2>3. ws[n] \in Walks /\ ws[n].flow = f
    BY <2>1, <2>2
  <2>4. PICK d \in DirectionsAt(alg, p, ws[n]) : ws[n + 1] = Onward(ws[n], d)
    BY <2>2 DEF WalkedBy
  <2>5. ws[n + 1] \in Walks /\ ws[n + 1].flow = f
    BY <2>3, <2>4, OnwardType
  <2> QED
    BY <1>2, <2>5
<1>3. B = {}
  BY <1>1, <1>2, NoneFails
<1> QED
  BY <1>3

\* Two routes of a flow between the same places go the same way.
LEMMA SameWalk ==
    ASSUME NEW alg \in Algs, NEW p \in Placements, NEW f \in Flows,
           NEW r, Len(r) \in Nat, NEW q, Len(q) \in Nat,
           NEW ws, WalkedBy(alg, p, f, r, ws), NEW vs, WalkedBy(alg, p, f, q, vs)
    PROVE  \A n \in Nat : n <= Len(r) /\ n <= Len(q) => ws[n] = vs[n]
<1> DEFINE B == {n \in Nat : n <= Len(r) /\ n <= Len(q) /\ ws[n] # vs[n]}
<1>1. 0 \notin B
  BY DEF WalkedBy
<1>2. ASSUME NEW n \in Nat, n + 1 \in B PROVE n \in B
  <2>1. SUFFICES ASSUME n \notin B PROVE FALSE
    OBVIOUS
  <2>2. n \in 0 .. Len(r) - 1 /\ n \in 0 .. Len(q) - 1 /\ n \in 0 .. Len(r)
    BY <1>2
  <2>3. ws[n] = vs[n]
    BY <2>1, <2>2
  <2>4. PICK d \in DirectionsAt(alg, p, ws[n]) : ws[n + 1] = Onward(ws[n], d)
    BY <2>2 DEF WalkedBy
  <2>5. PICK e \in DirectionsAt(alg, p, vs[n]) : vs[n + 1] = Onward(vs[n], e)
    BY <2>2 DEF WalkedBy
  <2>6. ws[n] \in Walks /\ ws[n].flow = f
    BY <2>2, WalkTypes
  <2>7. ws[n].flow \in Flows /\ ws[n].at \in Routers
    BY <2>6 DEF Walks
  <2>8. d = e
    BY <2>3, <2>4, <2>5, <2>7, OneDirection
  <2> QED
    BY <1>2, <2>3, <2>4, <2>5, <2>8
<1>3. B = {}
  BY <1>1, <1>2, NoneFails
<1> QED
  BY <1>3

LEMMA RouteUnique ==
    ASSUME NEW alg \in Algs, NEW p \in Placements, NEW f \in Flows,
           NEW r \in Seq(Links), NEW q \in Seq(Links),
           Routed(alg, p, f, r), Routed(alg, p, f, q)
    PROVE  r = q
<1>0. Len(r) \in Nat /\ Len(q) \in Nat
  OBVIOUS
<1>1. PICK ws : WalkedBy(alg, p, f, r, ws) /\ ws[Len(r)].at = p[Sink[f]]
  BY DEF Routed, Reaches
<1>2. PICK vs : WalkedBy(alg, p, f, q, vs) /\ vs[Len(q)].at = p[Sink[f]]
  BY DEF Routed, Reaches
<1>3. \A n \in Nat : n <= Len(r) /\ n <= Len(q) => ws[n] = vs[n]
  BY <1>0, <1>1, <1>2, SameWalk
<1>4. ~ Len(r) < Len(q)
  <2> SUFFICES ASSUME Len(r) < Len(q) PROVE FALSE
    OBVIOUS
  <2>1. Len(r) \in 0 .. Len(q) - 1 /\ Len(r) <= Len(r) /\ Len(r) <= Len(q)
    BY <1>0
  <2>2. vs[Len(r)].at # p[Sink[f]]
    BY <1>2, <2>1 DEF WalkedBy
  <2>3. ws[Len(r)] = vs[Len(r)]
    BY <1>0, <1>3, <2>1
  <2> QED
    BY <1>1, <2>2, <2>3
<1>5. ~ Len(q) < Len(r)
  <2> SUFFICES ASSUME Len(q) < Len(r) PROVE FALSE
    OBVIOUS
  <2>1. Len(q) \in 0 .. Len(r) - 1 /\ Len(q) <= Len(q) /\ Len(q) <= Len(r)
    BY <1>0
  <2>2. ws[Len(q)].at # p[Sink[f]]
    BY <1>1, <2>1 DEF WalkedBy
  <2>3. ws[Len(q)] = vs[Len(q)]
    BY <1>0, <1>3, <2>1
  <2> QED
    BY <1>2, <2>2, <2>3
<1>6. Len(r) = Len(q)
  BY <1>0, <1>4, <1>5
<1>7. ASSUME NEW i \in 1 .. Len(r) PROVE r[i] = q[i]
  <2> DEFINE n == i - 1
  <2>1. n \in 0 .. Len(r) - 1 /\ n \in 0 .. Len(q) - 1 /\ n + 1 = i /\ n \in Nat
        /\ n <= Len(r) /\ n <= Len(q) /\ n \in 0 .. Len(r)
    BY <1>0, <1>6
  <2> HIDE DEF n
  <2>2. ws[n] = vs[n]
    BY <1>3, <2>1
  <2>3. PICK d \in DirectionsAt(alg, p, ws[n]) :
            r[n + 1] = <<ws[n].at, Beyond(ws[n].at, d)>>
    BY <1>1, <2>1 DEF WalkedBy
  <2>4. PICK e \in DirectionsAt(alg, p, vs[n]) :
            q[n + 1] = <<vs[n].at, Beyond(vs[n].at, e)>>
    BY <1>2, <2>1 DEF WalkedBy
  <2>8. WalkedBy(alg, p, f, r, ws)
    BY <1>1
  <2>9. \A j \in 0 .. Len(r) : ws[j] \in Walks /\ ws[j].flow = f
    BY <1>0, <2>8, WalkTypes
  <2>5. ws[n] \in Walks /\ ws[n].flow = f
    BY <2>1, <2>9
  <2>6. ws[n].flow \in Flows /\ ws[n].at \in Routers
    BY <2>5 DEF Walks
  <2>7. d = e
    BY <2>2, <2>3, <2>4, <2>6, OneDirection
  <2> QED
    BY <2>1, <2>2, <2>3, <2>4, <2>7
<1> QED
  BY <1>6, <1>7

\* The first walk, and one more link.
LEMMA ReachesStart ==
    ASSUME NEW alg, NEW p, NEW f
    PROVE  Reaches(alg, p, f, <<>>, StartOf(p, f))
<1> DEFINE ws == [i \in 0 .. 0 |-> StartOf(p, f)]
<1>1. WalkedBy(alg, p, f, <<>>, ws) /\ ws[Len(<<>>)] = StartOf(p, f)
  BY DEF WalkedBy
<1> QED
  BY <1>1 DEF Reaches

LEMMA ReachesOn ==
    ASSUME NEW alg, NEW p, NEW f, NEW r \in Seq(Links), NEW w,
           Reaches(alg, p, f, r, w), w.at # p[Sink[f]],
           NEW d \in DirectionsAt(alg, p, w)
    PROVE  Reaches(alg, p, f, Append(r, <<w.at, Beyond(w.at, d)>>), Onward(w, d))
<1> DEFINE s == Append(r, <<w.at, Beyond(w.at, d)>>)
           L == Len(r)
<1>1. PICK ws : WalkedBy(alg, p, f, r, ws) /\ ws[L] = w
  BY DEF Reaches
<1> DEFINE vs == [i \in 0 .. L + 1 |-> IF i = L + 1 THEN Onward(w, d) ELSE ws[i]]
<1>2. L \in Nat /\ Len(s) = L + 1 /\ s[L + 1] = <<w.at, Beyond(w.at, d)>>
      /\ \A i \in 1 .. L : s[i] = r[i]
  <2>0. r \in Seq(Links \cup {<<w.at, Beyond(w.at, d)>>})
    OBVIOUS
  <2> QED
    BY <2>0
<1>3. vs[L + 1] = Onward(w, d) /\ \A i \in 0 .. L : vs[i] = ws[i]
  BY <1>2
<1> HIDE DEF s, vs, L
<1>4. vs[0] = StartOf(p, f)
  BY <1>1, <1>2, <1>3 DEF WalkedBy
<1>5. ASSUME NEW i \in 0 .. Len(s) - 1
      PROVE  /\ vs[i].at # p[Sink[f]]
             /\ \E e \in DirectionsAt(alg, p, vs[i]) :
                    /\ vs[i + 1] = Onward(vs[i], e)
                    /\ s[i + 1] = <<vs[i].at, Beyond(vs[i].at, e)>>
  <2>1. CASE i = L
    BY <1>1, <1>2, <1>3, <2>1
  <2>2. CASE i # L
    <3>1. i \in 0 .. L - 1 /\ i \in 0 .. L /\ i + 1 \in 0 .. L /\ i + 1 \in 1 .. L
      BY <1>2, <2>2
    <3>2. vs[i] = ws[i] /\ vs[i + 1] = ws[i + 1] /\ s[i + 1] = r[i + 1]
      BY <1>2, <1>3, <3>1
    <3>3. /\ ws[i].at # p[Sink[f]]
          /\ \E e \in DirectionsAt(alg, p, ws[i]) :
                 /\ ws[i + 1] = Onward(ws[i], e)
                 /\ r[i + 1] = <<ws[i].at, Beyond(ws[i].at, e)>>
      BY <1>1, <3>1 DEF WalkedBy, L
    <3> QED
      BY <3>2, <3>3
  <2> QED
    BY <2>1, <2>2
<1>6. WalkedBy(alg, p, f, s, vs) /\ vs[Len(s)] = Onward(w, d)
  BY <1>2, <1>3, <1>4, <1>5 DEF WalkedBy
<1> QED
  BY <1>6 DEF Reaches, s

\* Only the places of its source and its sink matter to a flow.
LEMMA RoutedSame ==
    ASSUME NEW alg, NEW p \in Placements, NEW q, NEW f \in Flows, NEW r \in Seq(Links),
           p[Source[f]] = q[Source[f]], p[Sink[f]] = q[Sink[f]],
           Routed(alg, p, f, r)
    PROVE  Routed(alg, q, f, r)
<1>0. Len(r) \in Nat
  OBVIOUS
<1>1. PICK ws : WalkedBy(alg, p, f, r, ws) /\ ws[Len(r)].at = p[Sink[f]]
  BY DEF Routed, Reaches
<1>w. WalkedBy(alg, p, f, r, ws)
  BY <1>1
<1>2. \A i \in 0 .. Len(r) : ws[i].flow = f
  <2>1. \A i \in 0 .. Len(r) : ws[i] \in Walks /\ ws[i].flow = f
    BY <1>0, <1>w, WalkTypes, SMT
  <2> QED
    BY <2>1, Zenon
<1>3. \A i \in 0 .. Len(r) - 1 : i \in 0 .. Len(r)
  BY <1>0
<1>4. \A i \in 0 .. Len(r) - 1 : DirectionsAt(alg, p, ws[i]) = DirectionsAt(alg, q, ws[i])
  BY <1>2, <1>3 DEF DirectionsAt
<1>5. StartOf(p, f) = StartOf(q, f)
  BY DEF StartOf
<1>6. WalkedBy(alg, q, f, r, ws)
  BY <1>w, <1>4, <1>5 DEF WalkedBy
<1> QED
  BY <1>1, <1>6 DEF Routed, Reaches

-----------------------------------------------------------------------------
(* The checkpoint *)

\* Routes are the ones route_flow finds: for the places of the blocks and, for
\* the flows of moved blocks, for the places they may go back to.
TraceInv ==
    /\ \A f \in Flows \ (pending \cup {walk.flow}) :
           Routed(algorithm, loc, f, routes[f])
    /\ walk # NoWalk =>
           Reaches(algorithm, loc, walk.flow, routes[walk.flow], walk)
    /\ Proposing =>
           \A f \in FlowsOf(Moved) :
               Routed(algorithm, undo, f,
                      IF f \in pending THEN routes[f] ELSE backup[f])

\* The checkpoint holds the cost that its places determine; once the annealing
\* is over these are the places, or the costs are no higher.
CheckpointInv ==
    checkpoint.valid =>
        /\ \E rt \in [Flows -> Seq(Links)] :
               /\ \A f \in Flows : Routed(algorithm, checkpoint.locs, f, rt[f])
               /\ checkpoint.cost = NocCost(RouteCosts(rt).total)
        /\ stage \in {"initial", "annealed"}
        /\ stage = "initial" => phase # "routing"
        /\ stage = "annealed" =>
               /\ ~Proposing
               /\ phase = "routing" => loc = checkpoint.locs
               /\ phase = "idle" => NocCost(costs.total) <= checkpoint.cost

BestInv == CostInv /\ TraceInv /\ CheckpointInv

LEMMA StartTrace ==
    ASSUME BestInv, NEW f \in Flows, f \in pending, walk = NoWalk, StartWalk(f),
           pending' = pending \ {f}, routes' = [routes EXCEPT ![f] = <<>>],
           UNCHANGED <<algorithm, loc>>
    PROVE  /\ \A g \in Flows \ (pending' \cup {walk'.flow}) :
                  Routed(algorithm', loc', g, routes'[g])
           /\ Reaches(algorithm', loc', walk'.flow, routes'[walk'.flow], walk')
           /\ \A g \in Flows \ {f} : routes'[g] = routes[g]
<1>1. walk' = StartOf(loc, f) /\ walk'.flow = f
  BY DEF StartWalk, StartOf
<1>2. routes'[f] = <<>> /\ \A g \in Flows \ {f} : routes'[g] = routes[g]
  BY DEF BestInv, CostInv, UsageInv, TypeOK
<1>3. \A g \in Flows \ (pending' \cup {walk'.flow}) :
          g \in Flows \ (pending \cup {walk.flow}) /\ g \in Flows \ {f}
  BY <1>1, NoWalkFlow
<1> QED
  BY <1>1, <1>2, <1>3, ReachesStart DEF BestInv, TraceInv

LEMMA NextTrace ==
    ASSUME BestInv, TypeOK', [Next]_vars
    PROVE  TraceInv'
<1>0. TypeOK /\ PhaseInv /\ TraceInv
  BY DEF BestInv, CostInv, UsageInv
<1>1. ASSUME NEW f \in Flows, RouteFlow(f) PROVE TraceInv'
  <2>1. /\ f \in pending /\ walk = NoWalk /\ StartWalk(f) /\ pending' = pending \ {f}
        /\ routes' = [routes EXCEPT ![f] = <<>>]
        /\ UNCHANGED <<algorithm, loc>> /\ phase' = "routing"
    BY <1>1 DEF RouteFlow
  <2> QED
    BY <2>1, StartTrace DEF TraceInv, Proposing
<1>2. ASSUME NEW f \in Flows, ReRouteFlow(f) PROVE TraceInv'
  <2>1. /\ f \in pending /\ walk = NoWalk /\ StartWalk(f) /\ pending' = pending \ {f}
        /\ routes' = [routes EXCEPT ![f] = <<>>]
        /\ backup' = [backup EXCEPT ![f] = routes[f]]
        /\ UNCHANGED <<algorithm, phase, loc, undo>> /\ phase = "rerouting"
    BY <1>2 DEF ReRouteFlow
  <2>2. /\ \A g \in Flows \ (pending' \cup {walk'.flow}) :
               Routed(algorithm', loc', g, routes'[g])
        /\ Reaches(algorithm', loc', walk'.flow, routes'[walk'.flow], walk')
        /\ \A g \in Flows \ {f} : routes'[g] = routes[g]
    BY <2>1, StartTrace
  <2>3. FlowsOf(Moved)' = FlowsOf(Moved) /\ FlowsOf(Moved) \subseteq Flows
    BY <2>1 DEF FlowsOf, Moved
  <2>4. backup'[f] = routes[f] /\ \A g \in Flows \ {f} : backup'[g] = backup[g]
    BY <1>0, <2>1 DEF TypeOK
  <2>5. ASSUME NEW g \in FlowsOf(Moved)
        PROVE  Routed(algorithm, undo, g,
                      IF g \in pending' THEN routes'[g] ELSE backup'[g])
    <3>1. Routed(algorithm, undo, g, IF g \in pending THEN routes[g] ELSE backup[g])
      BY <1>0, <2>1 DEF TraceInv, Proposing
    <3>2. CASE g = f
      BY <2>1, <2>4, <3>1, <3>2
    <3>3. CASE g # f
      <4>1. /\ routes'[g] = routes[g] /\ backup'[g] = backup[g]
            /\ g \in pending' <=> g \in pending
        BY <2>1, <2>2, <2>3, <2>4, <3>3
      <4> QED
        BY <3>1, <4>1
    <3> QED
      BY <3>2, <3>3
  <2> QED
    BY <2>1, <2>2, <2>3, <2>5 DEF TraceInv
<1>3. CASE Hop
  <2> DEFINE f == walk.flow
  <2>1. /\ phase \in {"routing", "rerouting"} /\ walk # NoWalk
        /\ walk.at # loc[Sink[f]]
        /\ UNCHANGED <<algorithm, phase, loc, undo, backup, pending>>
    BY <1>3 DEF Hop
  <2>2. PICK d \in NextDirections :
            /\ routes' = [routes EXCEPT ![f] =
                              Append(@, <<walk.at, Beyond(walk.at, d)>>)]
            /\ walk' = [walk EXCEPT !.at = Beyond(walk.at, d), !.prev = d,
                                    !.visited = @ \cup {Beyond(walk.at, d)}]
    BY <1>3 DEF Hop
  <2>3. d \in DirectionsAt(algorithm, loc, walk)
    BY DEF NextDirections, DirectionsAt
  <2>4. walk' = Onward(walk, d)
    BY <2>2 DEF Onward
  <2>5. f \in Flows /\ f \notin pending /\ walk \in Walks
    BY <1>0, <2>1 DEF TypeOK, PhaseInv, Walks
  <2>6. /\ routes'[f] = Append(routes[f], <<walk.at, Beyond(walk.at, d)>>)
        /\ \A g \in Flows \ {f} : routes'[g] = routes[g]
        /\ routes[f] \in Seq(Links)
    BY <1>0, <2>2, <2>5 DEF TypeOK
  <2>7. walk'.flow = f
    BY <2>3, <2>4, <2>5, OnwardType
  <2>8. Reaches(algorithm, loc, f, routes[f], walk)
    BY <1>0, <2>1 DEF TraceInv
  <2>9. Reaches(algorithm, loc, f, routes'[f], walk')
    <3> HIDE DEF f
    <3> QED
      BY <2>1, <2>3, <2>4, <2>6, <2>8, ReachesOn
  <2>10. FlowsOf(Moved)' = FlowsOf(Moved) /\ FlowsOf(Moved) \subseteq Flows
    BY <2>1 DEF FlowsOf, Moved
  <2>11. ASSUME Proposing, NEW g \in FlowsOf(Moved)
         PROVE  Routed(algorithm, undo, g,
                       IF g \in pending THEN routes'[g] ELSE backup[g])
    <3>1. Routed(algorithm, undo, g, IF g \in pending THEN routes[g] ELSE backup[g])
      BY <1>0, <2>11 DEF TraceInv
    <3>2. g \in pending => routes'[g] = routes[g]
      BY <2>5, <2>6, <2>10
    <3> QED
      BY <3>1, <3>2
  <2>12. \A g \in Flows \ (pending' \cup {walk'.flow}) :
             Routed(algorithm', loc', g, routes'[g])
    BY <1>0, <2>1, <2>6, <2>7 DEF TraceInv
  <2>13. Proposing' => Proposing
    BY <2>1 DEF Proposing
  <2> QED
    BY <2>1, <2>7, <2>9, <2>10, <2>11, <2>12, <2>13 DEF TraceInv
<1>4. CASE FinishFlow
  <2> DEFINE f == walk.flow
  <2>1. /\ walk # NoWalk /\ walk.at = loc[Sink[f]] /\ walk' = NoWalk
        /\ UNCHANGED <<algorithm, phase, loc, undo, routes, backup, pending>>
    BY <1>4 DEF FinishFlow
  <2>2. Routed(algorithm, loc, f, routes[f])
    BY <1>0, <2>1 DEF TraceInv, Routed
  <2>3. FlowsOf(Moved)' = FlowsOf(Moved)
    BY <2>1 DEF FlowsOf, Moved
  <2>4. \A g \in Flows \ (pending' \cup {walk'.flow}) :
            Routed(algorithm', loc', g, routes'[g])
    BY <1>0, <2>1, <2>2 DEF TraceInv
  <2> QED
    BY <1>0, <2>1, <2>3, <2>4 DEF TraceInv, Proposing
<1>5. CASE ProposeMove
  <2>1. PICK b \in Logical, to \in Routers :
            /\ to # loc[b] /\ loc' = apply_move_blocks(b, to)
            /\ pending' = FlowsOf({b} \cup {a \in Logical : loc[a] = to})
    BY <1>5 DEF ProposeMove
  <2>2. phase = "idle" /\ UNCHANGED <<algorithm, walk, undo, routes>>
    BY <1>5 DEF ProposeMove
  <2>3. walk = NoWalk /\ pending = {} /\ undo = loc /\ loc \in [Logical -> Routers]
        /\ loc \in Placements
    BY <1>0, <2>2 DEF PhaseInv, Walking, TypeOK, Placements
  <2>4. Moved' = {b} \cup {a \in Logical : loc[a] = to}
    BY <2>1, <2>2, <2>3 DEF Moved, apply_move_blocks
  <2>5. pending' = FlowsOf(Moved)' /\ pending' = FlowsOf(Moved')
    BY <2>1, <2>4 DEF FlowsOf
  <2>6. \A f \in Flows : Routed(algorithm, loc, f, routes[f])
    BY <1>0, <2>3, NoWalkFlow DEF TraceInv
  <2>7. ASSUME NEW f \in Flows, f \notin pending'
        PROVE  Routed(algorithm, loc', f, routes[f])
    <3>1. Source[f] \notin Moved' /\ Sink[f] \notin Moved'
      BY <2>5, <2>7 DEF FlowsOf
    <3>2. loc[Source[f]] = loc'[Source[f]] /\ loc[Sink[f]] = loc'[Sink[f]]
      BY <2>2, <2>3, <3>1, FlowAssumption DEF Moved
    <3>3. Routed(algorithm, loc, f, routes[f]) /\ routes[f] \in Seq(Links)
      BY <1>0, <2>6 DEF TypeOK
    <3> QED
      BY <2>3, <3>2, <3>3, RoutedSame
  <2>8. \A f \in FlowsOf(Moved)' : Routed(algorithm, undo, f, routes[f])
    BY <2>3, <2>6 DEF FlowsOf
  <2> QED
    BY <2>2, <2>3, <2>5, <2>7, <2>8 DEF TraceInv
<1>6. CASE Revert
  <2>1. /\ phase = "proposed" /\ phase' = "idle" /\ loc' = undo
        /\ routes' = [f \in Flows |-> IF f \in FlowsOf(Moved)
                                      THEN backup[f] ELSE routes[f]]
        /\ UNCHANGED <<algorithm, pending, walk>>
    BY <1>6 DEF Revert
  <2>2. pending = {} /\ walk = NoWalk
    BY <1>0, <2>1 DEF PhaseInv, Walking
  <2>3. ASSUME NEW f \in Flows PROVE Routed(algorithm, undo, f, routes'[f])
    <3>1. CASE f \in FlowsOf(Moved)
      BY <1>0, <2>1, <2>2, <3>1 DEF TraceInv, Proposing
    <3>2. CASE f \notin FlowsOf(Moved)
      <4>1. loc[Source[f]] = undo[Source[f]] /\ loc[Sink[f]] = undo[Sink[f]]
        BY <3>2, FlowAssumption DEF FlowsOf, Moved
      <4>2. Routed(algorithm, loc, f, routes[f])
        BY <1>0, <2>2, NoWalkFlow DEF TraceInv
      <4>3. loc \in Placements /\ routes[f] \in Seq(Links)
        BY <1>0 DEF TypeOK
      <4>4. Routed(algorithm, undo, f, routes[f])
        BY <4>1, <4>2, <4>3, RoutedSame
      <4> QED
        BY <2>1, <3>2, <4>4
    <3> QED
      BY <3>1, <3>2
  <2> QED
    BY <2>1, <2>2, <2>3 DEF TraceInv, Proposing
<1>7. ASSUME UNCHANGED <<algorithm, loc, routes, walk, pending>>, ~Proposing'
      PROVE  TraceInv'
  BY <1>0, <1>7 DEF TraceInv
<1>8. CASE EndAnneal
  <2>1. UNCHANGED <<algorithm, routes, walk>> /\ phase = "idle"
    BY <1>8 DEF EndAnneal
  <2>2. walk = NoWalk
    BY <1>0, <2>1 DEF PhaseInv, Walking
  <2>3. CASE restore_checkpoint
    BY <2>1, <2>2, <2>3 DEF restore_checkpoint, TraceInv, Proposing
  <2>4. CASE UNCHANGED <<loc, undo, usage, pending, phase>>
    BY <1>7, <2>1, <2>4 DEF Proposing
  <2> QED
    BY <1>8, <2>3, <2>4 DEF EndAnneal
<1>9. CASE ComputeCosts \/ StartMainAnneal \/ EndPlacement \/ CycleFound \/ Commit
  BY <1>7, <1>9 DEF ComputeCosts, StartMainAnneal, EndPlacement, CycleFound, Commit,
                    Proposing
<1>10. CASE ProposeCosts \/ UNCHANGED vars
  <2>1. /\ UNCHANGED <<algorithm, loc, undo, routes, backup, walk, pending>>
        /\ Proposing' => Proposing
    BY <1>10 DEF ProposeCosts, vars, Proposing
  <2>2. FlowsOf(Moved)' = FlowsOf(Moved)
    BY <2>1 DEF FlowsOf, Moved
  <2> QED
    BY <1>0, <2>1, <2>2 DEF TraceInv
<1> QED
  BY <1>1, <1>2, <1>3, <1>4, <1>5, <1>6, <1>8, <1>9, <1>10 DEF Next

LEMMA NocCostType ==
    ASSUME NEW rt \in [Flows -> Seq(Links)]
    PROVE  NocCost(RouteCosts(rt).total) \in Int
  BY TotalTypes DEF NocCost, RouteCosts

\* The flows between the places of the checkpoint are routed as they were.
LEMMA SameCost ==
    ASSUME BestInv, checkpoint.valid, loc = checkpoint.locs,
           walk = NoWalk, pending = {}
    PROVE  checkpoint.cost = NocCost(RouteCosts(routes).total)
<1>1. PICK rt \in [Flows -> Seq(Links)] :
          /\ \A f \in Flows : Routed(algorithm, loc, f, rt[f])
          /\ checkpoint.cost = NocCost(RouteCosts(rt).total)
  BY DEF BestInv, CheckpointInv
<1>2. \A f \in Flows : Routed(algorithm, loc, f, routes[f])
  BY NoWalkFlow DEF BestInv, TraceInv
<1>3. /\ routes \in [Flows -> Seq(Links)] /\ loc \in Placements
      /\ algorithm \in Algs
  BY AlgorithmKnown DEF BestInv, CostInv, UsageInv, TypeOK
<1>4. \A f \in Flows : rt[f] = routes[f]
  <2>1. ASSUME NEW f \in Flows PROVE rt[f] = routes[f]
    <3>1. rt[f] \in Seq(Links) /\ routes[f] \in Seq(Links)
      BY <1>3
    <3>2. Routed(algorithm, loc, f, rt[f]) /\ Routed(algorithm, loc, f, routes[f])
      BY <1>1, <1>2
    <3> QED
      BY <1>3, <3>1, <3>2, RouteUnique
  <2> QED
    BY <2>1
<1>5. rt = routes
  BY <1>3, <1>4
<1> QED
  BY <1>1, <1>5

LEMMA NextCheckpoint ==
    ASSUME BestInv, TypeOK', [Next]_vars
    PROVE  CheckpointInv'
<1> SUFFICES ASSUME checkpoint'.valid PROVE CheckpointInv'
  BY DEF CheckpointInv
<1>0. TypeOK /\ PhaseInv /\ TraceInv /\ CostInv /\ CheckpointInv
  BY DEF BestInv, CostInv, UsageInv
<1>a. algorithm' = algorithm
  BY DEF Next, RouteFlow, ReRouteFlow, Hop, FinishFlow, ComputeCosts, ProposeMove,
         ProposeCosts, Commit, Revert, EndAnneal, StartMainAnneal, EndPlacement,
         CycleFound, vars
\* what a kept checkpoint still promises
<1>k. ASSUME checkpoint' = checkpoint
      PROVE  \E rt \in [Flows -> Seq(Links)] :
                 /\ \A f \in Flows : Routed(algorithm', checkpoint'.locs, f, rt[f])
                 /\ checkpoint'.cost = NocCost(RouteCosts(rt).total)
  BY <1>0, <1>a, <1>k DEF CheckpointInv
<1>1. CASE Commit
  <2>1. /\ phase = "proposed" /\ phase' = "idle"
        /\ UNCHANGED <<stage, loc, routes, pending, walk>>
    BY <1>1 DEF Commit
  <2>2. walk = NoWalk /\ pending = {}
    BY <1>0, <2>1 DEF PhaseInv, Walking
  <2>3. CASE checkpoint' = checkpoint
    <3>1. stage = "initial"
      BY <1>0, <2>1, <2>3 DEF CheckpointInv, Proposing
    <3> QED
      BY <1>k, <2>1, <2>3, <3>1 DEF CheckpointInv
  <2>4. CASE checkpoint' # checkpoint
    <3>1. /\ stage = "initial" /\ checkpoint'.locs = loc
          /\ checkpoint'.cost = NocCost(costs'.total)
      BY <1>1, <2>4 DEF Commit
    <3>2. costs' = RouteCosts(routes)
      BY <1>0, <1>1, CommitCost
    <3>3. \A f \in Flows : Routed(algorithm, loc, f, routes[f])
      BY <1>0, <2>2, NoWalkFlow DEF TraceInv
    <3>4. routes \in [Flows -> Seq(Links)]
      BY <1>0 DEF TypeOK
    <3>5. \E rt \in [Flows -> Seq(Links)] :
              /\ \A f \in Flows : Routed(algorithm', checkpoint'.locs, f, rt[f])
              /\ checkpoint'.cost = NocCost(RouteCosts(rt).total)
      BY <1>a, <3>1, <3>2, <3>3, <3>4
    <3> QED
      BY <2>1, <3>1, <3>5 DEF CheckpointInv
  <2> QED
    BY <2>3, <2>4
<1>2. CASE EndAnneal
  <2>1. /\ stage = "initial" /\ phase = "idle" /\ stage' = "annealed"
        /\ UNCHANGED <<checkpoint, costs>>
    BY <1>2 DEF EndAnneal
  <2>2. CASE restore_checkpoint
    BY <1>k, <2>1, <2>2 DEF restore_checkpoint, CheckpointInv, Proposing
  <2>3. CASE UNCHANGED phase /\ ~(checkpoint.valid /\ checkpoint.cost < NocCost(costs.total))
    <3>1. costs = RouteCosts(routes)
      BY <1>0, <2>1, IdleCosts
    <3>2. NocCost(costs.total) \in Int
      BY <1>0, <3>1, NocCostType DEF TypeOK
    <3>3. checkpoint.cost \in Int
      <4>1. PICK rt \in [Flows -> Seq(Links)] :
                checkpoint.cost = NocCost(RouteCosts(rt).total)
        BY <1>0, <2>1 DEF CheckpointInv
      <4> QED
        BY <4>1, NocCostType
    <3>4. NocCost(costs.total) <= checkpoint.cost
      BY <2>1, <2>3, <3>2, <3>3
    <3>5. NocCost(costs'.total) <= checkpoint'.cost
      BY <2>1, <3>4 DEF NocCost
    <3> QED
      BY <1>k, <2>1, <2>3, <3>5 DEF CheckpointInv, Proposing
  <2> QED
    BY <1>2, <2>2, <2>3 DEF EndAnneal
<1>3. CASE ComputeCosts
  <2>1. /\ phase = "routing" /\ walk = NoWalk /\ pending = {} /\ phase' = "idle"
        /\ costs' = CostsFromScratch /\ UNCHANGED <<stage, loc, routes, checkpoint>>
    BY <1>3 DEF ComputeCosts
  <2>2. stage = "annealed" /\ loc = checkpoint.locs
    BY <1>0, <2>1 DEF CheckpointInv
  <2>3. costs' = RouteCosts(routes)
    BY <1>0, <2>1, AllCounted, FromScratch DEF CostInv, UsageInv
  <2>4. checkpoint.cost = NocCost(RouteCosts(routes).total)
    BY <2>1, <2>2, SameCost
  <2>5. NocCost(costs'.total) <= checkpoint'.cost
    <3>1. NocCost(RouteCosts(routes).total) \in Int
      BY <1>0, NocCostType DEF TypeOK
    <3> QED
      BY <2>1, <2>3, <2>4, <3>1
  <2> QED
    BY <1>k, <2>1, <2>2, <2>5 DEF CheckpointInv, Proposing
<1>4. CASE StartMainAnneal
  BY <1>4 DEF StartMainAnneal, NoCheckpoint
<1>5. ASSUME checkpoint' = checkpoint, UNCHANGED <<stage, costs>>,
             \/ UNCHANGED <<phase, loc>>
             \/ stage # "annealed" /\ phase' # "routing"
             \/ phase = "idle" /\ phase' = "cycle"
      PROVE  CheckpointInv'
  <2>1. NocCost(costs.total)' = NocCost(costs.total)
    BY <1>5 DEF NocCost
  <2> QED
    BY <1>0, <1>5, <1>k, <2>1 DEF CheckpointInv, Proposing
<1>6. CASE \E f \in Flows : RouteFlow(f) \/ ReRouteFlow(f)
  BY <1>5, <1>6 DEF RouteFlow, ReRouteFlow
<1>7. CASE Hop \/ FinishFlow
  BY <1>5, <1>7 DEF Hop, FinishFlow
<1>8. CASE ProposeMove
  BY <1>5, <1>8 DEF ProposeMove
<1>9. CASE ProposeCosts \/ Revert
  <2>1. Proposing /\ phase' # "routing" /\ UNCHANGED <<checkpoint, stage, costs>>
    BY <1>9 DEF ProposeCosts, Revert, Proposing
  <2>2. stage # "annealed"
    BY <1>0, <2>1 DEF CheckpointInv
  <2> QED
    BY <1>5, <2>1, <2>2
<1>10. CASE EndPlacement
  BY <1>0, <1>10 DEF EndPlacement, CheckpointInv
<1>11. CASE CycleFound
  BY <1>5, <1>11 DEF CycleFound
<1>12. CASE UNCHANGED vars
  BY <1>5, <1>12 DEF vars
<1> QED
  BY <1>1, <1>2, <1>3, <1>4, <1>6, <1>7, <1>8, <1>9, <1>10, <1>11, <1>12 DEF Next

LEMMA BestInductive == Spec => []BestInv
<1>1. Init => BestInv
  <2> SUFFICES ASSUME Init PROVE BestInv
    OBVIOUS
  <2>1. TraceInv
    BY DEF Init, TraceInv, Proposing
  <2>2. CheckpointInv
    BY DEF Init, CheckpointInv, NoCheckpoint
  <2> QED
    BY <2>1, <2>2, InitCostInv DEF BestInv
<1>2. BestInv /\ [Next]_vars => BestInv'
  <2> SUFFICES ASSUME BestInv, [Next]_vars PROVE BestInv'
    OBVIOUS
  <2>1. CostInv' /\ TypeOK'
    BY NextCostInv DEF BestInv, CostInv, UsageInv
  <2> QED
    BY <2>1, NextTrace, NextCheckpoint DEF BestInv
<1> QED
  BY <1>1, <1>2, PTL DEF Spec

\* A restored checkpoint brings back the cost it was saved with, although its
\* routes are computed again: the initial placement never ends worse than the
\* best placement it accepted.
THEOREM CheckpointKeepsTheBest == Spec => []KeepsTheBest
<1>1. BestInv => KeepsTheBest
  BY DEF BestInv, CheckpointInv, KeepsTheBest
<1> QED
  BY <1>1, BestInductive, PTL
=============================================================================
