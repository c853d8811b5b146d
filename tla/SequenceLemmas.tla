--------------------------- MODULE SequenceLemmas ---------------------------
(***************************************************************************)
(* What the proofs about outputs and filters use of numbers and sequences: *)
(* induction and recursion, with the property and the step given as a set  *)
(* and as a function; sums of sizes; lists of outputs; frames in order.    *)
(***************************************************************************)
EXTENDS Integers, Sequences, Functions, WellFoundedInduction, TLAPS

-----------------------------------------------------------------------------
(* Induction and recursion *)

\* Every set of numbers that is not empty has a least one.
LEMMA LeastNumber ==
  ASSUME NEW T \in SUBSET Nat, T # {}
  PROVE  \E x \in T : \A y \in T : x <= y
<1>1. PICK x \in T : \A y \in T : ~(<<y, x>> \in OpToRel(<, Nat))
  BY Zenon, NatLessThanWellFounded, WFMin
<1>2. \A y \in T : ~(y < x)
  BY ZenonT(30), <1>1 DEF OpToRel
<1>3. QED
  BY <1>2

\* Induction up to a bound.
LEMMA BoundedInduction ==
  ASSUME NEW N \in Nat, NEW T, 0 \in T, \A n \in 1..N : n - 1 \in T => n \in T
  PROVE  \A n \in 0..N : n \in T
<1> DEFINE Bad == {n \in 0..N : n \notin T}
<1> SUFFICES ASSUME Bad # {} PROVE FALSE
  BY Zenon
<1>1. Bad \in SUBSET Nat
  OBVIOUS
<1>2. PICK x \in Bad : \A y \in Bad : x <= y
  BY ZenonT(30), <1>1, LeastNumber
<1>3. x \in 1..N
  BY <1>2
<1>4. x - 1 \in 0..N /\ ~(x <= x - 1)
  BY <1>3
<1>5. x - 1 \in T
  BY Zenon, <1>2, <1>4
<1>6. QED
  BY Zenon, <1>2, <1>3, <1>5

\* f is recursive in the number before: e at first, then a step at a time.
Recurs(f, N, S, e, step) ==
  f \in [0..N -> S] /\ f[0] = e /\ \A n \in 1..N : f[n] = step[n][f[n - 1]]

\* Such a function exists.
LEMMA RecursionExists ==
  ASSUME NEW N \in Nat, NEW S, NEW e \in S, NEW step \in [1..N -> [S -> S]]
  PROVE  \E f : Recurs(f, N, S, e, step)
<1> DEFINE T == {m \in 0..N : \E f \in [0..m -> S] :
                   f[0] = e /\ \A n \in 1..m : f[n] = step[n][f[n - 1]]}
<1>1. 0 \in T
  <2>1. [n \in 0..0 |-> e] \in [0..0 -> S] /\ [n \in 0..0 |-> e][0] = e
    OBVIOUS
  <2>2. \A n \in 1..0 : FALSE
    OBVIOUS
  <2>3. \E f \in [0..0 -> S] : f[0] = e /\ \A n \in 1..0 : f[n] = step[n][f[n - 1]]
    BY ZenonT(30), <2>1, <2>2
  <2>4. QED
    BY <2>3
<1>2. ASSUME NEW m \in 1..N, m - 1 \in T PROVE m \in T
  <2>1. PICK g \in [0..m - 1 -> S] : g[0] = e /\ \A n \in 1..m - 1 : g[n] = step[n][g[n - 1]]
    BY Zenon, <1>2
  <2> DEFINE f == [n \in 0..m |-> IF n = m THEN step[m][g[m - 1]] ELSE g[n]]
  <2>2. f \in [0..m -> S]
    <3>1. step[m][g[m - 1]] \in S
      <4>1. g[m - 1] \in S
        BY <2>1
      <4>2. step[m] \in [S -> S]
        BY Zenon
      <4>3. QED
        BY Zenon, <4>1, <4>2
    <3>2. QED
      BY <3>1
  <2>3. f[0] = e
    BY <2>1
  <2>4. ASSUME NEW n \in 1..m PROVE f[n] = step[n][f[n - 1]]
    <3>1. CASE n = m
      <4>1. m - 1 \in 0..m /\ m - 1 # m
        OBVIOUS
      <4>2. f[m - 1] = g[m - 1]
        BY Zenon, <4>1
      <4>3. QED
        BY <3>1, <4>2
    <3>2. CASE n # m
      <4>1. n \in 1..m - 1 /\ n - 1 \in 0..m /\ n - 1 # m /\ n \in 0..m
        BY <3>2
      <4>2. f[n] = g[n] /\ f[n - 1] = g[n - 1]
        BY Zenon, <3>2, <4>1
      <4>3. QED
        BY Zenon, <2>1, <4>1, <4>2
    <3>3. QED
      BY Zenon, <3>1, <3>2
  <2>5. \E h \in [0..m -> S] : h[0] = e /\ \A n \in 1..m : h[n] = step[n][h[n - 1]]
    <3> HIDE DEF f
    <3>1. QED
      BY Zenon, <2>2, <2>3, <2>4
  <2>6. m \in 0..N
    OBVIOUS
  <2>7. QED
    BY Zenon, <2>5, <2>6
<1>3. N \in T
  <2> HIDE DEF T
  <2>1. \A n \in 0..N : n \in T
    BY ZenonT(30), <1>1, <1>2, BoundedInduction
  <2>2. QED
    BY <2>1
<1>4. QED
  BY Zenon, <1>3 DEF Recurs

-----------------------------------------------------------------------------
(* Sums *)

\* The sizes of the entries of r.
LEMMA EntrySizes ==
  ASSUME NEW r \in Seq(Nat), NEW sz \in Seq(Nat), \A i \in 1..Len(r) : r[i] \in 1..Len(sz)
  PROVE  Len(r) \in Nat /\ [i \in 1..Len(r) |-> sz[r[i]]] \in [1..Len(r) -> Nat]
<1>1. \A j \in 1..Len(sz) : sz[j] \in Nat
  OBVIOUS
<1>2. \A i \in 1..Len(r) : sz[r[i]] \in Nat
  BY Zenon, <1>1
<1>3. QED
  BY <1>2

\* g[i] is the sum of the first i numbers of w; SumEquation is how it is defined.
IsSum(g, N, w) ==
  /\ N \in Nat /\ w \in [1..N -> Nat]
  /\ g \in [0..N -> Nat] /\ g[0] = 0 /\ \A i \in 1..N : g[i] = g[i - 1] + w[i]
SumEquation(g, N, w) == g = [i \in 0..N |-> IF i = 0 THEN 0 ELSE g[i - 1] + w[i]]

\* There are such sums.
LEMMA SumsExist ==
  ASSUME NEW N \in Nat, NEW w \in [1..N -> Nat]
  PROVE  \E f : IsSum(f, N, w) /\ SumEquation(f, N, w)
<1> DEFINE step == [n \in 1..N |-> [b \in Nat |-> b + w[n]]]
<1>1. step \in [1..N -> [Nat -> Nat]] /\ 0 \in Nat
  OBVIOUS
<1>2. PICK f : Recurs(f, N, Nat, 0, step)
  <2> HIDE DEF step
  <2>1. QED
    BY Zenon, <1>1, RecursionExists
<1>3. f \in [0..N -> Nat] /\ f[0] = 0
  BY Zenon, <1>2 DEF Recurs
<1>4. \A n \in 1..N : f[n] = f[n - 1] + w[n]
  <2> TAKE n \in 1..N
  <2>1. f[n - 1] \in Nat
    BY <1>3
  <2>2. QED
    BY ZenonT(30), <1>2, <2>1 DEF Recurs
<1>5. SumEquation(f, N, w)
  <2>1. ASSUME NEW i \in 0..N PROVE f[i] = IF i = 0 THEN 0 ELSE f[i - 1] + w[i]
    <3>1. i = 0 \/ i \in 1..N
      OBVIOUS
    <3>2. QED
      BY Zenon, <1>3, <1>4, <3>1
  <2>2. QED
    BY Zenon, <1>3, <2>1 DEF SumEquation
<1>6. QED
  BY ZenonT(30), <1>3, <1>4, <1>5 DEF IsSum

\* What is defined by the equation is a sum.
LEMMA SumsTyped ==
  ASSUME NEW N \in Nat, NEW w \in [1..N -> Nat], NEW g, SumEquation(g, N, w)
  PROVE  IsSum(g, N, w)
<1>1. \A i \in 0..N : g[i] = IF i = 0 THEN 0 ELSE g[i - 1] + w[i]
  BY Zenon DEF SumEquation
<1>2. g[0] = 0
  BY <1>1
<1>3. \A i \in 1..N : g[i] = g[i - 1] + w[i]
  BY <1>1
<1> DEFINE T == {i \in 0..N : g[i] \in Nat}
<1>4. 0 \in T
  BY <1>2
<1>5. ASSUME NEW i \in 1..N, i - 1 \in T PROVE i \in T
  <2>1. g[i - 1] \in Nat /\ w[i] \in Nat
    BY Zenon, <1>5
  <2>2. g[i] \in Nat
    BY <1>3, <2>1
  <2>3. QED
    BY <2>2
<1>6. \A i \in 0..N : i \in T
  <2> HIDE DEF T
  <2>1. QED
    BY ZenonT(30), <1>4, <1>5, BoundedInduction
<1>7. \A i \in 0..N : g[i] \in Nat
  BY Zenon, <1>6
<1>8. g \in [0..N -> Nat]
  BY Zenon, <1>7 DEF SumEquation
<1>9. QED
  BY Zenon, <1>2, <1>3, <1>8 DEF IsSum

\* The first k numbers of v are those of w after d.
Aligned(v, w, d, k) == \A i \in 1..k : v[i] = w[d + i]

\* f and g are sums, and of the numbers of g the first k are those of f after d.
Shifted(f, N, w, g, M, v, d, k) ==
  /\ IsSum(f, N, w) /\ IsSum(g, M, v) /\ Aligned(v, w, d, k)
  /\ d \in Nat /\ k \in Nat /\ k <= M /\ d + k <= N

\* Equal numbers have equal sums, from wherever they are counted.
LEMMA SumsShift ==
  ASSUME NEW f, NEW N, NEW w, NEW g, NEW M, NEW v, NEW d, NEW k, Shifted(f, N, w, g, M, v, d, k)
  PROVE  g[k] = f[d + k] - f[d]
<1> /\ IsSum(f, N, w) /\ IsSum(g, M, v) /\ Aligned(v, w, d, k)
    /\ d \in Nat /\ k \in Nat /\ k <= M /\ d + k <= N
  BY Zenon DEF Shifted
<1> DEFINE T == {i \in 0..k : g[i] = f[d + i] - f[d]}
<1>0. N \in Nat /\ w \in [1..N -> Nat] /\ M \in Nat /\ v \in [1..M -> Nat]
  BY ZenonT(30) DEF IsSum
<1>1. f \in [0..N -> Nat] /\ \A i \in 1..N : f[i] = f[i - 1] + w[i]
  BY Zenon DEF IsSum
<1>2. g \in [0..M -> Nat] /\ g[0] = 0 /\ \A i \in 1..M : g[i] = g[i - 1] + v[i]
  BY Zenon DEF IsSum
<1>3. f[d] \in Nat
  BY <1>0, <1>1
<1>4. 0 \in T
  BY <1>2, <1>3
<1>5. ASSUME NEW i \in 1..k, i - 1 \in T PROVE i \in T
  <2>1. g[i - 1] = f[d + (i - 1)] - f[d]
    BY Zenon, <1>5
  <2>2. i \in 1..M /\ d + i \in 1..N /\ (d + i) - 1 = d + (i - 1) /\ d + (i - 1) \in 0..N
    BY <1>0
  <2>3. g[i] = g[i - 1] + v[i]
    BY Zenon, <1>2, <2>2
  <2>4. f[d + i] = f[d + (i - 1)] + w[d + i]
    <3>1. f[d + i] = f[(d + i) - 1] + w[d + i]
      BY Zenon, <1>1, <2>2
    <3>2. f[(d + i) - 1] = f[d + (i - 1)]
      BY Zenon, <2>2
    <3>3. QED
      BY Zenon, <3>1, <3>2
  <2>5. f[d + (i - 1)] \in Nat /\ w[d + i] \in Nat
    BY Zenon, <1>0, <1>1, <2>2
  <2>6. g[i] = f[d + i] - f[d]
    <3>1. v[i] = w[d + i]
      BY Zenon DEF Aligned
    <3>2. g[i] = (f[d + (i - 1)] - f[d]) + w[d + i]
      BY Zenon, <2>1, <2>3, <3>1
    <3> DEFINE x == f[d + (i - 1)]
               y == f[d]
               z == w[d + i]
    <3>3. (x - y) + z = (x + z) - y
      <4>1. x \in Nat /\ y \in Nat /\ z \in Nat
        BY Zenon, <1>3, <2>5
      <4> HIDE DEF x, y, z
      <4>2. QED
        BY <4>1
    <3>4. QED
      BY Zenon, <2>4, <3>2, <3>3
  <2>7. QED
    BY <2>6
<1>6. k \in T
  <2> HIDE DEF T
  <2>1. \A i \in 0..k : i \in T
    BY Zenon, <1>4, <1>5, BoundedInduction
  <2>2. QED
    BY <2>1
<1>7. QED
  BY Zenon, <1>6

\* Sums are numbers.
LEMMA SumsAreNat == ASSUME NEW f, NEW L, NEW w, IsSum(f, L, w), NEW i \in 0..L PROVE f[i] \in Nat
BY Zenon DEF IsSum

\* Sums of equal sizes.
LEMMA SameSums ==
  ASSUME NEW f, NEW g, NEW K, NEW L, NEW v, NEW w, IsSum(f, L, w), IsSum(g, K, v),
         K <= L, \A i \in 1..K : v[i] = w[i]
  PROVE  g[K] = f[K]
<1>1. PICK d : d = 0
  BY Zenon
<1>2. K \in Nat /\ L \in Nat /\ d \in Nat /\ d + K <= L /\ K <= K
  BY <1>1 DEF IsSum
<1>3. Aligned(v, w, d, K)
  BY <1>1, <1>2 DEF Aligned
<1>4. g[K] = f[d + K] - f[d]
  <2>1. Shifted(f, L, w, g, K, v, d, K)
    BY Zenon, <1>2, <1>3 DEF Shifted
  <2>2. QED
    BY <2>1, SumsShift
<1>5. d + K = K /\ f[d] = 0 /\ f[K] \in Nat
  BY <1>1, <1>2 DEF IsSum
<1>6. g[K] = f[K] - 0
  BY Zenon, <1>4, <1>5
<1>7. QED
  BY <1>5, <1>6

-----------------------------------------------------------------------------
(* Lists of the outputs that fit *)

\* The L entries of q are, in order, the outputs after m of N whose sizes in o fit.
Lists(q, L, o, N, m, max) ==
  /\ L \in Nat /\ N \in Nat /\ m \in 0..N /\ q \in [1..L -> Nat] /\ o \in [1..N -> Nat]
  /\ \A i \in 1..L : q[i] \in m + 1..N /\ o[q[i]] <= max
  /\ \A n \in m + 1..N : o[n] <= max => \E i \in 1..L : q[i] = n
  /\ \A i, j \in 1..L : i < j => q[i] < q[j]

\* p continues o by one more number.
Extends(p, o, N, last) ==
  /\ N \in Nat /\ last \in Nat
  /\ p \in [1..N + 1 -> Nat] /\ o \in [1..N -> Nat] /\ p[N + 1] = last
  /\ \A i \in 1..N : p[i] = o[i]

\* An output that fits is listed as well when it is appended.
LEMMA ListsAppended ==
  ASSUME NEW q, NEW L, NEW o, NEW N, NEW m, NEW max, Lists(q, L, o, N, m, max),
         NEW r, Extends(r, q, L, N + 1), NEW sz, NEW size, Extends(sz, o, N, size), size <= max
  PROVE  Lists(r, L + 1, sz, N + 1, m, max)
<1>1. L \in Nat /\ N \in Nat /\ m \in 0..N /\ q \in [1..L -> Nat] /\ o \in [1..N -> Nat]
  BY Zenon DEF Lists
<1>2. r \in [1..L + 1 -> Nat] /\ r[L + 1] = N + 1 /\ \A i \in 1..L : r[i] = q[i]
  BY Zenon DEF Extends
<1>3. sz \in [1..N + 1 -> Nat] /\ sz[N + 1] = size /\ \A n \in 1..N : sz[n] = o[n]
  BY Zenon DEF Extends
<1>4. ASSUME NEW i \in 1..L + 1 PROVE r[i] \in m + 1..N + 1 /\ sz[r[i]] <= max
  <2>1. CASE i = L + 1
    BY <1>1, <1>2, <1>3, <2>1
  <2>2. CASE i \in 1..L
    <3>1. r[i] = q[i] /\ q[i] \in m + 1..N /\ o[q[i]] <= max
      BY Zenon, <1>2, <2>2 DEF Lists
    <3>2. q[i] \in 1..N
      BY <1>1, <3>1
    <3>3. sz[q[i]] = o[q[i]]
      BY Zenon, <1>3, <3>2
    <3>4. QED
      BY <1>1, <3>1, <3>2, <3>3
  <2>3. QED
    BY <1>1, <2>1, <2>2
<1>5. ASSUME NEW n \in m + 1..N + 1, sz[n] <= max PROVE \E i \in 1..L + 1 : r[i] = n
  <2>1. CASE n = N + 1
    <3>1. L + 1 \in 1..L + 1
      BY <1>1
    <3>2. QED
      BY Zenon, <1>2, <2>1, <3>1
  <2>2. CASE n # N + 1
    <3>1. n \in m + 1..N /\ n \in 1..N
      BY <1>1, <2>2
    <3>2. sz[n] = o[n]
      BY Zenon, <1>3, <3>1
    <3>3. PICK i \in 1..L : q[i] = n
      BY Zenon, <1>5, <3>1, <3>2 DEF Lists
    <3>4. r[i] = n /\ i \in 1..L + 1
      BY <1>1, <1>2, <3>3
    <3>5. QED
      BY Zenon, <3>4
  <2>3. QED
    BY Zenon, <2>1, <2>2
<1>6. ASSUME NEW i \in 1..L + 1, NEW j \in 1..L + 1, i < j PROVE r[i] < r[j]
  <2>1. i \in 1..L
    BY <1>1, <1>6
  <2>2. r[i] = q[i] /\ q[i] \in m + 1..N
    BY Zenon, <1>2, <2>1 DEF Lists
  <2>3. CASE j = L + 1
    BY <1>1, <1>2, <2>2, <2>3
  <2>4. CASE j # L + 1
    <3>1. j \in 1..L
      BY <1>1, <2>4
    <3>2. q[i] < q[j]
      BY Zenon, <1>6, <2>1, <3>1 DEF Lists
    <3>3. QED
      BY Zenon, <1>2, <2>2, <3>1, <3>2
  <2>5. QED
    BY Zenon, <2>3, <2>4
<1>7. L + 1 \in Nat /\ N + 1 \in Nat /\ m \in 0..N + 1
  BY <1>1
<1>8. QED
  BY Zenon, <1>2, <1>3, <1>4, <1>5, <1>6, <1>7 DEF Lists

\* Of what is listed the first c may be dropped: the rest is what is after the last
\* that was dropped.
LEMMA ListsDropped ==
  ASSUME NEW r, NEW L, NEW sz, NEW N, NEW m, NEW max, Lists(r, L, sz, N, m, max),
         NEW c \in 0..L, NEW p \in [1..L - c -> Nat], \A i \in 1..L - c : p[i] = r[c + i]
  PROVE  Lists(p, L - c, sz, N, IF c = 0 THEN m ELSE r[c], max)
<1> DEFINE k == IF c = 0 THEN m ELSE r[c]
<1>1. L \in Nat /\ N \in Nat /\ m \in 0..N /\ r \in [1..L -> Nat] /\ sz \in [1..N -> Nat]
  BY Zenon DEF Lists
<1>2. L - c \in Nat /\ k \in 0..N /\ (c # 0 => c \in 1..L /\ r[c] \in m + 1..N)
  BY <1>1 DEF Lists
<1>3. ASSUME NEW i \in 1..L - c
      PROVE  p[i] = r[c + i] /\ c + i \in 1..L /\ r[c + i] \in k + 1..N /\ sz[r[c + i]] <= max
  <2>1. c + i \in 1..L
    BY <1>1
  <2>2. r[c + i] \in m + 1..N /\ sz[r[c + i]] <= max
    BY Zenon, <2>1 DEF Lists
  <2>3. CASE c = 0
    BY Zenon, <2>1, <2>2, <2>3
  <2>4. CASE c # 0
    <3>1. c \in 1..L /\ c < c + i
      BY <1>2, <2>4
    <3>2. r[c] < r[c + i]
      BY Zenon, <2>1, <3>1 DEF Lists
    <3>3. QED
      BY SMTT(30), <1>1, <1>2, <2>1, <2>2, <2>4, <3>2
  <2>5. QED
    BY Zenon, <2>3, <2>4
<1>4. ASSUME NEW n \in k + 1..N, sz[n] <= max PROVE \E i \in 1..L - c : p[i] = n
  <2>1. n \in m + 1..N
    BY <1>1, <1>2
  <2>2. PICK j \in 1..L : r[j] = n
    BY Zenon, <1>4, <2>1 DEF Lists
  <2>3. j > c
    <3>1. CASE c = 0
      BY <1>1, <3>1
    <3>2. CASE c # 0
      <4>1. c \in 1..L /\ r[c] < r[j]
        BY <1>1, <1>2, <2>2, <3>2
      <4>2. CASE j = c
        BY <1>1, <4>1, <4>2
      <4>3. CASE j < c
        <5>1. r[j] < r[c]
          BY Zenon, <4>1, <4>3 DEF Lists
        <5>2. QED
          BY <1>1, <2>2, <4>1, <5>1
      <4>4. QED
        BY <4>1, <4>2, <4>3
    <3>3. QED
      BY Zenon, <3>1, <3>2
  <2>4. j - c \in 1..L - c /\ c + (j - c) = j
    BY <1>1, <2>3
  <2>5. p[j - c] = n
    BY Zenon, <2>2, <2>4
  <2>6. QED
    BY Zenon, <2>4, <2>5
<1>5. ASSUME NEW i \in 1..L - c, NEW j \in 1..L - c, i < j PROVE p[i] < p[j]
  <2>1. c + i \in 1..L /\ c + j \in 1..L /\ c + i < c + j
    BY <1>1, <1>5
  <2>2. r[c + i] < r[c + j]
    BY Zenon, <2>1 DEF Lists
  <2>3. QED
    BY Zenon, <2>2
<1>6. QED
  <2>1. \A i \in 1..L - c : p[i] \in k + 1..N /\ sz[p[i]] <= max
    BY Zenon, <1>3
  <2> HIDE DEF k
  <2>2. Lists(p, L - c, sz, N, k, max)
    BY ZenonT(30), <1>1, <1>2, <1>4, <1>5, <2>1 DEF Lists
  <2>3. QED
    BY Zenon, <2>2 DEF k

-----------------------------------------------------------------------------
(* Sequences that are appended to and cut *)

\* A sequence that is appended to is continued.
LEMMA AppendExtends ==
  ASSUME NEW s \in Seq(Nat), NEW x \in Nat
  PROVE  Append(s, x) \in Seq(Nat) /\ Len(Append(s, x)) = Len(s) + 1 /\ Len(s) \in Nat
         /\ Extends(Append(s, x), s, Len(s), x)
<1>1. Append(s, x) \in Seq(Nat) /\ Len(Append(s, x)) = Len(s) + 1 /\ Len(s) \in Nat
  OBVIOUS
<1>2. Append(s, x)[Len(s) + 1] = x /\ \A i \in 1..Len(s) : Append(s, x)[i] = s[i]
  OBVIOUS
<1>3. s \in [1..Len(s) -> Nat]
  OBVIOUS
<1>4. Append(s, x) \in [1..Len(s) + 1 -> Nat]
  <2> DEFINE a == Append(s, x)
  <2>1. a \in Seq(Nat) /\ Len(a) = Len(s) + 1
    BY Zenon, <1>1
  <2> HIDE DEF a
  <2>2. a \in [1..Len(a) -> Nat]
    BY <2>1
  <2>3. QED
    BY Zenon, <2>1, <2>2 DEF a
<1>5. QED
  BY Zenon, <1>1, <1>2, <1>3, <1>4 DEF Extends

\* p is r from entry c + 1 on.
IsTail(p, r, c) ==
  /\ r \in Seq(Nat) /\ c \in 0..Len(r) /\ p \in Seq(Nat) /\ Len(p) = Len(r) - c
  /\ p \in [1..Len(r) - c -> Nat] /\ \A i \in 1..Len(r) - c : p[i] = r[c + i]

\* What the loop leaves of a sequence.
LEMMA Suffix ==
  ASSUME NEW r \in Seq(Nat), NEW c \in 0..Len(r)
  PROVE  IsTail(SubSeq(r, c + 1, Len(r)), r, c)
<1> DEFINE p == SubSeq(r, c + 1, Len(r))
<1>1. p \in Seq(Nat) /\ Len(p) = Len(r) - c
  OBVIOUS
<1>2. \A i \in 1..Len(r) - c : p[i] = r[c + i]
  <2> TAKE i \in 1..Len(r) - c
  <2>1. p[i] = r[(c + 1) + i - 1]
    BY SMTT(30)
  <2>2. (c + 1) + i - 1 = c + i
    OBVIOUS
  <2>3. QED
    BY Zenon, <2>1, <2>2
<1>3. p \in [1..Len(r) - c -> Nat]
  <2> HIDE DEF p
  <2>1. p \in [1..Len(p) -> Nat]
    BY SMTT(30), <1>1
  <2>2. QED
    BY Zenon, <1>1, <2>1
<1>4. QED
  BY Zenon, <1>1, <1>2, <1>3 DEF IsTail

\* With nothing dropped all is left.
LEMMA TailOfNone == ASSUME NEW p, NEW r, NEW c, c = 0, IsTail(p, r, c) PROVE p = r
<1> DEFINE L == Len(r)
<1>1. L \in Nat /\ Len(p) = L /\ r \in Seq(Nat) /\ p \in Seq(Nat)
  BY DEF IsTail
<1>2. \A i \in 1..L : p[i] = r[i]
  BY <1>1 DEF IsTail
<1>3. QED
  BY <1>1, <1>2

\* r is q with x appended.
Appended(r, q, x) == r \in Seq(Nat) /\ Len(r) = Len(q) + 1 /\ Extends(r, q, Len(q), x)

-----------------------------------------------------------------------------
(* Frames in order *)

\* ns is in order, without duplicates.
Rising(ns) == \A i, j \in 1..Len(ns) : i < j => ns[i] < ns[j]

\* The frames F[0], ..., F[L] are in order, and hold every number after from up
\* to m, which is the greatest.
Serves(F, L, from, m) ==
  /\ L \in Nat /\ from \in Nat /\ m \in Nat /\ from <= m /\ F \in [0..L -> Seq(Nat)]
  /\ \A i \in 0..L : Rising(F[i])
  /\ \A i, j \in 0..L : i < j => \A a \in Range(F[i]), b \in Range(F[j]) : a < b
  /\ \A i \in 0..L : \A a \in Range(F[i]) : a <= m
  /\ \A n \in from + 1..m : \E i \in 0..L : n \in Range(F[i])

\* What is in a sequence.
LEMMA Members ==
  ASSUME NEW s \in Seq(Nat)
  PROVE  Range(s) = {s[i] : i \in 1..Len(s)} /\ Range(s) \in SUBSET Nat
BY DEF Range

\* x is in order and holds just the numbers after m up to k.
Continues(x, m, k) ==
  /\ x \in Seq(Nat) /\ Rising(x) /\ m \in Nat /\ k \in Nat /\ m <= k
  /\ \A a \in Range(x) : m < a /\ a <= k
  /\ \A n \in m + 1..k : n \in Range(x)

\* G is F with x as one more frame.
OneMore(G, F, L, x) == G \in [0..L + 1 -> Seq(Nat)] /\ G[L + 1] = x /\ \A i \in 0..L : G[i] = F[i]

\* A frame that goes on where the others end may be added.
LEMMA ServesMore ==
  ASSUME NEW F, NEW L, NEW from, NEW m, Serves(F, L, from, m),
         NEW x, NEW k, Continues(x, m, k), NEW G, OneMore(G, F, L, x)
  PROVE  Serves(G, L + 1, from, k)
<1>1. L \in Nat /\ from \in Nat /\ m \in Nat /\ from <= m /\ F \in [0..L -> Seq(Nat)]
  BY Zenon DEF Serves
<1>2. k \in Nat /\ m <= k /\ Rising(x) /\ \A a \in Range(x) : m < a /\ a <= k
  BY Zenon DEF Continues
<1>3. G \in [0..L + 1 -> Seq(Nat)] /\ G[L + 1] = x /\ \A i \in 0..L : G[i] = F[i]
  BY Zenon DEF OneMore
<1>4. \A i \in 0..L + 1 : i \in 0..L \/ i = L + 1
  BY <1>1
<1>5. \A i \in 0..L + 1 : Rising(G[i])
  <2>1. \A i \in 0..L : Rising(F[i])
    BY Zenon DEF Serves
  <2>2. QED
    BY Zenon, <1>2, <1>3, <1>4, <2>1
<1>6. \A i \in 0..L : \A a \in Range(G[i]) : a \in Nat /\ a <= m
  <2> SUFFICES ASSUME NEW i \in 0..L, NEW a \in Range(G[i]) PROVE a \in Nat /\ a <= m
    BY Zenon
  <2>1. G[i] = F[i] /\ F[i] \in Seq(Nat)
    BY Zenon, <1>1, <1>3
  <2>2. a <= m
    BY Zenon, <2>1 DEF Serves
  <2>3. a \in Nat
    BY Zenon, <2>1, Members
  <2>4. QED
    BY Zenon, <2>2, <2>3
<1>7. \A a \in Range(x) : a \in Nat
  <2>1. x \in Seq(Nat)
    BY Zenon DEF Continues
  <2>2. QED
    BY Zenon, <2>1, Members
<1>8. ASSUME NEW i \in 0..L + 1, NEW j \in 0..L + 1, i < j, NEW a \in Range(G[i]), NEW b \in Range(G[j])
      PROVE  a < b
  <2>1. i \in 0..L
    BY <1>1, <1>8
  <2>2. CASE j = L + 1
    <3>1. a \in Nat /\ a <= m
      BY Zenon, <1>6, <1>8, <2>1
    <3>2. b \in Range(x)
      BY Zenon, <1>3, <1>8, <2>2
    <3>3. b \in Nat /\ m < b
      BY Zenon, <1>2, <1>7, <3>2
    <3>4. QED
      BY <1>1, <3>1, <3>3
  <2>3. CASE j \in 0..L
    <3>1. a \in Range(F[i]) /\ b \in Range(F[j])
      BY Zenon, <1>3, <1>8, <2>1, <2>3
    <3>2. QED
      BY Zenon, <1>8, <2>1, <2>3, <3>1 DEF Serves
  <2>4. QED
    BY Zenon, <1>4, <2>2, <2>3
<1>9. ASSUME NEW i \in 0..L + 1, NEW a \in Range(G[i]) PROVE a <= k
  <2>1. CASE i \in 0..L
    <3>1. a \in Nat /\ a <= m
      BY Zenon, <1>6, <2>1
    <3>2. QED
      BY <1>1, <1>2, <3>1
  <2>2. CASE i = L + 1
    BY Zenon, <1>2, <1>3, <2>2
  <2>3. QED
    BY Zenon, <1>4, <2>1, <2>2
<1>10. ASSUME NEW n \in from + 1..k PROVE \E i \in 0..L + 1 : n \in Range(G[i])
  <2>1. n \in from + 1..m \/ n \in m + 1..k
    BY <1>1, <1>2
  <2>2. CASE n \in from + 1..m
    <3>1. PICK i \in 0..L : n \in Range(F[i])
      BY Zenon, <2>2 DEF Serves
    <3>2. i \in 0..L + 1
      BY <1>1
    <3>3. QED
      BY Zenon, <1>3, <3>1, <3>2
  <2>3. CASE n \in m + 1..k
    <3>1. L + 1 \in 0..L + 1
      BY <1>1
    <3>2. n \in Range(x)
      BY Zenon, <2>3 DEF Continues
    <3>3. QED
      BY Zenon, <1>3, <3>1, <3>2
  <2>4. QED
    BY Zenon, <2>1, <2>2, <2>3
<1>11. L + 1 \in Nat /\ from <= k
  BY <1>1, <1>2
<1>12. QED
  BY Zenon, <1>1, <1>2, <1>3, <1>5, <1>8, <1>9, <1>10, <1>11 DEF Serves

\* A sequence behind another.
LEMMA Joined ==
  ASSUME NEW s \in Seq(Nat), NEW t \in Seq(Nat)
  PROVE  s \o t \in Seq(Nat) /\ Range(s \o t) = Range(s) \cup Range(t)
<1> DEFINE u == s \o t
<1>1. u \in Seq(Nat) /\ Len(u) = Len(s) + Len(t) /\ Len(s) \in Nat /\ Len(t) \in Nat
  OBVIOUS
<1>2. \A i \in 1..Len(s) : u[i] = s[i] /\ i \in 1..Len(u)
  OBVIOUS
<1>3. \A i \in 1..Len(t) : u[Len(s) + i] = t[i] /\ Len(s) + i \in 1..Len(u)
  <2> TAKE i \in 1..Len(t)
  <2>1. Len(s) + i \in 1..Len(u) /\ ~(Len(s) + i <= Len(s)) /\ (Len(s) + i) - Len(s) = i
    BY <1>1
  <2>2. QED
    BY <2>1
<1>4. \A i \in 1..Len(u) : i \in 1..Len(s) \/ \E j \in 1..Len(t) : i = Len(s) + j
  <2> TAKE i \in 1..Len(u)
  <2> DEFINE j == i - Len(s)
  <2>1. i \in 1..Len(s) \/ (j \in 1..Len(t) /\ i = Len(s) + j)
    BY <1>1
  <2>2. QED
    BY ZenonT(30), <2>1
<1>5. /\ Range(u) = {u[i] : i \in 1..Len(u)} /\ Range(s) = {s[i] : i \in 1..Len(s)}
      /\ Range(t) = {t[i] : i \in 1..Len(t)}
  BY ZenonT(30), <1>1, Members
<1> HIDE DEF u
<1>6. Range(u) = Range(s) \cup Range(t)
  <2>1. ASSUME NEW a \in Range(u) PROVE a \in Range(s) \cup Range(t)
    <3>1. PICK i \in 1..Len(u) : a = u[i]
      BY Zenon, <1>5
    <3>2. QED
      BY Zenon, <1>2, <1>3, <1>4, <1>5, <3>1
  <2>2. ASSUME NEW a \in Range(s) PROVE a \in Range(u)
    BY Zenon, <1>2, <1>5
  <2>3. ASSUME NEW a \in Range(t) PROVE a \in Range(u)
    <3>1. PICK i \in 1..Len(t) : a = t[i]
      BY Zenon, <1>5
    <3>2. QED
      BY Zenon, <1>3, <1>5, <3>1
  <2>4. QED
    BY Zenon, <2>1, <2>2, <2>3
<1>7. QED
  BY Zenon, <1>1, <1>6 DEF u

\* In order, and behind: in order together.
LEMMA JoinedRising ==
  ASSUME NEW s \in Seq(Nat), NEW t \in Seq(Nat), Rising(s), Rising(t),
         \A a \in Range(s), b \in Range(t) : a < b
  PROVE  Rising(s \o t)
<1> DEFINE u == s \o t
<1>1. u \in Seq(Nat) /\ Len(u) = Len(s) + Len(t) /\ Len(s) \in Nat /\ Len(t) \in Nat
  OBVIOUS
<1>2. \A i \in 1..Len(u) : i <= Len(s) => i \in 1..Len(s) /\ u[i] = s[i]
  OBVIOUS
<1>3. \A i \in 1..Len(u) : ~(i <= Len(s)) => i - Len(s) \in 1..Len(t) /\ u[i] = t[i - Len(s)]
  OBVIOUS
<1>4. (\A i \in 1..Len(s) : s[i] \in Range(s)) /\ (\A i \in 1..Len(t) : t[i] \in Range(t))
  BY Zenon, Members
<1> HIDE DEF u
<1>5. ASSUME NEW i \in 1..Len(u), NEW j \in 1..Len(u), i < j PROVE u[i] < u[j]
  <2>1. CASE j <= Len(s)
    <3>1. i <= Len(s)
      BY <1>1, <1>5, <2>1
    <3>2. QED
      BY Zenon, <1>2, <1>5, <2>1, <3>1 DEF Rising
  <2>2. CASE i <= Len(s) /\ ~(j <= Len(s))
    BY Zenon, <1>2, <1>3, <1>4, <2>2
  <2>3. CASE ~(i <= Len(s)) /\ ~(j <= Len(s))
    <3>1. i - Len(s) < j - Len(s)
      BY <1>1, <1>5
    <3>2. QED
      BY Zenon, <1>3, <2>3, <3>1 DEF Rising
  <2>4. QED
    <3>1. ~(i <= Len(s)) => ~(j <= Len(s))
      BY <1>1, <1>5
    <3>2. QED
      BY Zenon, <2>1, <2>2, <2>3, <3>1
<1>6. Rising(u)
  BY Zenon, <1>5 DEF Rising
<1>7. QED
  BY Zenon, <1>6 DEF u

\* G is F with its first two frames in one.
OneLess(G, F, L) ==
  /\ L \in Nat \ {0} /\ G \in [0..L - 1 -> Seq(Nat)] /\ G[0] = F[0] \o F[1]
  /\ \A i \in 1..L - 1 : G[i] = F[i + 1]

\* A frame that is written goes behind what was written.
LEMMA ServesLess ==
  ASSUME NEW F, NEW L, NEW from, NEW m, Serves(F, L, from, m), NEW G, OneLess(G, F, L)
  PROVE  Serves(G, L - 1, from, m)
<1>1. L \in Nat /\ from \in Nat /\ m \in Nat /\ from <= m /\ F \in [0..L -> Seq(Nat)]
  BY Zenon DEF Serves
<1>2. /\ L \in Nat \ {0} /\ G \in [0..L - 1 -> Seq(Nat)] /\ G[0] = F[0] \o F[1]
      /\ \A i \in 1..L - 1 : G[i] = F[i + 1]
  BY Zenon DEF OneLess
<1>3. 0 \in 0..L /\ 1 \in 0..L /\ 0 < 1 /\ L - 1 \in Nat
  BY <1>2
<1>4. F[0] \in Seq(Nat) /\ F[1] \in Seq(Nat)
  BY Zenon, <1>1, <1>3
<1>5. Range(G[0]) = Range(F[0]) \cup Range(F[1])
  BY Zenon, <1>2, <1>4, Joined
<1>6. Rising(G[0])
  <2>1. Rising(F[0]) /\ Rising(F[1]) /\ \A a \in Range(F[0]), b \in Range(F[1]) : a < b
    BY Zenon, <1>3 DEF Serves
  <2>2. QED
    BY Zenon, <1>2, <1>4, <2>1, JoinedRising
<1>7. \A i \in 0..L - 1 : i = 0 \/ (i \in 1..L - 1 /\ i + 1 \in 0..L)
  BY <1>2
<1>8. \A i \in 0..L - 1 : Rising(G[i])
  <2>1. \A i \in 0..L : Rising(F[i])
    BY Zenon DEF Serves
  <2>2. QED
    BY Zenon, <1>2, <1>6, <1>7, <2>1
<1>9. ASSUME NEW i \in 0..L - 1, NEW a \in Range(G[i])
      PROVE  \E k \in 0..L : a \in Range(F[k]) /\ (k = i + 1 \/ (i = 0 /\ k = 0))
  <2>1. CASE i = 0
    <3>1. 1 = i + 1
      BY <2>1
    <3>2. QED
      BY Zenon, <1>3, <1>5, <1>9, <2>1, <3>1
  <2>2. CASE i \in 1..L - 1 /\ i + 1 \in 0..L
    BY Zenon, <1>2, <1>9, <2>2
  <2>3. QED
    BY Zenon, <1>7, <2>1, <2>2
<1>10. ASSUME NEW i \in 0..L - 1, NEW j \in 0..L - 1, i < j, NEW a \in Range(G[i]), NEW b \in Range(G[j])
       PROVE  a < b
  <2>1. PICK k \in 0..L : a \in Range(F[k]) /\ (k = i + 1 \/ (i = 0 /\ k = 0))
    BY Zenon, <1>9, <1>10
  <2>2. j + 1 \in 0..L /\ b \in Range(F[j + 1])
    <3>1. j # 0
      BY <1>2, <1>10
    <3>2. j \in 1..L - 1 /\ j + 1 \in 0..L
      BY Zenon, <1>7, <3>1
    <3>3. QED
      BY Zenon, <1>2, <1>10, <3>2
  <2>3. k < j + 1
    BY <1>2, <1>10, <2>1
  <2>4. QED
    BY Zenon, <2>1, <2>2, <2>3 DEF Serves
<1>11. ASSUME NEW i \in 0..L - 1, NEW a \in Range(G[i]) PROVE a <= m
  BY Zenon, <1>9, <1>11 DEF Serves
<1>12. ASSUME NEW n \in from + 1..m PROVE \E i \in 0..L - 1 : n \in Range(G[i])
  <2>1. PICK k \in 0..L : n \in Range(F[k])
    BY Zenon, <1>12 DEF Serves
  <2>2. CASE k = 0 \/ k = 1
    <3>1. 0 \in 0..L - 1
      BY <1>2
    <3>2. QED
      BY Zenon, <1>5, <2>1, <2>2, <3>1
  <2>3. CASE k # 0 /\ k # 1
    <3>1. k - 1 \in 1..L - 1 /\ k - 1 \in 0..L - 1 /\ (k - 1) + 1 = k
      BY <1>2, <2>3
    <3>2. G[k - 1] = F[k]
      BY Zenon, <1>2, <3>1
    <3>3. QED
      BY Zenon, <2>1, <3>1, <3>2
  <2>4. QED
    BY Zenon, <2>2, <2>3
<1>13. QED
  BY Zenon, <1>1, <1>2, <1>3, <1>8, <1>10, <1>11, <1>12 DEF Serves

\* Of the frames of a new connection only the replay has numbers, up to the newest.
LEMMA ServesNew ==
  ASSUME NEW F, NEW L, L \in Nat, F \in [0..L -> Seq(Nat)], NEW m \in Nat, NEW k \in 0..L,
         \A i \in 0..L : i # k => F[i] = <<>>, Rising(F[k]), \A a \in Range(F[k]) : a <= m
  PROVE  Serves(F, L, m, m)
<1>1. Range(<<>>) = {} /\ Rising(<<>>)
  BY DEF Range, Rising
<1>2. \A i \in 0..L : Rising(F[i]) /\ (i # k => Range(F[i]) = {})
  BY Zenon, <1>1
<1>3. \A i, j \in 0..L : i < j => \A a \in Range(F[i]), b \in Range(F[j]) : a < b
  <2> SUFFICES ASSUME NEW i \in 0..L, NEW j \in 0..L, i < j, Range(F[i]) # {}, Range(F[j]) # {} PROVE FALSE
    BY Zenon
  <2>1. i = k /\ j = k
    BY Zenon, <1>2
  <2>2. QED
    BY <2>1
<1>4. \A i \in 0..L : \A a \in Range(F[i]) : a <= m
  BY Zenon, <1>2
<1>5. m <= m /\ \A n \in m + 1..m : FALSE
  OBVIOUS
<1>6. QED
  BY Zenon, <1>2, <1>3, <1>4, <1>5 DEF Serves

\* What was written, and the frames that wait.
Frames(sh, sd) == [i \in 0..Len(sd) |-> IF i = 0 THEN sh ELSE sd[i]]

\* Their types.
LEMMA FramesTyped ==
  ASSUME NEW sh \in Seq(Nat), NEW sd \in Seq(Seq(Nat))
  PROVE  /\ Len(sd) \in Nat /\ Frames(sh, sd) \in [0..Len(sd) -> Seq(Nat)] /\ Frames(sh, sd)[0] = sh
         /\ \A i \in 1..Len(sd) : Frames(sh, sd)[i] = sd[i]
<1>1. Len(sd) \in Nat /\ \A i \in 1..Len(sd) : sd[i] \in Seq(Nat)
  OBVIOUS
<1>2. \A i \in 0..Len(sd) : i = 0 \/ i \in 1..Len(sd)
  BY <1>1
<1>3. \A i \in 0..Len(sd) : (IF i = 0 THEN sh ELSE sd[i]) \in Seq(Nat)
  BY Zenon, <1>1, <1>2
<1>4. 0 \in 0..Len(sd) /\ \A i \in 1..Len(sd) : i \in 0..Len(sd) /\ i # 0
  BY <1>1
<1>5. QED
  BY Zenon, <1>1, <1>3, <1>4 DEF Frames

\* Sequences of anything.
LEMMA AppendedEntries ==
  ASSUME NEW S, NEW s \in Seq(S), NEW x \in S
  PROVE  Append(s, x)[Len(s) + 1] = x /\ \A i \in 1..Len(s) : Append(s, x)[i] = s[i]
OBVIOUS

\* Likewise.
LEMMA TailEntries ==
  ASSUME NEW S, NEW s \in Seq(S), s # <<>>
  PROVE  /\ Len(s) \in Nat \ {0} /\ Tail(s) \in Seq(S) /\ Len(Tail(s)) = Len(s) - 1
         /\ Head(s) = s[1] /\ s[1] \in S /\ \A i \in 1..Len(s) - 1 : Tail(s)[i] = s[i + 1]
OBVIOUS

\* enqueue appends a frame.
LEMMA FramesAppended ==
  ASSUME NEW sh \in Seq(Nat), NEW sd \in Seq(Seq(Nat)), NEW x \in Seq(Nat)
  PROVE  /\ Append(sd, x) \in Seq(Seq(Nat)) /\ Len(Append(sd, x)) = Len(sd) + 1
         /\ OneMore(Frames(sh, Append(sd, x)), Frames(sh, sd), Len(sd), x)
<1> DEFINE t == Append(sd, x)
           L == Len(sd)
<1>1. L \in Nat /\ t \in Seq(Seq(Nat)) /\ Len(t) = L + 1
  OBVIOUS
<1>2. t[L + 1] = x /\ \A i \in 1..L : t[i] = sd[i]
  <2> DEFINE S == Seq(Nat)
  <2>1. sd \in Seq(S) /\ x \in S
    BY Zenon
  <2> HIDE DEF S
  <2>2. QED
    BY <2>1, AppendedEntries
<1>3. /\ Frames(sh, sd)[0] = sh /\ \A i \in 1..L : Frames(sh, sd)[i] = sd[i]
  BY Zenon, FramesTyped
<1> HIDE DEF t
<1>4. /\ Frames(sh, t) \in [0..L + 1 -> Seq(Nat)] /\ Frames(sh, t)[0] = sh
      /\ \A i \in 1..L + 1 : Frames(sh, t)[i] = t[i]
  <2>1. /\ Frames(sh, t) \in [0..Len(t) -> Seq(Nat)] /\ Frames(sh, t)[0] = sh
        /\ \A i \in 1..Len(t) : Frames(sh, t)[i] = t[i]
    BY Zenon, <1>1, FramesTyped
  <2>2. QED
    BY Zenon, <1>1, <2>1
<1>5. L + 1 \in 1..L + 1 /\ (\A i \in 1..L : i \in 1..L + 1) /\ \A i \in 0..L : i = 0 \/ i \in 1..L
  BY <1>1
<1>6. OneMore(Frames(sh, t), Frames(sh, sd), L, x)
  BY Zenon, <1>2, <1>3, <1>4, <1>5 DEF OneMore
<1>7. QED
  BY Zenon, <1>1, <1>6 DEF t

\* The writer takes the first frame.
LEMMA FramesWritten ==
  ASSUME NEW sh \in Seq(Nat), NEW sd \in Seq(Seq(Nat)), sd # <<>>
  PROVE  /\ sh \o Head(sd) \in Seq(Nat) /\ Tail(sd) \in Seq(Seq(Nat)) /\ Len(Tail(sd)) = Len(sd) - 1
         /\ OneLess(Frames(sh \o Head(sd), Tail(sd)), Frames(sh, sd), Len(sd))
<1> DEFINE t == Tail(sd)
           L == Len(sd)
           h == sh \o Head(sd)
<1>1. L \in Nat \ {0} /\ t \in Seq(Seq(Nat)) /\ Len(t) = L - 1 /\ Head(sd) = sd[1] /\ sd[1] \in Seq(Nat)
  OBVIOUS
<1>2. \A i \in 1..L - 1 : t[i] = sd[i + 1]
  <2> DEFINE S == Seq(Nat)
  <2>1. sd \in Seq(S)
    BY Zenon
  <2> HIDE DEF S
  <2>2. QED
    BY Zenon, <2>1, TailEntries
<1>3. h \in Seq(Nat) /\ h = sh \o sd[1]
  BY Zenon, <1>1, Joined
<1>4. /\ Frames(sh, sd)[0] = sh /\ \A i \in 1..L : Frames(sh, sd)[i] = sd[i]
  BY Zenon, FramesTyped
<1> HIDE DEF t, h
<1>5. /\ Frames(h, t) \in [0..L - 1 -> Seq(Nat)] /\ Frames(h, t)[0] = h
      /\ \A i \in 1..L - 1 : Frames(h, t)[i] = t[i]
  <2>1. /\ Frames(h, t) \in [0..Len(t) -> Seq(Nat)] /\ Frames(h, t)[0] = h
        /\ \A i \in 1..Len(t) : Frames(h, t)[i] = t[i]
    BY Zenon, <1>1, <1>3, FramesTyped
  <2>2. QED
    BY Zenon, <1>1, <2>1
<1>6. 1 \in 1..L /\ \A i \in 1..L - 1 : i + 1 \in 1..L
  BY <1>1
<1>7. OneLess(Frames(h, t), Frames(sh, sd), L)
  BY Zenon, <1>1, <1>2, <1>3, <1>4, <1>5, <1>6 DEF OneLess
<1>8. QED
  BY Zenon, <1>1, <1>3, <1>7 DEF t, h
=============================================================================
