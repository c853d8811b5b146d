------------------------ MODULE SessionOutputProofs -------------------------
(***************************************************************************)
(* The output of a persistent session, for any number of browsers, tabs    *)
(* and outputs, any sizes of outputs, of the replay and of the queues: the *)
(* replay is the longest suffix that fits, and what a connection is sent   *)
(* is in order and has no gap.                                             *)
(***************************************************************************)
EXTENDS PersistentSessionProofs, SequenceLemmas

-----------------------------------------------------------------------------
(* The bytes of the replay *)

\* FrontBytes is the sums of the sizes of the entries.
LEMMA FrontBytesSums ==
  ASSUME NEW r \in Seq(Nat), NEW sz \in Seq(Nat), \A i \in 1..Len(r) : r[i] \in 1..Len(sz)
  PROVE  IsSum(FrontBytes(r, sz), Len(r), [i \in 1..Len(r) |-> sz[r[i]]])
<1> DEFINE N == Len(r)
           w == [i \in 1..N |-> sz[r[i]]]
           Body(f) == [i \in 0..N |-> IF i = 0 THEN 0 ELSE f[i - 1] + sz[r[i]]]
<1>1. N \in Nat /\ w \in [1..N -> Nat]
  BY Zenon, EntrySizes
<1>2. ASSUME NEW f PROVE SumEquation(f, N, w) <=> f = Body(f)
  <2>1. \A i \in 0..N : i # 0 => w[i] = sz[r[i]]
    BY <1>1
  <2>2. QED
    BY ZenonT(30), <2>1 DEF SumEquation
<1>3. PICK f : SumEquation(f, N, w)
  <2> HIDE DEF w, N
  <2>1. QED
    BY Zenon, <1>1, SumsExist
<1>4. f = Body(f)
  BY Zenon, <1>2, <1>3
<1>5. FrontBytes(r, sz) = Body(FrontBytes(r, sz))
  BY ZenonT(30), <1>4 DEF FrontBytes
<1>6. SumEquation(FrontBytes(r, sz), N, w)
  BY ZenonT(30), <1>2, <1>5
<1>7. QED
  <2> HIDE DEF w
  <2>1. IsSum(FrontBytes(r, sz), N, w)
    BY Zenon, <1>1, <1>6, SumsTyped
  <2>2. QED
    BY Zenon, <2>1 DEF w

\* The loop stops at the first place where what is left is small enough.
LEMMA DroppedStops ==
  ASSUME NEW r \in Seq(Nat), NEW sz \in Seq(Nat), \A i \in 1..Len(r) : r[i] \in 1..Len(sz),
         NEW bytes, bytes = FrontBytes(r, sz)[Len(r)]
  PROVE  LET d == Dropped(r, sz, bytes)
             f == FrontBytes(r, sz)
         IN  /\ d.count \in 0..Len(r) /\ d.bytes = bytes - f[d.count] /\ d.bytes <= MaxReplay
             /\ d.count > 0 => d.bytes + sz[r[d.count]] > MaxReplay
<1> DEFINE N == Len(r)
           w == [i \in 1..N |-> sz[r[i]]]
           f == FrontBytes(r, sz)
           Stops(i) == bytes - f[i] <= MaxReplay \/ i = N
           First(i) == Stops(i) /\ \A j \in 0..i - 1 : ~Stops(j)
           T == {i \in 0..N : Stops(i)}
           n == CHOOSE i \in 0..N : First(i)
<1>1. N \in Nat /\ w \in [1..N -> Nat]
  BY Zenon, EntrySizes
<1>2. IsSum(f, N, w)
  BY Zenon, FrontBytesSums
<1>3. Dropped(r, sz, bytes) = [count |-> n, bytes |-> bytes - f[n]]
  BY Zenon DEF Dropped
<1>4. f \in [0..N -> Nat] /\ bytes = f[N] /\ \A i \in 1..N : f[i] = f[i - 1] + w[i]
  BY Zenon, <1>2 DEF IsSum
<1>5. \A i \in 1..N : w[i] = sz[r[i]]
  BY Zenon
<1> HIDE DEF N, w, f
<1>6. PICK x \in T : \A y \in T : x <= y
  <2>1. N \in T /\ T \in SUBSET Nat
    BY <1>1
  <2> HIDE DEF T
  <2>2. QED
    BY Zenon, <2>1, LeastNumber
<1>7. x \in 0..N /\ First(x)
  <2>1. x \in 0..N /\ Stops(x)
    BY Zenon, <1>6
  <2>2. ASSUME NEW j \in 0..x - 1, Stops(j) PROVE FALSE
    <3>1. j \in 0..N /\ ~(x <= j)
      BY <1>1, <2>1
    <3>2. j \in T
      BY Zenon, <2>2, <3>1
    <3>3. QED
      BY Zenon, <1>6, <3>1, <3>2
  <2>3. QED
    BY Zenon, <2>1, <2>2
<1>8. n \in 0..N /\ First(n)
  <2> HIDE DEF First
  <2>1. QED
    BY Zenon, <1>7
<1> HIDE DEF n
<1>9. bytes - f[n] <= MaxReplay
  <2>1. CASE n = N
    BY <1>1, <1>4, <2>1, ConstantsAssumption
  <2>2. QED
    BY Zenon, <1>8, <2>1
<1>10. ASSUME n > 0 PROVE (bytes - f[n]) + sz[r[n]] > MaxReplay
  <2>1. n \in 1..N /\ n - 1 \in 0..n - 1 /\ n - 1 \in 0..N
    BY <1>1, <1>8, <1>10
  <2>2. ~(bytes - f[n - 1] <= MaxReplay)
    BY Zenon, <1>8, <2>1
  <2>3. f[n] = f[n - 1] + w[n] /\ w[n] = sz[r[n]]
    BY Zenon, <1>4, <1>5, <2>1
  <2>4. f[n - 1] \in Nat /\ w[n] \in Nat /\ bytes \in Nat
    BY <1>1, <1>4, <2>1
  <2>5. bytes - f[n - 1] > MaxReplay
    BY <2>2, <2>4, ConstantsAssumption
  <2>6. (bytes - f[n]) + sz[r[n]] = bytes - f[n - 1]
    <3> DEFINE a == f[n]
               b == f[n - 1]
               s == sz[r[n]]
    <3>1. a = b + s /\ b \in Nat /\ s \in Nat /\ bytes \in Nat
      BY Zenon, <2>3, <2>4
    <3> HIDE DEF a, b, s
    <3>2. (bytes - a) + s = bytes - b
      BY <3>1
    <3>3. QED
      BY Zenon, <3>2 DEF a, b, s
  <2>7. QED
    BY Zenon, <2>5, <2>6
<1>11. QED
  <2>1. Dropped(r, sz, bytes).count = n /\ Dropped(r, sz, bytes).bytes = bytes - f[n]
    BY <1>3
  <2>2. QED
    BY Zenon, <1>8, <1>9, <1>10, <2>1 DEF N, f

-----------------------------------------------------------------------------
(* What the replay holds *)

\* q holds, with b bytes, what is after output m of those whose sizes are o, and
\* output m would not fit.
Held(q, b, o, N, m) ==
  /\ q \in Seq(Nat) /\ o \in Seq(Nat) /\ Len(o) = N
  /\ Lists(q, Len(q), o, N, m, MaxReplay)
  /\ b = FrontBytes(q, o)[Len(q)] /\ b <= MaxReplay
  /\ m > 0 => o[m] <= MaxReplay /\ b + o[m] > MaxReplay

\* Entries of a list have sizes.
LEMMA ListSizes ==
  ASSUME NEW q \in Seq(Nat), NEW o \in Seq(Nat), NEW m, Lists(q, Len(q), o, Len(o), m, MaxReplay)
  PROVE  IsSum(FrontBytes(q, o), Len(q), [i \in 1..Len(q) |-> o[q[i]]])
<1>1. \A i \in 1..Len(q) : q[i] \in 1..Len(o)
  BY DEF Lists
<1>2. QED
  BY Zenon, <1>1, FrontBytesSums

\* An output that is too large leaves what is held.
LEMMA HeldWithout ==
  ASSUME NEW q, NEW b, NEW o, NEW N, NEW m, Held(q, b, o, N, m), NEW size \in Nat, ~(size <= MaxReplay)
  PROVE  Held(q, b, Append(o, size), N + 1, m)
<1> DEFINE sz == Append(o, size)
           L == Len(q)
<1>1. q \in Seq(Nat) /\ o \in Seq(Nat) /\ Len(o) = N /\ Lists(q, L, o, N, m, MaxReplay)
  BY Zenon DEF Held
<1>2. sz \in Seq(Nat) /\ Len(sz) = N + 1 /\ N \in Nat /\ Extends(sz, o, N, size)
  BY Zenon, <1>1, AppendExtends
<1> HIDE DEF sz, L
<1>3. L \in Nat /\ m \in 0..N /\ q \in [1..L -> Nat] /\ o \in [1..N -> Nat]
  BY Zenon, <1>1 DEF Lists
<1>4. sz \in [1..N + 1 -> Nat] /\ sz[N + 1] = size /\ \A n \in 1..N : sz[n] = o[n]
  BY Zenon, <1>2 DEF Extends
<1>5. \A i \in 1..L : q[i] \in m + 1..N /\ q[i] \in 1..N /\ o[q[i]] <= MaxReplay
  <2> TAKE i \in 1..L
  <2>1. q[i] \in m + 1..N /\ o[q[i]] <= MaxReplay
    BY Zenon, <1>1 DEF Lists
  <2>2. QED
    BY <1>2, <1>3, <2>1
<1>6. \A i \in 1..L : sz[q[i]] = o[q[i]]
  BY Zenon, <1>4, <1>5
<1>7. \A n \in m + 1..N + 1 : sz[n] <= MaxReplay => \E i \in 1..L : q[i] = n
  <2> SUFFICES ASSUME NEW n \in m + 1..N + 1, sz[n] <= MaxReplay PROVE \E i \in 1..L : q[i] = n
    BY Zenon
  <2>1. n # N + 1
    BY Zenon, <1>4
  <2>2. n \in m + 1..N /\ n \in 1..N
    BY <1>2, <1>3, <2>1
  <2>3. o[n] <= MaxReplay
    BY Zenon, <1>4, <2>2
  <2>4. QED
    BY Zenon, <1>1, <2>2, <2>3 DEF Lists
<1>8. Lists(q, L, sz, N + 1, m, MaxReplay)
  <2>1. \A i, j \in 1..L : i < j => q[i] < q[j]
    BY Zenon, <1>1 DEF Lists
  <2>2. \A i \in 1..L : q[i] \in m + 1..N + 1 /\ sz[q[i]] <= MaxReplay
    BY SMTT(30), <1>2, <1>3, <1>5, <1>6
  <2>3. N + 1 \in Nat /\ m \in 0..N + 1
    BY <1>2, <1>3
  <2>4. QED
    BY Zenon, <1>3, <1>4, <1>7, <2>1, <2>2, <2>3 DEF Lists
<1>9. b = FrontBytes(q, sz)[L]
  <2> DEFINE v == [i \in 1..L |-> sz[q[i]]]
             w == [i \in 1..L |-> o[q[i]]]
  <2>1. IsSum(FrontBytes(q, o), L, w)
    BY ZenonT(30), <1>1, ListSizes DEF L
  <2>2. IsSum(FrontBytes(q, sz), L, v)
    BY Zenon, <1>1, <1>2, <1>8, ListSizes DEF L
  <2>3. \A i \in 1..L : v[i] = w[i]
    BY Zenon, <1>6
  <2> HIDE DEF v, w
  <2>4. L <= L
    BY <1>3
  <2>5. FrontBytes(q, sz)[L] = FrontBytes(q, o)[L]
    BY ZenonT(30), <2>1, <2>2, <2>3, <2>4, SameSums
  <2>6. QED
    BY Zenon, <2>5 DEF Held, L
<1>10. b <= MaxReplay /\ (m > 0 => sz[m] <= MaxReplay /\ b + sz[m] > MaxReplay)
  <2>1. m > 0 => m \in 1..N
    BY <1>2, <1>3
  <2>2. m > 0 => sz[m] = o[m]
    BY Zenon, <1>4, <2>1
  <2>3. QED
    BY Zenon, <2>2 DEF Held
<1>11. QED
  BY ZenonT(30), <1>1, <1>2, <1>8, <1>9, <1>10 DEF Held, L, sz

\* What is left has the bytes that are left.
LEMMA SuffixBytes ==
  ASSUME NEW r \in Seq(Nat), NEW sz \in Seq(Nat), NEW m, Lists(r, Len(r), sz, Len(sz), m, MaxReplay),
         NEW c, NEW p, IsTail(p, r, c), NEW k, Lists(p, Len(p), sz, Len(sz), k, MaxReplay)
  PROVE  FrontBytes(p, sz)[Len(p)] = FrontBytes(r, sz)[Len(r)] - FrontBytes(r, sz)[c]
<1> DEFINE f == FrontBytes(r, sz)
           g == FrontBytes(p, sz)
           w == [i \in 1..Len(r) |-> sz[r[i]]]
           v == [i \in 1..Len(p) |-> sz[p[i]]]
           K == Len(p)
           L == Len(r)
<1>0. /\ c \in 0..Len(r) /\ p \in Seq(Nat) /\ Len(p) = Len(r) - c
      /\ \A i \in 1..Len(r) - c : p[i] = r[c + i]
  BY Zenon DEF IsTail
<1>1. IsSum(f, L, w) /\ IsSum(g, K, v)
  BY ZenonT(30), <1>0, ListSizes
<1>2. Aligned(v, w, c, K)
  <2> SUFFICES ASSUME NEW i \in 1..K PROVE v[i] = w[c + i]
    BY Zenon DEF Aligned
  <2>1. c + i \in 1..L /\ i \in 1..L - c
    BY <1>0
  <2>2. v[i] = sz[p[i]] /\ w[c + i] = sz[r[c + i]]
    BY Zenon, <2>1
  <2>3. QED
    BY Zenon, <1>0, <2>1, <2>2
<1>3. c \in Nat /\ K \in Nat /\ K <= K /\ c + K <= L
  BY <1>0
<1>3a. c + K = L
  BY <1>0
<1> HIDE DEF f, g, w, v, K, L
<1>4. g[K] = f[c + K] - f[c]
  <2>1. Shifted(f, L, w, g, K, v, c, K)
    BY Zenon, <1>1, <1>2, <1>3 DEF Shifted
  <2>2. QED
    BY <2>1, SumsShift
<1>5. QED
  BY Zenon, <1>3a, <1>4 DEF f, g, K, L

\* An output that fits is appended, and the loop drops from the front what is too much.
LEMMA HeldWith ==
  ASSUME NEW q, NEW b, NEW o, NEW N, NEW m, Held(q, b, o, N, m), NEW size \in Nat, size <= MaxReplay,
         NEW r, Appended(r, q, N + 1), NEW sz, Appended(sz, o, size), NEW d, d = Dropped(r, sz, b + size)
  PROVE  \E k : Held(SubSeq(r, d.count + 1, Len(r)), d.bytes, sz, N + 1, k)
<1> DEFINE L == Len(q)
<1>1. q \in Seq(Nat) /\ o \in Seq(Nat) /\ Len(o) = N /\ Lists(q, L, o, N, m, MaxReplay)
  BY Zenon DEF Held
<1>2. N \in Nat /\ N + 1 \in Nat /\ L \in Nat
  BY <1>1
<1>3. sz \in Seq(Nat) /\ Len(sz) = N + 1 /\ Extends(sz, o, N, size)
  BY Zenon, <1>1 DEF Appended
<1>4. r \in Seq(Nat) /\ Len(r) = L + 1 /\ Extends(r, q, L, N + 1)
  BY Zenon, <1>1, <1>2 DEF Appended
<1>5. Lists(r, L + 1, sz, N + 1, m, MaxReplay)
  BY Zenon, <1>1, <1>3, <1>4, ListsAppended
<1>6. b + size = FrontBytes(r, sz)[Len(r)]
  <2> DEFINE f == FrontBytes(q, o)
             g == FrontBytes(r, sz)
             w == [i \in 1..Len(q) |-> o[q[i]]]
             v == [i \in 1..Len(r) |-> sz[r[i]]]
  <2>1. IsSum(f, L, w) /\ IsSum(g, L + 1, v)
    <3>1. Lists(q, Len(q), o, Len(o), m, MaxReplay) /\ Lists(r, Len(r), sz, Len(sz), m, MaxReplay)
      BY Zenon, <1>1, <1>3, <1>4, <1>5
    <3>2. IsSum(f, Len(q), w) /\ IsSum(g, Len(r), v)
      BY Zenon, <1>1, <1>3, <1>4, <3>1, ListSizes
    <3>3. QED
      BY Zenon, <1>4, <3>2
  <2>2. \A i \in 1..L : w[i] = v[i]
    <3> SUFFICES ASSUME NEW i \in 1..L PROVE o[q[i]] = sz[r[i]]
      <4>1. ASSUME NEW i \in 1..L PROVE i \in 1..Len(r) /\ i \in 1..Len(q)
        BY <1>2, <1>4
      <4>2. QED
        BY Zenon, <4>1
    <3>1. r[i] = q[i]
      BY Zenon, <1>4 DEF Extends
    <3>2. q[i] \in 1..N
      <4>1. q[i] \in m + 1..N /\ m \in 0..N
        BY Zenon, <1>1 DEF Lists
      <4>2. QED
        BY <1>2, <4>1
    <3>3. sz[q[i]] = o[q[i]]
      BY Zenon, <1>3, <3>2 DEF Extends
    <3>4. QED
      BY Zenon, <3>1, <3>3
  <2>3. v[L + 1] = size
    <3>1. L + 1 \in 1..Len(r)
      BY <1>2, <1>4
    <3>2. r[L + 1] = N + 1 /\ sz[N + 1] = size
      BY Zenon, <1>3, <1>4 DEF Extends
    <3>3. QED
      BY Zenon, <3>1, <3>2
  <2> HIDE DEF f, g, v, w
  <2>4. f[L] = g[L]
    <3>1. L <= L + 1
      BY <1>2
    <3>2. QED
      BY <2>1, <2>2, <3>1, SameSums
  <2>5. g[L + 1] = g[L] + v[L + 1]
    <3>1. L + 1 \in 1..L + 1 /\ (L + 1) - 1 = L
      BY <1>2
    <3>2. g[L + 1] = g[(L + 1) - 1] + v[L + 1]
      BY Zenon, <2>1, <3>1 DEF IsSum
    <3>3. QED
      BY Zenon, <3>1, <3>2
  <2>6. b = f[L]
    BY Zenon DEF Held, f
  <2>7. QED
    BY Zenon, <1>4, <2>3, <2>4, <2>5, <2>6 DEF g
<1>7. \A i \in 1..Len(r) : r[i] \in 1..Len(sz)
  <2> SUFFICES ASSUME NEW i \in 1..L + 1 PROVE r[i] \in 1..N + 1
    BY Zenon, <1>3, <1>4
  <2>1. r[i] \in m + 1..N + 1 /\ m \in 0..N + 1
    BY Zenon, <1>5 DEF Lists
  <2>2. QED
    BY <1>2, <2>1
<1> DEFINE c == d.count
           p == SubSeq(r, c + 1, Len(r))
           k == IF c = 0 THEN m ELSE r[c]
<1>8. /\ c \in 0..Len(r) /\ d.bytes = (b + size) - FrontBytes(r, sz)[c] /\ d.bytes <= MaxReplay
      /\ c > 0 => d.bytes + sz[r[c]] > MaxReplay
  BY Zenon, <1>3, <1>4, <1>6, <1>7, DroppedStops
<1>8a. IsTail(p, r, c)
  BY Zenon, <1>4, <1>8, Suffix
<1>9. /\ p \in Seq(Nat) /\ Len(p) = Len(r) - c
      /\ p \in [1..Len(r) - c -> Nat] /\ \A i \in 1..Len(r) - c : p[i] = r[c + i]
  BY Zenon, <1>8a DEF IsTail
<1> HIDE DEF c, p
<1>10. Lists(p, Len(p), sz, N + 1, k, MaxReplay)
  <2>0. /\ c \in 0..L + 1 /\ p \in [1..(L + 1) - c -> Nat]
        /\ \A i \in 1..(L + 1) - c : p[i] = r[c + i]
    BY Zenon, <1>4, <1>8, <1>9
  <2>1. Lists(p, (L + 1) - c, sz, N + 1, k, MaxReplay)
    BY Zenon, <1>5, <2>0, ListsDropped
  <2>2. QED
    BY Zenon, <1>4, <1>9, <2>1
<1> HIDE DEF k
<1>11. d.bytes = FrontBytes(p, sz)[Len(p)]
  <2>1. Lists(r, Len(r), sz, Len(sz), m, MaxReplay) /\ Lists(p, Len(p), sz, Len(sz), k, MaxReplay)
    BY Zenon, <1>3, <1>4, <1>5, <1>10
  <2>2. FrontBytes(p, sz)[Len(p)] = FrontBytes(r, sz)[Len(r)] - FrontBytes(r, sz)[c]
    BY <1>3, <1>4, <1>8a, <2>1, SuffixBytes
  <2>3. QED
    BY Zenon, <1>6, <1>8, <2>2
<1>12. k > 0 => sz[k] <= MaxReplay /\ d.bytes + sz[k] > MaxReplay
  <2>1. CASE c = 0
    <3>1. p = r
      BY Zenon, <1>8a, <2>1, TailOfNone
    <3>2. d.bytes = b + size
      BY Zenon, <1>6, <1>11, <3>1
    <3>3. k = m /\ m \in 0..N
      BY Zenon, <1>1, <2>1 DEF k, Lists
    <3>4. ASSUME m > 0 PROVE sz[m] <= MaxReplay /\ d.bytes + sz[m] > MaxReplay
      <4>1. m \in 1..N
        BY <1>2, <3>3, <3>4
      <4>2. sz[m] = o[m] /\ o[m] \in Nat
        <5>1. o \in [1..N -> Nat]
          BY Zenon, <1>1 DEF Lists
        <5>2. QED
          BY Zenon, <1>3, <4>1, <5>1 DEF Extends
      <4>3. o[m] <= MaxReplay /\ b + o[m] > MaxReplay
        BY Zenon, <3>4 DEF Held
      <4>4. b \in Nat
        <5>1. IsSum(FrontBytes(q, o), Len(q), [i \in 1..Len(q) |-> o[q[i]]])
          BY Zenon, <1>1, ListSizes
        <5>2. Len(q) \in 0..Len(q)
          BY <1>2
        <5>3. FrontBytes(q, o)[Len(q)] \in Nat
          BY Zenon, <5>1, <5>2, SumsAreNat
        <5>4. QED
          BY Zenon, <5>3 DEF Held
      <4>5. (b + size) + o[m] > MaxReplay
        <5> DEFINE x == o[m]
        <5>1. x \in Nat /\ b + x > MaxReplay /\ MaxReplay \in Nat
          BY Zenon, <4>2, <4>3, ConstantsAssumption
        <5> HIDE DEF x
        <5>2. (b + size) + x > MaxReplay
          BY <4>4, <5>1
        <5>3. QED
          BY Zenon, <5>2 DEF x
      <4>6. QED
        BY Zenon, <3>2, <4>2, <4>3, <4>5
    <3>5. QED
      BY Zenon, <3>3, <3>4
  <2>2. CASE c # 0
    <3>1. c \in 1..L + 1 /\ c > 0
      BY <1>2, <1>4, <1>8, <2>2
    <3>2. k = r[c] /\ sz[r[c]] <= MaxReplay
      BY Zenon, <1>5, <2>2, <3>1 DEF k, Lists
    <3>3. QED
      BY Zenon, <1>8, <3>1, <3>2
  <2>3. QED
    BY Zenon, <2>1, <2>2
<1>13. Held(p, d.bytes, sz, N + 1, k)
  BY Zenon, <1>3, <1>8, <1>9, <1>10, <1>11, <1>12 DEF Held
<1>14. QED
  BY Zenon, <1>13 DEF p, c

-----------------------------------------------------------------------------
(* The replay *)

\* What the replay holds is in order and its size is known.
ReplayInv ==
  /\ nextSequence \in Nat /\ outs \in Seq(Nat) /\ Len(outs) = nextSequence
  /\ grant # "revoked" => \E m : Held(replay, replayBytes, outs, nextSequence, m)

\* At first nothing was put out.
LEMMA ReplayInitial == Init => ReplayInv
<1> SUFFICES ASSUME Init PROVE ReplayInv
  BY Zenon
<1>1. nextSequence = 0 /\ outs = <<>> /\ replay = <<>> /\ replayBytes = 0
  BY Zenon DEF Init
<1>2. \A s : s = <<>> => s \in Seq(Nat) /\ Len(s) = 0 /\ s \in [1..0 -> Nat]
  OBVIOUS
<1>3. Lists(replay, 0, outs, 0, 0, MaxReplay)
  <2>1. 0 \in Nat /\ 0 \in 0..0 /\ replay \in [1..0 -> Nat] /\ outs \in [1..0 -> Nat]
    BY <1>1, <1>2
  <2>2. (\A n \in 1..0 : FALSE) /\ (\A n \in 0 + 1..0 : FALSE)
    OBVIOUS
  <2>3. QED
    BY Zenon, <2>1, <2>2 DEF Lists
<1>4. FrontBytes(replay, outs)[0] = 0
  <2>1. IsSum(FrontBytes(replay, outs), Len(replay), [i \in 1..Len(replay) |-> outs[replay[i]]])
    BY Zenon, <1>1, <1>2, <1>3, ListSizes
  <2>2. QED
    BY Zenon, <2>1 DEF IsSum
<1>5. Held(replay, replayBytes, outs, nextSequence, 0)
  <2>1. 0 <= MaxReplay /\ ~(0 > 0)
    BY ConstantsAssumption
  <2>2. Len(replay) = 0 /\ Len(outs) = 0
    BY Zenon, <1>1, <1>2
  <2>3. replay \in Seq(Nat) /\ outs \in Seq(Nat)
    BY Zenon, <1>1, <1>2
  <2>4. QED
    BY Zenon, <1>1, <1>3, <1>4, <2>1, <2>2, <2>3 DEF Held
<1>6. QED
  BY Zenon, <1>1, <1>2, <1>5 DEF ReplayInv

\* appendOutput keeps the longest suffix.
LEMMA AppendHolds == ASSUME ReplayInv, NEW size \in Sizes, appendOutput(size) PROVE ReplayInv'
<1> DEFINE n == nextSequence + 1
           r == Append(replay, n)
           sz == Append(outs, size)
           d == Dropped(r, sz, replayBytes + size)
<1>1. /\ nextSequence' = n /\ outs' = sz /\ grant # "revoked"
      /\ IF size <= MaxReplay
           THEN replay' = SubSeq(r, d.count + 1, Len(r)) /\ replayBytes' = d.bytes
           ELSE replay' = replay /\ replayBytes' = replayBytes
  BY ZenonT(30) DEF appendOutput
<1>2. size \in Nat
  BY Zenon, ConstantsAssumption
<1>3. nextSequence \in Nat /\ n \in Nat /\ outs \in Seq(Nat) /\ Len(outs) = nextSequence
  BY DEF ReplayInv
<1>4. PICK m : Held(replay, replayBytes, outs, nextSequence, m)
  BY Zenon, <1>1 DEF ReplayInv
<1>5. replay \in Seq(Nat)
  BY Zenon, <1>4 DEF Held
<1>6. Appended(sz, outs, size) /\ sz \in Seq(Nat) /\ Len(sz) = n
  BY Zenon, <1>2, <1>3, AppendExtends DEF Appended
<1>7. Appended(r, replay, n)
  BY Zenon, <1>3, <1>5, AppendExtends DEF Appended
<1> HIDE DEF r, sz
<1>8. \E k : Held(replay', replayBytes', sz, n, k)
  <2>1. CASE size <= MaxReplay
    <3>1. \E k : Held(SubSeq(r, d.count + 1, Len(r)), d.bytes, sz, nextSequence + 1, k)
      BY Zenon, <1>2, <1>4, <1>6, <1>7, <2>1, HeldWith
    <3>2. QED
      BY Zenon, <1>1, <2>1, <3>1
  <2>2. CASE ~(size <= MaxReplay)
    <3>1. Held(replay, replayBytes, sz, nextSequence + 1, m)
      BY Zenon, <1>2, <1>4, <2>2, HeldWithout DEF sz
    <3>2. QED
      BY Zenon, <1>1, <2>2, <3>1
  <2>3. QED
    BY Zenon, <2>1, <2>2
<1>9. QED
  BY Zenon, <1>1, <1>3, <1>6, <1>8 DEF ReplayInv

\* Every step keeps it.
LEMMA ReplayStep == ReplayInv /\ [Next]_vars => ReplayInv'
<1> SUFFICES ASSUME ReplayInv, [Next]_vars PROVE ReplayInv'
  BY Zenon
<1>1. CASE \E size \in Sizes : appendOutput(size)
  BY Zenon, <1>1, AppendHolds
<1>2. CASE \E p \in Procs : Revoke(p)
  <2>1. grant' = "revoked" /\ nextSequence' = nextSequence /\ outs' = outs
    BY Zenon, <1>2 DEF Revoke
  <2>2. QED
    BY Zenon, <2>1 DEF ReplayInv
<1>3. CASE UNCHANGED <<grant, replayVars>>
  BY Zenon, <1>3 DEF ReplayInv, replayVars
<1>4. QED
  BY Zenon, <1>1, <1>2, <1>3, OutputStep DEF vars, replayVars

\* What is held is the longest suffix.
LEMMA HeldIsLongest == ReplayInv => ReplayIsLongestSuffix
<1> SUFFICES ASSUME ReplayInv, grant # "revoked"
             PROVE  /\ Increasing(replay)
                    /\ replayBytes = FrontBytes(replay, outs)[Len(replay)] /\ replayBytes <= MaxReplay
                    /\ \E m \in 0..nextSequence :
                         /\ Range(replay) = {n \in m + 1..nextSequence : outs[n] <= MaxReplay}
                         /\ m > 0 => outs[m] <= MaxReplay /\ replayBytes + outs[m] > MaxReplay
  BY Zenon DEF ReplayIsLongestSuffix
<1>1. PICK m : Held(replay, replayBytes, outs, nextSequence, m)
  BY Zenon DEF ReplayInv
<1>2. /\ replay \in Seq(Nat) /\ Lists(replay, Len(replay), outs, nextSequence, m, MaxReplay)
      /\ replayBytes = FrontBytes(replay, outs)[Len(replay)] /\ replayBytes <= MaxReplay
      /\ m > 0 => outs[m] <= MaxReplay /\ replayBytes + outs[m] > MaxReplay
  BY Zenon, <1>1 DEF Held
<1>3. Increasing(replay) /\ m \in 0..nextSequence
  BY Zenon, <1>2 DEF Lists, Increasing
<1>4. Range(replay) = {n \in m + 1..nextSequence : outs[n] <= MaxReplay}
  <2>1. Range(replay) = {replay[i] : i \in 1..Len(replay)}
    BY <1>2 DEF Range
  <2>2. QED
    BY Zenon, <1>2, <2>1 DEF Lists
<1>5. QED
  BY Zenon, <1>2, <1>3, <1>4

\* The replay is the longest suffix of the outputs that fits.
THEOREM ReplayIsLongest == Spec => []ReplayIsLongestSuffix
BY ReplayInitial, ReplayStep, HeldIsLongest, PTL DEF Spec

-----------------------------------------------------------------------------
(* What connections are sent *)

\* Where a browser's goroutine is before addClient.
Fresh == {"idle", "match", "checking", "add"}

WireTyped ==
  shown \in [Conns -> Seq(Nat)] /\ send \in [Conns -> Seq(Seq(Nat))] /\ since \in [Conns -> Nat]

\* c was sent what Serves says, and the newest if it is still served.
Served(c) ==
  \E m : /\ Serves(Frames(shown[c], send[c]), Len(send[c]), since[c], m) /\ m <= nextSequence
         /\ c \in Registered \ closed => m = nextSequence

\* Nothing is sent before addClient.
FreshIsUnsent == \A c \in Conns : at[c] \in Fresh => shown[c] = <<>> /\ send[c] = <<>> /\ c \notin Registered

GapInv == WireTyped /\ FreshIsUnsent /\ \A c \in Conns : Served(c)

\* Nothing has been sent at first.
LEMMA GapInitial == Init => GapInv
<1> SUFFICES ASSUME Init PROVE GapInv
  BY Zenon
<1>1. <<>> \in Seq(Nat) /\ <<>> \in Seq(Seq(Nat)) /\ 0 \in Nat /\ Len(<<>>) = 0
  OBVIOUS
<1>2. \A c \in Conns : shown[c] = <<>> /\ send[c] = <<>> /\ since[c] = 0
  BY Zenon DEF Init
<1>3. WireTyped
  BY Zenon, <1>1 DEF Init, WireTyped
<1>4. \A c \in Conns : c \notin Registered
  BY Zenon, ConstantsAssumption DEF Init, Registered
<1>5. ASSUME NEW c \in Conns PROVE Served(c)
  <2> DEFINE F == Frames(<<>>, <<>>)
  <2>1. F \in [0..0 -> Seq(Nat)] /\ F[0] = <<>>
    BY Zenon, <1>1, FramesTyped
  <2>2. Rising(<<>>) /\ \A a \in Range(<<>>) : a <= 0
    BY DEF Rising, Range
  <2>3. 0 \in 0..0 /\ (\A i \in 0..0 : i = 0) /\ 0 <= 0
    OBVIOUS
  <2> HIDE DEF F
  <2>4. Serves(F, 0, 0, 0)
    BY ZenonT(30), <1>1, <2>1, <2>2, <2>3, ServesNew
  <2>5. nextSequence = 0
    BY Zenon DEF Init
  <2>6. QED
    BY Zenon, <1>1, <1>2, <1>4, <2>3, <2>4, <2>5 DEF Served, F
<1>6. QED
  BY Zenon, <1>2, <1>3, <1>4, <1>5 DEF GapInv, FreshIsUnsent

\* A browser's goroutine never returns to where it was before addClient.
LEMMA FreshOnce ==
  ASSUME Typed, [Next]_vars, NEW c \in Conns, at'[c] \in Fresh
  PROVE  at[c] \in Fresh
<1>0. c \in Procs /\ c # Watcher /\ c # Cleaner
  BY Zenon, ConstantsAssumption DEF Procs
<1>1. ASSUME NEW p \in Procs, NEW to, Go(p, to), p = c => to \notin Fresh \/ at[c] \in Fresh
      PROVE  at[c] \in Fresh
  <2>1. at'[c] = IF p = c THEN to ELSE at[c]
    BY Zenon, <1>0, <1>1 DEF Typed, Go
  <2>2. QED
    BY Zenon, <1>1, <2>1
<1>2. CASE UNCHANGED at
  BY Zenon, <1>2
<1>3. CASE CreateStep
  <2>1. UNCHANGED at \/ Go(Watcher, "waiting")
    BY Zenon, <1>3 DEF CreateStep, InitializeClient, StartWatch, BindStop, ConnectMember, ConnectQueued,
       ForgetFailed, StartPump
  <2>2. QED
    BY Zenon, <1>0, <1>1, <1>2, <2>1 DEF Procs
<1>4. CASE WatchTick \/ WatchCancelled \/ WatchExpires \/ WatchChecked \/ Cleanup
  <2>1. \E p \in {Watcher, Cleaner} : \E to : Go(p, to)
    BY Zenon, <1>4 DEF WatchTick, WatchCancelled, WatchExpires, WatchChecked, Cleanup
  <2>2. QED
    BY Zenon, <1>0, <1>1, <2>1 DEF Procs
<1>5. ASSUME NEW p \in Procs, Lookup(p) \/ CallStep(p) PROVE at[c] \in Fresh
  <2>1. CASE Lookup(p) \/ Match(p) \/ Checked(p)
    <3>1. at[p] \in Fresh
      BY ZenonT(30), <2>1 DEF Lookup, Match, Checked, Fresh
    <3>2. \E to : Go(p, to)
      <4>1. CASE Lookup(p) \/ Checked(p)
        BY Zenon, <4>1 DEF Lookup, Checked, Accepted
      <4>2. CASE Match(p)
        BY ZenonT(30), <4>2 DEF Match, Accepted, Typed
      <4>3. QED
        BY Zenon, <2>1, <4>1, <4>2
    <3>3. QED
      BY Zenon, <1>1, <3>1, <3>2
  <2>2. CASE Revoke(p) \/ Terminate(p) \/ CloseConnection(p) \/ EndFailed(p) \/ closeClients(p)
    <3>1. \E to : Go(p, to) /\ to \in {"terminate", "close", "ended", "sweep", Home(p)}
      BY Zenon, <2>2 DEF Revoke, Terminate, CloseConnection, EndFailed, closeClients, AfterTerminate
    <3>2. p = c => Home(p) \in {"gone", "reading"}
      BY Zenon, <1>0 DEF Home
    <3>3. QED
      BY Zenon, <1>1, <3>1, <3>2 DEF Fresh
  <2>3. QED
    BY Zenon, <1>5, <2>1, <2>2 DEF CallStep
<1>6. CASE \/ PumpEnds \/ LinkDrops \/ LinkSwept \/ OrphanClosed
           \/ \E size \in Sizes : appendOutput(size)
  <2>1. UNCHANGED at
    BY Zenon, <1>6 DEF PumpEnds, PumpStops, PumpMarksEnded, PumpReleases, LinkDrops, LinkSwept,
       OrphanClosed, appendOutput
  <2>2. QED
    BY Zenon, <1>2, <2>1
<1>7. ASSUME NEW d \in Conns, ConnStep(d) PROVE at[c] \in Fresh
  <2>1. \/ UNCHANGED at
        \/ \E to \in {"reading", "gone", "sending", "terminate"} : Go(d, to)
    BY ZenonT(30), <1>7 DEF ConnStep, addClient, removeClient, claimControl, AnswerFrame,
       writeInput, SendInput,
       WriterSends, WriterFails
  <2>2. d \in Procs
    BY Zenon DEF Procs
  <2>3. QED
    BY Zenon, <1>1, <1>2, <2>1, <2>2 DEF Fresh
<1>8. QED
  BY Zenon, <1>2, <1>3, <1>4, <1>5, <1>6, <1>7 DEF Next, vars

\* The empty frame.
LEMMA NoteFrame ==
  /\ Note \in Seq(Nat) /\ Rising(Note) /\ Range(Note) = {}
  /\ \A s \in Seq(Seq(Nat)) : Append(s, Note) \in Seq(Seq(Nat))
<1>1. <<>> \in Seq(Nat) /\ Rising(<<>>) /\ Range(<<>>) = {}
  BY DEF Rising, Range
<1>2. QED
  BY Zenon, <1>1, FramesAppended DEF Note

\* A connection that is told something without output in it stays served.
LEMMA StaysServed ==
  ASSUME GapInv, UNCHANGED nextSequence, NEW c \in Conns, shown'[c] = shown[c], since'[c] = since[c],
         c \in Registered' \ closed' => c \in Registered \ closed,
         send'[c] = send[c] \/ send'[c] = Append(send[c], Note)
  PROVE  Served(c)'
<1>1. PICK m : /\ Serves(Frames(shown[c], send[c]), Len(send[c]), since[c], m) /\ m <= nextSequence
               /\ c \in Registered \ closed => m = nextSequence
  BY Zenon DEF GapInv, Served
<1>2. c \in Registered' \ closed' => m = nextSequence
  BY Zenon, <1>1
<1>3. Serves(Frames(shown[c], send'[c]), Len(send'[c]), since[c], m)
  <2>1. CASE send'[c] = send[c]
    BY Zenon, <1>1, <2>1
  <2>2. CASE send'[c] = Append(send[c], Note)
    <3>1. shown[c] \in Seq(Nat) /\ send[c] \in Seq(Seq(Nat))
      BY Zenon DEF GapInv, WireTyped
    <3>2. /\ Len(send'[c]) = Len(send[c]) + 1
          /\ OneMore(Frames(shown[c], send'[c]), Frames(shown[c], send[c]), Len(send[c]), Note)
      BY Zenon, <2>2, <3>1, FramesAppended, NoteFrame
    <3>3. Continues(Note, m, m)
      <4>1. m \in Nat
        BY Zenon, <1>1 DEF Serves
      <4>2. m <= m /\ \A n \in m + 1..m : FALSE
        BY <4>1
      <4>3. QED
        BY Zenon, <4>1, <4>2, NoteFrame DEF Continues
    <3>4. QED
      BY Zenon, <1>1, <3>2, <3>3, ServesMore
  <2>3. QED
    BY Zenon, <2>1, <2>2
<1>4. QED
  BY Zenon, <1>1, <1>2, <1>3 DEF Served

\* A step that sends the connections cs a frame without output, and no others anything.
Quiet(cs) ==
  /\ UNCHANGED <<shown, since, nextSequence>>
  /\ Registered' \subseteq Registered /\ closed \subseteq closed'
  /\ send' = [c \in Conns |-> IF c \in cs THEN Append(send[c], Note) ELSE send[c]]
  /\ \A c \in cs : at[c] \notin Fresh

\* Such a step keeps everybody served.
LEMMA QuietServes ==
  ASSUME Typed, GapInv, [Next]_vars, \E cs : Quiet(cs)
  PROVE  GapInv'
<1>1. PICK cs : Quiet(cs)
  BY Zenon
<1>2. /\ UNCHANGED <<shown, since, nextSequence>>
      /\ Registered' \subseteq Registered /\ closed \subseteq closed'
      /\ send' = [c \in Conns |-> IF c \in cs THEN Append(send[c], Note) ELSE send[c]]
      /\ \A c \in cs : at[c] \notin Fresh
  BY Zenon, <1>1 DEF Quiet
<1>3. FreshIsUnsent'
  <2> SUFFICES ASSUME NEW c \in Conns, at'[c] \in Fresh
               PROVE  shown'[c] = <<>> /\ send'[c] = <<>> /\ c \notin Registered'
    BY Zenon DEF FreshIsUnsent
  <2>1. at[c] \in Fresh
    BY Zenon, FreshOnce
  <2>2. shown[c] = <<>> /\ send[c] = <<>> /\ c \notin Registered
    BY Zenon, <2>1 DEF GapInv, FreshIsUnsent
  <2>3. c \notin cs
    BY Zenon, <1>2, <2>1
  <2>4. send'[c] = send[c] /\ shown'[c] = shown[c]
    BY Zenon, <1>2, <2>3
  <2>5. QED
    BY Zenon, <1>2, <2>2, <2>4
<1>4. ASSUME NEW c \in Conns PROVE Served(c)'
  <2>1. shown'[c] = shown[c] /\ since'[c] = since[c] /\ UNCHANGED nextSequence
    BY Zenon, <1>2
  <2>2. send'[c] = send[c] \/ send'[c] = Append(send[c], Note)
    BY Zenon, <1>2
  <2>3. c \in Registered' \ closed' => c \in Registered \ closed
    BY Zenon, <1>2
  <2>4. QED
    BY Zenon, <2>1, <2>2, <2>3, StaysServed
<1>5. WireTyped'
  <2>1. \A c \in Conns : (IF c \in cs THEN Append(send[c], Note) ELSE send[c]) \in Seq(Seq(Nat))
    BY Zenon, NoteFrame DEF GapInv, WireTyped
  <2>2. send' \in [Conns -> Seq(Seq(Nat))]
    BY Zenon, <1>2, <2>1
  <2>3. QED
    BY Zenon, <1>2, <2>2 DEF GapInv, WireTyped
<1>6. QED
  BY Zenon, <1>3, <1>4, <1>5 DEF GapInv

\* Nothing is sent.
LEMMA NothingSent ==
  ASSUME Typed, WireTyped, UNCHANGED <<tab, shown, since, nextSequence, send>>, closed \subseteq closed',
         \A t \in Tabs : clients'[t] \in {clients[t], NoConn}
  PROVE  \E cs : Quiet(cs)
<1>1. Registered' \subseteq Registered
  BY ConstantsAssumption DEF Registered, Typed
<1>2. send' = [c \in Conns |-> IF c \in {} THEN Append(send[c], Note) ELSE send[c]]
  BY Zenon DEF WireTyped
<1>3. Quiet({})
  BY Zenon, <1>1, <1>2 DEF Quiet
<1>4. QED
  BY Zenon, <1>3

\* Those who are told are registered.
LEMMA NoteSent ==
  ASSUME Typed, GapInv, UNCHANGED <<tab, shown, since, nextSequence>>, closed \subseteq closed',
         \A t \in Tabs : clients'[t] \in {clients[t], NoConn},
         NEW cs, cs \subseteq Registered,
         send' = [c \in Conns |-> IF c \in cs /\ Accepts(c) THEN Append(send[c], Note) ELSE send[c]]
  PROVE  \E ds : Quiet(ds)
<1>1. Registered' \subseteq Registered
  BY Zenon, ConstantsAssumption DEF Registered, Typed
<1> DEFINE ds == {c \in cs : Accepts(c)}
<1>2. send' = [c \in Conns |-> IF c \in ds THEN Append(send[c], Note) ELSE send[c]]
  BY Zenon
<1>3. \A c \in ds : at[c] \notin Fresh
  <2>1. Registered \subseteq Conns
    BY Zenon DEF Registered
  <2>2. QED
    BY Zenon, <2>1 DEF GapInv, FreshIsUnsent
<1>4. Quiet(ds)
  BY Zenon, <1>1, <1>2, <1>3 DEF Quiet
<1>5. QED
  BY Zenon, <1>4

\* One who has been added is answered.
LEMMA ReplySent ==
  ASSUME Typed, GapInv, UNCHANGED <<tab, shown, since, nextSequence, clients>>,
         NEW c \in Conns, at[c] \in {"reading", "sending"}, Reply(c, Note)
  PROVE  \E ds : Quiet(ds)
<1>1. send \in [Conns -> Seq(Seq(Nat))]
  BY Zenon DEF GapInv, WireTyped
<1>2. CASE Accepts(c)
  <2>1. send' = [send EXCEPT ![c] = Append(@, Note)] /\ closed' = closed
    BY Zenon, <1>2 DEF Reply
  <2>2. send' = [d \in Conns |-> IF d \in {c} THEN Append(send[d], Note) ELSE send[d]]
    BY Zenon, <1>1, <2>1
  <2>3. at[c] \notin Fresh
    BY Zenon DEF Fresh
  <2>4. Registered' = Registered
    BY Zenon DEF Registered
  <2>5. Quiet({c})
    BY Zenon, <2>1, <2>2, <2>3, <2>4 DEF Quiet
  <2>6. QED
    BY Zenon, <2>5
<1>3. CASE ~Accepts(c)
  <2>1. send' = send /\ closed' = closed
    BY Zenon, <1>3 DEF Reply
  <2>2. \A t \in Tabs : clients'[t] \in {clients[t], NoConn}
    BY Zenon
  <2>3. QED
    BY Zenon, <2>1, <2>2, NothingSent DEF GapInv
<1>4. QED
  BY Zenon, <1>2, <1>3

\* Steps that leave the wire alone.
LEMMA SilentSteps ==
  ASSUME Typed, GapInv,
         \/ CreateStep \/ WatchTick \/ WatchCancelled \/ WatchExpires \/ WatchChecked \/ Cleanup
         \/ PumpStops \/ PumpReleases \/ LinkDrops \/ LinkSwept \/ OrphanClosed
         \/ \E p \in Procs : Lookup(p) \/ Match(p) \/ Checked(p) \/ Revoke(p) \/ CloseConnection(p)
         \/ \E c \in Conns : writeInput(c)
         \/ UNCHANGED vars
  PROVE  \E ds : Quiet(ds)
<1>1. UNCHANGED <<clients, wireVars, connVars, nextSequence>>
  <2>1. CASE CreateStep
    BY Zenon, <2>1 DEF CreateStep, InitializeClient, StartWatch, BindStop, ConnectMember, ConnectQueued,
       ForgetFailed, StartPump, replayVars
  <2>2. CASE WatchTick \/ WatchCancelled \/ WatchExpires \/ WatchChecked \/ Cleanup
    BY Zenon, <2>2 DEF WatchTick, WatchCancelled, WatchExpires, WatchChecked, Cleanup, replayVars
  <2>3. CASE PumpStops \/ PumpReleases \/ LinkDrops \/ LinkSwept \/ OrphanClosed
    BY Zenon, <2>3 DEF PumpStops, PumpReleases, LinkDrops, LinkSwept, OrphanClosed, replayVars
  <2>4. CASE \E p \in Procs : Lookup(p) \/ Match(p) \/ Checked(p) \/ Revoke(p) \/ CloseConnection(p)
    BY Zenon, <2>4 DEF Lookup, Match, Checked, Revoke, CloseConnection, replayVars
  <2>5. CASE \E c \in Conns : writeInput(c)
    BY Zenon, <2>5 DEF writeInput, replayVars
  <2>6. CASE UNCHANGED vars
    BY Zenon, <2>6 DEF vars, wireVars, connVars
  <2>7. QED
    BY Zenon, <2>1, <2>2, <2>3, <2>4, <2>5, <2>6
<1>2. UNCHANGED <<tab, shown, since, nextSequence, send>> /\ closed \subseteq closed'
  BY Zenon, <1>1 DEF wireVars, connVars
<1>3. \A t \in Tabs : clients'[t] \in {clients[t], NoConn}
  BY Zenon, <1>1
<1>4. QED
  BY Zenon, <1>2, <1>3, NothingSent DEF GapInv

\* Steps that tell the clients of a status or of a controller, or one of them of an error.
LEMMA NoteSteps ==
  ASSUME Typed, GapInv,
         \/ PumpMarksEnded
         \/ \E p \in Procs : Terminate(p) \/ EndFailed(p) \/ closeClients(p)
         \/ \E c \in Conns : \/ claimControl(c) \/ AnswerFrame(c) \/ SendInput(c)
                            \/ WriterFails(c) \/ removeClient(c)
  PROVE  \E ds : Quiet(ds)
<1>1. ASSUME UNCHANGED <<replayVars, clients, connVars>>,
             UNCHANGED wireVars \/ broadcastLocked(Registered, Note)
      PROVE  \E ds : Quiet(ds)
  <2>1. UNCHANGED <<tab, shown, since, nextSequence>>
    BY Zenon, <1>1 DEF connVars, replayVars
  <2>2. \A t \in Tabs : clients'[t] \in {clients[t], NoConn}
    BY Zenon, <1>1
  <2>3. CASE UNCHANGED wireVars
    BY Zenon, <2>1, <2>2, <2>3, NothingSent DEF GapInv, wireVars
  <2>4. CASE broadcastLocked(Registered, Note)
    <3>1. /\ closed \subseteq closed' /\ Registered \subseteq Registered
          /\ send' = [c \in Conns |->
                        IF c \in Registered /\ Accepts(c) THEN Append(send[c], Note) ELSE send[c]]
      BY Zenon, <2>4 DEF broadcastLocked
    <3>2. QED
      BY Zenon, <2>1, <2>2, <3>1, NoteSent
  <2>5. QED
    BY Zenon, <1>1, <2>3, <2>4
<1>2. CASE PumpMarksEnded \/ \E p \in Procs : Terminate(p) \/ EndFailed(p)
  <2>1. UNCHANGED <<replayVars, clients, connVars>>
    BY Zenon, <1>2 DEF PumpMarksEnded, Terminate, EndFailed
  <2>2. UNCHANGED wireVars \/ broadcastLocked(Registered, Note)
    BY Zenon, <1>2 DEF PumpMarksEnded, Terminate, EndFailed, markEnded
  <2>3. QED
    BY Zenon, <1>1, <2>1, <2>2
<1>3. ASSUME NEW p \in Procs, closeClients(p) PROVE \E ds : Quiet(ds)
  <2>1. UNCHANGED <<tab, shown, since, nextSequence, send>> /\ closed \subseteq closed'
    BY Zenon, <1>3 DEF closeClients, connVars, replayVars
  <2>2. \A t \in Tabs : clients'[t] \in {clients[t], NoConn}
    BY Zenon, <1>3 DEF closeClients
  <2>3. QED
    BY Zenon, <2>1, <2>2, NothingSent DEF GapInv
<1>4. ASSUME NEW c \in Conns, claimControl(c) PROVE \E ds : Quiet(ds)
  BY Zenon, <1>1, <1>4 DEF claimControl
<1>5. ASSUME NEW c \in Conns, AnswerFrame(c) PROVE \E ds : Quiet(ds)
  <2>1. /\ UNCHANGED <<tab, shown, since, nextSequence, clients>>
        /\ Reply(c, Note) /\ at[c] \in {"reading", "sending"}
    BY Zenon, <1>5 DEF AnswerFrame, connVars, replayVars
  <2>2. QED
    BY Zenon, <2>1, ReplySent
<1>6. ASSUME NEW c \in Conns, SendInput(c) PROVE \E ds : Quiet(ds)
  <2>1. UNCHANGED <<tab, shown, since, nextSequence, clients>> /\ at[c] \in {"reading", "sending"}
    BY Zenon, <1>6 DEF SendInput, connVars, replayVars
  <2>2. UNCHANGED wireVars \/ Reply(c, Note)
    BY Zenon, <1>6 DEF SendInput
  <2>3. UNCHANGED <<replayVars, clients, connVars>>
    BY Zenon, <1>6 DEF SendInput
  <2>4. QED
    BY Zenon, <1>1, <2>1, <2>2, <2>3, ReplySent
<1>7. ASSUME NEW c \in Conns, WriterFails(c) PROVE \E ds : Quiet(ds)
  <2>1. UNCHANGED <<tab, shown, since, nextSequence, send>> /\ closed \subseteq closed'
    BY Zenon, <1>7 DEF WriterFails, connVars, replayVars
  <2>2. \A t \in Tabs : clients'[t] \in {clients[t], NoConn}
    BY Zenon, <1>7 DEF WriterFails
  <2>3. QED
    BY Zenon, <2>1, <2>2, NothingSent DEF GapInv
<1>8. ASSUME NEW c \in Conns, removeClient(c) PROVE \E ds : Quiet(ds)
  <2>1. UNCHANGED <<tab, shown, since, nextSequence>>
    BY Zenon, <1>8 DEF removeClient, connVars, replayVars
  <2>2. closed \subseteq closed'
    BY Zenon, <1>8 DEF removeClient
  <2>3. \A t \in Tabs : clients'[t] \in {clients[t], NoConn}
    BY Zenon, <1>8 DEF removeClient, Typed
  <2>4. CASE UNCHANGED send
    BY Zenon, <2>1, <2>2, <2>3, <2>4, NothingSent DEF GapInv
  <2>5. CASE send' = [d \in Conns |->
                        IF d \in Registered \ {c} /\ Accepts(d) THEN Append(send[d], Note) ELSE send[d]]
    <3>1. Registered \ {c} \subseteq Registered
      BY Zenon
    <3>2. QED
      BY Zenon, <2>1, <2>2, <2>3, <2>5, <3>1, NoteSent
  <2>6. QED
    BY Zenon, <1>8, <2>4, <2>5 DEF removeClient
<1>9. QED
  BY Zenon, <1>2, <1>3, <1>4, <1>5, <1>6, <1>7, <1>8

\* One output is a frame of its own.
LEMMA OneOutput ==
  ASSUME NEW m \in Nat
  PROVE  Continues(<<m + 1>>, m, m + 1) /\ <<m + 1>> \in Seq(Nat)
<1> DEFINE x == <<m + 1>>
<1>1. x \in Seq(Nat) /\ Len(x) = 1 /\ x[1] = m + 1
  OBVIOUS
<1> HIDE DEF x
<1>2. Range(x) = {m + 1}
  BY <1>1, Members
<1>3. Rising(x)
  BY <1>1 DEF Rising
<1>4. m + 1 \in Nat /\ m <= m + 1 /\ m < m + 1 /\ m + 1 <= m + 1 /\ \A n \in m + 1..m + 1 : n = m + 1
  OBVIOUS
<1>5. Continues(x, m, m + 1)
  BY Zenon, <1>1, <1>2, <1>3, <1>4 DEF Continues
<1>6. QED
  BY Zenon, <1>1, <1>5 DEF x

\* appendOutput sends the output to everybody who is served, or closes them.
LEMMA AppendServes ==
  ASSUME Typed, GapInv, nextSequence \in Nat, [Next]_vars, NEW size \in Sizes, appendOutput(size)
  PROVE  GapInv'
<1> DEFINE n == nextSequence + 1
<1>1. UNCHANGED <<tab, shown, since, clients>> /\ nextSequence' = n /\ broadcastLocked(Registered, <<n>>)
  BY Zenon DEF appendOutput, connVars
<1>2. /\ send' = [c \in Conns |-> IF c \in Registered /\ Accepts(c) THEN Append(send[c], <<n>>) ELSE send[c]]
      /\ closed' = closed \cup {c \in Registered : ~Accepts(c)}
  BY Zenon, <1>1 DEF broadcastLocked
<1>3. n \in Nat /\ nextSequence <= n /\ \A m \in Nat : m <= nextSequence => m <= n
  OBVIOUS
<1>4. <<n>> \in Seq(Nat)
  BY Zenon, OneOutput
<1> HIDE DEF n
<1>5. Registered' = Registered
  BY Zenon, <1>1 DEF Registered
<1>6. \A c \in Conns : shown[c] \in Seq(Nat) /\ send[c] \in Seq(Seq(Nat))
  BY Zenon DEF GapInv, WireTyped
<1>7. WireTyped'
  <2>1. \A c \in Conns :
          (IF c \in Registered /\ Accepts(c) THEN Append(send[c], <<n>>) ELSE send[c]) \in Seq(Seq(Nat))
    BY Zenon, <1>4, <1>6, FramesAppended
  <2>2. send' \in [Conns -> Seq(Seq(Nat))]
    BY Zenon, <1>2, <2>1
  <2>3. QED
    BY Zenon, <1>1, <2>2 DEF GapInv, WireTyped
<1>8. FreshIsUnsent'
  <2> SUFFICES ASSUME NEW c \in Conns, at'[c] \in Fresh
               PROVE  shown'[c] = <<>> /\ send'[c] = <<>> /\ c \notin Registered'
    BY Zenon DEF FreshIsUnsent
  <2>1. at[c] \in Fresh
    BY Zenon, FreshOnce
  <2>2. shown[c] = <<>> /\ send[c] = <<>> /\ c \notin Registered
    BY Zenon, <2>1 DEF GapInv, FreshIsUnsent
  <2>3. QED
    BY Zenon, <1>1, <1>2, <1>5, <2>2
<1>9. ASSUME NEW c \in Conns PROVE Served(c)'
  <2>1. PICK m : /\ Serves(Frames(shown[c], send[c]), Len(send[c]), since[c], m) /\ m <= nextSequence
                 /\ c \in Registered \ closed => m = nextSequence
    BY Zenon DEF GapInv, Served
  <2>2. m \in Nat
    BY Zenon, <2>1 DEF Serves
  <2>3. CASE c \in Registered /\ Accepts(c)
    <3>1. m = nextSequence
      BY Zenon, <2>1, <2>3 DEF Accepts
    <3>2. send'[c] = Append(send[c], <<n>>)
      BY Zenon, <1>2, <2>3
    <3>3. /\ Len(send'[c]) = Len(send[c]) + 1
          /\ OneMore(Frames(shown[c], send'[c]), Frames(shown[c], send[c]), Len(send[c]), <<n>>)
      BY Zenon, <1>4, <1>6, <3>2, FramesAppended
    <3>4. Continues(<<n>>, m, n)
      BY Zenon, <2>2, <3>1, OneOutput DEF n
    <3>5. Serves(Frames(shown[c], send'[c]), Len(send'[c]), since[c], n)
      BY Zenon, <2>1, <3>3, <3>4, ServesMore
    <3>6. n <= n
      BY <1>3
    <3>7. QED
      BY Zenon, <1>1, <3>5, <3>6 DEF Served
  <2>4. CASE ~(c \in Registered /\ Accepts(c))
    <3>1. send'[c] = send[c]
      BY Zenon, <1>2, <2>4
    <3>2. c \notin Registered' \ closed'
      BY Zenon, <1>2, <1>5, <2>4
    <3>3. m <= n
      BY Zenon, <1>3, <2>1, <2>2
    <3>4. QED
      BY Zenon, <1>1, <2>1, <3>1, <3>2, <3>3 DEF Served
  <2>5. QED
    BY Zenon, <2>3, <2>4
<1>10. QED
  BY Zenon, <1>7, <1>8, <1>9 DEF GapInv

\* The writer moves a frame from the channel to the websocket.
LEMMA WriterServes ==
  ASSUME Typed, GapInv, nextSequence \in Nat, [Next]_vars, NEW c \in Conns, WriterSends(c)
  PROVE  GapInv'
<1>1. /\ UNCHANGED <<tab, closed, since, clients, nextSequence, at>> /\ send[c] # <<>> /\ Attached(c)
      /\ shown' = [shown EXCEPT ![c] = @ \o Head(send[c])] /\ send' = [send EXCEPT ![c] = Tail(@)]
  BY Zenon DEF WriterSends, replayVars
<1>2. Registered' = Registered
  BY Zenon, <1>1 DEF Registered
<1>3. shown \in [Conns -> Seq(Nat)] /\ send \in [Conns -> Seq(Seq(Nat))] /\ since \in [Conns -> Nat]
  BY Zenon DEF GapInv, WireTyped
<1>4. shown[c] \in Seq(Nat) /\ send[c] \in Seq(Seq(Nat))
  BY Zenon, <1>3
<1>5. /\ shown[c] \o Head(send[c]) \in Seq(Nat) /\ Tail(send[c]) \in Seq(Seq(Nat))
      /\ Len(Tail(send[c])) = Len(send[c]) - 1
      /\ OneLess(Frames(shown[c] \o Head(send[c]), Tail(send[c])), Frames(shown[c], send[c]), Len(send[c]))
  <2> DEFINE s == send[c]
             h == shown[c]
  <2>1. h \in Seq(Nat) /\ s \in Seq(Seq(Nat)) /\ s # <<>>
    BY Zenon, <1>1, <1>4
  <2> HIDE DEF s, h
  <2>2. /\ h \o Head(s) \in Seq(Nat) /\ Tail(s) \in Seq(Seq(Nat)) /\ Len(Tail(s)) = Len(s) - 1
        /\ OneLess(Frames(h \o Head(s), Tail(s)), Frames(h, s), Len(s))
    BY Zenon, <2>1, FramesWritten
  <2>3. QED
    BY Zenon, <2>2 DEF s, h
<1>6. /\ shown'[c] = shown[c] \o Head(send[c]) /\ send'[c] = Tail(send[c])
      /\ \A d \in Conns \ {c} : shown'[d] = shown[d] /\ send'[d] = send[d]
  BY Zenon, <1>1, <1>3
<1>7. WireTyped'
  <2>1. shown' \in [Conns -> Seq(Nat)]
    BY Zenon, <1>1, <1>3, <1>5
  <2>2. send' \in [Conns -> Seq(Seq(Nat))]
    BY Zenon, <1>1, <1>3, <1>5
  <2>3. QED
    BY Zenon, <1>1, <1>3, <2>1, <2>2 DEF WireTyped
<1>8. FreshIsUnsent'
  <2>1. at[c] \notin Fresh
    BY Zenon, <1>1 DEF Attached, Fresh
  <2>2. QED
    BY Zenon, <1>1, <1>2, <1>6, <2>1 DEF GapInv, FreshIsUnsent
<1>9. ASSUME NEW d \in Conns PROVE Served(d)'
  <2>1. PICK m : /\ Serves(Frames(shown[d], send[d]), Len(send[d]), since[d], m) /\ m <= nextSequence
                 /\ d \in Registered \ closed => m = nextSequence
    BY Zenon DEF GapInv, Served
  <2>2. Serves(Frames(shown'[d], send'[d]), Len(send'[d]), since[d], m)
    <3>1. CASE d = c
      <4>1. /\ Len(send'[c]) = Len(send[c]) - 1
            /\ OneLess(Frames(shown'[c], send'[c]), Frames(shown[c], send[c]), Len(send[c]))
        BY Zenon, <1>5, <1>6
      <4>2. Serves(Frames(shown'[c], send'[c]), Len(send[c]) - 1, since[c], m)
        BY Zenon, <2>1, <3>1, <4>1, ServesLess
      <4>3. QED
        BY Zenon, <3>1, <4>1, <4>2
    <3>2. CASE d # c
      BY Zenon, <1>6, <2>1, <3>2
    <3>3. QED
      BY Zenon, <3>1, <3>2
  <2>3. QED
    BY Zenon, <1>1, <1>2, <2>1, <2>2 DEF Served
<1>10. QED
  BY Zenon, <1>7, <1>8, <1>9 DEF GapInv

\* What addClient sends first: hello, the replay, and who is in control.
LEMMA FirstFrames ==
  ASSUME NEW r \in Seq(Nat), Rising(r), NEW m \in Nat, \A a \in Range(r) : a <= m
  PROVE  /\ <<Note, r, Note>> \in Seq(Seq(Nat))
         /\ Serves(Frames(<<>>, <<Note, r, Note>>), Len(<<Note, r, Note>>), m, m)
<1> DEFINE s == <<Note, r, Note>>
           F == Frames(<<>>, s)
<1>1. Note \in Seq(Nat) /\ <<>> \in Seq(Nat) /\ Note = <<>>
  BY Zenon, NoteFrame DEF Note
<1>2. s \in Seq(Seq(Nat)) /\ Len(s) = 3 /\ s[1] = Note /\ s[2] = r /\ s[3] = Note
  <2> HIDE DEF Note
  <2>1. QED
    BY <1>1
<1> HIDE DEF s
<1>3. F \in [0..Len(s) -> Seq(Nat)] /\ F[0] = <<>> /\ \A i \in 1..Len(s) : F[i] = s[i]
  BY Zenon, <1>1, <1>2, FramesTyped
<1> HIDE DEF F
<1>4. Len(s) \in Nat /\ 2 \in 0..Len(s) /\ 2 \in 1..Len(s) /\ 1 \in 1..Len(s) /\ 3 \in 1..Len(s)
      /\ \A i \in 0..Len(s) : i # 2 => i = 0 \/ i = 1 \/ i = 3
  BY <1>2
<1>5. \A i \in 0..Len(s) : i # 2 => F[i] = <<>>
  BY Zenon, <1>1, <1>2, <1>3, <1>4
<1>6. F[2] = r
  BY Zenon, <1>2, <1>3, <1>4
<1>7. Serves(F, Len(s), m, m)
  BY Zenon, <1>3, <1>4, <1>5, <1>6, ServesNew
<1>8. QED
  BY Zenon, <1>2, <1>7 DEF F, s

\* addClient serves the new connection from here on.
LEMMA AddServes ==
  ASSUME Typed, GapInv, ReplayInv, [Next]_vars, NEW c \in Conns, addClient(c), grant # "revoked"
  PROVE  GapInv'
<1> DEFINE t == tab[c]
           others == Registered \ {clients[t]}
           first == <<Note, replay, Note>>
<1>1. /\ UNCHANGED <<tab, shown, nextSequence>> /\ at[c] = "add" /\ Go(c, "reading")
      /\ clients' = [clients EXCEPT ![t] = c] /\ since' = [since EXCEPT ![c] = nextSequence]
      /\ send' = [d \in Conns |-> CASE d = c -> first
                                    [] d \in others /\ Accepts(d) -> Append(send[d], Note)
                                    [] OTHER -> send[d]]
      /\ closed \subseteq closed'
  BY Zenon DEF addClient, replayVars
<1>2. /\ shown \in [Conns -> Seq(Nat)] /\ send \in [Conns -> Seq(Seq(Nat))] /\ since \in [Conns -> Nat]
      /\ nextSequence \in Nat
  BY Zenon DEF GapInv, WireTyped, ReplayInv
<1>3. PICK m : Held(replay, replayBytes, outs, nextSequence, m)
  BY Zenon DEF ReplayInv
<1>4. replay \in Seq(Nat) /\ Lists(replay, Len(replay), outs, nextSequence, m, MaxReplay)
  BY Zenon, <1>3 DEF Held
<1>5. Rising(replay) /\ \A a \in Range(replay) : a <= nextSequence
  <2>1. Rising(replay)
    BY Zenon, <1>4 DEF Lists, Rising
  <2>2. ASSUME NEW a \in Range(replay) PROVE a <= nextSequence
    <3>1. PICK i \in 1..Len(replay) : a = replay[i]
      BY Zenon, <1>4, Members
    <3>2. a \in m + 1..nextSequence
      BY Zenon, <1>4, <3>1 DEF Lists
    <3>3. QED
      BY <3>2
  <2>3. QED
    BY Zenon, <2>1, <2>2
<1>6. /\ first \in Seq(Seq(Nat))
      /\ Serves(Frames(<<>>, first), Len(first), nextSequence, nextSequence)
  BY Zenon, <1>2, <1>4, <1>5, FirstFrames
<1> HIDE DEF first
<1>7. send'[c] = first /\ since'[c] = nextSequence /\ shown'[c] = <<>>
  <2>1. at[c] \in Fresh
    BY Zenon, <1>1 DEF Fresh
  <2>2. shown[c] = <<>> /\ c \notin others
    BY Zenon, <2>1 DEF GapInv, FreshIsUnsent
  <2>3. send'[c] = first
    BY Zenon, <1>1, <2>2
  <2>4. since'[c] = nextSequence
    BY Zenon, <1>1, <1>2
  <2>5. QED
    BY Zenon, <1>1, <2>2, <2>3, <2>4
<1>8. ASSUME NEW d \in Conns \ {c}
      PROVE  /\ shown'[d] = shown[d] /\ since'[d] = since[d]
             /\ send'[d] = IF d \in others /\ Accepts(d) THEN Append(send[d], Note) ELSE send[d]
             /\ d \in Registered' => d \in Registered
  <2>1. shown'[d] = shown[d] /\ since'[d] = since[d]
    BY Zenon, <1>1, <1>2
  <2>2. send'[d] = IF d \in others /\ Accepts(d) THEN Append(send[d], Note) ELSE send[d]
    BY Zenon, <1>1
  <2>3. d \in Registered' => d \in Registered
    BY Zenon, <1>1 DEF Registered, Typed
  <2>4. QED
    BY Zenon, <2>1, <2>2, <2>3
<1>9. WireTyped'
  <2>1. since' \in [Conns -> Nat]
    BY Zenon, <1>1, <1>2
  <2>2. \A d \in Conns : send'[d] \in Seq(Seq(Nat))
    BY Zenon, <1>2, <1>6, <1>7, <1>8, NoteFrame
  <2>3. send' \in [Conns -> Seq(Seq(Nat))]
    BY Zenon, <1>1, <2>2
  <2>4. QED
    BY Zenon, <1>1, <1>2, <2>1, <2>3 DEF WireTyped
<1>10. FreshIsUnsent'
  <2> SUFFICES ASSUME NEW d \in Conns, at'[d] \in Fresh
               PROVE  shown'[d] = <<>> /\ send'[d] = <<>> /\ d \notin Registered'
    BY Zenon DEF FreshIsUnsent
  <2>1. d # c
    BY Zenon, <1>1 DEF Go, Typed, Fresh, Procs
  <2>2. at[d] \in Fresh
    BY Zenon, FreshOnce
  <2>3. shown[d] = <<>> /\ send[d] = <<>> /\ d \notin Registered
    BY Zenon, <2>2 DEF GapInv, FreshIsUnsent
  <2>4. QED
    BY Zenon, <1>8, <2>1, <2>3
<1>11. ASSUME NEW d \in Conns PROVE Served(d)'
  <2>1. CASE d = c
    <3>1. nextSequence <= nextSequence
      BY <1>2
    <3>2. QED
      BY Zenon, <1>1, <1>6, <1>7, <2>1, <3>1 DEF Served
  <2>2. CASE d # c
    <3>1. d \in Conns \ {c}
      BY Zenon, <2>2
    <3>2. d \in Registered' \ closed' => d \in Registered \ closed
      BY Zenon, <1>1, <1>8, <3>1
    <3>3. send'[d] = send[d] \/ send'[d] = Append(send[d], Note)
      BY Zenon, <1>8, <3>1
    <3>4. shown'[d] = shown[d] /\ since'[d] = since[d] /\ UNCHANGED nextSequence
      BY Zenon, <1>1, <1>8, <3>1
    <3>5. QED
      BY Zenon, <3>2, <3>3, <3>4, StaysServed
  <2>3. QED
    BY Zenon, <2>1, <2>2
<1>12. QED
  BY Zenon, <1>9, <1>10, <1>11 DEF GapInv

\* Every step keeps everybody served.
LEMMA GapStep == SessionInv /\ ReplayInv /\ GapInv /\ [Next]_vars => GapInv'
<1> SUFFICES ASSUME SessionInv, ReplayInv, GapInv, [Next]_vars PROVE GapInv'
  BY Zenon
<1>1. Typed /\ nextSequence \in Nat
  BY Zenon DEF SessionInv, ReplayInv
<1>2. ASSUME \E ds : Quiet(ds) PROVE GapInv'
  BY Zenon, <1>1, <1>2, QuietServes
<1>3. CASE CreateStep \/ WatchTick \/ WatchCancelled \/ WatchExpires \/ WatchChecked \/ Cleanup
  BY Zenon, <1>1, <1>2, <1>3, SilentSteps
<1>4. CASE LinkDrops \/ LinkSwept \/ OrphanClosed \/ UNCHANGED vars
  BY Zenon, <1>1, <1>2, <1>4, SilentSteps
<1>5. CASE PumpEnds
  BY Zenon, <1>1, <1>2, <1>5, SilentSteps, NoteSteps DEF PumpEnds
<1>6. ASSUME NEW p \in Procs, Lookup(p) \/ CallStep(p) PROVE GapInv'
  BY Zenon, <1>1, <1>2, <1>6, SilentSteps, NoteSteps DEF CallStep
<1>7. ASSUME NEW size \in Sizes, appendOutput(size) PROVE GapInv'
  BY Zenon, <1>1, <1>7, AppendServes
<1>8. ASSUME NEW c \in Conns, ConnStep(c) PROVE GapInv'
  <2>1. CASE writeInput(c)
    BY Zenon, <1>1, <1>2, <2>1, SilentSteps
  <2>2. CASE claimControl(c) \/ AnswerFrame(c) \/ SendInput(c) \/ WriterFails(c) \/ removeClient(c)
    BY Zenon, <1>1, <1>2, <2>2, NoteSteps
  <2>3. CASE WriterSends(c)
    BY Zenon, <1>1, <2>3, WriterServes
  <2>4. CASE addClient(c) /\ grant # "revoked"
    BY Zenon, <1>1, <2>4, AddServes
  <2>5. CASE addClient(c) /\ grant = "revoked"
    <3>1. UNCHANGED <<tab, shown, since, nextSequence, send, clients>> /\ closed \subseteq closed'
      BY Zenon, <2>5 DEF addClient, replayVars
    <3>2. \A t \in Tabs : clients'[t] \in {clients[t], NoConn}
      BY Zenon, <3>1
    <3>3. QED
      BY Zenon, <1>1, <1>2, <3>1, <3>2, NothingSent DEF GapInv
  <2>6. QED
    BY Zenon, <1>8, <2>1, <2>2, <2>3, <2>4, <2>5 DEF ConnStep
<1>9. QED
  BY Zenon, <1>3, <1>4, <1>5, <1>6, <1>7, <1>8 DEF Next

\* What Serves says of the frames of a connection is that its output has no gap.
LEMMA ServedIsGapless == ReplayInv /\ GapInv => OutputIsGapless
<1> SUFFICES ASSUME ReplayInv, GapInv, NEW c \in Conns
    PROVE  /\ \A i \in 0..Len(send[c]) : Increasing(Frame(c, i))
           /\ \A i, j \in 0..Len(send[c]) : i < j =>
                \A m \in Range(Frame(c, i)), n \in Range(Frame(c, j)) : m < n
           /\ \E m \in since[c]..nextSequence :
                /\ {n \in Sent(c) : n > since[c]} = since[c] + 1..m
                /\ c \in Registered \ closed => m = nextSequence
  BY Zenon DEF OutputIsGapless
<1> DEFINE L == Len(send[c])
           F == Frames(shown[c], send[c])
<1>1. PICK m : /\ Serves(F, L, since[c], m) /\ m <= nextSequence
               /\ c \in Registered \ closed => m = nextSequence
  BY Zenon DEF GapInv, Served
<1>2. \A i \in 0..L : F[i] = Frame(c, i)
  BY Zenon DEF Frames, Frame
<1> HIDE DEF F, L
<1>3. \A i \in 0..L : Increasing(Frame(c, i))
  BY Zenon, <1>1, <1>2 DEF Serves, Increasing, Rising
<1>4. \A i, j \in 0..L : i < j => \A a \in Range(Frame(c, i)), b \in Range(Frame(c, j)) : a < b
  BY Zenon, <1>1, <1>2 DEF Serves
<1>5. since[c] \in Nat /\ m \in Nat /\ since[c] <= m /\ nextSequence \in Nat
  BY Zenon, <1>1 DEF Serves, ReplayInv
<1>6. m \in since[c]..nextSequence
  BY <1>1, <1>5
<1>7. ASSUME NEW n \in Sent(c) PROVE n \in Nat /\ n <= m
  <2>1. PICK i \in 0..L : n \in Range(Frame(c, i))
    BY Zenon, <1>7 DEF Sent, L
  <2>2. n \in Range(F[i]) /\ F[i] \in Seq(Nat)
    BY Zenon, <1>1, <1>2, <2>1 DEF Serves
  <2>3. QED
    BY Zenon, <1>1, <2>2, Members DEF Serves
<1>8. ASSUME NEW n \in since[c] + 1..m PROVE n \in Sent(c) /\ n > since[c]
  <2>1. PICK i \in 0..L : n \in Range(F[i])
    BY Zenon, <1>1 DEF Serves
  <2>2. n \in Sent(c)
    BY Zenon, <1>2, <2>1 DEF Sent, L
  <2>3. n > since[c]
    BY <1>5
  <2>4. QED
    BY Zenon, <2>2, <2>3
<1>9. ASSUME NEW n \in Sent(c), n > since[c] PROVE n \in since[c] + 1..m
  <2>1. n \in Nat /\ n <= m
    BY Zenon, <1>7
  <2>2. QED
    BY <1>5, <1>9, <2>1
<1>10. {n \in Sent(c) : n > since[c]} = since[c] + 1..m
  BY Zenon, <1>8, <1>9
<1>11. QED
  BY Zenon, <1>1, <1>3, <1>4, <1>6, <1>10 DEF L

\* What a browser connection is sent is in order, without duplicates and without a gap.
THEOREM OutputHasNoGaps == Spec => []OutputIsGapless
<1>1. Init => SessionInv /\ ReplayInv /\ GapInv
  BY Zenon, SessionInitial, ReplayInitial, GapInitial
<1>2. SessionInv /\ ReplayInv /\ GapInv /\ [Next]_vars => (SessionInv /\ ReplayInv /\ GapInv)'
  BY Zenon, SessionStep, ReplayStep, GapStep
<1>3. QED
  BY <1>1, <1>2, ServedIsGapless, PTL DEF Spec
=============================================================================
