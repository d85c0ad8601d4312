------------------------- MODULE LoadBalancerProofs -------------------------
(***************************************************************************)
(* Proofs about module LoadBalancer, in four parts: what the Maglev table  *)
(* builder computes for any number of backends and any prime table size;   *)
(* the inductive invariant of the map writes, MapInv; what a packet under  *)
(* way knows while the tables change, PoolInv; and that the load balancer  *)
(* implements the pool of backends of module BackendPool.                  *)
(***************************************************************************)
EXTENDS LoadBalancer, TLAPS, FiniteSetTheorems, SequenceTheorems, WellFoundedInduction

(***************************************************************************)
(* Arithmetic.                                                             *)
(***************************************************************************)

\* A nonempty set of naturals has a least element: every induction below is
\* an argument about the least counterexample.
LEMMA Least ==
    ASSUME NEW T \in SUBSET Nat, NEW x \in T
    PROVE  \E m \in T : \A n \in T : m <= n
<1> DEFINE Lt == {y \in Nat \X Nat : y[1] < y[2]}
<1>1. OpToRel(<, Nat) = Lt
  BY Zenon DEF OpToRel
<1>2. IsWellFoundedOn(Lt, Nat)
  BY <1>1, NatLessThanWellFounded
<1> HIDE DEF Lt
<1>3. PICK m \in T : \A n \in T : ~(<<n, m>> \in Lt)
  BY <1>2, WFMin
<1>4. \A n \in T : m <= n
  <2> TAKE n \in T
  <2>1. n < m => <<n, m>> \in Lt
    BY DEF Lt
  <2> QED
    BY <1>3, <2>1
<1> QED
  BY <1>4

\* Division with remainder.
LEMMA DivMod ==
    ASSUME NEW n \in Nat, NEW d \in Nat, d > 0
    PROVE  n \div d \in Nat /\ n % d \in 0..(d - 1) /\ n = d * (n \div d) + (n % d)
<1> DEFINE q == n \div d
           r == n % d
<1>1. q \in Nat /\ r \in 0..(d - 1)
  OBVIOUS
<1>2. r = n - d * q
  OBVIOUS
<1> HIDE DEF q, r
<1>3. n = d * q + r
  BY <1>1, <1>2
<1> QED
  BY <1>1, <1>3 DEF q, r

\* No number between 0 and p is a multiple of p.
LEMMA NoMultiple ==
    ASSUME NEW p \in Nat, NEW c \in Int, p * c > 0
    PROVE  p * c >= p
<1>1. c >= 1
  OBVIOUS
<1>2. p * c = p * (c - 1) + p /\ p * (c - 1) >= 0
  BY <1>1
<1> QED
  BY <1>2

\* Euclid: a prime divides no product of two smaller numbers.
LEMMA Euclid ==
    ASSUME NEW p \in Nat, p > 1, \A d \in 2..(p - 1) : p % d # 0,
           NEW j \in 1..(p - 1), NEW s \in 1..(p - 1), NEW c \in Int
    PROVE  j * s # p * c
<1> DEFINE T == {x \in Nat : x > 0 /\ \E a \in Int : j * x = p * a}
<1> SUFFICES ASSUME j * s = p * c PROVE FALSE
  OBVIOUS
<1>1. s \in T
  OBVIOUS
<1>2. PICK m \in T : \A n \in T : m <= n
  BY <1>1, Least
<1>3. PICK a \in Int : j * m = p * a
  OBVIOUS
<1>4. m \in Nat /\ m > 0 /\ m < p
  <2>1. m \in Nat /\ m > 0 /\ m <= s
    BY <1>1, <1>2
  <2> QED
    BY <2>1
<1>5. m # 1
  <2> SUFFICES ASSUME m = 1 PROVE FALSE
    OBVIOUS
  <2>1. j = p * a
    BY <1>3
  <2> QED
    BY <2>1, NoMultiple
<1> DEFINE q == p \div m
           r == p % m
<1>6. q \in Nat /\ r \in 0..(m - 1) /\ p = m * q + r
  BY <1>4, DivMod
<1>7. r # 0
  <2>1. m \in 2..(p - 1)
    BY <1>4, <1>5
  <2> QED
    BY <2>1
<1> HIDE DEF q, r, T
<1>8. j * r = p * (j - q * a)
  <2>1. j * (p - m * q) = j * p - (j * m) * q
    BY <1>4, <1>6
  <2>2. j * (p - m * q) = j * p - (p * a) * q
    BY <1>3, <2>1
  <2>3. j * p - (p * a) * q = p * (j - q * a)
    BY <1>6
  <2>4. r = p - m * q
    BY <1>4, <1>6
  <2> QED
    BY <2>2, <2>3, <2>4
<1>9. r \in T
  <2>1. j - q * a \in Int /\ r \in Nat /\ r > 0
    BY <1>4, <1>6, <1>7
  <2> QED
    BY <1>8, <2>1 DEF T
<1>10. m <= r
  BY <1>2, <1>9
<1> QED
  BY <1>4, <1>6, <1>10

(***************************************************************************)
(* The Maglev table.                                                       *)
(***************************************************************************)

\* The slots of a backend's permutation are slots, and pairwise different.
LEMMA SlotPermutes ==
    ASSUME NEW b \in Backends, NEW j \in 0..(M - 1)
    PROVE  /\ Slot(b, j) \in 0..(M - 1)
           /\ \A l \in 0..(M - 1) : l # j => Slot(b, l) # Slot(b, j)
<1> DEFINE o == Offset(b) % M
           s == (Skip(b) % (M - 1)) + 1
<1>1. M \in Nat /\ M > 1 /\ \A d \in 2..(M - 1) : M % d # 0
  BY LbAssumption
<1>2. o \in Nat /\ s \in 1..(M - 1)
  BY <1>1, LbAssumption
<1>3. \A x \in 0..(M - 1) : Slot(b, x) = (o + x * s) % M
  BY DEF Slot
<1> HIDE DEF o, s
<1>4. \A x \in 0..(M - 1) : o + x * s \in Nat
  BY <1>1, <1>2
<1>5. ASSUME NEW x \in 0..(M - 1), NEW y \in 0..(M - 1), x < y, Slot(b, x) = Slot(b, y)
      PROVE  FALSE
  <2> DEFINE u == o + x * s
             v == o + y * s
  <2>1. u \in Nat /\ v \in Nat /\ u % M = v % M
    BY <1>3, <1>4, <1>5
  <2>2. v - u = (y - x) * s
    BY <1>2
  <2> HIDE DEF u, v
  <2>3. /\ u = M * (u \div M) + (u % M) /\ u \div M \in Nat
        /\ v = M * (v \div M) + (v % M) /\ v \div M \in Nat
    <3>1. M \in Nat /\ M > 0
      BY <1>1
    <3> QED
      BY <2>1, <3>1, DivMod
  <2> DEFINE e == u \div M
             f == v \div M
             w == u % M
  <2>4. w \in Int /\ u = M * e + w /\ v = M * f + w /\ e \in Nat /\ f \in Nat
    <3>1. u % M \in Int
      BY <1>1, <2>1
    <3> QED
      BY <2>1, <2>3, <3>1, Zenon
  <2> HIDE DEF e, f, w
  <2>5. v - u = M * (f - e)
    BY <1>1, <2>4
  <2>6. y - x \in 1..(M - 1) /\ f - e \in Int
    BY <1>1, <1>5, <2>4
  <2> QED
    BY <1>1, <1>2, <2>2, <2>5, <2>6, Euclid
<1>6. \A l \in 0..(M - 1) : l < j \/ l = j \/ j < l
  BY <1>1
<1>7. \A l \in 0..(M - 1) : l # j => Slot(b, l) # Slot(b, j)
  BY <1>5, <1>6
<1>8. Slot(b, j) \in 0..(M - 1)
  BY <1>1, <1>3, <1>4
<1> QED
  BY <1>7, <1>8

\* While a slot is left, every backend finds one.
LEMMA SlotLeft ==
    ASSUME NEW b \in Backends, NEW T \in SUBSET (0..(M - 1)), Cardinality(T) < M
    PROVE  \E j \in 0..(M - 1) : Slot(b, j) \notin T
<1> SUFFICES ASSUME \A j \in 0..(M - 1) : Slot(b, j) \in T PROVE FALSE
  OBVIOUS
<1> DEFINE S == 0..(M - 1)
           f == [j \in S |-> Slot(b, j)]
<1>1. IsFiniteSet(S) /\ Cardinality(S) = M
  BY FS_Interval, LbAssumption
<1>2. IsFiniteSet(T)
  BY <1>1, FS_Subset
<1>3. f \in [S -> T]
  OBVIOUS
<1>4. \E x, y \in S : x # y /\ f[x] = f[y]
  <2> HIDE DEF S, f
  <2> QED
    BY <1>1, <1>2, <1>3, FS_PigeonHole
<1> QED
  BY <1>4, SlotPermutes

\* The backend whose turn it is takes a free slot.
LEMMA PlaceTakes ==
    ASSUME NEW bs \in Seq(Backends), NEW i \in 1..Len(bs), NEW t,
           DOMAIN t \subseteq 0..(M - 1), Cardinality(DOMAIN t) < M
    PROVE  \E s \in (0..(M - 1)) \ DOMAIN t : Place(bs, t, i) = Upsert(t, s, bs[i])
<1> DEFINE b == bs[i]
           free == {j \in 0..(M - 1) : Slot(b, j) \notin DOMAIN t}
           first == CHOOSE j \in free : \A l \in free : j <= l
<1>1. b \in Backends
  OBVIOUS
<1>2. PICK j \in free : TRUE
  BY <1>1, SlotLeft
<1>3. free \in SUBSET Nat
  BY LbAssumption
<1>4. \E x \in free : \A l \in free : x <= l
  <2> HIDE DEF free
  <2> QED
    BY <1>2, <1>3, Least
<1>5. first \in free
  <2> HIDE DEF free
  <2> QED
    BY <1>4
<1>6. Place(bs, t, i) = Upsert(t, Slot(b, first), b)
  BY DEF Place
<1> HIDE DEF first
<1>7. Slot(b, first) \in (0..(M - 1)) \ DOMAIN t
  BY <1>1, <1>5, SlotPermutes
<1> QED
  BY <1>6, <1>7

\* The recursion of build, and that it has a solution.
Turn(bs, k) == ((k - 1) % Len(bs)) + 1
IsFill(bs, n, f) ==
    f = [k \in 0..n |-> IF k = 0 THEN << >> ELSE Place(bs, f[k - 1], Turn(bs, k))]

\* There is such a filling for every number of steps.
LEMMA FillExists ==
    ASSUME NEW bs, NEW n \in Nat
    PROVE  \E f : IsFill(bs, n, f)
<1> DEFINE bad == {x \in Nat : ~\E f : IsFill(bs, x, f)}
<1> SUFFICES ASSUME n \in bad PROVE FALSE
  OBVIOUS
<1>1. PICK m \in bad : \A x \in bad : m <= x
  <2> HIDE DEF bad
  <2>1. bad \in SUBSET Nat
    BY DEF bad
  <2> QED
    BY <2>1, Least
<1>2. m # 0
  <2> SUFFICES ASSUME m = 0 PROVE FALSE
    OBVIOUS
  <2> DEFINE f == [k \in 0..0 |-> << >>]
  <2>1. IsFill(bs, 0, f)
    BY DEF IsFill
  <2> QED
    BY <2>1
<1>3. m \in Nat /\ m - 1 \in Nat
  BY <1>2
<1>4. PICK g : IsFill(bs, m - 1, g)
  BY <1>1, <1>3
<1> DEFINE h == [k \in 0..m |-> IF k < m THEN g[k] ELSE Place(bs, g[m - 1], Turn(bs, m))]
           e == [k \in 0..m |-> IF k = 0 THEN << >> ELSE Place(bs, h[k - 1], Turn(bs, k))]
<1>5. \A k \in 0..(m - 1) : g[k] = IF k = 0 THEN << >> ELSE Place(bs, g[k - 1], Turn(bs, k))
  BY <1>4 DEF IsFill
<1>6. \A k \in 0..m : h[k] = e[k]
  <2> TAKE k \in 0..m
  <2>1. CASE k = 0
    BY <1>2, <1>3, <1>5, <2>1
  <2>2. CASE k \in 1..(m - 1)
    <3>1. h[k] = g[k] /\ h[k - 1] = g[k - 1]
      BY <1>3, <2>2
    <3> QED
      BY <1>3, <1>5, <2>2, <3>1
  <2>3. CASE k = m
    <3>1. h[k] = Place(bs, g[m - 1], Turn(bs, m)) /\ h[m - 1] = g[m - 1]
      BY <1>3, <2>3
    <3> QED
      BY <1>2, <1>3, <2>3, <3>1
  <2> QED
    BY <1>3, <2>1, <2>2, <2>3
<1>7. h = e
  BY <1>6
<1>8. IsFill(bs, m, h)
  BY <1>7 DEF IsFill
<1> QED
  BY <1>8

\* build is the last table of such a sequence of tables.
LEMMA BuildFill ==
    ASSUME NEW bs
    PROVE  \E f : IsFill(bs, M, f) /\ Build(bs) = f[M]
<1> DEFINE fill == CHOOSE f : IsFill(bs, M, f)
<1>1. IsFill(bs, M, fill)
  <2>1. \E f : IsFill(bs, M, f)
    BY FillExists, LbAssumption
  <2> QED
    BY <2>1
<1>2. Build(bs) = fill[M]
  BY DEF Build, IsFill, Turn
<1> QED
  BY <1>1, <1>2

\* What holds of the table after k turns: k slots are taken, and with
\* k = q * Len(bs) + r the first r backends have q + 1 of them, the others q.
Share(t, b) == {s \in DOMAIN t : t[s] = b}
FillOK(bs, k, t) ==
    /\ DOMAIN t \subseteq 0..(M - 1) /\ Cardinality(DOMAIN t) = k
    /\ t = [s \in DOMAIN t |-> t[s]]
    /\ \A s \in DOMAIN t : t[s] \in Range(bs)
    /\ \E q \in Nat :
          /\ Len(bs) * q <= k /\ k < Len(bs) * q + Len(bs)
          /\ \A i \in 1..Len(bs) :
                Cardinality(Share(t, bs[i])) = IF i <= k - Len(bs) * q THEN q + 1 ELSE q

\* One turn.
LEMMA FillStep ==
    ASSUME NEW bs \in Seq(Backends), IsInjective(bs), bs # << >>,
           NEW k \in 1..M, NEW t, FillOK(bs, k - 1, t)
    PROVE  FillOK(bs, k, Place(bs, t, Turn(bs, k)))
<1> DEFINE n == Len(bs)
           i == Turn(bs, k)
           u == Place(bs, t, i)
<1>1. n \in Nat /\ n > 0 /\ M \in Nat /\ DOMAIN bs = 1..n /\ k - 1 \in Nat /\ k - 1 < M
  BY LbAssumption
<1>2. PICK q \in Nat :
        /\ n * q <= k - 1 /\ k - 1 < n * q + n
        /\ \A j \in 1..n : Cardinality(Share(t, bs[j])) = IF j <= k - 1 - n * q THEN q + 1 ELSE q
  BY DEF FillOK
<1> DEFINE r == k - 1 - n * q
<1>3. n * q \in Nat /\ r \in 0..(n - 1)
  BY <1>1, <1>2
<1>4. i = r + 1
  <2> DEFINE a == k - 1
             d == a \div n
             m == a % n
  <2>1. d \in Nat /\ m \in 0..(n - 1) /\ a = n * d + m
    BY <1>1, DivMod
  <2>2. a = n * q + r /\ a \in Nat
    BY <1>1, <1>3
  <2>3. n * (d - q) = r - m
    <3> HIDE DEF a, d, m, n, r
    <3>1. n * (d - q) = n * d - n * q
      BY <1>1, <2>1
    <3> QED
      BY <1>1, <1>3, <2>1, <2>2, <3>1
  <2>4. d = q
    <3> HIDE DEF a, d, m, n, r
    <3>1. ~(n * (d - q) > 0)
      BY <1>1, <1>3, <2>1, <2>3, NoMultiple
    <3>2. ~(n * (q - d) > 0)
      <4>1. n * (q - d) = m - r
        BY <1>1, <1>3, <2>1, <2>3
      <4> QED
        BY <1>1, <1>3, <2>1, <4>1, NoMultiple
    <3> QED
      BY <1>1, <2>1, <3>1, <3>2
  <2>5. m = r
    <3> HIDE DEF a, d, m, n, r
    <3> QED
      BY <1>1, <1>3, <2>1, <2>2, <2>4
  <2> QED
    BY <2>5 DEF Turn
<1>5. i \in 1..n
  BY <1>1, <1>3, <1>4
<1> HIDE DEF i, r, n
<1>6. DOMAIN t \subseteq 0..(M - 1) /\ Cardinality(DOMAIN t) = k - 1 /\ IsFiniteSet(DOMAIN t)
  <2>1. IsFiniteSet(0..(M - 1))
    BY <1>1, FS_Interval
  <2> QED
    BY <2>1, FS_Subset DEF FillOK
<1>7. PICK s \in (0..(M - 1)) \ DOMAIN t : u = Upsert(t, s, bs[i])
  BY <1>1, <1>5, <1>6, PlaceTakes DEF n
<1> HIDE DEF u
<1>8. /\ DOMAIN u = DOMAIN t \cup {s} /\ u = [x \in DOMAIN u |-> u[x]]
      /\ \A x \in DOMAIN u : u[x] = IF x = s THEN bs[i] ELSE t[x]
  BY <1>7 DEF Upsert
<1>9. DOMAIN u \subseteq 0..(M - 1) /\ Cardinality(DOMAIN u) = k
  <2>1. Cardinality(DOMAIN t \cup {s}) = Cardinality(DOMAIN t) + 1
    BY <1>6, <1>7, FS_AddElement
  <2> QED
    BY <1>1, <1>6, <1>7, <1>8, <2>1
<1>10. \A x \in DOMAIN u : u[x] \in Range(bs)
  BY <1>1, <1>5, <1>8 DEF FillOK, Range
<1>11. ASSUME NEW j \in 1..n
       PROVE  Cardinality(Share(u, bs[j])) =
                IF j = i THEN Cardinality(Share(t, bs[j])) + 1 ELSE Cardinality(Share(t, bs[j]))
  <2>1. IsFiniteSet(Share(t, bs[j])) /\ s \notin Share(t, bs[j])
    BY <1>6, <1>7, FS_Subset DEF Share
  <2>2. CASE j = i
    <3>1. Share(u, bs[j]) = Share(t, bs[j]) \cup {s}
      BY <1>7, <1>8, <2>2 DEF Share
    <3> QED
      BY <2>1, <2>2, <3>1, FS_AddElement
  <2>3. CASE j # i
    <3>1. bs[j] # bs[i]
      BY <1>1, <1>5, <2>3 DEF IsInjective
    <3>2. Share(u, bs[j]) = Share(t, bs[j])
      BY <1>7, <1>8, <3>1 DEF Share
    <3> QED
      BY <2>3, <3>2
  <2> QED
    BY <2>2, <2>3
<1>12. \E p \in Nat :
          /\ n * p <= k /\ k < n * p + n
          /\ \A j \in 1..n : Cardinality(Share(u, bs[j])) = IF j <= k - n * p THEN p + 1 ELSE p
  <2>1. k = n * q + r + 1
    BY <1>1, <1>3 DEF r
  <2>2. \A j \in 1..n : Cardinality(Share(t, bs[j])) = IF j <= r THEN q + 1 ELSE q
    BY <1>2 DEF r
  <2>3. CASE r + 1 < n
    <3>1. n * q <= k /\ k < n * q + n /\ k - n * q = r + 1
      BY <1>1, <1>3, <2>1, <2>3
    <3>2. \A j \in 1..n : Cardinality(Share(u, bs[j])) = IF j <= r + 1 THEN q + 1 ELSE q
      BY <1>1, <1>3, <1>4, <1>11, <2>2
    <3> QED
      BY <3>1, <3>2
  <2>4. CASE r + 1 = n
    <3>1. n * (q + 1) = n * q + n
      BY <1>1
    <3>2. n * (q + 1) <= k /\ k < n * (q + 1) + n /\ k - n * (q + 1) = 0 /\ q + 1 \in Nat
      BY <1>1, <1>3, <2>1, <2>4, <3>1
    <3>3. \A j \in 1..n : Cardinality(Share(u, bs[j])) = q + 1
      BY <1>1, <1>3, <1>4, <1>11, <2>2, <2>4
    <3>4. \A j \in 1..n :
             Cardinality(Share(u, bs[j])) = IF j <= k - n * (q + 1) THEN q + 1 + 1 ELSE q + 1
      BY <1>1, <3>2, <3>3
    <3> QED
      BY <3>2, <3>4
  <2> QED
    BY <1>1, <1>3, <2>3, <2>4
<1> QED
  BY <1>8, <1>9, <1>10, <1>12 DEF FillOK, n, u, i

\* All turns.
LEMMA FillAll ==
    ASSUME NEW bs \in Seq(Backends), IsInjective(bs), bs # << >>
    PROVE  FillOK(bs, M, Build(bs))
<1>1. PICK f : IsFill(bs, M, f) /\ Build(bs) = f[M]
  BY BuildFill
<1>2. M \in Nat /\ Len(bs) \in Nat /\ Len(bs) > 0
  BY LbAssumption
<1>3. f[0] = << >> /\ \A k \in 1..M : f[k] = Place(bs, f[k - 1], Turn(bs, k))
  BY <1>1, <1>2 DEF IsFill
<1>4. FillOK(bs, 0, << >>)
  <2>1. DOMAIN << >> = {}
    OBVIOUS
  <2>2. Cardinality(DOMAIN << >>) = 0
    BY <2>1, FS_EmptySet
  <2>3. \A b : Share(<< >>, b) = {}
    BY <2>1 DEF Share
  <2>4. \A i \in 1..Len(bs) : Cardinality(Share(<< >>, bs[i])) = 0
    BY <2>3, FS_EmptySet
  <2>5. << >> = [s \in DOMAIN << >> |-> << >>[s]]
    OBVIOUS
  <2>6. /\ Len(bs) * 0 <= 0 /\ 0 < Len(bs) * 0 + Len(bs)
        /\ \A i \in 1..Len(bs) :
              Cardinality(Share(<< >>, bs[i])) = IF i <= 0 - Len(bs) * 0 THEN 0 + 1 ELSE 0
    BY <1>2, <2>4
  <2> QED
    BY <2>1, <2>2, <2>5, <2>6 DEF FillOK
<1> DEFINE bad == {k \in 0..M : ~FillOK(bs, k, f[k])}
<1>5. bad = {}
  <2> SUFFICES ASSUME NEW x \in bad PROVE FALSE
    OBVIOUS
  <2>1. bad \in SUBSET Nat
    BY <1>2
  <2>2. PICK m \in bad : \A y \in bad : m <= y
    <3> HIDE DEF bad
    <3> QED
      BY <2>1, Least
  <2>3. m \in 1..M
    BY <1>2, <1>3, <1>4
  <2>4. FillOK(bs, m - 1, f[m - 1])
    BY <1>2, <2>2, <2>3
  <2>5. FillOK(bs, m, f[m])
    BY <1>3, <2>3, <2>4, FillStep
  <2> QED
    BY <2>5
<1> QED
  BY <1>1, <1>2, <1>5

\* There are M slots.
LEMMA SlotsFinite == IsFiniteSet(Slots) /\ Cardinality(Slots) = M
<1>1. M \in Int /\ M - 1 \in Int /\ ~(0 > M - 1) /\ (M - 1) - 0 + 1 = M /\ 0 \in Int
  BY LbAssumption
<1>2. IsFiniteSet(0..(M - 1)) /\ Cardinality(0..(M - 1)) = M
  BY <1>1, FS_Interval
<1> QED
  BY <1>2 DEF Slots

\* What build computes, for every list of distinct backends and every prime
\* table size: no slot stays empty, every slot leads to a backend of the list,
\* and two backends' shares differ by one slot at most.
THEOREM MaglevTable ==
    ASSUME NEW bs \in Seq(Backends), IsInjective(bs), bs # << >>
    PROVE  /\ Build(bs) \in [Slots -> Range(bs)]
           /\ \A b1, b2 \in Range(bs) :
                 Cardinality({s \in Slots : Build(bs)[s] = b1})
                   <= Cardinality({s \in Slots : Build(bs)[s] = b2}) + 1
<1> DEFINE t == Build(bs)
<1>1. FillOK(bs, M, t)
  BY FillAll
<1>2. IsFiniteSet(Slots) /\ Cardinality(Slots) = M
  BY SlotsFinite
<1> HIDE DEF t
<1>3. DOMAIN t = Slots
  BY <1>1, <1>2, FS_Subset DEF FillOK, Slots
<1>4. t \in [Slots -> Range(bs)]
  BY <1>1, <1>3 DEF FillOK
<1>5. PICK q \in Nat : \A i \in 1..Len(bs) : Cardinality(Share(t, bs[i])) \in {q, q + 1}
  BY <1>1, LbAssumption DEF FillOK
<1>6. \A b \in Range(bs) : Cardinality({s \in Slots : t[s] = b}) \in {q, q + 1}
  BY <1>3, <1>5 DEF Share, Range
<1>7. \A b1, b2 \in Range(bs) :
        Cardinality({s \in Slots : t[s] = b1}) <= Cardinality({s \in Slots : t[s] = b2}) + 1
  BY <1>6
<1> QED
  BY <1>4, <1>7 DEF t

(***************************************************************************)
(* The inductive invariant.                                                *)
(***************************************************************************)
Tabs == {"lbs", "lb", "maglev", "underlay"}
LB == tab["lb"]
MG == tab["maglev"]
UL == tab["underlay"]

\* The services of requests that create_load_balancer lets pass.
LbKeys == UNION {Keys(r) : r \in {x \in Requests : Accepted(x)}}
Marks == {[vni |-> r.vni, tap |-> 0] : r \in Requests}
Places == Marks \cup {Guests[b] : b \in DOMAIN Guests}
Tables == 1..(nextTable - 1)

EntryOf(r, t, bs) == [Entry(r, t) EXCEPT !.backends = bs]
EntryOK(id, e) ==
    /\ \E r \in Requests : r.id = id /\ Accepted(r) /\ e = EntryOf(r, e.table, e.backends)
    /\ e.backends \in Seq(Backends) /\ IsInjective(e.backends)

\* Keys and values of the maps.
TabInv ==
    /\ tab = [t \in Tabs |-> tab[t]]
    /\ nextTable \in Nat \ {0}
    /\ \A id \in DOMAIN Lbs : EntryOK(id, Lbs[id]) /\ Lbs[id].table \in Tables
    /\ \A i, j \in DOMAIN Lbs : Lbs[i].table = Lbs[j].table => i = j
    /\ \A k \in DOMAIN LB : k \in LbKeys /\ LB[k] \in Tables
    /\ \A k \in DOMAIN MG : k \in Tables \X Slots /\ MG[k] \in Backends
    /\ \A u \in DOMAIN UL : u \in Underlays /\ UL[u] \in Places

\* The operations under way.
OpKeys == LbKeys \cup Underlays \cup Ids \cup (Nat \X Slots)
NewEntries == {Entry(x[1], x[2]) : x \in Requests \X Nat}
OpValues == Nat \cup Marks \cup Backends \cup NewEntries
OpSet == [op : {"put"}, tab : Tabs, key : OpKeys, val : OpValues]
           \cup [op : {"del"}, tab : Tabs, key : OpKeys]

Creating(r) ==
    LET n == Len(task.ops) IN
    /\ r.id \notin DOMAIN Lbs /\ Accepted(r)
    /\ \A id \in DOMAIN Lbs : Lbs[id].table # task.table
    /\ \A k \in DOMAIN MG : k[1] # task.table
    /\ task.ops[n] = Put("lbs", r.id, Entry(r, task.table))
    /\ \A i \in 1..(n - 1) :
          \/ \E k \in Keys(r) : task.ops[i] = Put("lb", k, task.table)
          \/ task.ops[i] = Put("underlay", UnderlayOf(r), [vni |-> r.vni, tap |-> 0])
    /\ \A k \in DOMAIN LB : LB[k] = task.table => k \in Keys(r)
    /\ \A k \in Keys(r) : \/ k \in DOMAIN LB /\ LB[k] = task.table
                          \/ \E i \in 1..(n - 1) : task.ops[i] = Put("lb", k, task.table)
    /\ \A id \in DOMAIN Lbs : Keys(r) \cap Keys(Lbs[id]) \subseteq clashed

\* Slots of a table are filled from 0 up to h.
FilledTo(mg, t, h) == \A s \in Slots : <<t, s>> \in DOMAIN mg <=> s < h

Rewriting(id) ==
    LET t == task.table
        n == Len(task.ops)
        built == Build(Lbs[id].backends)
    IN  /\ Lbs[id].table = t /\ Lbs[id].backends # << >>
        /\ n <= M
        /\ \A i \in 1..n : task.ops[i] = Put("maglev", <<t, M - n + i - 1>>, built[M - n + i - 1])
        /\ \E h \in (M - n)..M : FilledTo(MG, t, h)
        /\ \A s \in 0..(M - n - 1) : MG[<<t, s>>] = built[s]

Removing ==
    LET t == task.table
        n == Len(task.ops)
    IN  /\ \A id \in DOMAIN Lbs : Lbs[id].table = t => Lbs[id].backends = << >>
        /\ \A i \in 1..n :
              \/ \E s \in Slots : task.ops[i] = Del("maglev", <<t, s>>)
              \/ \E k \in LbKeys :
                    /\ task.ops[i] = Del("lb", k)
                    /\ \A id \in DOMAIN Lbs : k \in Keys(Lbs[id]) => k \in clashed
        /\ \A s \in Slots : <<t, s>> \in DOMAIN MG =>
              \E i \in 1..n : task.ops[i] = Del("maglev", <<t, s>>)
        /\ \A k \in DOMAIN LB : LB[k] = t =>
              \/ \E id \in DOMAIN Lbs : Lbs[id].table = t
              \/ \E i \in 1..n : task.ops[i] = Del("lb", k)

TaskInv ==
    ~Free =>
        /\ task \in [ops : Seq(OpSet), table : Tables, before : [Services -> SUBSET Backends]]
        /\ task.ops # << >>
        /\ (\E r \in Requests : Creating(r)) \/ (\E id \in DOMAIN Lbs : Rewriting(id)) \/ Removing

\* The table of a load balancer that no operation is changing.
TableExact(mg, failed, e) ==
    IF e.backends = << >> THEN FilledTo(mg, e.table, 0)
    ELSE \E h \in 0..M :
            /\ FilledTo(mg, e.table, h)
            /\ h < M => e.table \in failed
            /\ \A s \in Slots : s < h => mg[<<e.table, s>>] = Build(e.backends)[s]

SlotInv ==
    /\ \A id \in DOMAIN Lbs : (Free \/ Lbs[id].table # task.table) => TableExact(MG, broken, Lbs[id])
    /\ \A k \in DOMAIN MG :
          \/ \E id \in DOMAIN Lbs : Lbs[id].table = k[1]
          \/ ~Free /\ task.table = k[1]

KeyInv ==
    /\ \A id \in DOMAIN Lbs : \A k \in Keys(Lbs[id]) \ clashed :
          k \in DOMAIN LB /\ LB[k] = Lbs[id].table
    /\ \A i, j \in DOMAIN Lbs : i # j => Keys(Lbs[i]) \cap Keys(Lbs[j]) \subseteq clashed
    /\ \A k \in DOMAIN LB : \A id \in DOMAIN Lbs : LB[k] = Lbs[id].table => k \in Keys(Lbs[id])
    /\ \A k \in DOMAIN LB :
          \/ LB[k] \in broken
          \/ \E id \in DOMAIN Lbs : LB[k] = Lbs[id].table
          \/ ~Free /\ LB[k] = task.table

MapInv == TabInv /\ TaskInv /\ SlotInv /\ KeyInv

(***************************************************************************)
(* Entries, tasks and tables.                                              *)
(***************************************************************************)

\* The fields of a shadow entry.
LEMMA EntryFields ==
    ASSUME NEW r, NEW t, NEW bs
    PROVE  /\ EntryOf(r, t, bs) = [vni |-> r.vni, ip |-> r.ip, ul |-> UnderlayOf(r),
                                   ports |-> r.ports, table |-> t, backends |-> bs]
           /\ EntryOf(r, t, bs).table = t /\ EntryOf(r, t, bs).backends = bs
           /\ Keys(EntryOf(r, t, bs)) = Keys(r)
           /\ Entry(r, t) = EntryOf(r, t, << >>)
<1> DEFINE e == EntryOf(r, t, bs)
<1>1. e = [vni |-> r.vni, ip |-> r.ip, ul |-> UnderlayOf(r), ports |-> r.ports, table |-> t,
           backends |-> bs]
  BY DEF EntryOf, Entry
<1> HIDE DEF e
<1>2. e.table = t /\ e.backends = bs /\ e.vni = r.vni /\ e.ip = r.ip /\ e.ports = r.ports
  BY <1>1
<1>3. Keys(e) = Keys(r)
  BY <1>2 DEF Keys
<1>4. Entry(r, t) = EntryOf(r, t, << >>)
  BY DEF EntryOf, Entry
<1> QED
  BY <1>1, <1>2, <1>3, <1>4 DEF e

\* The services of a shadow entry are services of an accepted request.
LEMMA EntryKeys ==
    ASSUME NEW id, NEW e, EntryOK(id, e)
    PROVE  /\ Keys(e) \subseteq LbKeys /\ id \in Ids
           /\ e.backends \in Seq(Backends) /\ IsInjective(e.backends)
<1>1. PICK r \in Requests : r.id = id /\ Accepted(r) /\ e = EntryOf(r, e.table, e.backends)
  BY DEF EntryOK
<1>2. Keys(e) = Keys(r)
  BY <1>1, EntryFields
<1> QED
  BY <1>1, <1>2 DEF LbKeys, Ids, EntryOK

\* Keys that are looked up with success are services.
LEMMA LbKeysAreServices == LbKeys \subseteq Services
  BY DEF LbKeys, Services

\* An entry with another backend list.
LEMMA RelistedEntry ==
    ASSUME NEW id, NEW e, EntryOK(id, e), NEW bs \in Seq(Backends), IsInjective(bs)
    PROVE  LET n == [e EXCEPT !.backends = bs] IN
           EntryOK(id, n) /\ n.table = e.table /\ n.backends = bs /\ Keys(n) = Keys(e)
<1> DEFINE n == [e EXCEPT !.backends = bs]
<1>1. PICK r \in Requests : r.id = id /\ Accepted(r) /\ e = EntryOf(r, e.table, e.backends)
  BY DEF EntryOK
<1>2. n = EntryOf(r, e.table, bs)
  <2>1. e = [vni |-> r.vni, ip |-> r.ip, ul |-> UnderlayOf(r), ports |-> r.ports,
             table |-> e.table, backends |-> e.backends]
    BY <1>1, EntryFields
  <2>2. n = [vni |-> r.vni, ip |-> r.ip, ul |-> UnderlayOf(r), ports |-> r.ports,
             table |-> e.table, backends |-> bs]
    BY <2>1
  <2> QED
    BY <2>2, EntryFields
<1> HIDE DEF n
<1>3. n.table = e.table /\ n.backends = bs /\ Keys(n) = Keys(r) /\ Keys(e) = Keys(r)
  BY <1>1, <1>2, EntryFields
<1> QED
  BY <1>1, <1>2, <1>3 DEF EntryOK, n

\* The tail of a sequence.
LEMMA TailFacts ==
    ASSUME NEW S, NEW q \in Seq(S), Len(q) > 1
    PROVE  /\ Tail(q) \in Seq(S) /\ Len(Tail(q)) = Len(q) - 1 /\ Tail(q) # << >>
           /\ \A i \in 1..(Len(q) - 1) : Tail(q)[i] = q[i + 1]
<1>1. Tail(q) \in Seq(S) /\ Len(Tail(q)) = Len(q) - 1
  OBVIOUS
<1>2. Tail(q) # << >>
  <2>1. Len(Tail(q)) # 0 /\ Len(<< >>) = 0
    BY <1>1
  <2> QED
    BY <2>1, Zenon
<1>3. \A i \in 1..(Len(q) - 1) : Tail(q)[i] = q[i + 1]
  OBVIOUS
<1> QED
  BY <1>1, <1>2, <1>3

\* What is left of a list of distinct backends without one of them.
Keep(bs, b, q, k) == IF bs[k] = b THEN q ELSE Append(q, bs[k])
IsKept(bs, b, n, f) ==
    f = [k \in 0..n |-> IF k = 0 THEN << >> ELSE Keep(bs, b, f[k - 1], k)]

\* The recursion of Retain has a solution.
LEMMA KeptExists ==
    ASSUME NEW bs, NEW b, NEW n \in Nat
    PROVE  \E f : IsKept(bs, b, n, f)
<1> DEFINE bad == {x \in Nat : ~\E f : IsKept(bs, b, x, f)}
           nxt(f, k) == Keep(bs, b, f[k - 1], k)
<1> SUFFICES ASSUME n \in bad PROVE FALSE
  OBVIOUS
<1>1. PICK m \in bad : \A x \in bad : m <= x
  <2> HIDE DEF bad
  <2>1. bad \in SUBSET Nat
    BY DEF bad
  <2> QED
    BY <2>1, Least
<1>2. m # 0
  <2> SUFFICES ASSUME m = 0 PROVE FALSE
    OBVIOUS
  <2> DEFINE f == [k \in 0..0 |-> << >>]
  <2>1. IsKept(bs, b, 0, f)
    BY DEF IsKept
  <2> QED
    BY <2>1
<1>3. m \in Nat /\ m - 1 \in Nat
  BY <1>2
<1>4. PICK g : IsKept(bs, b, m - 1, g)
  BY <1>1, <1>3
<1> DEFINE h == [k \in 0..m |-> IF k < m THEN g[k] ELSE nxt(g, m)]
           e == [k \in 0..m |-> IF k = 0 THEN << >> ELSE nxt(h, k)]
<1>5. \A k \in 0..(m - 1) : g[k] = IF k = 0 THEN << >> ELSE nxt(g, k)
  BY <1>4 DEF IsKept
<1>6. \A k \in 0..m : h[k] = e[k]
  <2> TAKE k \in 0..m
  <2>1. CASE k = 0
    BY <1>2, <1>3, <1>5, <2>1
  <2>2. CASE k \in 1..(m - 1)
    <3>1. h[k] = g[k] /\ h[k - 1] = g[k - 1]
      BY <1>3, <2>2
    <3> QED
      BY <1>3, <1>5, <2>2, <3>1
  <2>3. CASE k = m
    <3>1. h[k] = nxt(g, m) /\ h[m - 1] = g[m - 1]
      BY <1>3, <2>3
    <3> QED
      BY <1>2, <1>3, <2>3, <3>1
  <2> QED
    BY <1>3, <2>1, <2>2, <2>3
<1>7. h = e
  BY <1>6
<1>8. IsKept(bs, b, m, h)
  BY <1>7 DEF IsKept
<1> QED
  BY <1>8

\* What is kept of the first n backends.
KeptOK(bs, b, n, q) ==
    /\ q \in Seq(Backends) /\ IsInjective(q)
    /\ \A x : x \in Range(q) <=> x # b /\ \E i \in 1..n : bs[i] = x

\* A list of distinct backends and one more.
LEMMA AppendFacts ==
    ASSUME NEW q \in Seq(Backends), IsInjective(q), NEW b \in Backends, b \notin Range(q)
    PROVE  /\ Append(q, b) \in Seq(Backends) /\ IsInjective(Append(q, b)) /\ Append(q, b) # << >>
           /\ Range(Append(q, b)) = Range(q) \cup {b}
<1> DEFINE a == Append(q, b)
           n == Len(q)
<1>1. /\ n \in Nat /\ DOMAIN q = 1..n /\ a \in Seq(Backends) /\ DOMAIN a = 1..(n + 1)
      /\ Len(a) = n + 1
  OBVIOUS
<1>2. /\ \A i \in 1..n : a[i] = q[i]
      /\ a[n + 1] = b
  OBVIOUS
<1> HIDE DEF a, n
<1>3. \A i \in 1..n : q[i] # b
  BY <1>1 DEF Range
<1>4. IsInjective(a)
  <2> SUFFICES ASSUME NEW i \in DOMAIN a, NEW j \in DOMAIN a, a[i] = a[j] PROVE i = j
    BY DEF IsInjective
  <2>1. CASE i \in 1..n /\ j \in 1..n
    BY <1>1, <1>2, <2>1 DEF IsInjective
  <2>2. CASE i = n + 1 \/ j = n + 1
    BY <1>1, <1>2, <1>3, <2>2
  <2> QED
    BY <1>1, <2>1, <2>2
<1>5. Range(a) = Range(q) \cup {b}
  BY <1>1, <1>2 DEF Range
<1>6. a # << >>
  <2>1. Len(a) # 0 /\ Len(<< >>) = 0
    BY <1>1
  <2> QED
    BY <2>1, Zenon
<1> QED
  BY <1>1, <1>4, <1>5, <1>6 DEF a

\* The list that Retain returns.
LEMMA RetainFacts ==
    ASSUME NEW bs \in Seq(Backends), IsInjective(bs), NEW b
    PROVE  /\ Retain(bs, b) \in Seq(Backends) /\ IsInjective(Retain(bs, b))
           /\ Range(Retain(bs, b)) = Range(bs) \ {b}
<1> DEFINE N == Len(bs)
           f == CHOOSE g : IsKept(bs, b, N, g)
<1>1. N \in Nat /\ DOMAIN bs = 1..N
  OBVIOUS
<1>2. IsKept(bs, b, N, f)
  <2>1. \E g : IsKept(bs, b, N, g)
    BY <1>1, KeptExists
  <2> QED
    BY <2>1
<1>3. Retain(bs, b) = f[N]
  BY DEF Retain, IsKept, Keep
<1> HIDE DEF f, N
<1>4. /\ f[0] = << >>
      /\ \A k \in 1..N : f[k] = Keep(bs, b, f[k - 1], k)
  BY <1>1, <1>2 DEF IsKept
<1>5. KeptOK(bs, b, 0, << >>)
  BY DEF KeptOK, IsInjective, Range
<1>6. ASSUME NEW k \in 1..N, KeptOK(bs, b, k - 1, f[k - 1]) PROVE KeptOK(bs, b, k, f[k])
  <2>1. /\ f[k - 1] \in Seq(Backends) /\ IsInjective(f[k - 1])
        /\ \A x : x \in Range(f[k - 1]) <=> x # b /\ \E i \in 1..(k - 1) : bs[i] = x
    BY <1>6 DEF KeptOK
  <2>2. CASE bs[k] = b
    BY <1>1, <1>4, <2>1, <2>2 DEF KeptOK, Keep
  <2>3. CASE bs[k] # b
    <3>1. bs[k] \in Backends /\ bs[k] \notin Range(f[k - 1])
      BY <1>1, <2>1 DEF IsInjective
    <3>2. /\ f[k] \in Seq(Backends) /\ IsInjective(f[k])
          /\ Range(f[k]) = Range(f[k - 1]) \cup {bs[k]}
      BY <1>4, <2>1, <2>3, <3>1, AppendFacts DEF Keep
    <3> QED
      BY <1>1, <2>1, <2>3, <3>2 DEF KeptOK
  <2> QED
    BY <2>2, <2>3
<1> DEFINE bad == {k \in 0..N : ~KeptOK(bs, b, k, f[k])}
<1>7. bad = {}
  <2> SUFFICES ASSUME NEW x \in bad PROVE FALSE
    OBVIOUS
  <2>1. bad \in SUBSET Nat
    BY <1>1
  <2>2. PICK m \in bad : \A y \in bad : m <= y
    <3> HIDE DEF bad
    <3> QED
      BY <2>1, Least
  <2>3. m \in 1..N
    BY <1>1, <1>4, <1>5
  <2>4. KeptOK(bs, b, m - 1, f[m - 1])
    BY <1>1, <2>2, <2>3
  <2> QED
    BY <1>6, <2>3, <2>4
<1>8. KeptOK(bs, b, N, f[N])
  BY <1>1, <1>7
<1>9. Range(f[N]) = Range(bs) \ {b}
  BY <1>1, <1>8 DEF KeptOK, Range
<1> QED
  BY <1>3, <1>8, <1>9 DEF KeptOK

\* The operations of a task.
LEMMA TaskFacts ==
    ASSUME TaskInv, ~Free
    PROVE  /\ task.ops \in Seq(OpSet) /\ Len(task.ops) \in Nat /\ Len(task.ops) > 0
           /\ Head(task.ops) = task.ops[1] /\ task.table \in Tables
           /\ task.before \in [Services -> SUBSET Backends]
<1>1. /\ task \in [ops : Seq(OpSet), table : Tables, before : [Services -> SUBSET Backends]]
      /\ task.ops # << >>
  BY DEF TaskInv
<1>2. /\ task.ops \in Seq(OpSet) /\ task.table \in Tables
      /\ task.before \in [Services -> SUBSET Backends]
  BY <1>1
<1> QED
  BY <1>1, <1>2

\* The step to the next operation.
LEMMA TaskAdvances ==
    ASSUME TaskInv, ~Free, Advance, nextTable' = nextTable
    PROVE  /\ Len(task.ops) = 1 => Free'
           /\ Len(task.ops) # 1 =>
                /\ ~Free' /\ task'.ops # << >> /\ Len(task'.ops) = Len(task.ops) - 1
                /\ task'.table = task.table /\ task'.before = task.before
                /\ \A i \in 1..(Len(task.ops) - 1) : task'.ops[i] = task.ops[i + 1]
                /\ task' \in [ops : Seq(OpSet), table : Tables',
                             before : [Services -> SUBSET Backends]]
<1>1. CASE Len(task.ops) = 1
  BY <1>1 DEF Advance, Free, FreeTask
<1>2. CASE Len(task.ops) # 1
  <2> DEFINE ops == task.ops
             t == [task EXCEPT !.ops = Tail(@)]
  <2>1. task \in [ops : Seq(OpSet), table : Tables, before : [Services -> SUBSET Backends]]
    BY DEF TaskInv
  <2>3. task' = t
    BY <1>2 DEF Advance
  <2>5. ops \in Seq(OpSet) /\ Len(ops) \in Nat /\ Len(ops) > 1
    <3>1. ops \in Seq(OpSet) /\ Len(ops) \in Nat /\ Len(ops) > 0
      BY TaskFacts
    <3>2. Len(ops) # 1
      BY <1>2
    <3> HIDE DEF ops
    <3> QED
      BY <3>1, <3>2
  <2>6. /\ Tail(ops) \in Seq(OpSet) /\ Len(Tail(ops)) = Len(ops) - 1 /\ Tail(ops) # << >>
        /\ \A i \in 1..(Len(ops) - 1) : Tail(ops)[i] = ops[i + 1]
    <3> HIDE DEF ops
    <3> QED
      BY <2>5, TailFacts
  <2>4. /\ t.ops = Tail(ops) /\ t.table = task.table /\ t.before = task.before
        /\ t \in [ops : Seq(OpSet), table : Tables, before : [Services -> SUBSET Backends]]
    BY <2>1, <2>6
  <2> HIDE DEF t
  <2>7. ~Free'
    BY <2>3, <2>4, <2>6 DEF Free, FreeTask
  <2>8. Tables' = Tables
    BY DEF Tables
  <2> QED
    BY <1>2, <2>3, <2>4, <2>6, <2>7, <2>8 DEF ops
<1> QED
  BY <1>1, <1>2

\* One map changes, the others stay.
LEMMA TabChange ==
    ASSUME TabInv, NEW t \in Tabs, NEW f, tab' = [tab EXCEPT ![t] = f]
    PROVE  /\ tab' = [x \in Tabs |-> tab'[x]]
           /\ Lbs' = (IF t = "lbs" THEN f ELSE Lbs) /\ LB' = (IF t = "lb" THEN f ELSE LB)
           /\ MG' = (IF t = "maglev" THEN f ELSE MG) /\ UL' = (IF t = "underlay" THEN f ELSE UL)
<1>1. tab = [x \in Tabs |-> tab[x]]
  BY DEF TabInv
<1>2. \A x \in Tabs : tab'[x] = IF x = t THEN f ELSE tab[x]
  BY <1>1
<1>3. tab' = [x \in Tabs |-> tab'[x]]
  BY <1>1
<1> QED
  BY <1>2, <1>3 DEF Tabs, Lbs, LB, MG, UL

\* The slots in a step that leaves them alone.
LEMMA SlotSame ==
    ASSUME SlotInv, Lbs' = Lbs, MG' = MG, broken' = broken,
           Free' <=> Free, ~Free => task'.table = task.table
    PROVE  SlotInv'
  BY DEF SlotInv

\* A table that a write leaves alone.
LEMMA OtherTable ==
    ASSUME NEW mg, NEW ng, NEW failed, NEW more, NEW e, failed \subseteq more,
           \A s \in Slots : <<e.table, s>> \in DOMAIN ng <=> <<e.table, s>> \in DOMAIN mg,
           \A s \in Slots : <<e.table, s>> \in DOMAIN mg =>
                               ng[<<e.table, s>>] = mg[<<e.table, s>>],
           TableExact(mg, failed, e)
    PROVE  TableExact(ng, more, e)
<1>1. \A h : FilledTo(mg, e.table, h) => FilledTo(ng, e.table, h)
  BY DEF FilledTo
<1>2. CASE e.backends = << >>
  BY <1>1, <1>2 DEF TableExact
<1>3. CASE e.backends # << >>
  <2>1. PICK h \in 0..M :
          /\ FilledTo(mg, e.table, h)
          /\ h < M => e.table \in failed
          /\ \A s \in Slots : s < h => mg[<<e.table, s>>] = Build(e.backends)[s]
    BY <1>3 DEF TableExact
  <2>2. \A s \in Slots : s < h => ng[<<e.table, s>>] = Build(e.backends)[s]
    BY <2>1 DEF FilledTo
  <2> QED
    BY <1>1, <1>3, <2>1, <2>2 DEF TableExact
<1> QED
  BY <1>2, <1>3

\* The keys in a step that leaves them alone.
LEMMA KeySame ==
    ASSUME KeyInv, Lbs' = Lbs, LB' = LB, broken' = broken, clashed' = clashed,
           Free' <=> Free, ~Free => task'.table = task.table
    PROVE  KeyInv'
<1>1. \A id \in DOMAIN Lbs : Keys(Lbs[id])' = Keys(Lbs[id])
  BY DEF Keys, Key, Last4
<1> QED
  BY <1>1 DEF KeyInv

\* A step of the datapath changes nothing the invariant speaks of.
LEMMA MapSame ==
    ASSUME MapInv, UNCHANGED <<tab, nextTable, task, clashed, broken>>
    PROVE  MapInv'
<1>1. TabInv'
  BY DEF MapInv, TabInv, Lbs, LB, MG, UL, Tables
<1>2. SlotInv'
  BY SlotSame DEF MapInv, Lbs, MG, Free
<1>3. KeyInv'
  BY KeySame DEF MapInv, Lbs, LB, Free
<1>4. TaskInv'
  <2> SUFFICES ASSUME ~Free PROVE TaskInv'
    BY DEF TaskInv, Free
  <2>1. \A r \in Requests : Creating(r) => Creating(r)'
    BY DEF Creating, Lbs, MG, LB
  <2>2. \A id \in DOMAIN Lbs : Rewriting(id) => Rewriting(id)'
    BY DEF Rewriting, Lbs, MG
  <2>3. Removing => Removing'
    BY DEF Removing, Lbs, MG, LB
  <2> QED
    BY <2>1, <2>2, <2>3 DEF MapInv, TaskInv, Tables, Lbs, Free
<1> QED
  BY <1>1, <1>2, <1>3, <1>4 DEF MapInv

\* add_lb_target or del_lb_target writes a slot.
LEMMA RewritingPut ==
    ASSUME MapInv, ~Free, NEW id \in DOMAIN Lbs, Rewriting(id), WritePut
    PROVE  MapInv'
<1> DEFINE t == task.table
           n == Len(task.ops)
           e == Lbs[id]
           built == Build(e.backends)
           z == M - n
<1>1. /\ e.table = t /\ e.backends # << >> /\ n <= M
      /\ \A i \in 1..n : task.ops[i] = Put("maglev", <<t, M - n + i - 1>>, built[M - n + i - 1])
      /\ \E h \in (M - n)..M : FilledTo(MG, t, h)
      /\ \A s \in 0..(M - n - 1) : MG[<<t, s>>] = built[s]
  BY DEF Rewriting
<1>2. n \in Nat /\ n > 0 /\ Head(task.ops) = task.ops[1] /\ t \in Tables
  BY TaskFacts DEF MapInv
<1>3. M \in Nat
  BY LbAssumption
<1>4. EntryOK(id, e) /\ Tables \subseteq Nat
  BY DEF MapInv, TabInv, Tables
<1>5. e.backends \in Seq(Backends) /\ IsInjective(e.backends)
  BY <1>4 DEF EntryOK
<1>6. built \in [Slots -> Range(e.backends)]
  BY <1>1, <1>5, MaglevTable
<1>7. Range(e.backends) \subseteq Backends
  BY <1>5 DEF Range
<1>8. TaskInv /\ TabInv /\ SlotInv /\ KeyInv
  BY DEF MapInv
<1>9. Advance /\ UNCHANGED <<nextTable, clashed, broken>>
  BY DEF WritePut, history
<1> HIDE DEF n, built, e, t
<1>10. z \in Slots /\ z \in Nat /\ built[z] \in Backends
  BY <1>1, <1>2, <1>3, <1>6, <1>7 DEF Slots
<1>11. task.ops[1] = Put("maglev", <<t, z>>, built[z])
  <2>1. 1 \in 1..n /\ M - n + 1 - 1 = M - n
    BY <1>2, <1>3
  <2> QED
    BY <1>1, <2>1
<1>12. tab' = [tab EXCEPT !["maglev"] = Upsert(MG, <<t, z>>, built[z])]
  <2>1. tab' = [tab EXCEPT ![task.ops[1].tab] = Upsert(tab[task.ops[1].tab], task.ops[1].key, task.ops[1].val)]
    BY <1>2 DEF WritePut
  <2> QED
    BY <1>11, <2>1 DEF Put, MG
<1> HIDE DEF z
<1>13. /\ tab' = [x \in Tabs |-> tab'[x]] /\ Lbs' = Lbs /\ LB' = LB /\ UL' = UL
       /\ MG' = Upsert(MG, <<t, z>>, built[z])
  BY <1>8, <1>12, TabChange DEF Tabs
<1>14. /\ DOMAIN MG' = DOMAIN MG \cup {<<t, z>>} /\ MG'[<<t, z>>] = built[z]
       /\ \A k \in DOMAIN MG : k # <<t, z>> => MG'[k] = MG[k]
  BY <1>13 DEF Upsert
<1>15. TabInv'
  BY <1>2, <1>8, <1>9, <1>10, <1>13, <1>14 DEF TabInv, Tables
<1>16. \A f : f.table # t => (TableExact(MG, broken, f) => TableExact(MG', broken', f))
  <2> TAKE f
  <2> SUFFICES ASSUME f.table # t, TableExact(MG, broken, f) PROVE TableExact(MG', broken', f)
    OBVIOUS
  <2>1. \A s \in Slots : /\ <<f.table, s>> \in DOMAIN MG' <=> <<f.table, s>> \in DOMAIN MG
                         /\ <<f.table, s>> \in DOMAIN MG => MG'[<<f.table, s>>] = MG[<<f.table, s>>]
    BY <1>14
  <2> QED
    BY <1>9, <2>1, OtherTable
<1>17. \A i \in DOMAIN Lbs : i # id => Lbs[i].table # t
  BY <1>1, <1>8 DEF TabInv, e
<1>18. PICK h \in (z + 1)..M : FilledTo(MG', t, h)
  <2>1. PICK g \in z..M : FilledTo(MG, t, g)
    BY <1>1 DEF z
  <2>2. CASE g > z
    <3>1. FilledTo(MG', t, g)
      BY <1>3, <1>10, <1>14, <2>1, <2>2 DEF FilledTo, Slots
    <3> QED
      BY <1>3, <1>10, <2>1, <2>2, <3>1
  <2>3. CASE g = z
    <3>1. FilledTo(MG', t, z + 1)
      BY <1>3, <1>10, <1>14, <2>1, <2>3 DEF FilledTo, Slots
    <3> QED
      BY <1>3, <1>10, <3>1 DEF Slots
  <2> QED
    BY <1>3, <1>10, <2>1, <2>2, <2>3
<1>19. \A s \in 0..z : MG'[<<t, s>>] = built[s]
  <2> TAKE s \in 0..z
  <2>1. CASE s = z
    BY <1>14, <2>1
  <2>2. CASE s # z
    <3>1. s \in 0..(z - 1) /\ s \in Slots
      BY <1>3, <1>10, <2>2 DEF Slots
    <3>2. PICK g \in z..M : FilledTo(MG, t, g)
      BY <1>1 DEF z
    <3>3. <<t, s>> \in DOMAIN MG
      BY <1>3, <1>10, <3>1, <3>2 DEF FilledTo
    <3> QED
      BY <1>1, <1>14, <2>2, <3>1, <3>3 DEF z
  <2> QED
    BY <2>1, <2>2
<1>20. CASE n = 1
  <2>1. Free'
    BY <1>8, <1>9, <1>20, TaskAdvances DEF n
  <2>2. z + 1 = M /\ h = M
    BY <1>2, <1>3, <1>18, <1>20 DEF z
  <2>3. TableExact(MG', broken', e)
    <3>1. \A s \in Slots : MG'[<<e.table, s>>] = built[s]
      BY <1>1, <1>3, <1>10, <1>19, <2>2 DEF Slots
    <3>2. FilledTo(MG', e.table, M) /\ M \in 0..M /\ ~(M < M)
      BY <1>1, <1>3, <1>18, <2>2
    <3> QED
      BY <1>1, <3>1, <3>2 DEF TableExact, built
  <2>4. SlotInv'
    <3>1. \A i \in DOMAIN Lbs : TableExact(MG', broken', Lbs[i])
      BY <1>8, <1>16, <1>17, <2>3 DEF SlotInv, e, t
    <3>2. \A k \in DOMAIN MG' : \E i \in DOMAIN Lbs : Lbs[i].table = k[1]
      BY <1>1, <1>8, <1>14 DEF SlotInv, t, e
    <3> QED
      BY <1>13, <3>1, <3>2 DEF SlotInv
  <2>5. KeyInv'
    <3>1. \A k \in DOMAIN LB : LB[k] \in broken \/ \E i \in DOMAIN Lbs : LB[k] = Lbs[i].table
      BY <1>1, <1>8 DEF KeyInv, t, e
    <3> QED
      BY <1>8, <1>9, <1>13, <3>1 DEF KeyInv
  <2>6. TaskInv'
    BY <2>1 DEF TaskInv
  <2> QED
    BY <1>15, <2>4, <2>5, <2>6 DEF MapInv
<1>21. CASE n # 1
  <2>1. /\ ~Free' /\ task'.ops # << >> /\ Len(task'.ops) = n - 1
        /\ task'.table = t
        /\ \A i \in 1..(n - 1) : task'.ops[i] = task.ops[i + 1]
        /\ task' \in [ops : Seq(OpSet), table : Tables', before : [Services -> SUBSET Backends]]
    BY <1>8, <1>9, <1>21, TaskAdvances DEF n, t
  <2>2. SlotInv'
    <3>1. \A i \in DOMAIN Lbs : Lbs[i].table # t => TableExact(MG', broken', Lbs[i])
      BY <1>8, <1>16 DEF SlotInv, t
    <3>2. \A k \in DOMAIN MG' : \E i \in DOMAIN Lbs : Lbs[i].table = k[1]
      BY <1>1, <1>8, <1>14 DEF SlotInv, t, e
    <3> QED
      BY <1>13, <2>1, <3>1, <3>2 DEF SlotInv
  <2>3. KeyInv'
    BY <1>8, <1>9, <1>13, <2>1, KeySame DEF t
  <2>4. Rewriting(id)'
    <3>1. M - (n - 1) = z + 1 /\ M - (n - 1) - 1 = z
      BY <1>2, <1>3 DEF z
    <3>2. \A i \in 1..(n - 1) :
            task'.ops[i] = Put("maglev", <<t, z + 1 + i - 1>>, built[z + 1 + i - 1])
      <4> TAKE i \in 1..(n - 1)
      <4>1. i + 1 \in 1..n /\ M - n + (i + 1) - 1 = z + 1 + i - 1
        BY <1>2, <1>3 DEF z
      <4> QED
        BY <1>1, <2>1, <4>1
    <3>3. n - 1 <= M
      BY <1>1, <1>2, <1>3
    <3>4. Lbs'[id] = e /\ Build(Lbs'[id].backends) = built
      BY <1>13 DEF e, built
    <3>5. /\ Lbs'[id].table = task'.table /\ Lbs'[id].backends # << >> /\ Len(task'.ops) <= M
          /\ \E g \in (M - Len(task'.ops))..M : FilledTo(MG', task'.table, g)
      BY <1>1, <1>18, <2>1, <3>1, <3>3, <3>4
    <3>6. \A i \in 1..(n - 1) :
             task'.ops[i] = Put("maglev", <<t, M - (n - 1) + i - 1>>, built[M - (n - 1) + i - 1])
      BY <3>1, <3>2
    <3>7. \A i \in 1..Len(task'.ops) :
             task'.ops[i] = Put("maglev", <<task'.table, M - Len(task'.ops) + i - 1>>,
                                Build(Lbs'[id].backends)[M - Len(task'.ops) + i - 1])
      BY <2>1, <3>4, <3>6, Zenon
    <3>8. \A s \in 0..(M - (n - 1) - 1) : MG'[<<t, s>>] = built[s]
      BY <1>19, <3>1, Zenon
    <3>9. \A s \in 0..(M - Len(task'.ops) - 1) :
             MG'[<<task'.table, s>>] = Build(Lbs'[id].backends)[s]
      BY <2>1, <3>4, <3>8, Zenon
    <3> QED
      BY <3>5, <3>7, <3>9 DEF Rewriting
  <2>5. TaskInv'
    BY <1>13, <2>1, <2>4 DEF TaskInv
  <2> QED
    BY <1>15, <2>2, <2>3, <2>5 DEF MapInv
<1> QED
  BY <1>20, <1>21

\* create_lb writes a key, marks the underlay address or makes the entry.
LEMMA CreatingPut ==
    ASSUME MapInv, ~Free, NEW r \in Requests, Creating(r), WritePut
    PROVE  MapInv'
<1> DEFINE t == task.table
           n == Len(task.ops)
           mark == [vni |-> r.vni, tap |-> 0]
<1>1. /\ r.id \notin DOMAIN Lbs /\ Accepted(r)
      /\ \A id \in DOMAIN Lbs : Lbs[id].table # t
      /\ \A k \in DOMAIN MG : k[1] # t
      /\ task.ops[n] = Put("lbs", r.id, Entry(r, t))
      /\ \A i \in 1..(n - 1) :
            \/ \E k \in Keys(r) : task.ops[i] = Put("lb", k, t)
            \/ task.ops[i] = Put("underlay", UnderlayOf(r), mark)
      /\ \A k \in DOMAIN LB : LB[k] = t => k \in Keys(r)
      /\ \A k \in Keys(r) : \/ k \in DOMAIN LB /\ LB[k] = t
                            \/ \E i \in 1..(n - 1) : task.ops[i] = Put("lb", k, t)
      /\ \A id \in DOMAIN Lbs : Keys(r) \cap Keys(Lbs[id]) \subseteq clashed
  BY DEF Creating
<1>2. n \in Nat /\ n > 0 /\ Head(task.ops) = task.ops[1] /\ t \in Tables
  BY TaskFacts DEF MapInv
<1>3. Keys(r) \subseteq LbKeys
  BY <1>1 DEF LbKeys
<1>4. TaskInv /\ TabInv /\ SlotInv /\ KeyInv
  BY DEF MapInv
<1>5. Advance /\ UNCHANGED <<nextTable, clashed, broken>>
  BY DEF WritePut, history
<1>6. tab' = [tab EXCEPT ![task.ops[1].tab] =
                 Upsert(tab[task.ops[1].tab], task.ops[1].key, task.ops[1].val)]
  BY <1>2 DEF WritePut
<1> HIDE DEF n, t, mark
<1>7. CASE n = 1
  <2> DEFINE e == Entry(r, t)
  <2>1. tab' = [tab EXCEPT !["lbs"] = Upsert(Lbs, r.id, e)]
    <3>1. task.ops[1] = Put("lbs", r.id, e)
      BY <1>1, <1>7
    <3> HIDE DEF e
    <3>2. task.ops[1].tab = "lbs" /\ task.ops[1].key = r.id /\ task.ops[1].val = e
      BY <3>1 DEF Put
    <3> QED
      BY <1>6, <3>2, Zenon DEF Lbs
  <2>2. e.table = t /\ e.backends = << >> /\ Keys(e) = Keys(r) /\ e = EntryOf(r, t, << >>)
    <3>1. e = EntryOf(r, t, << >>)
      BY EntryFields
    <3> HIDE DEF e
    <3> QED
      BY <3>1, EntryFields
  <2>3. << >> \in Seq(Backends) /\ IsInjective(<< >>)
    BY DEF IsInjective
  <2>4. EntryOK(r.id, e)
    BY <1>1, <2>2, <2>3 DEF EntryOK
  <2> HIDE DEF e
  <2>5. /\ tab' = [x \in Tabs |-> tab'[x]] /\ Lbs' = Upsert(Lbs, r.id, e)
        /\ LB' = LB /\ UL' = UL /\ MG' = MG
    BY <1>4, <2>1, TabChange DEF Tabs
  <2>6. /\ DOMAIN Lbs' = DOMAIN Lbs \cup {r.id} /\ Lbs'[r.id] = e
        /\ \A i \in DOMAIN Lbs : i # r.id /\ Lbs'[i] = Lbs[i]
    BY <1>1, <2>5 DEF Upsert
  <2>7. Free'
    BY <1>4, <1>5, <1>7, TaskAdvances DEF n
  <2>8. Tables' = Tables
    BY <1>5 DEF Tables
  <2>9. TabInv'
    <3>1. \A i \in DOMAIN Lbs' : EntryOK(i, Lbs'[i]) /\ Lbs'[i].table \in Tables'
      BY <1>2, <1>4, <2>2, <2>4, <2>6, <2>8 DEF TabInv
    <3>2. \A i, j \in DOMAIN Lbs' : Lbs'[i].table = Lbs'[j].table => i = j
      BY <1>1, <1>4, <2>2, <2>6 DEF TabInv
    <3> QED
      BY <1>4, <1>5, <2>5, <2>8, <3>1, <3>2 DEF TabInv
  <2>10. SlotInv'
    <3>1. TableExact(MG, broken, e)
      <4>1. FilledTo(MG, t, 0)
        BY <1>1, LbAssumption DEF FilledTo, Slots
      <4> QED
        BY <2>2, <4>1 DEF TableExact
    <3>2. \A i \in DOMAIN Lbs' : TableExact(MG', broken', Lbs'[i])
      BY <1>1, <1>4, <1>5, <2>5, <2>6, <3>1 DEF SlotInv, t
    <3>3. \A k \in DOMAIN MG' : \E i \in DOMAIN Lbs' : Lbs'[i].table = k[1]
      BY <1>1, <1>4, <2>5, <2>6 DEF SlotInv, t
    <3> QED
      BY <3>2, <3>3 DEF SlotInv
  <2>11. KeyInv'
    <3>1. \A k \in Keys(r) : k \in DOMAIN LB /\ LB[k] = t
      BY <1>1, <1>2, <1>7
    <3>2. \A i \in DOMAIN Lbs' : \A k \in Keys(Lbs'[i]) \ clashed' :
             k \in DOMAIN LB' /\ LB'[k] = Lbs'[i].table
      BY <1>4, <1>5, <2>2, <2>5, <2>6, <3>1 DEF KeyInv
    <3>3. \A i, j \in DOMAIN Lbs' : i # j => Keys(Lbs'[i]) \cap Keys(Lbs'[j]) \subseteq clashed'
      BY <1>1, <1>4, <1>5, <2>2, <2>6 DEF KeyInv
    <3>4. \A k \in DOMAIN LB' : \A i \in DOMAIN Lbs' :
             LB'[k] = Lbs'[i].table => k \in Keys(Lbs'[i])
      BY <1>1, <1>4, <2>2, <2>5, <2>6 DEF KeyInv
    <3>5. \A k \in DOMAIN LB' : LB'[k] \in broken' \/ \E i \in DOMAIN Lbs' : LB'[k] = Lbs'[i].table
      BY <1>4, <1>5, <2>2, <2>5, <2>6 DEF KeyInv, t
    <3> QED
      BY <3>2, <3>3, <3>4, <3>5 DEF KeyInv
  <2> QED
    BY <2>7, <2>9, <2>10, <2>11 DEF MapInv, TaskInv
<1>8. CASE n # 1
  <2>1. /\ ~Free' /\ task'.ops # << >> /\ Len(task'.ops) = n - 1
        /\ task'.table = t
        /\ \A i \in 1..(n - 1) : task'.ops[i] = task.ops[i + 1]
        /\ task' \in [ops : Seq(OpSet), table : Tables', before : [Services -> SUBSET Backends]]
    BY <1>4, <1>5, <1>8, TaskAdvances DEF n, t
  <2>2. Tables' = Tables
    BY <1>5 DEF Tables
  <2> DEFINE Changed ==
        /\ TabInv' /\ Lbs' = Lbs /\ MG' = MG
        /\ \A k \in DOMAIN LB' : LB'[k] = t \/ (k \in DOMAIN LB /\ LB'[k] = LB[k])
        /\ \A k \in DOMAIN LB' : LB'[k] = t => k \in Keys(r)
        /\ \A k \in DOMAIN LB : k \in DOMAIN LB'
        /\ \A k \in DOMAIN LB : LB'[k] = LB[k] \/ (k \in Keys(r) /\ LB'[k] = t)
        /\ \A k \in Keys(r) : task.ops[1] = Put("lb", k, t) => k \in DOMAIN LB' /\ LB'[k] = t
  <2>3. ASSUME NEW key \in Keys(r), task.ops[1] = Put("lb", key, t) PROVE Changed
    <3>1. tab' = [tab EXCEPT !["lb"] = Upsert(LB, key, t)]
      BY <1>6, <2>3 DEF Put, LB
    <3>2. /\ tab' = [x \in Tabs |-> tab'[x]] /\ LB' = Upsert(LB, key, t)
          /\ Lbs' = Lbs /\ UL' = UL /\ MG' = MG
      BY <1>4, <3>1, TabChange DEF Tabs
    <3>3. /\ DOMAIN LB' = DOMAIN LB \cup {key} /\ LB'[key] = t
          /\ \A k \in DOMAIN LB : k # key => LB'[k] = LB[k]
      BY <3>2 DEF Upsert
    <3>4. TabInv'
      BY <1>2, <1>3, <1>4, <1>5, <2>2, <3>2, <3>3 DEF TabInv
    <3>5. \A k : task.ops[1] = Put("lb", k, t) => k = key
      BY <2>3 DEF Put
    <3> QED
      BY <1>1, <3>2, <3>3, <3>4, <3>5
  <2>4. ASSUME task.ops[1] = Put("underlay", UnderlayOf(r), mark) PROVE Changed
    <3>1. tab' = [tab EXCEPT !["underlay"] = Upsert(UL, UnderlayOf(r), mark)]
      BY <1>6, <2>4 DEF Put, UL
    <3>2. /\ tab' = [x \in Tabs |-> tab'[x]] /\ UL' = Upsert(UL, UnderlayOf(r), mark)
          /\ Lbs' = Lbs /\ LB' = LB /\ MG' = MG
      BY <1>4, <3>1, TabChange DEF Tabs
    <3>3. UnderlayOf(r) \in Underlays /\ mark \in Places
      BY DEF Underlays, Places, Marks, mark
    <3>4. /\ DOMAIN UL' = DOMAIN UL \cup {UnderlayOf(r)} /\ UL'[UnderlayOf(r)] = mark
          /\ \A k \in DOMAIN UL : k # UnderlayOf(r) => UL'[k] = UL[k]
      BY <3>2 DEF Upsert
    <3>5. TabInv'
      BY <1>4, <1>5, <2>2, <3>2, <3>3, <3>4 DEF TabInv
    <3>6. \A k : task.ops[1] # Put("lb", k, t)
      BY <2>4 DEF Put
    <3> QED
      BY <1>1, <3>2, <3>5, <3>6
  <2>5. Changed
    <3>1. 1 \in 1..(n - 1)
      BY <1>2, <1>8
    <3> QED
      BY <1>1, <2>3, <2>4, <3>1
  <2>6. SlotInv'
    BY <1>4, <1>5, <2>1, <2>5, SlotSame DEF t
  <2>7. KeyInv'
    <3>1. \A i \in DOMAIN Lbs : \A k \in Keys(Lbs[i]) \ clashed :
             k \in DOMAIN LB' /\ LB'[k] = Lbs[i].table
      BY <1>1, <1>4, <2>5 DEF KeyInv
    <3>2. \A k \in DOMAIN LB' : \A i \in DOMAIN Lbs : LB'[k] = Lbs[i].table => k \in Keys(Lbs[i])
      BY <1>1, <1>4, <2>5 DEF KeyInv
    <3>3. \A k \in DOMAIN LB' : \/ LB'[k] \in broken
                                \/ \E i \in DOMAIN Lbs : LB'[k] = Lbs[i].table
                                \/ LB'[k] = t
      BY <1>4, <2>5 DEF KeyInv, t
    <3> QED
      BY <1>4, <1>5, <2>1, <2>5, <3>1, <3>2, <3>3 DEF KeyInv
  <2>8. Creating(r)'
    <3>1. /\ n - 1 \in 1..(n - 1) /\ (n - 1) + 1 = n
          /\ \A i \in 1..(n - 1 - 1) : i \in 1..(n - 1) /\ i + 1 \in 1..(n - 1)
      BY <1>2, <1>8
    <3>2. task'.ops[n - 1] = Put("lbs", r.id, Entry(r, t))
      BY <1>1, <2>1, <3>1
    <3>3. \A i \in 1..(n - 1 - 1) :
            \/ \E k \in Keys(r) : task'.ops[i] = Put("lb", k, t)
            \/ task'.ops[i] = Put("underlay", UnderlayOf(r), mark)
      BY <1>1, <2>1, <3>1
    <3>4. \A k \in Keys(r) : \/ k \in DOMAIN LB' /\ LB'[k] = t
                             \/ \E i \in 1..(n - 1 - 1) : task'.ops[i] = Put("lb", k, t)
      <4> TAKE k \in Keys(r)
      <4>1. CASE k \in DOMAIN LB /\ LB[k] = t
        BY <2>5, <4>1
      <4>2. ASSUME NEW i \in 1..(n - 1), task.ops[i] = Put("lb", k, t), i # 1
            PROVE  \E j \in 1..(n - 1 - 1) : task'.ops[j] = Put("lb", k, t)
        <5>1. i - 1 \in 1..(n - 1 - 1) /\ i - 1 \in 1..(n - 1) /\ (i - 1) + 1 = i
          BY <1>2, <4>2
        <5> QED
          BY <2>1, <4>2, <5>1
      <4> QED
        BY <1>1, <2>5, <4>1, <4>2
    <3>5. /\ r.id \notin DOMAIN Lbs' /\ Accepted(r)
          /\ \A id \in DOMAIN Lbs' : Lbs'[id].table # task'.table
          /\ \A k \in DOMAIN MG' : k[1] # task'.table
          /\ \A k \in DOMAIN LB' : LB'[k] = task'.table => k \in Keys(r)
          /\ \A id \in DOMAIN Lbs' : Keys(r) \cap Keys(Lbs'[id]) \subseteq clashed'
      BY <1>1, <1>5, <2>1, <2>5
    <3> HIDE DEF Changed
    <3> QED
      BY <2>1, <3>2, <3>3, <3>4, <3>5, Zenon DEF Creating, mark
  <2>9. TaskInv'
    BY <2>1, <2>8 DEF TaskInv
  <2> QED
    BY <2>5, <2>6, <2>7, <2>9 DEF MapInv
<1> QED
  BY <1>7, <1>8

\* The first operation tells which task it is.
LEMMA HeadOps ==
    ASSUME MapInv, ~Free
    PROVE  /\ Head(task.ops).op = "put" => ~Removing
           /\ Head(task.ops).op = "del" =>
                (\A r : ~Creating(r)) /\ (\A id : ~Rewriting(id))
<1>1. Len(task.ops) \in Nat /\ Len(task.ops) > 0 /\ Head(task.ops) = task.ops[1]
  BY TaskFacts DEF MapInv
<1>2. 1 \in 1..Len(task.ops)
  BY <1>1
<1>3. ASSUME Removing PROVE task.ops[1].op = "del"
  <2>1. \/ \E s \in Slots : task.ops[1] = Del("maglev", <<task.table, s>>)
        \/ \E k \in LbKeys : task.ops[1] = Del("lb", k)
    BY <1>2, <1>3 DEF Removing
  <2>2. CASE \E s \in Slots : task.ops[1] = Del("maglev", <<task.table, s>>)
    BY <2>2 DEF Del
  <2>3. CASE \E k \in LbKeys : task.ops[1] = Del("lb", k)
    BY <2>3 DEF Del
  <2> QED
    BY <2>1, <2>2, <2>3
<1>4. ASSUME NEW r, Creating(r) PROVE task.ops[1].op = "put"
  <2>1. \/ task.ops[1] = Put("lbs", r.id, Entry(r, task.table))
        \/ \E k \in Keys(r) : task.ops[1] = Put("lb", k, task.table)
        \/ task.ops[1] = Put("underlay", UnderlayOf(r), [vni |-> r.vni, tap |-> 0])
    <3>1. /\ task.ops[Len(task.ops)] = Put("lbs", r.id, Entry(r, task.table))
          /\ \A i \in 1..(Len(task.ops) - 1) :
                \/ \E k \in Keys(r) : task.ops[i] = Put("lb", k, task.table)
                \/ task.ops[i] = Put("underlay", UnderlayOf(r), [vni |-> r.vni, tap |-> 0])
      BY <1>4 DEF Creating
    <3> DEFINE n == Len(task.ops)
    <3>2. n \in Nat /\ n > 0
      BY <1>1
    <3> HIDE DEF n
    <3>3. n = 1 \/ 1 \in 1..(n - 1)
      BY <3>2
    <3> QED
      BY <3>1, <3>3 DEF n
  <2>2. CASE task.ops[1] = Put("lbs", r.id, Entry(r, task.table))
    BY <2>2 DEF Put
  <2>3. CASE \E k \in Keys(r) : task.ops[1] = Put("lb", k, task.table)
    BY <2>3 DEF Put
  <2>4. CASE task.ops[1] = Put("underlay", UnderlayOf(r), [vni |-> r.vni, tap |-> 0])
    BY <2>4 DEF Put
  <2> QED
    BY <2>1, <2>2, <2>3, <2>4
<1>5. ASSUME NEW id, Rewriting(id) PROVE task.ops[1].op = "put"
  <2> DEFINE k == <<task.table, M - Len(task.ops) + 1 - 1>>
             v == Build(Lbs[id].backends)[M - Len(task.ops) + 1 - 1]
  <2>1. task.ops[1] = Put("maglev", k, v)
    BY <1>2, <1>5, Zenon DEF Rewriting
  <2> HIDE DEF k, v
  <2> QED
    BY <2>1 DEF Put
<1> QED
  BY <1>1, <1>3, <1>4, <1>5

\* A write other than a removal.
LEMMA WritePutKeeps ==
    ASSUME MapInv, WritePut
    PROVE  MapInv'
<1>1. ~Free /\ Head(task.ops).op = "put"
  BY DEF WritePut
<1> QED
  BY <1>1, HeadOps, RewritingPut, CreatingPut DEF MapInv, TaskInv

\* An insert into a full map ends the operation: the slots written so far
\* are those of the new list, for the missing one was not there before.
LEMMA WriteFailsKeeps ==
    ASSUME MapInv, WriteFails
    PROVE  MapInv'
<1> DEFINE t == task.table
           n == Len(task.ops)
<1>1. ~Free /\ Head(task.ops).op = "put"
  BY DEF WriteFails
<1>2. n \in Nat /\ n > 0 /\ Head(task.ops) = task.ops[1] /\ t \in Tables
  BY <1>1, TaskFacts DEF MapInv
<1>3. TaskInv /\ TabInv /\ SlotInv /\ KeyInv
  BY DEF MapInv
<1>4. /\ task' = FreeTask /\ broken' = broken \cup {t} /\ UNCHANGED <<tab, nextTable, clashed>>
      /\ ~Room(task.ops[1].tab, task.ops[1].key)
  BY <1>2 DEF WriteFails
<1>5. Free' /\ Lbs' = Lbs /\ LB' = LB /\ MG' = MG /\ UL' = UL /\ Tables' = Tables
  BY <1>4 DEF Free, Lbs, LB, MG, UL, Tables
<1>6. TabInv'
  BY <1>3, <1>4, <1>5 DEF TabInv
<1>7. TaskInv'
  BY <1>5 DEF TaskInv
<1>8. KeyInv'
  BY <1>3, <1>4, <1>5 DEF KeyInv
<1>9. \A f : TableExact(MG, broken, f) => TableExact(MG', broken', f)
  BY <1>4, <1>5, OtherTable
<1>10. ASSUME NEW r \in Requests, Creating(r) PROVE SlotInv'
  <2>1. (\A id \in DOMAIN Lbs : Lbs[id].table # t) /\ (\A k \in DOMAIN MG : k[1] # t)
    BY <1>10 DEF Creating
  <2>2. \A i \in DOMAIN Lbs : TableExact(MG', broken', Lbs[i])
    BY <1>3, <1>9, <2>1 DEF SlotInv
  <2> QED
    BY <1>3, <1>5, <2>1, <2>2 DEF SlotInv
<1>11. ASSUME NEW id \in DOMAIN Lbs, Rewriting(id) PROVE SlotInv'
  <2> DEFINE e == Lbs[id]
             built == Build(e.backends)
             z == M - n
  <2>1. /\ e.table = t /\ e.backends # << >> /\ n <= M
        /\ \A i \in 1..n : task.ops[i] = Put("maglev", <<t, M - n + i - 1>>, built[M - n + i - 1])
        /\ \E h \in (M - n)..M : FilledTo(MG, t, h)
        /\ \A s \in 0..(M - n - 1) : MG[<<t, s>>] = built[s]
    BY <1>11 DEF Rewriting
  <2> HIDE DEF n, t, e, built
  <2>2. M \in Nat /\ z \in Slots /\ z \in 0..M
    BY <1>2, <2>1, LbAssumption DEF Slots
  <2>3. task.ops[1].tab = "maglev" /\ task.ops[1].key = <<t, z>>
    <3>1. 1 \in 1..n /\ M - n + 1 - 1 = z
      BY <1>2, <2>2
    <3>2. task.ops[1] = Put("maglev", <<t, z>>, built[z])
      BY <2>1, <3>1
    <3> QED
      BY <3>2 DEF Put
  <2>4. <<t, z>> \notin DOMAIN MG
    BY <1>4, <2>3 DEF Room, MG
  <2>5. FilledTo(MG, t, z)
    BY <2>1, <2>2, <2>4 DEF FilledTo, Slots
  <2>6. \A s \in Slots : s < z => MG[<<t, s>>] = built[s]
    <3> TAKE s \in Slots
    <3>1. s < z => s \in 0..(M - n - 1)
      BY <1>2, <2>2 DEF Slots
    <3> QED
      BY <2>1, <3>1
  <2> HIDE DEF z
  <2>7. TableExact(MG', broken', e)
    BY <1>4, <1>5, <2>1, <2>2, <2>5, <2>6 DEF TableExact, built
  <2>8. \A i \in DOMAIN Lbs : TableExact(MG', broken', Lbs[i])
    <3> TAKE i \in DOMAIN Lbs
    <3>1. CASE i = id
      BY <2>7, <3>1 DEF e
    <3>2. CASE i # id
      <4>1. Lbs[i].table # t
        BY <1>3, <2>1, <3>2 DEF TabInv, e
      <4> QED
        BY <1>3, <1>9, <4>1 DEF SlotInv, t
    <3> QED
      BY <3>1, <3>2
  <2>9. \A k \in DOMAIN MG : \E i \in DOMAIN Lbs : Lbs[i].table = k[1]
    BY <1>3, <2>1 DEF SlotInv, e, t
  <2> QED
    BY <1>5, <2>8, <2>9 DEF SlotInv
<1>12. SlotInv'
  BY <1>1, <1>3, <1>10, <1>11, HeadOps DEF TaskInv
<1> QED
  BY <1>6, <1>7, <1>8, <1>12 DEF MapInv

\* del_lb_target or delete_lb removes a slot or a key.
LEMMA WriteDelKeeps ==
    ASSUME MapInv, WriteDel
    PROVE  MapInv'
<1> DEFINE t == task.table
           n == Len(task.ops)
<1>1. ~Free /\ Head(task.ops).op = "del"
  BY DEF WriteDel
<1>2. n \in Nat /\ n > 0 /\ Head(task.ops) = task.ops[1] /\ t \in Tables
  BY <1>1, TaskFacts DEF MapInv
<1>3. TaskInv /\ TabInv /\ SlotInv /\ KeyInv
  BY DEF MapInv
<1>4. Removing
  BY <1>1, <1>3, HeadOps DEF TaskInv
<1>5. /\ \A id \in DOMAIN Lbs : Lbs[id].table = t => Lbs[id].backends = << >>
      /\ \A i \in 1..n :
            \/ \E s \in Slots : task.ops[i] = Del("maglev", <<t, s>>)
            \/ \E k \in LbKeys :
                  /\ task.ops[i] = Del("lb", k)
                  /\ \A id \in DOMAIN Lbs : k \in Keys(Lbs[id]) => k \in clashed
      /\ \A s \in Slots : <<t, s>> \in DOMAIN MG =>
            \E i \in 1..n : task.ops[i] = Del("maglev", <<t, s>>)
      /\ \A k \in DOMAIN LB : LB[k] = t =>
            \/ \E id \in DOMAIN Lbs : Lbs[id].table = t
            \/ \E i \in 1..n : task.ops[i] = Del("lb", k)
  BY <1>4 DEF Removing
<1>6. Advance /\ UNCHANGED <<nextTable, clashed, broken>>
  BY DEF WriteDel, history
<1>7. tab' = [tab EXCEPT ![task.ops[1].tab] =
                 Restrict(tab[task.ops[1].tab], DOMAIN tab[task.ops[1].tab] \ {task.ops[1].key})]
  BY <1>2 DEF WriteDel
<1>8. Tables' = Tables
  BY <1>6 DEF Tables
<1> HIDE DEF n, t
<1> DEFINE Cut ==
      /\ TabInv' /\ Lbs' = Lbs
      /\ DOMAIN MG' \subseteq DOMAIN MG /\ DOMAIN LB' \subseteq DOMAIN LB
      /\ \A k \in DOMAIN MG : k \in DOMAIN MG' \/ (k[1] = t /\ task.ops[1] = Del("maglev", k))
      /\ \A k \in DOMAIN MG' : MG'[k] = MG[k] /\ task.ops[1] # Del("maglev", k)
      /\ \A k \in DOMAIN LB :
            \/ k \in DOMAIN LB'
            \/ \A id \in DOMAIN Lbs : k \in Keys(Lbs[id]) => k \in clashed
      /\ \A k \in DOMAIN LB' : LB'[k] = LB[k] /\ task.ops[1] # Del("lb", k)
<1>9. ASSUME NEW s \in Slots, task.ops[1] = Del("maglev", <<t, s>>) PROVE Cut
  <2>1. task.ops[1].tab = "maglev" /\ task.ops[1].key = <<t, s>>
    BY <1>9 DEF Del
  <2>2. tab' = [tab EXCEPT !["maglev"] = Restrict(MG, DOMAIN MG \ {<<t, s>>})]
    BY <1>7, <2>1 DEF MG
  <2>3. /\ tab' = [x \in Tabs |-> tab'[x]] /\ Lbs' = Lbs /\ LB' = LB /\ UL' = UL
        /\ MG' = Restrict(MG, DOMAIN MG \ {<<t, s>>})
    BY <1>3, <2>2, TabChange DEF Tabs
  <2>4. DOMAIN MG' = DOMAIN MG \ {<<t, s>>} /\ \A k \in DOMAIN MG' : MG'[k] = MG[k]
    BY <2>3 DEF Restrict
  <2>5. \A k : task.ops[1] = Del("maglev", k) <=> k = <<t, s>>
    BY <1>9 DEF Del
  <2>6. \A k : task.ops[1] # Del("lb", k)
    BY <1>9 DEF Del
  <2>7. TabInv'
    BY <1>3, <1>6, <1>8, <2>3, <2>4 DEF TabInv
  <2> QED
    BY <2>3, <2>4, <2>5, <2>6, <2>7
<1>10. ASSUME NEW key \in LbKeys, task.ops[1] = Del("lb", key),
              \A id \in DOMAIN Lbs : key \in Keys(Lbs[id]) => key \in clashed
       PROVE  Cut
  <2>1. task.ops[1].tab = "lb" /\ task.ops[1].key = key
    BY <1>10 DEF Del
  <2>2. tab' = [tab EXCEPT !["lb"] = Restrict(LB, DOMAIN LB \ {key})]
    BY <1>7, <2>1 DEF LB
  <2>3. /\ tab' = [x \in Tabs |-> tab'[x]] /\ Lbs' = Lbs /\ MG' = MG /\ UL' = UL
        /\ LB' = Restrict(LB, DOMAIN LB \ {key})
    BY <1>3, <2>2, TabChange DEF Tabs
  <2>4. DOMAIN LB' = DOMAIN LB \ {key} /\ \A k \in DOMAIN LB' : LB'[k] = LB[k]
    BY <2>3 DEF Restrict
  <2>5. \A k : task.ops[1] = Del("lb", k) <=> k = key
    BY <1>10 DEF Del
  <2>6. \A k : task.ops[1] # Del("maglev", k)
    BY <1>10 DEF Del
  <2>7. TabInv'
    BY <1>3, <1>6, <1>8, <2>3, <2>4 DEF TabInv
  <2> QED
    BY <1>10, <2>3, <2>4, <2>5, <2>6, <2>7
<1>11. 1 \in 1..n
  BY <1>2
<1>12. Cut
  <2> HIDE DEF Cut
  <2> QED
    BY <1>5, <1>9, <1>10, <1>11
<1>13. \A i \in DOMAIN Lbs : Lbs[i].table # t => TableExact(MG', broken', Lbs[i])
  <2> TAKE i \in DOMAIN Lbs
  <2> SUFFICES ASSUME Lbs[i].table # t PROVE TableExact(MG', broken', Lbs[i])
    OBVIOUS
  <2>1. TableExact(MG, broken, Lbs[i])
    BY <1>3 DEF SlotInv, t
  <2>2. \A s \in Slots :
           /\ <<Lbs[i].table, s>> \in DOMAIN MG' <=> <<Lbs[i].table, s>> \in DOMAIN MG
           /\ <<Lbs[i].table, s>> \in DOMAIN MG =>
                 MG'[<<Lbs[i].table, s>>] = MG[<<Lbs[i].table, s>>]
    BY <1>12
  <2> QED
    BY <1>6, <2>1, <2>2, OtherTable
<1>14. /\ \A i \in DOMAIN Lbs : \A k \in Keys(Lbs[i]) \ clashed :
             k \in DOMAIN LB' /\ LB'[k] = Lbs[i].table
       /\ \A k \in DOMAIN LB' : \A i \in DOMAIN Lbs : LB'[k] = Lbs[i].table => k \in Keys(Lbs[i])
  BY <1>3, <1>12 DEF KeyInv
<1>15. CASE n = 1
  <2>1. Free'
    BY <1>3, <1>1, <1>6, <1>15, TaskAdvances DEF n
  <2>2. \A s \in Slots : <<t, s>> \notin DOMAIN MG'
    BY <1>5, <1>12, <1>15
  <2>3. \A i \in DOMAIN Lbs : TableExact(MG', broken', Lbs[i])
    <3> TAKE i \in DOMAIN Lbs
    <3>1. CASE Lbs[i].table = t
      <4>1. FilledTo(MG', Lbs[i].table, 0)
        BY <2>2, <3>1, LbAssumption DEF FilledTo, Slots
      <4> QED
        BY <1>5, <3>1, <4>1 DEF TableExact
    <3>2. CASE Lbs[i].table # t
      BY <1>13, <3>2
    <3> QED
      BY <3>1, <3>2
  <2>4. \A k \in DOMAIN MG' : \E i \in DOMAIN Lbs : Lbs[i].table = k[1]
    <3> TAKE k \in DOMAIN MG'
    <3>1. k \in Tables \X Slots /\ k \in DOMAIN MG
      BY <1>3, <1>12 DEF TabInv
    <3>2. k[1] # t
      BY <2>2, <3>1
    <3> QED
      BY <1>3, <3>1, <3>2 DEF SlotInv, t
  <2>5. \A k \in DOMAIN LB' : LB'[k] \in broken \/ \E i \in DOMAIN Lbs : LB'[k] = Lbs[i].table
    <3> TAKE k \in DOMAIN LB'
    <3>1. k \in DOMAIN LB /\ LB'[k] = LB[k] /\ task.ops[1] # Del("lb", k)
      BY <1>12
    <3>2. LB[k] = t => \E i \in DOMAIN Lbs : Lbs[i].table = t
      BY <1>5, <1>15, <3>1
    <3> QED
      BY <1>3, <3>1, <3>2 DEF KeyInv, t
  <2>6. SlotInv'
    BY <1>12, <2>3, <2>4 DEF SlotInv
  <2>7. KeyInv'
    BY <1>3, <1>6, <1>12, <1>14, <2>5 DEF KeyInv
  <2> QED
    BY <1>12, <2>1, <2>6, <2>7 DEF MapInv, TaskInv
<1>16. CASE n # 1
  <2>1. /\ ~Free' /\ task'.ops # << >> /\ Len(task'.ops) = n - 1
        /\ task'.table = t
        /\ \A i \in 1..(n - 1) : task'.ops[i] = task.ops[i + 1]
        /\ task' \in [ops : Seq(OpSet), table : Tables', before : [Services -> SUBSET Backends]]
    BY <1>1, <1>3, <1>6, <1>16, TaskAdvances DEF n, t
  <2>2. \A i \in 1..n : i # 1 => \E j \in 1..(n - 1) : task'.ops[j] = task.ops[i]
    <3> TAKE i \in 1..n
    <3> SUFFICES ASSUME i # 1 PROVE \E j \in 1..(n - 1) : task'.ops[j] = task.ops[i]
      OBVIOUS
    <3>1. i - 1 \in 1..(n - 1) /\ (i - 1) + 1 = i
      BY <1>2
    <3> QED
      BY <2>1, <3>1
  <2>3. \A j \in 1..(n - 1) : \E i \in 1..n : task'.ops[j] = task.ops[i]
    <3> TAKE j \in 1..(n - 1)
    <3>1. j + 1 \in 1..n
      BY <1>2
    <3> QED
      BY <2>1, <3>1
  <2>4. SlotInv'
    BY <1>3, <1>12, <1>13, <2>1 DEF SlotInv, t
  <2>5. KeyInv'
    BY <1>3, <1>6, <1>12, <1>14, <2>1 DEF KeyInv, t
  <2>6. Removing'
    <3>1. \A i \in 1..(n - 1) :
            \/ \E s \in Slots : task'.ops[i] = Del("maglev", <<t, s>>)
            \/ \E k \in LbKeys :
                  /\ task'.ops[i] = Del("lb", k)
                  /\ \A id \in DOMAIN Lbs' : k \in Keys(Lbs'[id]) => k \in clashed'
      BY <1>5, <1>6, <1>12, <2>3
    <3>2. \A s \in Slots : <<t, s>> \in DOMAIN MG' =>
            \E i \in 1..(n - 1) : task'.ops[i] = Del("maglev", <<t, s>>)
      BY <1>5, <1>12, <2>2
    <3>3. \A k \in DOMAIN LB' : LB'[k] = t =>
            \/ \E id \in DOMAIN Lbs' : Lbs'[id].table = t
            \/ \E i \in 1..(n - 1) : task'.ops[i] = Del("lb", k)
      BY <1>5, <1>12, <2>2
    <3>4. \A id \in DOMAIN Lbs' : Lbs'[id].table = t => Lbs'[id].backends = << >>
      BY <1>5, <1>12
    <3> HIDE DEF Cut
    <3> QED
      BY <2>1, <3>1, <3>2, <3>3, <3>4, Zenon DEF Removing
  <2>7. TaskInv'
    BY <2>1, <2>6 DEF TaskInv
  <2> QED
    BY <1>12, <2>4, <2>5, <2>7 DEF MapInv
<1> QED
  BY <1>15, <1>16

\* A function on 1..n is a sequence.
LEMMA IsSeq ==
    ASSUME NEW S, NEW n \in Nat, NEW f \in [1..n -> S]
    PROVE  f \in Seq(S) /\ Len(f) = n
  OBVIOUS

\* The writes there are.
LEMMA OpSetFacts ==
    /\ \A k \in LbKeys, t \in Nat : Put("lb", k, t) \in OpSet
    /\ \A r \in Requests, t \in Nat :
          /\ Put("underlay", UnderlayOf(r), [vni |-> r.vni, tap |-> 0]) \in OpSet
          /\ Put("lbs", r.id, Entry(r, t)) \in OpSet
    /\ \A t \in Nat, s \in Slots :
          /\ \A b \in Backends : Put("maglev", <<t, s>>, b) \in OpSet
          /\ Del("maglev", <<t, s>>) \in OpSet
    /\ \A k \in LbKeys : Del("lb", k) \in OpSet
<1>1. /\ \A x \in Tabs, k \in OpKeys, v \in OpValues : Put(x, k, v) \in OpSet
      /\ \A x \in Tabs, k \in OpKeys : Del(x, k) \in OpSet
  BY DEF OpSet, Put, Del
<1>2. LbKeys \subseteq OpKeys /\ \A t \in Nat, s \in Slots : <<t, s>> \in OpKeys
  BY DEF OpKeys
<1>3. \A r \in Requests : UnderlayOf(r) \in OpKeys /\ r.id \in OpKeys
  BY DEF OpKeys, Underlays, Ids
<1>4. \A r \in Requests : [vni |-> r.vni, tap |-> 0] \in OpValues
  BY DEF OpValues, Marks
<1>5. Nat \subseteq OpValues /\ Backends \subseteq OpValues
  BY DEF OpValues
<1>6. ASSUME NEW r \in Requests, NEW t \in Nat PROVE Entry(r, t) \in OpValues
  <2> DEFINE x == <<r, t>>
  <2>1. x \in Requests \X Nat /\ x[1] = r /\ x[2] = t
    OBVIOUS
  <2> HIDE DEF x
  <2>2. Entry(x[1], x[2]) \in NewEntries
    BY <2>1, Zenon DEF NewEntries
  <2> QED
    BY <2>1, <2>2 DEF OpValues
<1>7. "lb" \in Tabs /\ "lbs" \in Tabs /\ "maglev" \in Tabs /\ "underlay" \in Tabs
  BY DEF Tabs
<1> QED
  BY <1>1, <1>2, <1>3, <1>4, <1>5, <1>6, <1>7

\* The writes of create_lb: the keys, then the mark, then the entry.
LEMMA CreateOps ==
    ASSUME NEW r \in Requests, Accepted(r), NEW t \in Nat
    PROVE  LET ops == KeyWrites(r, t)
                        \o << Put("underlay", UnderlayOf(r), [vni |-> r.vni, tap |-> 0]),
                              Put("lbs", r.id, Entry(r, t)) >>
               n == Len(ops)
           IN  /\ ops \in Seq(OpSet) /\ n \in Nat /\ n > 1
               /\ ops[n] = Put("lbs", r.id, Entry(r, t))
               /\ \A i \in 1..(n - 1) :
                     \/ \E k \in Keys(r) : ops[i] = Put("lb", k, t)
                     \/ ops[i] = Put("underlay", UnderlayOf(r), [vni |-> r.vni, tap |-> 0])
               /\ \A k \in Keys(r) : \E i \in 1..(n - 1) : ops[i] = Put("lb", k, t)
<1> DEFINE u == Put("underlay", UnderlayOf(r), [vni |-> r.vni, tap |-> 0])
           l == Put("lbs", r.id, Entry(r, t))
           kw == KeyWrites(r, t)
           key(i) == Key(r.vni, Last4(r.ip), r.ports[i][1], r.ports[i][2])
           m == Len(r.ports)
           ops == kw \o <<u, l>>
<1>1. m \in Nat /\ DOMAIN r.ports = 1..m
  BY LbAssumption
<1>2. Keys(r) = {key(i) : i \in 1..m} /\ Keys(r) \subseteq LbKeys
  BY <1>1 DEF Keys, LbKeys
<1>3. \A k \in Keys(r) : Put("lb", k, t) \in OpSet
  BY <1>2, OpSetFacts
<1>4. u \in OpSet /\ l \in OpSet
  BY OpSetFacts
<1>5. kw = [i \in 1..m |-> Put("lb", key(i), t)]
  BY <1>1 DEF KeyWrites
<1> HIDE DEF u, l, kw, key, m
<1>6. \A i \in 1..m : kw[i] = Put("lb", key(i), t) /\ key(i) \in Keys(r)
  BY <1>2, <1>5
<1>7. kw \in [1..m -> OpSet]
  BY <1>3, <1>5, <1>6
<1>8. kw \in Seq(OpSet) /\ Len(kw) = m
  BY <1>1, <1>7, IsSeq
<1>9. <<u, l>> \in Seq(OpSet) /\ Len(<<u, l>>) = 2 /\ <<u, l>>[1] = u /\ <<u, l>>[2] = l
  BY <1>4
<1>10. /\ ops \in Seq(OpSet) /\ Len(ops) = m + 2
       /\ \A i \in 1..(m + 2) : ops[i] = IF i <= m THEN kw[i] ELSE <<u, l>>[i - m]
  BY <1>8, <1>9, ConcatProperties
<1> HIDE DEF ops
<1>11. /\ \A i \in 1..m : ops[i] = Put("lb", key(i), t)
       /\ ops[m + 1] = u /\ ops[m + 2] = l
  BY <1>1, <1>6, <1>9, <1>10
<1>12. \A i \in 1..(m + 2 - 1) : (\E k \in Keys(r) : ops[i] = Put("lb", k, t)) \/ ops[i] = u
  <2> TAKE i \in 1..(m + 2 - 1)
  <2>1. i \in 1..m \/ i = m + 1
    BY <1>1
  <2> QED
    BY <1>6, <1>11, <2>1
<1>13. \A k \in Keys(r) : \E i \in 1..(m + 2 - 1) : ops[i] = Put("lb", k, t)
  <2> TAKE k \in Keys(r)
  <2>1. PICK i \in 1..m : k = key(i)
    BY <1>2
  <2>2. i \in 1..(m + 2 - 1)
    BY <1>1
  <2> QED
    BY <1>11, <2>1, <2>2
<1> DEFINE n == Len(ops)
<1>14. n \in Nat /\ n > 1 /\ n = m + 2 /\ n - 1 = m + 2 - 1
  BY <1>1, <1>10
<1> HIDE DEF n
<1>15. ops[n] = l
  BY <1>11, <1>14, Zenon
<1>16. \A i \in 1..(n - 1) : (\E k \in Keys(r) : ops[i] = Put("lb", k, t)) \/ ops[i] = u
  BY <1>12, <1>14, Zenon
<1>17. \A k \in Keys(r) : \E i \in 1..(n - 1) : ops[i] = Put("lb", k, t)
  BY <1>13, <1>14, Zenon
<1> QED
  BY <1>10, <1>14, <1>15, <1>16, <1>17, Zenon DEF n, ops, kw, u, l

\* The writes of add_lb_target and del_lb_target.
LEMMA SlotOps ==
    ASSUME NEW t \in Nat, NEW bs \in Seq(Backends), IsInjective(bs), bs # << >>
    PROVE  /\ SlotWrites(t, bs) \in Seq(OpSet) /\ Len(SlotWrites(t, bs)) = M
           /\ \A i \in 1..M : SlotWrites(t, bs)[i] = Put("maglev", <<t, i - 1>>, Build(bs)[i - 1])
<1> DEFINE built == Build(bs)
           w == SlotWrites(t, bs)
<1>1. M \in Nat
  BY LbAssumption
<1>2. built \in [Slots -> Backends]
  <2>1. built \in [Slots -> Range(bs)] /\ Range(bs) \subseteq Backends
    BY MaglevTable DEF Range
  <2> HIDE DEF built
  <2> QED
    BY <2>1
<1>3. w = [i \in 1..M |-> Put("maglev", <<t, i - 1>>, built[i - 1])]
  BY DEF SlotWrites
<1> HIDE DEF built, w
<1>4. \A i \in 1..M : i - 1 \in Slots /\ built[i - 1] \in Backends
  BY <1>1, <1>2 DEF Slots
<1>5. \A i \in 1..M : Put("maglev", <<t, i - 1>>, built[i - 1]) \in OpSet
  BY <1>4, OpSetFacts
<1>6. w \in [1..M -> OpSet]
  BY <1>3, <1>5
<1>7. w \in Seq(OpSet) /\ Len(w) = M
  BY <1>1, <1>6, IsSeq
<1> QED
  BY <1>3, <1>7 DEF w, built

\* The removals of del_lb_target and delete_lb.
LEMMA RemovalOps ==
    ASSUME NEW t \in Nat
    PROVE  /\ SlotRemovals(t) \in Seq(OpSet) /\ Len(SlotRemovals(t)) = M
           /\ \A i \in 1..M : i - 1 \in Slots /\ SlotRemovals(t)[i] = Del("maglev", <<t, i - 1>>)
           /\ \A s \in Slots : s + 1 \in 1..M /\ SlotRemovals(t)[s + 1] = Del("maglev", <<t, s>>)
<1> DEFINE w == SlotRemovals(t)
<1>1. M \in Nat /\ \A i \in 1..M : i - 1 \in Slots
  BY LbAssumption DEF Slots
<1>2. \A s \in Slots : s + 1 \in 1..M /\ (s + 1) - 1 = s
  BY <1>1 DEF Slots
<1>3. w = [i \in 1..M |-> Del("maglev", <<t, i - 1>>)]
  BY DEF SlotRemovals
<1> HIDE DEF w
<1>4. \A i \in 1..M : Del("maglev", <<t, i - 1>>) \in OpSet
  BY <1>1, OpSetFacts
<1>5. w \in [1..M -> OpSet]
  BY <1>3, <1>4
<1>6. w \in Seq(OpSet) /\ Len(w) = M
  BY <1>1, <1>5, IsSeq
<1>7. \A s \in Slots : w[s + 1] = Del("maglev", <<t, s>>)
  BY <1>2, <1>3
<1> QED
  BY <1>1, <1>2, <1>3, <1>6, <1>7 DEF w

\* delete_lb removes the keys of the entry, then its slots.
DeletePlan(e, t, ops) ==
    /\ ops \in Seq(OpSet) /\ Len(ops) \in Nat /\ Len(ops) > 0
    /\ \A i \in 1..Len(ops) : \/ \E s \in Slots : ops[i] = Del("maglev", <<t, s>>)
                              \/ \E k \in Keys(e) : ops[i] = Del("lb", k)
    /\ \A s \in Slots : \E i \in 1..Len(ops) : ops[i] = Del("maglev", <<t, s>>)
    /\ \A k \in Keys(e) : \E i \in 1..Len(ops) : ops[i] = Del("lb", k)

\* The operations of delete_lb are such a list.
LEMMA DeleteOps ==
    ASSUME NEW e, \E id : EntryOK(id, e), NEW t \in Nat,
           NEW ops, ops = KeyRemovals(e) \o SlotRemovals(t)
    PROVE  DeletePlan(e, t, ops)
<1> DEFINE key(i) == Key(e.vni, Last4(e.ip), e.ports[i][1], e.ports[i][2])
           m == Len(e.ports)
           kr == KeyRemovals(e)
           sr == SlotRemovals(t)
<1>1. PICK id : EntryOK(id, e)
  OBVIOUS
<1>2. m \in Nat /\ DOMAIN e.ports = 1..m
  <2>1. PICK r \in Requests : e = EntryOf(r, e.table, e.backends)
    BY <1>1 DEF EntryOK
  <2>2. e.ports = r.ports
    <3>1. e = [vni |-> r.vni, ip |-> r.ip, ul |-> UnderlayOf(r), ports |-> r.ports,
               table |-> e.table, backends |-> e.backends]
      BY <2>1, EntryFields
    <3> QED
      BY <3>1
  <2>3. r.ports \in Seq(Nat \X (0..255))
    BY LbAssumption
  <2> QED
    BY <2>2, <2>3
<1>3. Keys(e) = {key(i) : i \in 1..m} /\ Keys(e) \subseteq LbKeys
  BY <1>2, <1>1, EntryKeys DEF Keys
<1>4. \A k \in Keys(e) : Del("lb", k) \in OpSet
  BY <1>3, OpSetFacts
<1>5. kr = [i \in 1..m |-> Del("lb", key(i))]
  BY <1>2 DEF KeyRemovals
<1>6. M \in Nat /\ M > 1
  BY LbAssumption
<1>7. /\ sr \in Seq(OpSet) /\ Len(sr) = M
      /\ \A i \in 1..M : i - 1 \in Slots /\ sr[i] = Del("maglev", <<t, i - 1>>)
      /\ \A s \in Slots : s + 1 \in 1..M /\ sr[s + 1] = Del("maglev", <<t, s>>)
  BY RemovalOps
<1> HIDE DEF kr, sr, key, m
<1>8. \A i \in 1..m : kr[i] = Del("lb", key(i)) /\ key(i) \in Keys(e)
  BY <1>3, <1>5
<1>9. kr \in [1..m -> OpSet]
  BY <1>4, <1>5, <1>8
<1>10. kr \in Seq(OpSet) /\ Len(kr) = m
  BY <1>2, <1>9, IsSeq
<1>11. /\ ops \in Seq(OpSet) /\ Len(ops) = m + M
       /\ \A i \in 1..(m + M) : ops[i] = IF i <= m THEN kr[i] ELSE sr[i - m]
  BY <1>7, <1>10, ConcatProperties DEF kr, sr
<1>12. m + M \in Nat /\ m + M > 0
  BY <1>2, <1>6
<1>13. \A i \in 1..(m + M) : \/ \E s \in Slots : ops[i] = Del("maglev", <<t, s>>)
                             \/ \E k \in Keys(e) : ops[i] = Del("lb", k)
  <2> TAKE i \in 1..(m + M)
  <2>1. CASE i <= m
    <3>1. i \in 1..m
      BY <1>2, <2>1
    <3> QED
      BY <1>8, <1>11, <2>1, <3>1
  <2>2. CASE ~(i <= m)
    <3>1. i - m \in 1..M
      BY <1>2, <1>6, <2>2
    <3> QED
      BY <1>7, <1>11, <2>2, <3>1
  <2> QED
    BY <2>1, <2>2
<1>14. \A s \in Slots : \E i \in 1..(m + M) : ops[i] = Del("maglev", <<t, s>>)
  <2> TAKE s \in Slots
  <2>1. s + 1 \in 1..M /\ sr[s + 1] = Del("maglev", <<t, s>>)
    BY <1>7
  <2>2. m + (s + 1) \in 1..(m + M) /\ ~(m + (s + 1) <= m) /\ (m + (s + 1)) - m = s + 1
    BY <1>2, <1>6, <2>1 DEF Slots
  <2>3. ops[m + (s + 1)] = sr[s + 1]
    BY <1>11, <2>2
  <2> QED
    BY <2>1, <2>2, <2>3
<1>15. \A k \in Keys(e) : \E i \in 1..(m + M) : ops[i] = Del("lb", k)
  <2> TAKE k \in Keys(e)
  <2>1. PICK i \in 1..m : k = key(i)
    BY <1>3
  <2>2. i \in 1..(m + M) /\ i <= m
    BY <1>2, <1>6
  <2> QED
    BY <1>8, <1>11, <2>1, <2>2
<1> QED
  BY <1>11, <1>12, <1>13, <1>14, <1>15, Zenon DEF DeletePlan

\* The pools of the services.
LEMMA PoolType ==
    ASSUME TabInv
    PROVE  Pool \in [Services -> SUBSET Backends]
<1>1. \A id \in DOMAIN Lbs : Range(Lbs[id].backends) \subseteq Backends
  BY DEF TabInv, EntryOK, Range
<1> QED
  BY <1>1 DEF Pool

\* The same for the pools after a step.
LEMMA PoolTypeNext ==
    ASSUME TabInv'
    PROVE  Pool' \in [Services -> SUBSET Backends]
<1>1. \A id \in DOMAIN Lbs' : Range(Lbs'[id].backends) \subseteq Backends
  BY DEF TabInv, EntryOK, Range
<1> QED
  BY <1>1 DEF Pool

\* What a started operation is.
LEMMA Started ==
    ASSUME NEW ops \in Seq(OpSet), ops # << >>, NEW t \in Tables', Perform(ops, t), TabInv
    PROVE  /\ ~Free' /\ task'.ops = ops /\ task'.table = t /\ task'.before = Pool
           /\ task' \in [ops : Seq(OpSet), table : Tables', before : [Services -> SUBSET Backends]]
<1> DEFINE n == [ops |-> ops, table |-> t, before |-> Pool]
<1>1. task' = n
  BY DEF Perform
<1>2. Pool \in [Services -> SUBSET Backends]
  BY PoolType
<1>3. /\ n.ops = ops /\ n.table = t /\ n.before = Pool
      /\ n \in [ops : Seq(OpSet), table : Tables', before : [Services -> SUBSET Backends]]
  BY <1>2
<1> HIDE DEF n
<1>4. n # FreeTask
  BY <1>3 DEF FreeTask
<1> QED
  BY <1>1, <1>3, <1>4 DEF Free

\* create_lb starts.
LEMMA CreateLbKeeps ==
    ASSUME MapInv, NEW r \in Requests, CreateLb(r)
    PROVE  MapInv'
<1> DEFINE t == nextTable
           ops == KeyWrites(r, t) \o << Put("underlay", UnderlayOf(r), [vni |-> r.vni, tap |-> 0]),
                                        Put("lbs", r.id, Entry(r, t)) >>
           n == Len(ops)
<1>1. /\ Free /\ Accepted(r) /\ r.id \notin DOMAIN Lbs /\ nextTable' = t + 1
      /\ Perform(ops, t) /\ clashed' = (clashed \cup Keys(r)) \cap LiveKeys
      /\ UNCHANGED <<tab, broken>>
  BY DEF CreateLb, Called
<1>2. TaskInv /\ TabInv /\ SlotInv /\ KeyInv
  BY DEF MapInv
<1>3. t \in Nat /\ t > 0 /\ Tables = 1..(t - 1) /\ Tables' = 1..t /\ t \in Tables'
      /\ Tables \subseteq Tables' /\ t \notin Tables
  <2>1. t \in Nat /\ t > 0
    BY <1>2 DEF TabInv
  <2>2. nextTable' - 1 = t
    BY <1>1, <2>1
  <2> QED
    BY <2>1, <2>2 DEF Tables
<1>4. Lbs' = Lbs /\ LB' = LB /\ MG' = MG /\ UL' = UL
  BY <1>1 DEF Lbs, LB, MG, UL
<1>5. /\ ops \in Seq(OpSet) /\ n \in Nat /\ n > 1
      /\ ops[n] = Put("lbs", r.id, Entry(r, t))
      /\ \A i \in 1..(n - 1) :
            \/ \E k \in Keys(r) : ops[i] = Put("lb", k, t)
            \/ ops[i] = Put("underlay", UnderlayOf(r), [vni |-> r.vni, tap |-> 0])
      /\ \A k \in Keys(r) : \E i \in 1..(n - 1) : ops[i] = Put("lb", k, t)
  BY <1>1, <1>3, CreateOps, Zenon
<1> HIDE DEF ops
<1>6. ops # << >>
  <2>1. n # 0 /\ Len(<< >>) = 0
    BY <1>5
  <2> QED
    BY <2>1, Zenon
<1>7. /\ ~Free' /\ task'.ops = ops /\ task'.table = t
      /\ task' \in [ops : Seq(OpSet), table : Tables', before : [Services -> SUBSET Backends]]
  BY <1>1, <1>2, <1>3, <1>5, <1>6, Started
<1> HIDE DEF n, t
<1>8. TabInv'
  <2>1. nextTable' \in Nat \ {0}
    BY <1>1, <1>3
  <2>2. /\ \A id \in DOMAIN Lbs' : EntryOK(id, Lbs'[id]) /\ Lbs'[id].table \in Tables'
        /\ \A i, j \in DOMAIN Lbs' : Lbs'[i].table = Lbs'[j].table => i = j
        /\ \A k \in DOMAIN LB' : k \in LbKeys /\ LB'[k] \in Tables'
    BY <1>2, <1>3, <1>4 DEF TabInv
  <2>3. \A k \in DOMAIN MG' : k \in Tables' \X Slots /\ MG'[k] \in Backends
    BY <1>2, <1>3, <1>4 DEF TabInv
  <2>4. tab' = [x \in Tabs |-> tab'[x]]
    BY <1>1, <1>2 DEF TabInv
  <2> QED
    BY <1>2, <1>4, <2>1, <2>2, <2>3, <2>4 DEF TabInv
<1>9. (\A id \in DOMAIN Lbs : Lbs[id].table # t) /\ (\A k \in DOMAIN MG : k[1] # t)
      /\ \A k \in DOMAIN LB : LB[k] # t
  BY <1>2, <1>3 DEF TabInv
<1>10. SlotInv'
  BY <1>1, <1>2, <1>4, <1>7 DEF SlotInv
<1>11. \A id \in DOMAIN Lbs : Keys(Lbs[id]) \subseteq LiveKeys
  BY DEF LiveKeys
<1>12. KeyInv'
  <2>1. \A id \in DOMAIN Lbs : \A k \in Keys(Lbs[id]) \ clashed' :
           k \in DOMAIN LB /\ LB[k] = Lbs[id].table
    BY <1>1, <1>2, <1>11 DEF KeyInv
  <2>2. \A i, j \in DOMAIN Lbs : i # j => Keys(Lbs[i]) \cap Keys(Lbs[j]) \subseteq clashed'
    BY <1>1, <1>2, <1>11 DEF KeyInv
  <2> QED
    BY <1>1, <1>2, <1>4, <1>7, <2>1, <2>2 DEF KeyInv
<1>13. Creating(r)'
  <2>1. \A id \in DOMAIN Lbs' : Keys(r) \cap Keys(Lbs'[id]) \subseteq clashed'
    BY <1>1, <1>4, <1>11
  <2>2. /\ r.id \notin DOMAIN Lbs' /\ Accepted(r)
        /\ \A id \in DOMAIN Lbs' : Lbs'[id].table # task'.table
        /\ \A k \in DOMAIN MG' : k[1] # task'.table
        /\ \A k \in DOMAIN LB' : LB'[k] = task'.table => k \in Keys(r)
    BY <1>1, <1>4, <1>7, <1>9
  <2> QED
    BY <1>5, <1>7, <2>1, <2>2, Zenon DEF Creating, n
<1>14. TaskInv'
  BY <1>6, <1>7, <1>13 DEF TaskInv
<1> QED
  BY <1>8, <1>10, <1>12, <1>14 DEF MapInv

\* The entry and the maps after add_lb_target or del_lb_target has changed
\* the list.
LEMMA RelistKeeps ==
    ASSUME MapInv, Free, NEW id \in DOMAIN Lbs, NEW bs \in Seq(Backends), IsInjective(bs),
           NEW ops \in Seq(OpSet), ops # << >>, Relist(id, bs, ops)
    PROVE  /\ TabInv' /\ SlotInv' /\ KeyInv'
           /\ ~Free' /\ task'.ops = ops /\ task'.table = Lbs[id].table
           /\ task' \in [ops : Seq(OpSet), table : Tables', before : [Services -> SUBSET Backends]]
           /\ DOMAIN Lbs' = DOMAIN Lbs /\ LB' = LB /\ MG' = MG /\ UL' = UL
           /\ Lbs'[id].backends = bs /\ Lbs'[id].table = Lbs[id].table
           /\ \A i \in DOMAIN Lbs : Keys(Lbs'[i]) = Keys(Lbs[i])
           /\ \A i \in DOMAIN Lbs : i # id => Lbs'[i] = Lbs[i]
<1> DEFINE e == Lbs[id]
           f == [e EXCEPT !.backends = bs]
<1>1. /\ tab' = [tab EXCEPT !["lbs"] = [Lbs EXCEPT ![id].backends = bs]]
      /\ Perform(ops, e.table) /\ UNCHANGED <<nextTable, clashed, broken>>
  BY DEF Relist, history
<1>2. TaskInv /\ TabInv /\ SlotInv /\ KeyInv
  BY DEF MapInv
<1>3. /\ tab' = [x \in Tabs |-> tab'[x]] /\ LB' = LB /\ MG' = MG /\ UL' = UL
      /\ Lbs' = [Lbs EXCEPT ![id].backends = bs]
  BY <1>1, <1>2, TabChange DEF Tabs
<1>4. EntryOK(id, e) /\ e.table \in Tables
  BY <1>2 DEF TabInv
<1>5. EntryOK(id, f) /\ f.table = e.table /\ f.backends = bs /\ Keys(f) = Keys(e)
  BY <1>4, RelistedEntry
<1>6. DOMAIN Lbs' = DOMAIN Lbs /\ Lbs'[id] = f /\ \A i \in DOMAIN Lbs : i # id => Lbs'[i] = Lbs[i]
  BY <1>3
<1> HIDE DEF f, e
<1>7. Tables' = Tables
  BY <1>1 DEF Tables
<1>8. /\ \A i \in DOMAIN Lbs : Keys(Lbs'[i]) = Keys(Lbs[i]) /\ Lbs'[i].table = Lbs[i].table
      /\ \A i \in DOMAIN Lbs : EntryOK(i, Lbs'[i])
  BY <1>2, <1>5, <1>6 DEF e, TabInv
<1>9. /\ ~Free' /\ task'.ops = ops /\ task'.table = e.table
      /\ task' \in [ops : Seq(OpSet), table : Tables', before : [Services -> SUBSET Backends]]
  BY <1>1, <1>2, <1>4, <1>7, Started
<1>10. TabInv'
  <2>1. \A i \in DOMAIN Lbs' : EntryOK(i, Lbs'[i]) /\ Lbs'[i].table \in Tables'
    BY <1>2, <1>6, <1>7, <1>8 DEF TabInv
  <2>2. \A i, j \in DOMAIN Lbs' : Lbs'[i].table = Lbs'[j].table => i = j
    BY <1>2, <1>6, <1>8 DEF TabInv
  <2> QED
    BY <1>1, <1>2, <1>3, <1>7, <2>1, <2>2 DEF TabInv
<1>11. SlotInv'
  <2>1. \A i \in DOMAIN Lbs' : Lbs'[i].table # task'.table => TableExact(MG', broken', Lbs'[i])
    BY <1>1, <1>2, <1>3, <1>5, <1>6, <1>9 DEF SlotInv, e
  <2>2. \A k \in DOMAIN MG' : \E i \in DOMAIN Lbs' : Lbs'[i].table = k[1]
    BY <1>2, <1>3, <1>6, <1>8 DEF SlotInv
  <2> QED
    BY <1>9, <2>1, <2>2 DEF SlotInv
<1>12. KeyInv'
  <2>1. \A i \in DOMAIN Lbs' : \A k \in Keys(Lbs'[i]) \ clashed' :
           k \in DOMAIN LB' /\ LB'[k] = Lbs'[i].table
    BY <1>1, <1>2, <1>3, <1>6, <1>8 DEF KeyInv
  <2>2. \A i, j \in DOMAIN Lbs' : i # j => Keys(Lbs'[i]) \cap Keys(Lbs'[j]) \subseteq clashed'
    BY <1>1, <1>2, <1>6, <1>8 DEF KeyInv
  <2>3. \A k \in DOMAIN LB' : \A i \in DOMAIN Lbs' : LB'[k] = Lbs'[i].table => k \in Keys(Lbs'[i])
    BY <1>2, <1>3, <1>6, <1>8 DEF KeyInv
  <2>4. \A k \in DOMAIN LB' : LB'[k] \in broken' \/ \E i \in DOMAIN Lbs' : LB'[k] = Lbs'[i].table
    BY <1>1, <1>2, <1>3, <1>6, <1>8 DEF KeyInv
  <2> QED
    BY <2>1, <2>2, <2>3, <2>4 DEF KeyInv
<1> QED
  BY <1>3, <1>5, <1>6, <1>8, <1>9, <1>10, <1>11, <1>12 DEF e

\* A table is filled up to some slot.
LEMMA ExactFilled ==
    ASSUME NEW mg, NEW failed, NEW e, TableExact(mg, failed, e)
    PROVE  \E h \in 0..M : FilledTo(mg, e.table, h)
<1>1. 0 \in 0..M
  BY LbAssumption
<1> QED
  BY <1>1, Zenon DEF TableExact

\* add_lb_target, and del_lb_target with a backend left, start.
LEMMA RewriteStarts ==
    ASSUME MapInv, Free, NEW id \in DOMAIN Lbs, NEW bs \in Seq(Backends), IsInjective(bs),
           bs # << >>, Relist(id, bs, SlotWrites(Lbs[id].table, bs))
    PROVE  MapInv'
<1> DEFINE t == Lbs[id].table
           ops == SlotWrites(t, bs)
           built == Build(bs)
<1>1. M \in Nat /\ M > 1
  BY LbAssumption
<1>2. t \in Nat /\ TabInv /\ SlotInv
  BY DEF MapInv, TabInv, Tables
<1>3. /\ ops \in Seq(OpSet) /\ Len(ops) = M
      /\ \A i \in 1..M : ops[i] = Put("maglev", <<t, i - 1>>, built[i - 1])
  BY <1>2, SlotOps
<1> HIDE DEF ops
<1>4. ops # << >>
  <2>1. Len(ops) # 0 /\ Len(<< >>) = 0
    BY <1>1, <1>3
  <2> QED
    BY <2>1, Zenon
<1>5. Relist(id, bs, ops)
  BY DEF ops
<1>6. /\ TabInv' /\ SlotInv' /\ KeyInv'
      /\ ~Free' /\ task'.ops = ops /\ task'.table = t
      /\ task' \in [ops : Seq(OpSet), table : Tables', before : [Services -> SUBSET Backends]]
      /\ DOMAIN Lbs' = DOMAIN Lbs /\ MG' = MG /\ Lbs'[id].backends = bs /\ Lbs'[id].table = t
  BY <1>3, <1>4, <1>5, RelistKeeps
<1>7. PICK h \in 0..M : FilledTo(MG, t, h)
  BY <1>2, ExactFilled DEF SlotInv
<1> HIDE DEF t, built
<1>8. Rewriting(id)'
  <2>1. M - M = 0 /\ M <= M
    BY <1>1
  <2>2. \A i \in 1..M : ops[i] = Put("maglev", <<t, M - M + i - 1>>, built[M - M + i - 1])
    BY <1>3, <2>1
  <2>3. \A s \in 0..(M - M - 1) : MG'[<<t, s>>] = built[s]
    BY <1>1
  <2>4. \E g \in (M - M)..M : FilledTo(MG', t, g)
    BY <1>6, <1>7, <2>1
  <2>5. Len(task'.ops) = M /\ Build(Lbs'[id].backends) = built
    BY <1>3, <1>6 DEF built
  <2> DEFINE n == Len(task'.ops)
  <2> HIDE DEF n
  <2>6. n = M
    BY <2>5 DEF n
  <2>7. \A i \in 1..n : task'.ops[i] = Put("maglev", <<t, M - n + i - 1>>, built[M - n + i - 1])
    BY <1>6, <2>2, <2>6, Zenon
  <2>8. \A s \in 0..(M - n - 1) : MG'[<<t, s>>] = built[s]
    BY <2>3, <2>6, Zenon
  <2>9. (\E g \in (M - n)..M : FilledTo(MG', t, g)) /\ n <= M
    BY <2>1, <2>4, <2>6, Zenon
  <2> QED
    BY <1>6, <2>5, <2>7, <2>8, <2>9 DEF Rewriting, n
<1> QED
  BY <1>4, <1>6, <1>8 DEF MapInv, TaskInv

\* del_lb_target of the last backend starts.
LEMMA ClearStarts ==
    ASSUME MapInv, Free, NEW id \in DOMAIN Lbs, Relist(id, << >>, SlotRemovals(Lbs[id].table))
    PROVE  MapInv'
<1> DEFINE t == Lbs[id].table
           ops == SlotRemovals(t)
           bs == << >>
<1>1. M \in Nat /\ M > 1
  BY LbAssumption
<1>2. t \in Nat /\ TabInv
  BY DEF MapInv, TabInv, Tables
<1>3. /\ ops \in Seq(OpSet) /\ Len(ops) = M
      /\ \A i \in 1..M : i - 1 \in Slots /\ ops[i] = Del("maglev", <<t, i - 1>>)
      /\ \A s \in Slots : s + 1 \in 1..M /\ ops[s + 1] = Del("maglev", <<t, s>>)
  BY <1>2, RemovalOps
<1>4. bs \in Seq(Backends) /\ IsInjective(bs) /\ bs = << >>
  BY DEF IsInjective
<1> HIDE DEF ops, bs
<1>5. ops # << >>
  <2>1. Len(ops) # 0 /\ Len(<< >>) = 0
    BY <1>1, <1>3
  <2> QED
    BY <2>1, Zenon
<1>6. Relist(id, bs, ops)
  BY <1>4 DEF ops
<1>7. /\ TabInv' /\ SlotInv' /\ KeyInv'
      /\ ~Free' /\ task'.ops = ops /\ task'.table = t
      /\ task' \in [ops : Seq(OpSet), table : Tables', before : [Services -> SUBSET Backends]]
      /\ DOMAIN Lbs' = DOMAIN Lbs /\ Lbs'[id].backends = bs /\ Lbs'[id].table = t
  BY <1>3, <1>4, <1>5, <1>6, RelistKeeps
<1> HIDE DEF t
<1>8. Removing'
  <2>1. \A i \in DOMAIN Lbs' : Lbs'[i].table = t => Lbs'[i].backends = << >>
    BY <1>4, <1>7 DEF TabInv
  <2>2. \A i \in 1..M : \E s \in Slots : ops[i] = Del("maglev", <<t, s>>)
    BY <1>3
  <2>3. \A s \in Slots : \E i \in 1..M : ops[i] = Del("maglev", <<t, s>>)
    BY <1>3
  <2>4. id \in DOMAIN Lbs' /\ Lbs'[id].table = t /\ Len(task'.ops) = M
    BY <1>3, <1>7
  <2> QED
    BY <1>7, <2>1, <2>2, <2>3, <2>4, Zenon DEF Removing
<1> QED
  BY <1>5, <1>7, <1>8 DEF MapInv, TaskInv

\* A backend is added or taken away.
LEMMA TargetKeeps ==
    ASSUME MapInv, NEW id, NEW b \in Backends, AddLbTarget(id, b) \/ DelLbTarget(id, b)
    PROVE  MapInv'
<1>1. Free /\ id \in DOMAIN Lbs
  BY DEF AddLbTarget, DelLbTarget, Called
<1>2. Lbs[id].backends \in Seq(Backends) /\ IsInjective(Lbs[id].backends)
  BY <1>1 DEF MapInv, TabInv, EntryOK
<1>3. CASE AddLbTarget(id, b)
  <2> DEFINE bs == Append(Lbs[id].backends, b)
  <2>1. b \notin Range(Lbs[id].backends) /\ Relist(id, bs, SlotWrites(Lbs[id].table, bs))
    BY <1>3 DEF AddLbTarget
  <2>2. bs \in Seq(Backends) /\ IsInjective(bs) /\ bs # << >>
    BY <1>2, <2>1, AppendFacts
  <2> HIDE DEF bs
  <2> QED
    BY <1>1, <2>1, <2>2, RewriteStarts
<1>4. CASE DelLbTarget(id, b)
  <2> DEFINE bs == Retain(Lbs[id].backends, b)
  <2>1. Relist(id, bs, IF bs = << >> THEN SlotRemovals(Lbs[id].table)
                                     ELSE SlotWrites(Lbs[id].table, bs))
    BY <1>4 DEF DelLbTarget
  <2>2. bs \in Seq(Backends) /\ IsInjective(bs)
    BY <1>2, RetainFacts
  <2> HIDE DEF bs
  <2>3. CASE bs = << >>
    <3>1. Relist(id, << >>, SlotRemovals(Lbs[id].table))
      BY <2>1, <2>3
    <3> QED
      BY <1>1, <3>1, ClearStarts
  <2>4. CASE bs # << >>
    <3>1. Relist(id, bs, SlotWrites(Lbs[id].table, bs))
      BY <2>1, <2>4
    <3> QED
      BY <1>1, <2>2, <2>4, <3>1, RewriteStarts
  <2> QED
    BY <2>3, <2>4
<1> QED
  BY <1>3, <1>4

\* delete_lb starts.
LEMMA DeleteLbKeeps ==
    ASSUME MapInv, NEW id, DeleteLb(id)
    PROVE  MapInv'
<1>20. PICK e : e = Lbs[id]
  OBVIOUS
<1>19. PICK t : t = e.table
  OBVIOUS
<1>1. PICK ops : ops = KeyRemovals(e) \o SlotRemovals(t)
  OBVIOUS
<1> DEFINE n == Len(ops)
<1>2. /\ Free /\ id \in DOMAIN Lbs /\ Perform(ops, t) /\ UNCHANGED <<nextTable, clashed, broken>>
      /\ tab' = [tab EXCEPT !["lbs"] = Restrict(Lbs, DOMAIN Lbs \ {id})]
  BY <1>1, <1>19, <1>20 DEF DeleteLb, Called, history
<1>3. TaskInv /\ TabInv /\ SlotInv /\ KeyInv
  BY DEF MapInv
<1>4. EntryOK(id, e) /\ t \in Tables /\ t \in Nat
  BY <1>2, <1>3, <1>19, <1>20 DEF TabInv, Tables
<1>5. /\ tab' = [x \in Tabs |-> tab'[x]] /\ LB' = LB /\ MG' = MG /\ UL' = UL
      /\ Lbs' = Restrict(Lbs, DOMAIN Lbs \ {id})
  BY <1>2, <1>3, TabChange DEF Tabs
<1>6. DOMAIN Lbs' = DOMAIN Lbs \ {id} /\ \A i \in DOMAIN Lbs' : Lbs'[i] = Lbs[i]
  BY <1>5 DEF Restrict
<1>7. Tables' = Tables
  BY <1>2 DEF Tables
<1>8. /\ ops \in Seq(OpSet) /\ n \in Nat /\ n > 0
      /\ \A i \in 1..n : \/ \E s \in Slots : ops[i] = Del("maglev", <<t, s>>)
                         \/ \E k \in Keys(e) : ops[i] = Del("lb", k)
      /\ \A s \in Slots : \E i \in 1..n : ops[i] = Del("maglev", <<t, s>>)
      /\ \A k \in Keys(e) : \E i \in 1..n : ops[i] = Del("lb", k)
  <2>1. (\E i : EntryOK(i, e)) /\ t \in Nat
    BY <1>4
  <2>2. DeletePlan(e, t, ops)
    BY <1>1, <2>1, DeleteOps
  <2> QED
    BY <2>2, Zenon DEF DeletePlan
<1>9. ops # << >>
  <2>1. n # 0 /\ Len(<< >>) = 0
    BY <1>8
  <2> QED
    BY <2>1, Zenon
<1>10. /\ ~Free' /\ task'.ops = ops /\ task'.table = t
      /\ task' \in [ops : Seq(OpSet), table : Tables', before : [Services -> SUBSET Backends]]
  BY <1>2, <1>3, <1>4, <1>7, <1>8, <1>9, Started
<1> HIDE DEF n
<1>11. \A i \in DOMAIN Lbs : i \in DOMAIN Lbs' \/ Lbs[i].table = t
  BY <1>19, <1>20, <1>6
<1>12. \A i \in DOMAIN Lbs' : i \in DOMAIN Lbs /\ Lbs'[i] = Lbs[i]
  BY <1>6
<1>13. TabInv'
  BY <1>2, <1>3, <1>5, <1>6, <1>7 DEF TabInv
<1>14. \A i \in DOMAIN Lbs' : Lbs'[i].table # t
  BY <1>19, <1>20, <1>2, <1>3, <1>6 DEF TabInv
<1>15. SlotInv'
  <2>1. \A i \in DOMAIN Lbs' : TableExact(MG', broken', Lbs'[i])
    BY <1>2, <1>3, <1>5, <1>6 DEF SlotInv
  <2>2. \A k \in DOMAIN MG' : (\E i \in DOMAIN Lbs' : Lbs'[i].table = k[1]) \/ t = k[1]
    <3> TAKE k \in DOMAIN MG'
    <3>1. PICK i \in DOMAIN Lbs : Lbs[i].table = k[1]
      BY <1>2, <1>3, <1>5 DEF SlotInv
    <3> QED
      BY <1>11, <1>12, <3>1
  <2> QED
    BY <1>10, <2>1, <2>2 DEF SlotInv
<1>16. KeyInv'
  <2>1. \A i \in DOMAIN Lbs' : \A k \in Keys(Lbs'[i]) \ clashed' :
           k \in DOMAIN LB' /\ LB'[k] = Lbs'[i].table
    <3> TAKE i \in DOMAIN Lbs'
    <3>1. i \in DOMAIN Lbs /\ Lbs'[i] = Lbs[i] /\ clashed' = clashed /\ LB' = LB
      BY <1>2, <1>5, <1>12
    <3>2. \A k \in Keys(Lbs[i]) \ clashed : k \in DOMAIN LB /\ LB[k] = Lbs[i].table
      BY <1>3, <3>1 DEF KeyInv
    <3> QED
      BY <3>1, <3>2
  <2>2. \A i, j \in DOMAIN Lbs' : i # j => Keys(Lbs'[i]) \cap Keys(Lbs'[j]) \subseteq clashed'
    BY <1>2, <1>3, <1>6 DEF KeyInv
  <2>3. \A k \in DOMAIN LB' : \A i \in DOMAIN Lbs' : LB'[k] = Lbs'[i].table => k \in Keys(Lbs'[i])
    BY <1>3, <1>5, <1>6 DEF KeyInv
  <2>4. \A k \in DOMAIN LB' : \/ LB'[k] \in broken'
                              \/ \E i \in DOMAIN Lbs' : LB'[k] = Lbs'[i].table
                              \/ LB'[k] = t
    <3> TAKE k \in DOMAIN LB'
    <3>1. LB[k] \in broken \/ \E i \in DOMAIN Lbs : LB[k] = Lbs[i].table
      BY <1>2, <1>3, <1>5 DEF KeyInv
    <3>2. broken' = broken /\ LB' = LB
      BY <1>2, <1>5
    <3> QED
      BY <1>11, <1>12, <3>1, <3>2
  <2> QED
    BY <1>10, <2>1, <2>2, <2>3, <2>4 DEF KeyInv
<1>17. Removing'
  <2>1. \A i \in 1..n :
          \/ \E s \in Slots : ops[i] = Del("maglev", <<t, s>>)
          \/ \E k \in LbKeys :
                /\ ops[i] = Del("lb", k)
                /\ \A j \in DOMAIN Lbs' : k \in Keys(Lbs'[j]) => k \in clashed'
    <3>1. Keys(e) \subseteq LbKeys
      BY <1>4, EntryKeys
    <3>2. \A k \in Keys(e) : \A j \in DOMAIN Lbs' : k \in Keys(Lbs'[j]) => k \in clashed'
      BY <1>19, <1>20, <1>2, <1>3, <1>6 DEF KeyInv
    <3> QED
      BY <1>8, <3>1, <3>2
  <2>2. \A k \in DOMAIN LB' : LB'[k] = t => \E i \in 1..n : ops[i] = Del("lb", k)
    <3>1. \A k \in DOMAIN LB' : LB'[k] = t => k \in Keys(e)
      BY <1>19, <1>20, <1>2, <1>3, <1>5 DEF KeyInv
    <3> QED
      BY <1>8, <3>1
  <2>3. Len(task'.ops) = n
    BY <1>10 DEF n
  <2> QED
    BY <1>8, <1>10, <1>14, <2>1, <2>2, <2>3, Zenon DEF Removing
<1> QED
  BY <1>9, <1>10, <1>13, <1>15, <1>16, <1>17 DEF MapInv, TaskInv

\* A guest moves between operations.
LEMMA MoveGuestKeeps ==
    ASSUME MapInv, NEW b \in DOMAIN Guests, MoveGuest(b)
    PROVE  MapInv' /\ Lbs' = Lbs
<1> DEFINE ul == IF b \in DOMAIN UL THEN Restrict(UL, DOMAIN UL \ {b}) ELSE Upsert(UL, b, Guests[b])
<1>1. /\ Free /\ tab' = [tab EXCEPT !["underlay"] = ul]
      /\ UNCHANGED <<nextTable, task, clashed, broken>>
  BY DEF MoveGuest, Called, history, UL
<1>2. TaskInv /\ TabInv /\ SlotInv /\ KeyInv
  BY DEF MapInv
<1> HIDE DEF ul
<1>3. /\ tab' = [x \in Tabs |-> tab'[x]] /\ LB' = LB /\ MG' = MG /\ UL' = ul /\ Lbs' = Lbs
  BY <1>1, <1>2, TabChange DEF Tabs
<1>4. \A u \in DOMAIN ul : u \in Underlays /\ ul[u] \in Places
  <2>1. b \in Underlays /\ Guests[b] \in Places
    BY LbAssumption DEF Underlays, Places
  <2> QED
    BY <1>2, <2>1 DEF TabInv, ul, Restrict, Upsert
<1>5. Free' /\ Tables' = Tables
  BY <1>1 DEF Free, Tables
<1>6. TabInv'
  BY <1>1, <1>2, <1>3, <1>4, <1>5 DEF TabInv
<1>7. SlotInv'
  BY <1>1, <1>2, <1>3, <1>5, SlotSame
<1>8. KeyInv'
  BY <1>1, <1>2, <1>3, <1>5, KeySame
<1> QED
  BY <1>3, <1>5, <1>6, <1>7, <1>8 DEF MapInv, TaskInv

(***************************************************************************)
(* The maps between operations.                                            *)
(***************************************************************************)

\* The invariant holds initially.
LEMMA MapInit == Init => MapInv
<1> SUFFICES ASSUME Init PROVE MapInv
  OBVIOUS
<1>1. /\ tab = [t \in Tabs |-> << >>] /\ Free /\ nextTable = 1
  BY DEF Init, Free, Tabs
<1>2. DOMAIN Lbs = {} /\ DOMAIN LB = {} /\ DOMAIN MG = {} /\ DOMAIN UL = {}
  BY <1>1 DEF Lbs, LB, MG, UL, Tabs
<1>3. TabInv
  BY <1>1, <1>2 DEF TabInv
<1> QED
  BY <1>1, <1>2, <1>3 DEF MapInv, TaskInv, SlotInv, KeyInv

\* The datapath writes none of the maps.
LEMMA DatapathSame ==
    ASSUME NEW c, Datapath(c)
    PROVE  UNCHANGED <<tab, nextTable, task, ncalls, clashed, broken>>
<1>1. \A rec : Step(c, rec) => UNCHANGED <<tab, nextTable, task, ncalls, clashed, broken>>
  BY DEF Step, history
<1>2. CASE \E p \in Packets : Receive(c, p)
  BY <1>2 DEF Receive, history
<1>3. CASE LbLookup(c)
  BY <1>1, <1>3, Zenon DEF LbLookup, NoSelection, Done
<1>4. CASE SlotLookup(c)
  BY <1>1, <1>4, Zenon DEF SlotLookup, NoSelection, Done
<1>5. CASE BackendLookup(c)
  BY <1>1, <1>5, Zenon DEF BackendLookup, Done
<1>6. CASE ErrorLookup(c)
  BY <1>1, <1>6, Zenon DEF ErrorLookup, NoSelection, Done
<1>7. CASE ErrorSlotLookup(c)
  BY <1>1, <1>7, Zenon DEF ErrorSlotLookup, NoSelection, Done
<1> QED
  BY <1>2, <1>3, <1>4, <1>5, <1>6, <1>7 DEF Datapath

\* Every step keeps the invariant.
LEMMA MapStep == MapInv /\ [Next]_vars => MapInv'
<1> SUFFICES ASSUME MapInv, [Next]_vars PROVE MapInv'
  OBVIOUS
<1>1. ASSUME NEW r \in Requests, CreateLb(r) PROVE MapInv'
  BY <1>1, CreateLbKeeps
<1>2. ASSUME NEW id \in Ids, NEW b \in Backends, AddLbTarget(id, b) \/ DelLbTarget(id, b)
      PROVE  MapInv'
  BY <1>2, TargetKeeps
<1>3. ASSUME NEW id \in Ids, DeleteLb(id) PROVE MapInv'
  BY <1>3, DeleteLbKeeps
<1>4. ASSUME NEW b \in DOMAIN Guests, MoveGuest(b) PROVE MapInv'
  BY <1>4, MoveGuestKeeps
<1>5. CASE WritePut
  BY <1>5, WritePutKeeps
<1>6. CASE WriteFails
  BY <1>6, WriteFailsKeeps
<1>7. CASE WriteDel
  BY <1>7, WriteDelKeeps
<1>8. ASSUME NEW c \in Cpus, Datapath(c) PROVE MapInv'
  BY <1>8, DatapathSame, MapSame
<1>9. CASE UNCHANGED vars
  BY <1>9, MapSame DEF vars, history
<1> QED
  BY <1>1, <1>2, <1>3, <1>4, <1>5, <1>6, <1>7, <1>8, <1>9 DEF Next, Control

\* The inductive invariant holds throughout.
THEOREM MapInvHolds == Spec => []MapInv
  BY MapInit, MapStep, PTL DEF Spec

\* Between operations MAGLEV holds of every load balancer the first slots of
\* the table built from its list, all of them unless an insert failed, and
\* nothing of a load balancer that is gone: for any number of load balancers,
\* backends and CPUs, any capacities and any prime table size.
THEOREM SlotsExactHolds == Spec => []SlotsExact
<1>1. MapInv => SlotsExact
  <2> SUFFICES ASSUME MapInv, Free PROVE SlotsExact
    BY DEF SlotsExact
  <2>1. ASSUME NEW id \in DOMAIN Lbs
        PROVE  LET e == Lbs[id]
                   have == {s \in Slots : <<e.table, s>> \in DOMAIN tab["maglev"]}
                   built == Build(e.backends)
               IN  IF e.backends = << >> THEN have = {}
                   ELSE /\ \E n \in 0..M : have = 0..(n - 1) /\ (n < M => e.table \in broken)
                        /\ \A s \in have : tab["maglev"][<<e.table, s>>] = built[s]
    <3> DEFINE e == Lbs[id]
               have == {s \in Slots : <<e.table, s>> \in DOMAIN MG}
               built == Build(e.backends)
    <3>1. TableExact(MG, broken, e) /\ M \in Nat
      BY LbAssumption DEF MapInv, SlotInv
    <3>2. CASE e.backends = << >>
      <4>1. FilledTo(MG, e.table, 0)
        BY <3>1, <3>2 DEF TableExact
      <4>2. have = {}
        BY <3>1, <4>1 DEF FilledTo, Slots
      <4> QED
        BY <3>2, <4>2 DEF MG
    <3>3. CASE e.backends # << >>
      <4>1. PICK h \in 0..M :
              /\ FilledTo(MG, e.table, h) /\ (h < M => e.table \in broken)
              /\ \A s \in Slots : s < h => MG[<<e.table, s>>] = built[s]
        BY <3>1, <3>3 DEF TableExact
      <4> HIDE DEF e, built
      <4>2. have = 0..(h - 1)
        BY <3>1, <4>1 DEF FilledTo, Slots
      <4>3. \A s \in have : MG[<<e.table, s>>] = built[s]
        BY <4>1 DEF FilledTo
      <4> HIDE DEF have
      <4>4. \E n \in 0..M : have = 0..(n - 1) /\ (n < M => e.table \in broken)
        BY <4>1, <4>2
      <4> QED
        BY <3>3, <4>3, <4>4 DEF MG, e, have, built
    <3> QED
      BY <3>2, <3>3
  <2>2. \A k \in DOMAIN MG : \E id \in DOMAIN Lbs : Lbs[id].table = k[1]
    BY DEF MapInv, SlotInv
  <2> QED
    BY <2>1, <2>2 DEF SlotsExact, MG
<1> QED
  BY <1>1, MapInvHolds, PTL

\* Between operations every service leads to the table of its load balancer
\* unless a later one took it, and LB holds nothing else but what a failed
\* creation left.
THEOREM KeysExactHolds == Spec => []KeysExact
<1>1. MapInv => KeysExact
  BY DEF MapInv, KeyInv, KeysExact, LB
<1> QED
  BY <1>1, MapInvHolds, PTL

\* Every table that is in use is balanced.
THEOREM BalancedHolds == Spec => []Balanced
<1>1. MapInv => Balanced
  <2> SUFFICES ASSUME MapInv, NEW id \in DOMAIN Lbs, Lbs[id].backends # << >>
               PROVE  \A b1, b2 \in Range(Lbs[id].backends) :
                         Cardinality({s \in Slots : Build(Lbs[id].backends)[s] = b1})
                           <= Cardinality({s \in Slots : Build(Lbs[id].backends)[s] = b2}) + 1
    BY DEF Balanced
  <2>1. Lbs[id].backends \in Seq(Backends) /\ IsInjective(Lbs[id].backends)
    BY DEF MapInv, TabInv, EntryOK
  <2> QED
    BY <2>1, MaglevTable
<1> QED
  BY <1>1, MapInvHolds, PTL

(***************************************************************************)
(* Packets under way.                                                      *)
(***************************************************************************)
Pcs == {"idle", "lb", "slot", "backend", "errlb", "errslot"}
Old == IF Free THEN Pool ELSE task.before

\* What the slots of a table hold, seen from a service.
Holds(t, bs) == \A s \in Slots : <<t, s>> \in DOMAIN MG => MG[<<t, s>>] \in bs

\* The table that is being rewritten holds backends of before or of now.
OldInv ==
    ~Free => \A k \in DOMAIN LB : LB[k] = task.table => Holds(task.table, Pool[k] \cup task.before[k])

CpuFields == {"pc", "pkt", "u", "svc", "table", "got", "may", "quiet", "verdict"}
IsCpu(x) == x = [f \in CpuFields |-> x[f]]

\* A packet under way.
Busy(x) ==
    /\ x.pkt \in Packets /\ x.u \in Places /\ x.svc = ServiceOf(x.u.vni, x.pkt)
    /\ Pool[x.svc] \cup Old[x.svc] \subseteq x.may

\* A packet between the lookups in LB and in MAGLEV: whatever load balancer
\* has the table, or is about to have it, has the packet's service.
Reading(x) ==
    /\ x.table \in Tables
    /\ Holds(x.table, x.may)
    /\ \A id \in DOMAIN Lbs : Lbs[id].table = x.table => x.svc \in Keys(Lbs[id])
    /\ ~Free /\ task.table = x.table =>
          \A i \in 1..Len(task.ops) :
             task.ops[i].op = "put" /\ task.ops[i].tab = "lbs" => x.svc \in Keys(task.ops[i].val)

CpuOK(x) ==
    /\ IsCpu(x)
    /\ x.pc \in Pcs /\ x.got \in Backends \cup {None} /\ x.may \subseteq Backends
    /\ x.pc # "idle" => Busy(x)
    /\ x.pc \in {"slot", "errslot"} => Reading(x)
    /\ x.pc \in {"errlb", "errslot"} <=> x.pkt.kind = "err" /\ x.pc \notin {"idle", "lb"}
    /\ x.pc = "backend" => x.got \in x.may

CpuInv == cpu = [c \in Cpus |-> cpu[c]] /\ \A c \in Cpus : CpuOK(cpu[c])

\* Where the maps send a packet.
Outcome(x) ==
    LET slot == <<LB[x.svc], Hash(FlowOf(x.pkt)) % M>>
    IN  IF Selectable(x.pkt) /\ x.svc \in DOMAIN LB /\ slot \in DOMAIN MG
          THEN IF x.pkt.kind # "err" /\ MG[slot] \in DOMAIN UL THEN <<"tap", UL[MG[slot]].tap>>
                                                               ELSE <<"relay", MG[slot]>>
          ELSE Fallback(x.pkt, x.u)

\* A packet that met no operation has read what the maps hold now.
QuietOK(x) ==
    x.quiet =>
      /\ Free /\ x.pkt \in Packets
      /\ x.pc \in {"slot", "errslot", "backend"} =>
            /\ Selectable(x.pkt) /\ x.svc \in DOMAIN LB /\ x.table = LB[x.svc]
      /\ x.pc = "backend" =>
            LET slot == <<x.table, Hash(FlowOf(x.pkt)) % M>> IN slot \in DOMAIN MG /\ x.got = MG[slot]
      /\ x.pc = "idle" => x.verdict = Outcome(x)

QuietInv == \A c \in Cpus : QuietOK(cpu[c])

PoolInv == MapInv /\ OldInv /\ CpuInv /\ QuietInv

\* What packets see of a write of the control plane.
WriteSeen ==
    /\ UNCHANGED <<cpu, nextTable>> /\ ~Free /\ Pool' = Pool
    /\ ~Free' =>
          /\ task'.table = task.table /\ task'.before = task.before
          /\ \A i \in 1..Len(task'.ops) : \E j \in 1..Len(task.ops) : task'.ops[i] = task.ops[j]
    /\ \A k \in DOMAIN LB' :
          \/ k \in DOMAIN LB /\ LB'[k] = LB[k]
          \/ \A s \in Slots : <<LB'[k], s>> \notin DOMAIN MG'
    /\ \A k \in DOMAIN MG' :
          \/ k \in DOMAIN MG /\ MG'[k] = MG[k]
          \/ \E id \in DOMAIN Lbs : Lbs[id].table = k[1] /\ MG'[k] \in Range(Lbs[id].backends)
    /\ \A id \in DOMAIN Lbs' :
          \/ id \in DOMAIN Lbs /\ Lbs'[id] = Lbs[id]
          \/ \E i \in 1..Len(task.ops) :
                /\ task.ops[i].op = "put" /\ task.ops[i].tab = "lbs" /\ task.ops[i].val = Lbs'[id]
                /\ Lbs'[id].table = task.table

\* What they see of the start of an operation.
OpSeen ==
    /\ Free /\ LB' = LB /\ MG' = MG /\ Tables \subseteq Tables' /\ Announced(Lbs')
    /\ \A id \in DOMAIN Lbs' :
          /\ id \in DOMAIN Lbs
          /\ Lbs'[id].table = Lbs[id].table /\ Keys(Lbs'[id]) = Keys(Lbs[id])
    /\ IF Free' THEN Pool' = Pool ELSE task'.before = Pool
    /\ ~Free' => \/ task'.table \notin Tables
                 \/ \A i \in 1..Len(task'.ops) :
                       ~(task'.ops[i].op = "put" /\ task'.ops[i].tab = "lbs")
    /\ \/ \E b \in Backends : \A k \in Services : Pool'[k] \in {Pool[k], Pool[k] \cup {b}}
       \/ \A k \in Services : Pool'[k] \subseteq Pool[k]

\* The operations left after a write.
LEMMA OpsLeft ==
    ASSUME MapInv, ~Free, Advance, nextTable' = nextTable
    PROVE  ~Free' =>
             /\ task'.table = task.table /\ task'.before = task.before
             /\ \A i \in 1..Len(task'.ops) : \E j \in 1..Len(task.ops) : task'.ops[i] = task.ops[j]
<1> SUFFICES ASSUME ~Free'
             PROVE  /\ task'.table = task.table /\ task'.before = task.before
                    /\ \A i \in 1..Len(task'.ops) : \E j \in 1..Len(task.ops) :
                          task'.ops[i] = task.ops[j]
  OBVIOUS
<1> DEFINE n == Len(task.ops)
           m == Len(task'.ops)
<1>1. n \in Nat /\ n > 0
  BY TaskFacts DEF MapInv
<1>2. /\ m = n - 1 /\ task'.table = task.table /\ task'.before = task.before
      /\ \A i \in 1..(n - 1) : task'.ops[i] = task.ops[i + 1]
  BY TaskAdvances DEF MapInv
<1> HIDE DEF n, m
<1>3. \A i \in 1..m : i + 1 \in 1..n /\ task'.ops[i] = task.ops[i + 1]
  BY <1>1, <1>2
<1> QED
  BY <1>2, <1>3 DEF n, m

\* Backends that a pool has.
LEMMA InPool ==
    ASSUME NEW k \in Services, NEW id \in DOMAIN Lbs, k \in Keys(Lbs[id])
    PROVE  Range(Lbs[id].backends) \subseteq Pool[k]
  BY DEF Pool

\* A new load balancer without backends changes no pool.
LEMMA PoolSame ==
    ASSUME NEW e, NEW id, id \notin DOMAIN Lbs, Lbs' = Upsert(Lbs, id, e), e.backends = << >>
    PROVE  Pool' = Pool
<1>1. Range(e.backends) = {}
  BY DEF Range
<1>2. /\ DOMAIN Lbs' = DOMAIN Lbs \cup {id} /\ Lbs'[id] = e
      /\ \A i \in DOMAIN Lbs : Lbs'[i] = Lbs[i]
  BY DEF Upsert
<1>3. \A k \in Services :
         UNION {Range(Lbs'[i].backends) : i \in {j \in DOMAIN Lbs' : k \in Keys(Lbs'[j])}}
           = UNION {Range(Lbs[i].backends) : i \in {j \in DOMAIN Lbs : k \in Keys(Lbs[j])}}
  BY <1>1, <1>2
<1>4. Pool' = [k \in Services |->
                 UNION {Range(Lbs'[i].backends) : i \in {j \in DOMAIN Lbs' : k \in Keys(Lbs'[j])}}]
  BY DEF Pool
<1> QED
  BY <1>3, <1>4 DEF Pool

\* The pools depend on the shadow table only.
LEMMA PoolKept ==
    ASSUME Lbs' = Lbs
    PROVE  Pool' = Pool
  BY DEF Pool

\* A slot is rewritten.
LEMMA SeenRewriting ==
    ASSUME MapInv, ~Free, NEW id \in DOMAIN Lbs, Rewriting(id), WritePut
    PROVE  WriteSeen
<1> DEFINE t == task.table
           n == Len(task.ops)
           e == Lbs[id]
           built == Build(e.backends)
           z == M - n
<1>1. /\ e.table = t /\ e.backends # << >> /\ n <= M
      /\ \A i \in 1..n : task.ops[i] = Put("maglev", <<t, M - n + i - 1>>, built[M - n + i - 1])
  BY DEF Rewriting
<1>2. n \in Nat /\ n > 0 /\ Head(task.ops) = task.ops[1]
  BY TaskFacts DEF MapInv
<1>3. M \in Nat /\ TabInv
  BY LbAssumption DEF MapInv
<1>4. built \in [Slots -> Range(e.backends)]
  BY <1>1, MaglevTable DEF MapInv, TabInv, EntryOK
<1>5. Advance /\ UNCHANGED <<nextTable, cpu>>
  BY DEF WritePut
<1> HIDE DEF n, built, e, t
<1>6. z \in Slots
  BY <1>1, <1>2, <1>3 DEF Slots
<1>7. task.ops[1] = Put("maglev", <<t, z>>, built[z])
  <2>1. 1 \in 1..n /\ M - n + 1 - 1 = M - n
    BY <1>2, <1>3
  <2> QED
    BY <1>1, <2>1
<1>8. tab' = [tab EXCEPT !["maglev"] = Upsert(MG, <<t, z>>, built[z])]
  <2>1. tab' = [tab EXCEPT ![task.ops[1].tab] = Upsert(tab[task.ops[1].tab], task.ops[1].key, task.ops[1].val)]
    BY <1>2 DEF WritePut
  <2> QED
    BY <1>7, <2>1 DEF Put, MG
<1> HIDE DEF z
<1>9. Lbs' = Lbs /\ LB' = LB /\ MG' = Upsert(MG, <<t, z>>, built[z])
  BY <1>3, <1>8, TabChange DEF Tabs
<1>10. \A k \in DOMAIN MG' : (k \in DOMAIN MG /\ MG'[k] = MG[k]) \/ (k = <<t, z>> /\ MG'[k] = built[z])
  BY <1>9 DEF Upsert
<1>11. \A k \in DOMAIN MG' :
          \/ k \in DOMAIN MG /\ MG'[k] = MG[k]
          \/ \E i \in DOMAIN Lbs : Lbs[i].table = k[1] /\ MG'[k] \in Range(Lbs[i].backends)
  <2>1. built[z] \in Range(Lbs[id].backends) /\ Lbs[id].table = t
    BY <1>1, <1>4, <1>6 DEF e
  <2> QED
    BY <1>10, <2>1
<1>12. Pool' = Pool
  BY <1>9, PoolKept
<1> QED
  BY <1>5, <1>9, <1>11, <1>12, OpsLeft DEF WriteSeen

\* A key, a mark or the entry of a new load balancer is written.
LEMMA SeenCreating ==
    ASSUME MapInv, ~Free, NEW r \in Requests, Creating(r), WritePut
    PROVE  WriteSeen
<1> DEFINE t == task.table
           n == Len(task.ops)
           mark == [vni |-> r.vni, tap |-> 0]
<1>1. /\ r.id \notin DOMAIN Lbs
      /\ \A k \in DOMAIN MG : k[1] # t
      /\ task.ops[n] = Put("lbs", r.id, Entry(r, t))
      /\ \A i \in 1..(n - 1) :
            \/ \E k \in Keys(r) : task.ops[i] = Put("lb", k, t)
            \/ task.ops[i] = Put("underlay", UnderlayOf(r), mark)
  BY DEF Creating
<1>2. n \in Nat /\ n > 0 /\ Head(task.ops) = task.ops[1] /\ TabInv
  BY TaskFacts DEF MapInv
<1>3. Advance /\ UNCHANGED <<nextTable, cpu>>
  BY DEF WritePut
<1>4. tab' = [tab EXCEPT ![task.ops[1].tab] =
                 Upsert(tab[task.ops[1].tab], task.ops[1].key, task.ops[1].val)]
  BY <1>2 DEF WritePut
<1> HIDE DEF n, t, mark
<1>5. CASE n = 1
  <2> DEFINE e == Entry(r, t)
  <2>1. task.ops[1] = Put("lbs", r.id, e)
    BY <1>1, <1>5
  <2>2. e.table = t /\ e.backends = << >>
    BY DEF Entry
  <2> HIDE DEF e
  <2>3. task.ops[1].op = "put" /\ task.ops[1].tab = "lbs" /\ task.ops[1].key = r.id
        /\ task.ops[1].val = e
    BY <2>1 DEF Put
  <2>4. tab' = [tab EXCEPT !["lbs"] = Upsert(Lbs, r.id, e)]
    BY <1>4, <2>3, Zenon DEF Lbs
  <2>5. Lbs' = Upsert(Lbs, r.id, e) /\ LB' = LB /\ MG' = MG
    BY <1>2, <2>4, TabChange DEF Tabs
  <2>6. \A id \in DOMAIN Lbs' : (id \in DOMAIN Lbs /\ Lbs'[id] = Lbs[id]) \/ Lbs'[id] = e
    BY <2>5 DEF Upsert
  <2>7. 1 \in 1..Len(task.ops)
    BY <1>2 DEF n
  <2>8. Pool' = Pool
    BY <1>1, <2>2, <2>5, PoolSame
  <2> QED
    BY <1>3, <2>2, <2>3, <2>5, <2>6, <2>7, <2>8, OpsLeft DEF WriteSeen, t
<1>6. CASE n # 1
  <2>1. 1 \in 1..(n - 1)
    BY <1>2, <1>6
  <2>2. CASE \E k \in Keys(r) : task.ops[1] = Put("lb", k, t)
    <3>1. PICK k \in Keys(r) : task.ops[1] = Put("lb", k, t)
      BY <2>2
    <3>2. task.ops[1].tab = "lb" /\ task.ops[1].key = k /\ task.ops[1].val = t
      BY <3>1 DEF Put
    <3>3. tab' = [tab EXCEPT !["lb"] = Upsert(LB, k, t)]
      BY <1>4, <3>2, Zenon DEF LB
    <3>4. Lbs' = Lbs /\ LB' = Upsert(LB, k, t) /\ MG' = MG
      BY <1>2, <3>3, TabChange DEF Tabs
    <3>5. \A l \in DOMAIN LB' : (l \in DOMAIN LB /\ LB'[l] = LB[l]) \/ LB'[l] = t
      BY <3>4 DEF Upsert
    <3>6. \A s \in Slots : <<t, s>> \notin DOMAIN MG'
      BY <1>1, <3>4
    <3>7. Pool' = Pool
      BY <3>4, PoolKept
    <3> QED
      BY <1>3, <3>4, <3>5, <3>6, <3>7, OpsLeft DEF WriteSeen
  <2>3. CASE task.ops[1] = Put("underlay", UnderlayOf(r), mark)
    <3>1. task.ops[1].tab = "underlay"
      BY <2>3 DEF Put
    <3>2. Lbs' = Lbs /\ LB' = LB /\ MG' = MG
      BY <1>2, <1>4, <3>1, TabChange DEF Tabs
    <3>3. Pool' = Pool
      BY <3>2, PoolKept
    <3> QED
      BY <1>3, <3>2, <3>3, OpsLeft DEF WriteSeen
  <2> QED
    BY <1>1, <2>1, <2>2, <2>3
<1> QED
  BY <1>5, <1>6

\* A removal.
LEMMA SeenRemoving ==
    ASSUME MapInv, WriteDel
    PROVE  WriteSeen
<1> DEFINE w == task.ops[1]
<1>1. ~Free /\ Head(task.ops).op = "del" /\ Advance /\ UNCHANGED <<nextTable, cpu>>
  BY DEF WriteDel
<1>2. /\ Len(task.ops) \in Nat /\ Len(task.ops) > 0 /\ Head(task.ops) = w /\ TabInv
  BY <1>1, TaskFacts DEF MapInv
<1>3. tab' = [tab EXCEPT ![w.tab] = Restrict(tab[w.tab], DOMAIN tab[w.tab] \ {w.key})]
  BY <1>2 DEF WriteDel
<1>4. w.tab \in {"maglev", "lb"}
  <2>1. Removing /\ 1 \in 1..Len(task.ops)
    BY <1>1, <1>2, HeadOps DEF MapInv, TaskInv
  <2>2. \/ \E s \in Slots : w = Del("maglev", <<task.table, s>>)
        \/ \E k \in LbKeys : w = Del("lb", k)
    BY <2>1 DEF Removing
  <2> HIDE DEF w
  <2> QED
    BY <2>2 DEF Del
<1> HIDE DEF w
<1>5. CASE w.tab = "maglev"
  <2>1. Lbs' = Lbs /\ LB' = LB /\ MG' = Restrict(MG, DOMAIN MG \ {w.key})
    BY <1>2, <1>3, <1>5, TabChange DEF Tabs, MG
  <2>2. \A k \in DOMAIN MG' : k \in DOMAIN MG /\ MG'[k] = MG[k]
    BY <2>1 DEF Restrict
  <2>3. Pool' = Pool
    BY <2>1, PoolKept
  <2> QED
    BY <1>1, <2>1, <2>2, <2>3, OpsLeft DEF WriteSeen
<1>6. CASE w.tab = "lb"
  <2>1. Lbs' = Lbs /\ MG' = MG /\ LB' = Restrict(LB, DOMAIN LB \ {w.key})
    BY <1>2, <1>3, <1>6, TabChange DEF Tabs, LB
  <2>2. \A k \in DOMAIN LB' : k \in DOMAIN LB /\ LB'[k] = LB[k]
    BY <2>1 DEF Restrict
  <2>3. Pool' = Pool
    BY <2>1, PoolKept
  <2> QED
    BY <1>1, <2>1, <2>2, <2>3, OpsLeft DEF WriteSeen
<1> QED
  BY <1>4, <1>5, <1>6

\* Every write is seen like this.
LEMMA WritesSeen ==
    ASSUME MapInv, WritePut \/ WriteFails \/ WriteDel
    PROVE  WriteSeen
<1>1. CASE WritePut
  <2>1. ~Free /\ Head(task.ops).op = "put"
    BY <1>1 DEF WritePut
  <2> QED
    BY <1>1, <2>1, HeadOps, SeenRewriting, SeenCreating DEF MapInv, TaskInv
<1>2. CASE WriteFails
  <2>1. ~Free /\ task' = FreeTask /\ UNCHANGED <<tab, nextTable, cpu>>
    BY <1>2 DEF WriteFails
  <2>2. Free' /\ Lbs' = Lbs /\ LB' = LB /\ MG' = MG
    BY <2>1 DEF Free, Lbs, LB, MG
  <2>3. Pool' = Pool
    BY <2>2, PoolKept
  <2> QED
    BY <2>1, <2>2, <2>3 DEF WriteSeen
<1>3. CASE WriteDel
  BY <1>3, SeenRemoving
<1> QED
  BY <1>1, <1>2, <1>3

\* create_lb starts.
LEMMA SeenCreate ==
    ASSUME MapInv, NEW r \in Requests, CreateLb(r)
    PROVE  OpSeen
<1> DEFINE ops == KeyWrites(r, nextTable)
                    \o << Put("underlay", UnderlayOf(r), [vni |-> r.vni, tap |-> 0]),
                          Put("lbs", r.id, Entry(r, nextTable)) >>
<1>1. /\ Free /\ nextTable' = nextTable + 1 /\ UNCHANGED tab /\ Announced(Lbs)
      /\ Perform(ops, nextTable)
  BY DEF CreateLb, Called
<1> HIDE DEF ops
<1>2. Lbs' = Lbs /\ LB' = LB /\ MG' = MG
  BY <1>1 DEF Lbs, LB, MG
<1>3. Tables \subseteq Tables' /\ nextTable \notin Tables
  BY <1>1 DEF Tables, MapInv, TabInv
<1>4. task'.table = nextTable /\ task'.before = Pool
  BY <1>1 DEF Perform
<1>5. Pool' = Pool
  BY <1>2, PoolKept
<1>6. Announced(Lbs')
  BY <1>1, <1>2
<1> QED
  BY <1>1, <1>2, <1>3, <1>4, <1>5, <1>6 DEF OpSeen

\* add_lb_target or del_lb_target starts.
LEMMA SeenRelist ==
    ASSUME MapInv, Free, NEW id \in DOMAIN Lbs, NEW bs \in Seq(Backends), IsInjective(bs),
           NEW ops \in Seq(OpSet), ops # << >>, Relist(id, bs, ops),
           \A i \in 1..Len(ops) : ~(ops[i].op = "put" /\ ops[i].tab = "lbs"),
           \/ \E b \in Backends : Range(bs) = Range(Lbs[id].backends) \cup {b}
           \/ Range(bs) \subseteq Range(Lbs[id].backends)
    PROVE  OpSeen
<1>1. /\ TabInv' /\ ~Free' /\ task'.ops = ops /\ DOMAIN Lbs' = DOMAIN Lbs /\ LB' = LB /\ MG' = MG
      /\ Lbs'[id].backends = bs /\ Lbs'[id].table = Lbs[id].table
      /\ \A i \in DOMAIN Lbs : Keys(Lbs'[i]) = Keys(Lbs[i])
      /\ \A i \in DOMAIN Lbs : i # id => Lbs'[i] = Lbs[i]
  BY RelistKeeps
<1>2. /\ Perform(ops, Lbs[id].table) /\ nextTable' = nextTable
      /\ Announced([Lbs EXCEPT ![id].backends = bs])
      /\ tab' = [tab EXCEPT !["lbs"] = [Lbs EXCEPT ![id].backends = bs]]
  BY DEF Relist
<1>3. Lbs' = [Lbs EXCEPT ![id].backends = bs]
  BY <1>2, TabChange DEF MapInv, Tabs
<1>4. Announced(Lbs')
  BY <1>2, <1>3
<1>5. task'.before = Pool /\ Tables' = Tables
  BY <1>2 DEF Perform, Tables
<1>6. Pool' = [k \in Services |->
                 UNION {Range(Lbs'[i].backends) : i \in {j \in DOMAIN Lbs : k \in Keys(Lbs[j])}}]
  BY <1>1 DEF Pool
<1>7. ASSUME NEW b \in Backends, Range(bs) = Range(Lbs[id].backends) \cup {b}
      PROVE  \A k \in Services : Pool'[k] \in {Pool[k], Pool[k] \cup {b}}
  <2> TAKE k \in Services
  <2>1. Pool'[k] = UNION {Range(Lbs'[i].backends) : i \in {j \in DOMAIN Lbs : k \in Keys(Lbs[j])}}
    BY <1>6
  <2>2. Pool[k] = UNION {Range(Lbs[i].backends) : i \in {j \in DOMAIN Lbs : k \in Keys(Lbs[j])}}
    BY DEF Pool
  <2>3. CASE k \in Keys(Lbs[id])
    <3>1. Pool'[k] = Pool[k] \cup {b}
      BY <1>1, <1>7, <2>1, <2>2, <2>3
    <3> QED
      BY <3>1
  <2>4. CASE k \notin Keys(Lbs[id])
    <3>1. Pool'[k] = Pool[k]
      BY <1>1, <2>1, <2>2, <2>4
    <3> QED
      BY <3>1
  <2> QED
    BY <2>3, <2>4
<1>8. ASSUME Range(bs) \subseteq Range(Lbs[id].backends)
      PROVE  \A k \in Services : Pool'[k] \subseteq Pool[k]
  <2> TAKE k \in Services
  <2>1. Pool'[k] = UNION {Range(Lbs'[i].backends) : i \in {j \in DOMAIN Lbs : k \in Keys(Lbs[j])}}
    BY <1>6
  <2>2. Pool[k] = UNION {Range(Lbs[i].backends) : i \in {j \in DOMAIN Lbs : k \in Keys(Lbs[j])}}
    BY DEF Pool
  <2>3. \A i \in DOMAIN Lbs : Range(Lbs'[i].backends) \subseteq Range(Lbs[i].backends)
    BY <1>1, <1>8
  <2> QED
    BY <2>1, <2>2, <2>3
<1>9. \A i \in DOMAIN Lbs' :
         /\ i \in DOMAIN Lbs
         /\ Lbs'[i].table = Lbs[i].table /\ Keys(Lbs'[i]) = Keys(Lbs[i])
  BY <1>1
<1> QED
  BY <1>1, <1>4, <1>5, <1>7, <1>8, <1>9 DEF OpSeen

\* A backend is added or taken away.
LEMMA SeenTarget ==
    ASSUME MapInv, NEW id, NEW b \in Backends, AddLbTarget(id, b) \/ DelLbTarget(id, b)
    PROVE  OpSeen
<1>1. Free /\ id \in DOMAIN Lbs
  BY DEF AddLbTarget, DelLbTarget, Called
<1>2. /\ Lbs[id].backends \in Seq(Backends) /\ IsInjective(Lbs[id].backends)
      /\ Lbs[id].table \in Nat /\ M \in Nat /\ M > 1
  BY <1>1, LbAssumption DEF MapInv, TabInv, EntryOK, Tables
<1>3. ASSUME NEW bs \in Seq(Backends), IsInjective(bs), bs # << >>
      PROVE  LET ops == SlotWrites(Lbs[id].table, bs) IN
             /\ ops \in Seq(OpSet) /\ ops # << >>
             /\ \A i \in 1..Len(ops) : ~(ops[i].op = "put" /\ ops[i].tab = "lbs")
  <2> DEFINE ops == SlotWrites(Lbs[id].table, bs)
             t == Lbs[id].table
             built == Build(bs)
  <2>1. /\ ops \in Seq(OpSet) /\ Len(ops) = M
        /\ \A i \in 1..M : ops[i] = Put("maglev", <<t, i - 1>>, built[i - 1])
    BY <1>2, <1>3, SlotOps
  <2> HIDE DEF ops, t, built
  <2>2. Len(ops) # 0 /\ Len(<< >>) = 0
    BY <1>2, <2>1
  <2>3. \A i \in 1..M : ops[i].tab = "maglev"
    BY <2>1 DEF Put
  <2>4. ops # << >>
    BY <2>2, Zenon
  <2> QED
    BY <2>1, <2>3, <2>4 DEF ops
<1>4. CASE AddLbTarget(id, b)
  <2> DEFINE bs == Append(Lbs[id].backends, b)
  <2>1. b \notin Range(Lbs[id].backends) /\ Relist(id, bs, SlotWrites(Lbs[id].table, bs))
    BY <1>4 DEF AddLbTarget
  <2>2. /\ bs \in Seq(Backends) /\ IsInjective(bs) /\ bs # << >>
        /\ Range(bs) = Range(Lbs[id].backends) \cup {b}
    BY <1>2, <2>1, AppendFacts
  <2> HIDE DEF bs
  <2> QED
    BY <1>1, <1>3, <2>1, <2>2, SeenRelist
<1>5. CASE DelLbTarget(id, b)
  <2> DEFINE bs == Retain(Lbs[id].backends, b)
             t == Lbs[id].table
  <2>1. Relist(id, bs, IF bs = << >> THEN SlotRemovals(t) ELSE SlotWrites(t, bs))
    BY <1>5 DEF DelLbTarget
  <2>2. bs \in Seq(Backends) /\ IsInjective(bs) /\ Range(bs) \subseteq Range(Lbs[id].backends)
    BY <1>2, RetainFacts
  <2> HIDE DEF bs
  <2>3. CASE bs = << >>
    <3> DEFINE ops == SlotRemovals(t)
    <3>1. Relist(id, bs, ops)
      BY <2>1, <2>3
    <3>2. /\ ops \in Seq(OpSet) /\ Len(ops) = M
          /\ \A i \in 1..M : ops[i] = Del("maglev", <<t, i - 1>>)
      BY <1>2, RemovalOps
    <3> HIDE DEF ops
    <3>3. Len(ops) # 0 /\ Len(<< >>) = 0
      BY <1>2, <3>2
    <3>4. ops # << >>
      BY <3>3, Zenon
    <3>5. \A i \in 1..Len(ops) : ops[i].op = "del"
      BY <3>2 DEF Del
    <3> QED
      BY <1>1, <2>2, <3>1, <3>2, <3>4, <3>5, SeenRelist
  <2>4. CASE bs # << >>
    <3>1. Relist(id, bs, SlotWrites(t, bs))
      BY <2>1, <2>4
    <3> QED
      BY <1>1, <1>3, <2>2, <2>4, <3>1, SeenRelist
  <2> QED
    BY <2>3, <2>4
<1> QED
  BY <1>4, <1>5

\* delete_lb starts.
LEMMA SeenDelete ==
    ASSUME MapInv, NEW id, DeleteLb(id)
    PROVE  OpSeen
<1>1. PICK e, t, ops : e = Lbs[id] /\ t = e.table /\ ops = KeyRemovals(e) \o SlotRemovals(t)
  OBVIOUS
<1>2. /\ Free /\ id \in DOMAIN Lbs /\ Perform(ops, t) /\ nextTable' = nextTable
      /\ tab' = [tab EXCEPT !["lbs"] = Restrict(Lbs, DOMAIN Lbs \ {id})]
      /\ Announced(Restrict(Lbs, DOMAIN Lbs \ {id}))
  BY <1>1 DEF DeleteLb, Called
<1>3. LB' = LB /\ MG' = MG /\ Lbs' = Restrict(Lbs, DOMAIN Lbs \ {id})
  BY <1>2, TabChange DEF Tabs, MapInv
<1>4. DOMAIN Lbs' \subseteq DOMAIN Lbs /\ \A i \in DOMAIN Lbs' : Lbs'[i] = Lbs[i]
  BY <1>3 DEF Restrict
<1>5. EntryOK(id, e) /\ t \in Tables /\ t \in Nat
  BY <1>1, <1>2 DEF MapInv, TabInv, Tables
<1>6. DeletePlan(e, t, ops)
  <2>1. \E i : EntryOK(i, e)
    BY <1>5
  <2> QED
    BY <1>1, <1>5, <2>1, DeleteOps
<1>7. Len(ops) # 0
  <2>1. Len(ops) \in Nat /\ Len(ops) > 0
    BY <1>6, Zenon DEF DeletePlan
  <2> QED
    BY <2>1
<1>8. \A i \in 1..Len(ops) : ops[i].op = "del"
  <2> TAKE i \in 1..Len(ops)
  <2>1. \/ \E s \in Slots : ops[i] = Del("maglev", <<t, s>>)
        \/ \E k \in Keys(e) : ops[i] = Del("lb", k)
    BY <1>6, Zenon DEF DeletePlan
  <2>2. CASE \E s \in Slots : ops[i] = Del("maglev", <<t, s>>)
    BY <2>2 DEF Del
  <2>3. CASE \E k \in Keys(e) : ops[i] = Del("lb", k)
    BY <2>3 DEF Del
  <2> QED
    BY <2>1, <2>2, <2>3
<1>9. task'.ops = ops /\ task'.before = Pool /\ Tables' = Tables
  BY <1>2 DEF Perform, Tables
<1>10. ~Free'
  <2>1. Len(<< >>) = 0
    OBVIOUS
  <2>2. task'.ops # << >>
    BY <1>7, <1>9, <2>1, Zenon
  <2> QED
    BY <2>2 DEF Free, FreeTask
<1>11. \A k \in Services : Pool'[k] \subseteq Pool[k]
  BY <1>4 DEF Pool
<1>12. Announced(Lbs')
  BY <1>2, <1>3
<1> QED
  BY <1>2, <1>3, <1>4, <1>8, <1>9, <1>10, <1>11, <1>12 DEF OpSeen

\* A guest moves between operations.
LEMMA SeenMove ==
    ASSUME MapInv, NEW b \in DOMAIN Guests, MoveGuest(b)
    PROVE  OpSeen
<1>1. Free /\ UNCHANGED <<nextTable, task>> /\ Announced(Lbs)
  BY DEF MoveGuest, Called
<1>2. Lbs' = Lbs /\ LB' = LB /\ MG' = MG
  BY TabChange DEF MoveGuest, MapInv, Tabs
<1>3. Pool' = Pool
  BY <1>2, PoolKept
<1>4. Free' /\ Tables' = Tables /\ Announced(Lbs')
  BY <1>1, <1>2 DEF Free, Tables
<1> QED
  BY <1>1, <1>2, <1>3, <1>4 DEF OpSeen

\* A service's table holds backends of its pool, or of the one before.
LEMMA SlotMay ==
    ASSUME MapInv, OldInv, NEW k \in DOMAIN LB
    PROVE  /\ Holds(LB[k], Pool[k] \cup Old[k])
           /\ k \in Services /\ LB[k] \in Tables
<1>1. TabInv /\ SlotInv /\ KeyInv
  BY DEF MapInv
<1>2. k \in Services /\ LB[k] \in Tables
  BY <1>1, LbKeysAreServices DEF TabInv
<1>3. CASE ~Free /\ LB[k] = task.table
  BY <1>2, <1>3 DEF OldInv, Old
<1>4. CASE Free \/ LB[k] # task.table
  <2> SUFFICES ASSUME NEW s \in Slots, <<LB[k], s>> \in DOMAIN MG
               PROVE  MG[<<LB[k], s>>] \in Pool[k]
    BY <1>2 DEF Holds
  <2>1. PICK id \in DOMAIN Lbs : Lbs[id].table = LB[k]
    BY <1>1, <1>4 DEF SlotInv
  <2>2. k \in Keys(Lbs[id])
    BY <1>1, <2>1 DEF KeyInv
  <2>3. TableExact(MG, broken, Lbs[id])
    BY <1>1, <1>4, <2>1 DEF SlotInv
  <2>4. Lbs[id].backends \in Seq(Backends) /\ IsInjective(Lbs[id].backends) /\ M \in Nat
    BY <1>1, LbAssumption DEF TabInv, EntryOK
  <2>5. Lbs[id].backends # << >>
    BY <2>1, <2>3, <2>4 DEF TableExact, FilledTo, Slots
  <2>6. MG[<<LB[k], s>>] = Build(Lbs[id].backends)[s]
    BY <2>1, <2>3, <2>5 DEF TableExact, FilledTo
  <2>7. Build(Lbs[id].backends) \in [Slots -> Range(Lbs[id].backends)]
    BY <2>4, <2>5, MaglevTable
  <2> QED
    BY <1>2, <2>2, <2>6, <2>7, InPool
<1> QED
  BY <1>2, <1>3, <1>4

\* The backends before or after a write.
LEMMA OldSeen ==
    ASSUME WriteSeen
    PROVE  Pool' = Pool /\ Old' \in {Pool, Old} /\ (~Free' => Old' = Old)
  BY DEF WriteSeen, Old

\* A write leaves backends of before or of now in the table.
LEMMA WriteKeepsOld ==
    ASSUME MapInv, OldInv, WriteSeen
    PROVE  OldInv'
<1> SUFFICES ASSUME ~Free', NEW k \in DOMAIN LB', LB'[k] = task'.table,
                    NEW s \in Slots, <<task'.table, s>> \in DOMAIN MG'
             PROVE  MG'[<<task'.table, s>>] \in Pool'[k] \cup task'.before[k]
  BY DEF OldInv, Holds
<1> DEFINE t == task.table
<1>1. Pool' = Pool /\ task'.table = t /\ task'.before = task.before /\ ~Free
  BY DEF WriteSeen
<1>2. k \in DOMAIN LB /\ LB[k] = t
  BY <1>1 DEF WriteSeen
<1>3. k \in Services
  BY <1>2, LbKeysAreServices DEF MapInv, TabInv
<1>4. CASE <<t, s>> \in DOMAIN MG /\ MG'[<<t, s>>] = MG[<<t, s>>]
  BY <1>1, <1>2, <1>4 DEF OldInv, Holds
<1>5. ASSUME NEW id \in DOMAIN Lbs, Lbs[id].table = t, MG'[<<t, s>>] \in Range(Lbs[id].backends)
      PROVE  MG'[<<t, s>>] \in Pool[k]
  <2>1. k \in Keys(Lbs[id])
    BY <1>2, <1>5 DEF MapInv, KeyInv
  <2> QED
    BY <1>3, <1>5, <2>1, InPool
<1>6. \/ <<t, s>> \in DOMAIN MG /\ MG'[<<t, s>>] = MG[<<t, s>>]
      \/ \E id \in DOMAIN Lbs : Lbs[id].table = <<t, s>>[1] /\ MG'[<<t, s>>] \in Range(Lbs[id].backends)
  BY <1>1 DEF WriteSeen
<1> QED
  BY <1>1, <1>4, <1>5, <1>6

\* A packet under way is for a service.
LEMMA BusyService ==
    ASSUME NEW x, Busy(x)
    PROVE  x.svc \in Services
<1>1. x.u.vni \in Vnis /\ x.pkt \in Packets
  BY DEF Busy, Places, Marks, Vnis
<1> QED
  BY <1>1 DEF Services, Busy

\* A write keeps what is known of a packet under way.
LEMMA WriteKeepsCpu ==
    ASSUME MapInv, WriteSeen, NEW x, CpuOK(x)
    PROVE  CpuOK(x)'
<1>1. Pool' = Pool /\ Old' \in {Pool, Old}
  BY OldSeen
<1>2. ASSUME Busy(x) PROVE Busy(x)'
  BY <1>1, <1>2 DEF Busy
<1>3. ASSUME Busy(x), Reading(x) PROVE Reading(x)'
  <2>1. Tables' = Tables /\ x.table \in Tables
    BY <1>3 DEF WriteSeen, Tables, Reading
  <2>2. x.svc \in Services /\ Pool[x.svc] \subseteq x.may
    BY <1>3, BusyService DEF Busy
  <2>3. Holds(x.table, x.may)'
    <3> SUFFICES ASSUME NEW s \in Slots, <<x.table, s>> \in DOMAIN MG'
                 PROVE  MG'[<<x.table, s>>] \in x.may
      BY DEF Holds
    <3>1. CASE <<x.table, s>> \in DOMAIN MG /\ MG'[<<x.table, s>>] = MG[<<x.table, s>>]
      BY <1>3, <3>1 DEF Reading, Holds
    <3>2. ASSUME NEW id \in DOMAIN Lbs, Lbs[id].table = x.table,
                 MG'[<<x.table, s>>] \in Range(Lbs[id].backends)
          PROVE  MG'[<<x.table, s>>] \in x.may
      BY <1>3, <2>2, <3>2, InPool DEF Reading
    <3>3. \/ <<x.table, s>> \in DOMAIN MG /\ MG'[<<x.table, s>>] = MG[<<x.table, s>>]
          \/ \E id \in DOMAIN Lbs : Lbs[id].table = <<x.table, s>>[1]
                                      /\ MG'[<<x.table, s>>] \in Range(Lbs[id].backends)
      BY DEF WriteSeen
    <3> QED
      BY <3>1, <3>2, <3>3
  <2>4. \A id \in DOMAIN Lbs' : Lbs'[id].table = x.table => x.svc \in Keys(Lbs'[id])
    <3> SUFFICES ASSUME NEW id \in DOMAIN Lbs', Lbs'[id].table = x.table
                 PROVE  x.svc \in Keys(Lbs'[id])
      OBVIOUS
    <3>1. CASE id \in DOMAIN Lbs /\ Lbs'[id] = Lbs[id]
      BY <1>3, <3>1 DEF Reading
    <3>2. ASSUME NEW i \in 1..Len(task.ops), task.ops[i].op = "put", task.ops[i].tab = "lbs",
                 task.ops[i].val = Lbs'[id], Lbs'[id].table = task.table
          PROVE  x.svc \in Keys(Lbs'[id])
      BY <1>3, <3>2 DEF Reading, WriteSeen
    <3> QED
      BY <3>1, <3>2 DEF WriteSeen
  <2>5. ASSUME ~Free', task'.table = x.table, NEW i \in 1..Len(task'.ops),
               task'.ops[i].op = "put", task'.ops[i].tab = "lbs"
        PROVE  x.svc \in Keys(task'.ops[i].val)
    <3>1. task.table = x.table /\ ~Free
      BY <2>5 DEF WriteSeen
    <3>2. PICK j \in 1..Len(task.ops) : task'.ops[i] = task.ops[j]
      BY <2>5 DEF WriteSeen
    <3> QED
      BY <1>3, <2>5, <3>1, <3>2 DEF Reading
  <2> QED
    BY <2>1, <2>3, <2>4, <2>5 DEF Reading
<1>4. x.pc \in {"slot", "errslot"} => x.pc # "idle"
  OBVIOUS
<1> QED
  BY <1>2, <1>3, <1>4 DEF CpuOK

\* The table that an operation starts to change holds what it held.
LEMMA OpKeepsOld ==
    ASSUME MapInv, OldInv, OpSeen
    PROVE  OldInv'
<1> SUFFICES ASSUME ~Free', NEW k \in DOMAIN LB', LB'[k] = task'.table,
                    NEW s \in Slots, <<task'.table, s>> \in DOMAIN MG'
             PROVE  MG'[<<task'.table, s>>] \in Pool'[k] \cup task'.before[k]
  BY DEF OldInv, Holds
<1>1. Free /\ LB' = LB /\ MG' = MG /\ task'.before = Pool
  BY DEF OpSeen
<1>2. Holds(LB[k], Pool[k] \cup Old[k])
  BY <1>1, SlotMay
<1> QED
  BY <1>1, <1>2 DEF Holds, Old

\* One field of a CPU's record changes.
Sets(x, f, v, y) == y = [x EXCEPT ![f] = v]

\* The other fields keep their values.
LEMMA CpuUpdate ==
    ASSUME NEW x, IsCpu(x), NEW f \in CpuFields, NEW v, NEW y, Sets(x, f, v, y)
    PROVE  IsCpu(y) /\ y[f] = v /\ \A g \in CpuFields \ {f} : y[g] = x[g]
  BY DEF IsCpu, Sets

\* The record of a CPU after an announcement.
Hears(x, P, y) == y = [x EXCEPT !.quiet = FALSE, !.may = IF x.pc = "idle" THEN @ ELSE @ \cup P]
HeardFrom(x, P, y) ==
    /\ IsCpu(y) /\ y.pc = x.pc /\ y.pkt = x.pkt /\ y.u = x.u /\ y.svc = x.svc
    /\ y.table = x.table /\ y.got = x.got /\ y.quiet = FALSE /\ y.verdict = x.verdict
    /\ y.may = IF x.pc = "idle" THEN x.may ELSE x.may \cup P

\* Its fields, one by one.
LEMMA AnnouncedFields ==
    ASSUME NEW x, IsCpu(x), NEW P, NEW y, Hears(x, P, y)
    PROVE  HeardFrom(x, P, y)
<1>1. PICK v : v = FALSE
  BY Zenon
<1>2. PICK z : Sets(x, "quiet", v, z)
  BY DEF Sets
<1>3. PICK m : m = IF x.pc = "idle" THEN x.may ELSE x.may \cup P
  OBVIOUS
<1>4. Sets(z, "may", m, y)
  BY <1>1, <1>2, <1>3, Zenon DEF Hears, Sets
<1>5. {"quiet", "may"} \subseteq CpuFields
  BY DEF CpuFields
<1>6. IsCpu(z) /\ z["quiet"] = v /\ \A g \in CpuFields \ {"quiet"} : z[g] = x[g]
  BY <1>2, <1>5, CpuUpdate
<1>7. IsCpu(y) /\ y["may"] = m /\ \A g \in CpuFields \ {"may"} : y[g] = z[g]
  BY <1>4, <1>5, <1>6, CpuUpdate
<1>8. y["quiet"] = v
  BY <1>5, <1>6, <1>7
<1>9. y.quiet = FALSE
  BY <1>1, <1>8, Zenon
<1>10. \A g \in CpuFields \ {"quiet", "may"} : y[g] = x[g]
  BY <1>6, <1>7
<1> QED
  BY <1>3, <1>7, <1>9, <1>10 DEF HeardFrom, CpuFields

\* The start of an operation keeps what is known of a packet under way.
LEMMA OpKeepsCpu ==
    ASSUME MapInv, MapInv', OpSeen, CpuInv
    PROVE  /\ CpuInv' /\ QuietInv'
           /\ \A c \in Cpus :
                 /\ cpu'[c].pc = cpu[c].pc /\ cpu'[c].svc = cpu[c].svc /\ cpu'[c].got = cpu[c].got
                 /\ cpu[c].pc # "idle" => cpu'[c].may = cpu[c].may \cup Pool'[cpu[c].svc]
<1>1. Free /\ LB' = LB /\ MG' = MG /\ Tables \subseteq Tables' /\ Announced(Lbs')
  BY DEF OpSeen
<1>2. Pool \in [Services -> SUBSET Backends] /\ Pool' \in [Services -> SUBSET Backends]
  BY PoolType, PoolTypeNext DEF MapInv
<1>3. Pool' = [k \in Services |->
                 UNION {Range(Lbs'[i].backends) : i \in {j \in DOMAIN Lbs' : k \in Keys(Lbs'[j])}}]
  BY DEF Pool
<1> DEFINE rec(c) ==
       [cpu[c] EXCEPT
          !.quiet = FALSE,
          !.may = IF cpu[c].pc = "idle" THEN @
                  ELSE @ \cup UNION {Range(Lbs'[id].backends) :
                                       id \in {i \in DOMAIN Lbs' : cpu[c].svc \in Keys(Lbs'[i])}}]
<1>0. cpu' = [c \in Cpus |-> rec(c)]
  BY <1>1, Zenon DEF Announced
<1>4. ASSUME NEW c \in Cpus
      PROVE  /\ CpuOK(cpu[c])' /\ cpu'[c].quiet = FALSE
             /\ cpu'[c].pc = cpu[c].pc /\ cpu'[c].svc = cpu[c].svc /\ cpu'[c].got = cpu[c].got
             /\ cpu[c].pc # "idle" => cpu'[c].may = cpu[c].may \cup Pool'[cpu[c].svc]
  <2>1. PICK x : x = cpu[c]
    OBVIOUS
  <2>2. PICK P : P = UNION {Range(Lbs'[id].backends) :
                              id \in {i \in DOMAIN Lbs' : x.svc \in Keys(Lbs'[i])}}
    OBVIOUS
  <2>3. PICK y : y = cpu'[c]
    OBVIOUS
  <2>4. Hears(x, P, y)
    <3>1. y = rec(c)
      <4> HIDE DEF rec
      <4> QED
        BY <1>0, <2>3
    <3> QED
      BY <2>1, <2>2, <3>1, Zenon DEF Hears
  <2>5. CpuOK(x)
    BY <2>1 DEF CpuInv
  <2> DEFINE m == IF x.pc = "idle" THEN x.may ELSE x.may \cup P
  <2>6. /\ IsCpu(y) /\ y.pc = x.pc /\ y.pkt = x.pkt /\ y.u = x.u /\ y.svc = x.svc
        /\ y.table = x.table /\ y.got = x.got /\ y.may = m /\ y.quiet = FALSE
    <3>1. IsCpu(x)
      BY <2>5 DEF CpuOK
    <3>2. HeardFrom(x, P, y)
      BY <2>4, <3>1, AnnouncedFields
    <3> QED
      BY <3>2, Zenon DEF HeardFrom
  <2>7. CASE x.pc = "idle"
    <3>1. m = x.may
      BY <2>2, <2>7
    <3>2. CpuOK(y)'
      BY <2>5, <2>6, <2>7, <3>1 DEF CpuOK
    <3> QED
      BY <2>1, <2>3, <2>6, <2>7, <3>2
  <2>8. CASE x.pc # "idle"
    <3>1. Busy(x) /\ x.svc \in Services
      BY <2>5, <2>8, BusyService DEF CpuOK
    <3>2. m = x.may \cup Pool'[x.svc]
      BY <1>3, <2>2, <2>8, <3>1
    <3>3. Old = Pool /\ (Old' = Pool \/ Old' = Pool')
      BY DEF OpSeen, Old
    <3>4. Busy(y)'
      <4>1. Pool[x.svc] \subseteq m /\ Pool'[x.svc] \subseteq m
        BY <3>1, <3>2, <3>3 DEF Busy
      <4>2. Pool'[y.svc] \cup Old'[y.svc] \subseteq y.may
        BY <2>6, <3>3, <4>1
      <4> QED
        BY <2>6, <3>1, <4>2 DEF Busy
    <3>5. ASSUME Reading(x) PROVE Reading(y)'
      <4>1. y.table \in Tables'
        BY <1>1, <2>6, <3>5 DEF Reading
      <4>2. Holds(y.table, y.may)'
        BY <1>1, <2>6, <3>2, <3>5 DEF Reading, Holds
      <4>3. \A id \in DOMAIN Lbs' : Lbs'[id].table = y.table => y.svc \in Keys(Lbs'[id])
        BY <2>6, <3>5 DEF Reading, OpSeen
      <4>4. ASSUME ~Free', task'.table = y.table
            PROVE  \A i \in 1..Len(task'.ops) : ~(task'.ops[i].op = "put" /\ task'.ops[i].tab = "lbs")
        BY <2>6, <3>5, <4>4 DEF Reading, OpSeen
      <4> QED
        BY <4>1, <4>2, <4>3, <4>4 DEF Reading
    <3>6. m \subseteq Backends
      BY <1>2, <2>5, <3>1, <3>2 DEF CpuOK
    <3>7. CpuOK(y)'
      BY <2>5, <2>6, <3>2, <3>4, <3>5, <3>6 DEF CpuOK
    <3> QED
      BY <2>1, <2>3, <2>6, <2>8, <3>2, <3>7
  <2> QED
    BY <2>7, <2>8
<1> HIDE DEF rec
<1>5. cpu' = [c \in Cpus |-> cpu'[c]]
  BY <1>0
<1>6. CpuInv' /\ QuietInv'
  BY <1>4, <1>5 DEF CpuInv, QuietInv, QuietOK
<1> QED
  BY <1>4, <1>6

\* Two fields of a CPU's record change.
LEMMA CpuUpdates ==
    ASSUME NEW x, IsCpu(x), NEW a, NEW f \in CpuFields \ {"pc"}, NEW v, NEW z, Sets(x, "pc", a, z),
           NEW y, Sets(z, f, v, y)
    PROVE  IsCpu(y) /\ y.pc = a /\ y[f] = v /\ \A g \in CpuFields \ {"pc", f} : y[g] = x[g]
<1>1. "pc" \in CpuFields
  BY DEF CpuFields
<1>2. IsCpu(z) /\ z["pc"] = a /\ \A g \in CpuFields \ {"pc"} : z[g] = x[g]
  BY <1>1, CpuUpdate
<1>3. IsCpu(y) /\ y[f] = v /\ \A g \in CpuFields \ {f} : y[g] = z[g]
  BY <1>2, CpuUpdate
<1> QED
  BY <1>1, <1>2, <1>3

\* The records that a step of a packet leaves.
Moved(x, y) == IsCpu(y) /\ \A g \in {"pkt", "u", "svc", "may", "quiet"} : y[g] = x[g]
Finished(x, y) == IsCpu(y) /\ \A g \in {"pkt", "u", "svc", "quiet"} : y[g] = x[g]
ToPc(x, a, y) == y = [x EXCEPT !.pc = a]
ToTable(x, a, t, y) == y = [x EXCEPT !.pc = a, !.table = t]
ToBackend(x, a, b, y) == y = [x EXCEPT !.pc = a, !.got = b]
ToIdle(x, b, v, y) == y = [x EXCEPT !.pc = "idle", !.may = {}, !.got = b, !.verdict = v]

\* The packet goes on to another lookup.
LEMMA PcStep ==
    ASSUME NEW x, IsCpu(x), NEW a, NEW y, ToPc(x, a, y)
    PROVE  Moved(x, y) /\ y.pc = a /\ y.table = x.table /\ y.got = x.got
<1>1. Sets(x, "pc", a, y) /\ "pc" \in CpuFields
  BY DEF Sets, CpuFields, ToPc
<1>2. IsCpu(y) /\ y["pc"] = a /\ \A g \in CpuFields \ {"pc"} : y[g] = x[g]
  BY <1>1, CpuUpdate
<1> QED
  BY <1>2 DEF Moved, CpuFields

\* It has found a table.
LEMMA TableStep ==
    ASSUME NEW x, IsCpu(x), NEW a, NEW t, NEW y, ToTable(x, a, t, y)
    PROVE  Moved(x, y) /\ y.pc = a /\ y.table = t /\ y.got = x.got
<1>1. PICK z : Sets(x, "pc", a, z)
  BY DEF Sets
<1>2. Sets(z, "table", t, y) /\ "table" \in CpuFields \ {"pc"}
  BY <1>1 DEF Sets, CpuFields, ToTable
<1>3. IsCpu(y) /\ y.pc = a /\ y["table"] = t /\ \A g \in CpuFields \ {"pc", "table"} : y[g] = x[g]
  BY <1>1, <1>2, CpuUpdates
<1> QED
  BY <1>3 DEF Moved, CpuFields

\* It has found a backend.
LEMMA GotStep ==
    ASSUME NEW x, IsCpu(x), NEW a, NEW b, NEW y, ToBackend(x, a, b, y)
    PROVE  Moved(x, y) /\ y.pc = a /\ y.table = x.table /\ y.got = b
<1>1. PICK z : Sets(x, "pc", a, z)
  BY DEF Sets
<1>2. Sets(z, "got", b, y) /\ "got" \in CpuFields \ {"pc"}
  BY <1>1 DEF Sets, CpuFields, ToBackend
<1>3. IsCpu(y) /\ y.pc = a /\ y["got"] = b /\ \A g \in CpuFields \ {"pc", "got"} : y[g] = x[g]
  BY <1>1, <1>2, CpuUpdates
<1> QED
  BY <1>3 DEF Moved, CpuFields

\* It has left.
LEMMA DoneStep ==
    ASSUME NEW x, IsCpu(x), NEW b, NEW v, NEW y, ToIdle(x, b, v, y)
    PROVE  Finished(x, y) /\ y.pc = "idle" /\ y.may = {} /\ y.got = b /\ y.verdict = v
<1>1. PICK z1 : Sets(x, "pc", "idle", z1)
  BY DEF Sets
<1>2. PICK z2 : Sets(z1, "may", {}, z2)
  BY DEF Sets
<1>3. PICK z3 : Sets(z2, "got", b, z3)
  BY DEF Sets
<1>4. Sets(z3, "verdict", v, y)
  BY <1>1, <1>2, <1>3 DEF Sets, ToIdle
<1>5. "may" \in CpuFields \ {"pc"} /\ "got" \in CpuFields /\ "verdict" \in CpuFields
  BY DEF CpuFields
<1>6. IsCpu(z2) /\ z2.pc = "idle" /\ z2["may"] = {}
      /\ \A g \in CpuFields \ {"pc", "may"} : z2[g] = x[g]
  BY <1>1, <1>2, <1>5, CpuUpdates
<1>7. IsCpu(z3) /\ z3["got"] = b /\ \A g \in CpuFields \ {"got"} : z3[g] = z2[g]
  BY <1>3, <1>5, <1>6, CpuUpdate
<1>8. IsCpu(y) /\ y["verdict"] = v /\ \A g \in CpuFields \ {"verdict"} : y[g] = z3[g]
  BY <1>4, <1>5, <1>7, CpuUpdate
<1> QED
  BY <1>6, <1>7, <1>8 DEF Finished, CpuFields

\* No service is an ICMP one.
LEMMA NotIcmp ==
    ASSUME NEW vni, NEW a, NEW port, NEW proto, Key(vni, a, port, proto) \in LbKeys
    PROVE  proto \notin {ICMP, ICMPV6}
<1>1. PICK r \in Requests : Accepted(r) /\ Key(vni, a, port, proto) \in Keys(r)
  BY DEF LbKeys
<1>2. PICK i \in DOMAIN r.ports :
         Key(vni, a, port, proto) = Key(r.vni, Last4(r.ip), r.ports[i][1], r.ports[i][2])
  BY <1>1 DEF Keys
<1>3. proto = r.ports[i][2]
  BY <1>2 DEF Key
<1> QED
  BY <1>1, <1>3 DEF Accepted

\* The slot of a packet.
LEMMA SlotOf ==
    ASSUME NEW p \in Packets
    PROVE  Hash(FlowOf(p)) % M \in Slots
<1>1. Hash(FlowOf(p)) \in Nat /\ M \in Nat /\ M > 1
  BY LbAssumption DEF FlowOf
<1> QED
  BY <1>1 DEF Slots

\* What a step of a packet comes to.
Goes(x, y) == x.pc # "idle" /\ y.pc # "idle" /\ y.svc = x.svc /\ y.may = x.may
Leaves(x, y) == x.pc # "idle" /\ y.pc = "idle" /\ y.got \in x.may \cup {None}
Enters(x, y) == x.pc = "idle" /\ y.pc # "idle" /\ y.may = Pool[y.svc] \cup Old[y.svc]
StepOK(x, y) == CpuOK(y) /\ QuietOK(y) /\ (Goes(x, y) \/ Leaves(x, y) \/ Enters(x, y))
DatapathSeen(c) == \E y : cpu' = [cpu EXCEPT ![c] = y] /\ StepOK(cpu[c], y)

\* What is known of a packet is known after its step, if it is still there.
LEMMA MovedBusy ==
    ASSUME NEW x, NEW y, Moved(x, y), Busy(x)
    PROVE  Busy(y) /\ y.pkt = x.pkt /\ y.svc = x.svc /\ y.may = x.may
<1>1. y.pkt = x.pkt /\ y.u = x.u /\ y.svc = x.svc /\ y.may = x.may
  BY DEF Moved
<1> QED
  BY <1>1 DEF Busy

\* A packet leaves with the outcome the maps give.
LEMMA Departs ==
    ASSUME NEW x, CpuOK(x), x.pc # "idle", NEW b, NEW v, NEW y, ToIdle(x, b, v, y),
           b \in x.may \cup {None}, x.quiet => Free /\ v = Outcome(x)
    PROVE  StepOK(x, y)
<1>1. IsCpu(x) /\ x.may \subseteq Backends
  BY DEF CpuOK
<1>2. Finished(x, y) /\ y.pc = "idle" /\ y.may = {} /\ y.got = b /\ y.verdict = v
  BY <1>1, DoneStep
<1>3. IsCpu(y) /\ y.pkt = x.pkt /\ y.u = x.u /\ y.svc = x.svc /\ y.quiet = x.quiet
  BY <1>2 DEF Finished
<1>4. CpuOK(y)
  BY <1>1, <1>2, <1>3 DEF CpuOK, Pcs
<1>5. Outcome(y) = Outcome(x)
  BY <1>3 DEF Outcome
<1>6. QuietOK(y)
  BY <1>2, <1>3, <1>5 DEF QuietOK, CpuOK, Busy
<1> QED
  BY <1>2, <1>4, <1>6 DEF StepOK, Leaves

\* A lookup in LB succeeds.
LEMMA FindsTable ==
    ASSUME MapInv, OldInv, NEW x, CpuOK(x), QuietOK(x), x.pc # "idle", x.svc \in DOMAIN LB,
           Selectable(x.pkt), NEW a, a \in {"slot", "errslot"}, a = "errslot" <=> x.pkt.kind = "err",
           NEW y, ToTable(x, a, LB[x.svc], y)
    PROVE  StepOK(x, y)
<1>1. IsCpu(x) /\ Busy(x)
  BY DEF CpuOK
<1>2. Moved(x, y) /\ y.pc = a /\ y.table = LB[x.svc] /\ y.got = x.got
  BY <1>1, TableStep
<1>3. IsCpu(y) /\ y.pkt = x.pkt /\ y.u = x.u /\ y.svc = x.svc /\ y.may = x.may /\ y.quiet = x.quiet
  BY <1>2 DEF Moved
<1>4. Busy(y)
  BY <1>1, <1>2, MovedBusy
<1>5. Holds(LB[x.svc], Pool[x.svc] \cup Old[x.svc]) /\ LB[x.svc] \in Tables
  BY SlotMay
<1>6. Reading(y)
  <2>1. Holds(y.table, y.may)
    BY <1>1, <1>2, <1>3, <1>5 DEF Holds, Busy
  <2>2. \A id \in DOMAIN Lbs : Lbs[id].table = y.table => y.svc \in Keys(Lbs[id])
    BY <1>2, <1>3 DEF MapInv, KeyInv
  <2>3. ASSUME ~Free, task.table = y.table, NEW i \in 1..Len(task.ops),
               task.ops[i].op = "put", task.ops[i].tab = "lbs"
        PROVE  y.svc \in Keys(task.ops[i].val)
    <3> DEFINE n == Len(task.ops)
    <3>0. n \in Nat
      BY <2>3, TaskFacts DEF MapInv
    <3>1. ASSUME NEW r \in Requests, Creating(r) PROVE y.svc \in Keys(task.ops[i].val)
      <4>1. /\ task.ops[n] = Put("lbs", r.id, Entry(r, task.table))
            /\ \A j \in 1..(n - 1) :
                  \/ \E k \in Keys(r) : task.ops[j] = Put("lb", k, task.table)
                  \/ task.ops[j] = Put("underlay", UnderlayOf(r), [vni |-> r.vni, tap |-> 0])
            /\ \A k \in DOMAIN LB : LB[k] = task.table => k \in Keys(r)
        BY <3>1 DEF Creating
      <4>2. y.svc \in Keys(r)
        BY <1>2, <1>3, <2>3, <4>1
      <4> HIDE DEF n
      <4>3. i \in 1..n
        BY DEF n
      <4>4. CASE i \in 1..(n - 1)
        <5>1. CASE \E k \in Keys(r) : task.ops[i] = Put("lb", k, task.table)
          BY <2>3, <5>1 DEF Put
        <5>2. CASE task.ops[i] = Put("underlay", UnderlayOf(r), [vni |-> r.vni, tap |-> 0])
          BY <2>3, <5>2 DEF Put
        <5> QED
          BY <4>1, <4>4, <5>1, <5>2
      <4>5. CASE i = n
        <5>1. PICK e : e = Entry(r, task.table)
          OBVIOUS
        <5>2. task.ops[i].val = e
          BY <4>1, <4>5, <5>1 DEF Put
        <5>3. Keys(e) = Keys(r)
          BY <5>1, EntryFields
        <5> QED
          BY <4>2, <5>2, <5>3
      <4> QED
        BY <3>0, <4>3, <4>4, <4>5
    <3>2. ASSUME NEW id \in DOMAIN Lbs, Rewriting(id) PROVE FALSE
      <4> DEFINE k == <<task.table, M - n + i - 1>>
                 v == Build(Lbs[id].backends)[M - n + i - 1]
      <4>1. task.ops[i] = Put("maglev", k, v)
        BY <3>2 DEF Rewriting
      <4> HIDE DEF k, v
      <4> QED
        BY <2>3, <4>1 DEF Put
    <3>3. ~Removing
      <4> SUFFICES ASSUME Removing PROVE FALSE
        OBVIOUS
      <4>1. CASE \E s \in Slots : task.ops[i] = Del("maglev", <<task.table, s>>)
        BY <2>3, <4>1 DEF Del
      <4>2. CASE \E k \in LbKeys : task.ops[i] = Del("lb", k)
        BY <2>3, <4>2 DEF Del
      <4> QED
        BY <4>1, <4>2 DEF Removing
    <3> QED
      BY <2>3, <3>1, <3>2, <3>3 DEF MapInv, TaskInv
  <2> QED
    BY <1>2, <1>5, <2>1, <2>2, <2>3 DEF Reading
<1>7. CpuOK(y)
  BY <1>2, <1>3, <1>4, <1>6 DEF CpuOK, Pcs
<1>8. QuietOK(y)
  BY <1>2, <1>3 DEF QuietOK
<1> QED
  BY <1>2, <1>3, <1>7, <1>8 DEF StepOK, Goes

\* lb_select_forward.
LEMMA SeenLbLookup ==
    ASSUME MapInv, OldInv, CpuInv, QuietInv, NEW c \in Cpus, LbLookup(c)
    PROVE  DatapathSeen(c)
<1>1. PICK x : x = cpu[c]
  OBVIOUS
<1>2. CpuOK(x) /\ QuietOK(x) /\ x.pc = "lb"
  BY <1>1 DEF CpuInv, QuietInv, LbLookup
<1>3. x.pkt \in Packets /\ x.svc = ServiceOf(x.u.vni, x.pkt) /\ IsCpu(x)
  BY <1>2 DEF CpuOK, Busy
<1>4. PICK k : k = HdrKey(x.u.vni, x.pkt.hdr)
  OBVIOUS
<1>5. PICK hit \in BOOLEAN : hit <=> (Looked(x.pkt) /\ k \in DOMAIN LB)
  BY Zenon
<1>6. \/ hit /\ Step(c, [x EXCEPT !.pc = "slot", !.table = LB[k]])
      \/ ~hit /\ x.pkt.kind = "err" /\ Step(c, [x EXCEPT !.pc = "errlb"])
      \/ ~hit /\ x.pkt.kind # "err" /\ NoSelection(c)
  BY <1>1, <1>4, <1>5, Zenon DEF LbLookup, LB
<1>7. x.pkt.kind # "err" => x.svc = k /\ (Selectable(x.pkt) <=> Looked(x.pkt))
  BY <1>3, <1>4 DEF ServiceOf, Selectable
<1>8. CASE hit /\ Step(c, [x EXCEPT !.pc = "slot", !.table = LB[k]])
  <2>1. PICK y : ToTable(x, "slot", LB[k], y)
    BY DEF ToTable
  <2>2. cpu' = [cpu EXCEPT ![c] = y]
    BY <1>8, <2>1 DEF Step, ToTable
  <2>3. k \in LbKeys /\ k \in DOMAIN LB /\ Looked(x.pkt)
    BY <1>5, <1>8 DEF MapInv, TabInv
  <2>4. x.pkt.kind # "err"
    <3>1. x.pkt.hdr.proto # ICMP
      BY <1>4, <2>3, NotIcmp DEF HdrKey
    <3> QED
      BY <1>3, <3>1, LbAssumption
  <2>5. x.svc = k /\ Selectable(x.pkt)
    BY <1>7, <2>3, <2>4
  <2>6. "slot" \in {"slot", "errslot"} /\ x.pc # "idle" /\ ("slot" = "errslot" <=> x.pkt.kind = "err")
    BY <1>2, <2>4
  <2>7. ToTable(x, "slot", LB[x.svc], y) /\ x.svc \in DOMAIN LB
    BY <2>1, <2>3, <2>5
  <2>8. StepOK(x, y)
    BY <1>2, <2>5, <2>6, <2>7, FindsTable
  <2> QED
    BY <1>1, <2>2, <2>8 DEF DatapathSeen
<1>9. CASE ~hit /\ x.pkt.kind = "err" /\ Step(c, [x EXCEPT !.pc = "errlb"])
  <2>1. PICK y : ToPc(x, "errlb", y)
    BY DEF ToPc
  <2>2. cpu' = [cpu EXCEPT ![c] = y]
    BY <1>9, <2>1 DEF Step, ToPc
  <2>3. Moved(x, y) /\ y.pc = "errlb" /\ y.got = x.got
    BY <1>3, <2>1, PcStep
  <2>4. IsCpu(y) /\ y.pkt = x.pkt /\ y.svc = x.svc /\ y.may = x.may /\ y.quiet = x.quiet
    BY <2>3 DEF Moved
  <2>5. Busy(y)
    BY <1>2, <2>3, MovedBusy DEF CpuOK
  <2>6. CpuOK(y)
    BY <1>2, <1>9, <2>3, <2>4, <2>5 DEF CpuOK, Pcs
  <2>7. QuietOK(y)
    BY <1>2, <2>3, <2>4 DEF QuietOK
  <2>8. StepOK(x, y)
    BY <1>2, <2>3, <2>4, <2>6, <2>7 DEF StepOK, Goes
  <2> QED
    BY <1>1, <2>2, <2>8 DEF DatapathSeen
<1>10. CASE ~hit /\ x.pkt.kind # "err" /\ NoSelection(c)
  <2> DEFINE v == Fallback(x.pkt, x.u)
  <2>1. PICK y : ToIdle(x, None, v, y)
    BY DEF ToIdle
  <2>2. cpu' = [cpu EXCEPT ![c] = y]
    BY <1>1, <1>10, <2>1 DEF NoSelection, Done, Step, ToIdle
  <2>3. x.quiet => Free /\ v = Outcome(x)
    BY <1>2, <1>5, <1>7, <1>10 DEF QuietOK, Outcome
  <2> HIDE DEF v
  <2>4. StepOK(x, y)
    BY <1>2, <2>1, <2>3, Departs
  <2> QED
    BY <1>1, <2>2, <2>4 DEF DatapathSeen
<1> QED
  BY <1>6, <1>8, <1>9, <1>10

\* The lookup in MAGLEV.
LEMMA SeenSlotLookup ==
    ASSUME MapInv, OldInv, CpuInv, QuietInv, NEW c \in Cpus, SlotLookup(c)
    PROVE  DatapathSeen(c)
<1>1. PICK x : x = cpu[c]
  OBVIOUS
<1>2. CpuOK(x) /\ QuietOK(x) /\ x.pc = "slot"
  BY <1>1 DEF CpuInv, QuietInv, SlotLookup
<1>3. x.pkt \in Packets /\ IsCpu(x) /\ x.pkt.kind # "err" /\ Reading(x)
  BY <1>2 DEF CpuOK, Busy
<1>4. PICK h : h = Hash(x.pkt.hdr) % M
  OBVIOUS
<1>5. PICK s : s = <<x.table, h>>
  OBVIOUS
<1>6. Hash(FlowOf(x.pkt)) % M = h /\ h \in Slots
  <2>1. FlowOf(x.pkt) = x.pkt.hdr
    BY <1>3 DEF FlowOf
  <2> QED
    BY <1>3, <1>4, <2>1, SlotOf
<1>7. \/ s \in DOMAIN MG /\ Step(c, [x EXCEPT !.pc = "backend", !.got = MG[s]])
      \/ s \notin DOMAIN MG /\ NoSelection(c)
  BY <1>1, <1>4, <1>5, Zenon DEF SlotLookup, MG
<1>8. CASE s \in DOMAIN MG /\ Step(c, [x EXCEPT !.pc = "backend", !.got = MG[s]])
  <2>1. PICK y : ToBackend(x, "backend", MG[s], y)
    BY DEF ToBackend
  <2>2. cpu' = [cpu EXCEPT ![c] = y]
    BY <1>8, <2>1 DEF Step, ToBackend
  <2>3. Moved(x, y) /\ y.pc = "backend" /\ y.got = MG[s] /\ y.table = x.table
    BY <1>3, <2>1, GotStep
  <2>4. IsCpu(y) /\ y.pkt = x.pkt /\ y.svc = x.svc /\ y.may = x.may /\ y.quiet = x.quiet
    BY <2>3 DEF Moved
  <2>5. Busy(y)
    BY <1>2, <2>3, MovedBusy DEF CpuOK
  <2>6. MG[s] \in x.may
    BY <1>3, <1>5, <1>6, <1>8 DEF Reading, Holds
  <2>7. CpuOK(y)
    BY <1>2, <1>3, <2>3, <2>4, <2>5, <2>6 DEF CpuOK, Pcs
  <2>8. QuietOK(y)
    BY <1>2, <1>5, <1>6, <1>8, <2>3, <2>4 DEF QuietOK
  <2>9. StepOK(x, y)
    BY <1>2, <2>3, <2>4, <2>7, <2>8 DEF StepOK, Goes
  <2> QED
    BY <1>1, <2>2, <2>9 DEF DatapathSeen
<1>9. CASE s \notin DOMAIN MG /\ NoSelection(c)
  <2> DEFINE v == Fallback(x.pkt, x.u)
  <2>1. PICK y : ToIdle(x, None, v, y)
    BY DEF ToIdle
  <2>2. cpu' = [cpu EXCEPT ![c] = y]
    BY <1>1, <1>9, <2>1 DEF NoSelection, Done, Step, ToIdle
  <2>3. x.quiet => Free /\ v = Outcome(x)
    BY <1>2, <1>5, <1>6, <1>9 DEF QuietOK, Outcome
  <2> HIDE DEF v
  <2>4. StepOK(x, y)
    BY <1>2, <2>1, <2>3, Departs
  <2> QED
    BY <1>1, <2>2, <2>4 DEF DatapathSeen
<1> QED
  BY <1>7, <1>8, <1>9

\* The lookup of the backend in UNDERLAY.
LEMMA SeenBackendLookup ==
    ASSUME CpuInv, QuietInv, NEW c \in Cpus, BackendLookup(c)
    PROVE  DatapathSeen(c)
<1>1. PICK x : x = cpu[c]
  OBVIOUS
<1>2. CpuOK(x) /\ QuietOK(x) /\ x.pc = "backend"
  BY <1>1 DEF CpuInv, QuietInv, BackendLookup
<1>3. x.got \in x.may /\ x.pkt.kind # "err"
  BY <1>2 DEF CpuOK
<1> DEFINE v == IF x.got \in DOMAIN UL THEN <<"tap", UL[x.got].tap>> ELSE <<"relay", x.got>>
<1>4. PICK y : ToIdle(x, x.got, v, y)
  BY DEF ToIdle
<1>5. Done(c, x.got, v)
  BY <1>1 DEF BackendLookup, UL
<1>6. x.quiet => Free /\ v = Outcome(x)
  BY <1>2, <1>3 DEF QuietOK, Outcome
<1> HIDE DEF v
<1>7. cpu' = [cpu EXCEPT ![c] = y]
  BY <1>1, <1>4, <1>5 DEF Done, Step, ToIdle
<1>8. StepOK(x, y)
  BY <1>2, <1>3, <1>4, <1>6, Departs
<1> QED
  BY <1>1, <1>7, <1>8 DEF DatapathSeen

\* lb_select_forward_icmp_error.
LEMMA SeenErrorLookup ==
    ASSUME MapInv, OldInv, CpuInv, QuietInv, NEW c \in Cpus, ErrorLookup(c)
    PROVE  DatapathSeen(c)
<1>1. PICK x : x = cpu[c]
  OBVIOUS
<1>2. CpuOK(x) /\ QuietOK(x) /\ x.pc = "errlb"
  BY <1>1 DEF CpuInv, QuietInv, ErrorLookup
<1>3. x.pkt.kind = "err" /\ x.svc = ServiceOf(x.u.vni, x.pkt)
  BY <1>2 DEF CpuOK, Busy
<1>4. x.svc = ErrKey(x.u.vni, x.pkt.emb) /\ (Selectable(x.pkt) <=> ErrorLooked(x.pkt))
  BY <1>3 DEF ServiceOf, Selectable
<1>5. PICK hit \in BOOLEAN : hit <=> (Selectable(x.pkt) /\ x.svc \in DOMAIN LB)
  BY Zenon
<1>6. \/ hit /\ Step(c, [x EXCEPT !.pc = "errslot", !.table = LB[x.svc]])
      \/ ~hit /\ NoSelection(c)
  BY <1>1, <1>4, <1>5, Zenon DEF ErrorLookup, LB
<1>7. CASE hit /\ Step(c, [x EXCEPT !.pc = "errslot", !.table = LB[x.svc]])
  <2>1. PICK y : ToTable(x, "errslot", LB[x.svc], y)
    BY DEF ToTable
  <2>2. cpu' = [cpu EXCEPT ![c] = y]
    BY <1>7, <2>1 DEF Step, ToTable
  <2>3. /\ "errslot" \in {"slot", "errslot"} /\ x.pc # "idle"
        /\ ("errslot" = "errslot" <=> x.pkt.kind = "err")
    BY <1>2, <1>3
  <2>4. StepOK(x, y)
    BY <1>2, <1>5, <1>7, <2>1, <2>3, FindsTable
  <2> QED
    BY <1>1, <2>2, <2>4 DEF DatapathSeen
<1>8. CASE ~hit /\ NoSelection(c)
  <2> DEFINE v == Fallback(x.pkt, x.u)
  <2>1. PICK y : ToIdle(x, None, v, y)
    BY DEF ToIdle
  <2>2. cpu' = [cpu EXCEPT ![c] = y]
    BY <1>1, <1>8, <2>1 DEF NoSelection, Done, Step, ToIdle
  <2>3. x.quiet => Free /\ v = Outcome(x)
    BY <1>2, <1>5, <1>8 DEF QuietOK, Outcome
  <2> HIDE DEF v
  <2>4. StepOK(x, y)
    BY <1>2, <2>1, <2>3, Departs
  <2> QED
    BY <1>1, <2>2, <2>4 DEF DatapathSeen
<1> QED
  BY <1>6, <1>7, <1>8

\* The error's lookup in MAGLEV.
LEMMA SeenErrorSlotLookup ==
    ASSUME CpuInv, QuietInv, NEW c \in Cpus, ErrorSlotLookup(c)
    PROVE  DatapathSeen(c)
<1>1. PICK x : x = cpu[c]
  OBVIOUS
<1>2. CpuOK(x) /\ QuietOK(x) /\ x.pc = "errslot"
  BY <1>1 DEF CpuInv, QuietInv, ErrorSlotLookup
<1>3. x.pkt \in Packets /\ x.pkt.kind = "err" /\ Reading(x)
  BY <1>2 DEF CpuOK, Busy
<1>4. PICK s : s = <<x.table, Hash(ErrorFlow(x.pkt)) % M>>
  OBVIOUS
<1>5. s = <<x.table, Hash(FlowOf(x.pkt)) % M>> /\ Hash(FlowOf(x.pkt)) % M \in Slots
  <2>1. FlowOf(x.pkt) = ErrorFlow(x.pkt)
    BY <1>3 DEF FlowOf, ErrorFlow
  <2> QED
    BY <1>3, <1>4, <2>1, SlotOf
<1>6. \/ s \in DOMAIN MG /\ Done(c, MG[s], <<"relay", MG[s]>>)
      \/ s \notin DOMAIN MG /\ NoSelection(c)
  BY <1>1, <1>4, Zenon DEF ErrorSlotLookup, MG
<1>7. CASE s \in DOMAIN MG /\ Done(c, MG[s], <<"relay", MG[s]>>)
  <2> DEFINE v == <<"relay", MG[s]>>
  <2>1. PICK y : ToIdle(x, MG[s], v, y)
    BY DEF ToIdle
  <2>2. x.quiet => Free /\ v = Outcome(x)
    BY <1>2, <1>3, <1>5, <1>7 DEF QuietOK, Outcome
  <2>3. Done(c, MG[s], v)
    BY <1>7
  <2>4. MG[s] \in x.may
    BY <1>3, <1>5, <1>7 DEF Reading, Holds
  <2> HIDE DEF v
  <2>5. cpu' = [cpu EXCEPT ![c] = y]
    BY <1>1, <2>1, <2>3 DEF Done, Step, ToIdle
  <2>6. StepOK(x, y)
    BY <1>2, <2>1, <2>2, <2>4, Departs
  <2> QED
    BY <1>1, <2>5, <2>6 DEF DatapathSeen
<1>8. CASE s \notin DOMAIN MG /\ NoSelection(c)
  <2> DEFINE v == Fallback(x.pkt, x.u)
  <2>1. PICK y : ToIdle(x, None, v, y)
    BY DEF ToIdle
  <2>2. cpu' = [cpu EXCEPT ![c] = y]
    BY <1>1, <1>8, <2>1 DEF NoSelection, Done, Step, ToIdle
  <2>3. x.quiet => Free /\ v = Outcome(x)
    BY <1>2, <1>5, <1>8 DEF QuietOK, Outcome
  <2> HIDE DEF v
  <2>4. StepOK(x, y)
    BY <1>2, <2>1, <2>3, Departs
  <2> QED
    BY <1>1, <2>2, <2>4 DEF DatapathSeen
<1> QED
  BY <1>6, <1>7, <1>8

\* The record of a packet that has arrived.
Arrived(p, u, svc, q, P, y) ==
    y = [IdleCpu EXCEPT !.pc = "lb", !.pkt = p, !.u = u, !.svc = svc, !.quiet = q, !.may = P]

\* Its fields, one by one.
LEMMA ArrivedFields ==
    ASSUME NEW p, NEW u, NEW svc, NEW q, NEW P, NEW y, Arrived(p, u, svc, q, P, y)
    PROVE  /\ IsCpu(y) /\ y.pc = "lb" /\ y.pkt = p /\ y.u = u /\ y.svc = svc /\ y["quiet"] = q
           /\ y.may = P /\ y.got = None
<1>0. IsCpu(IdleCpu) /\ IdleCpu.got = None
  BY DEF IsCpu, IdleCpu, CpuFields
<1>1. PICK z1 : Sets(IdleCpu, "pc", "lb", z1)
  BY DEF Sets
<1>2. PICK z2 : Sets(z1, "pkt", p, z2)
  BY DEF Sets
<1>3. PICK z3 : Sets(z2, "u", u, z3)
  BY DEF Sets
<1>4. PICK z4 : Sets(z3, "svc", svc, z4)
  BY DEF Sets
<1>5. PICK z5 : Sets(z4, "quiet", q, z5)
  BY DEF Sets
<1>6. Sets(z5, "may", P, y)
  BY <1>1, <1>2, <1>3, <1>4, <1>5, Zenon DEF Sets, Arrived
<1>7. {"pc", "pkt", "u", "svc", "quiet", "may", "got"} \subseteq CpuFields /\ "pkt" \in CpuFields \ {"pc"}
  BY DEF CpuFields
<1>8. /\ IsCpu(z2) /\ z2.pc = "lb" /\ z2["pkt"] = p
      /\ \A g \in CpuFields \ {"pc", "pkt"} : z2[g] = IdleCpu[g]
  BY <1>0, <1>1, <1>2, <1>7, CpuUpdates
<1>9. IsCpu(z3) /\ z3["u"] = u /\ \A g \in CpuFields \ {"u"} : z3[g] = z2[g]
  BY <1>3, <1>7, <1>8, CpuUpdate
<1>10. IsCpu(z4) /\ z4["svc"] = svc /\ \A g \in CpuFields \ {"svc"} : z4[g] = z3[g]
  BY <1>4, <1>7, <1>9, CpuUpdate
<1>11. IsCpu(z5) /\ z5["quiet"] = q /\ \A g \in CpuFields \ {"quiet"} : z5[g] = z4[g]
  BY <1>5, <1>7, <1>10, CpuUpdate
<1>12. IsCpu(y) /\ y["may"] = P /\ \A g \in CpuFields \ {"may"} : y[g] = z5[g]
  BY <1>6, <1>7, <1>11, CpuUpdate
<1>13. y["quiet"] = q
  BY <1>7, <1>11, <1>12
<1>14. y.got = None
  BY <1>0, <1>7, <1>8, <1>9, <1>10, <1>11, <1>12
<1> QED
  BY <1>7, <1>8, <1>9, <1>10, <1>11, <1>12, <1>13, <1>14

\* A packet arrives.
LEMMA SeenReceive ==
    ASSUME MapInv, NEW c \in Cpus, NEW p \in Packets, Receive(c, p)
    PROVE  DatapathSeen(c)
<1>1. PICK u : u = UL[p.outer]
  OBVIOUS
<1>2. PICK svc : svc = ServiceOf(u.vni, p)
  OBVIOUS
<1>3. PICK q \in BOOLEAN : q <=> Free
  BY Zenon
<1>4. PICK P : P = Pool[svc] \cup (IF Free THEN {} ELSE task.before[svc])
  OBVIOUS
<1>5. PICK y : Arrived(p, u, svc, q, P, y)
  BY Zenon DEF Arrived
<1>6. p.outer \in DOMAIN UL /\ cpu[c].pc = "idle"
  BY DEF Receive, UL
<1>7. cpu' = [cpu EXCEPT ![c] = y]
  <2>1. q = Free
    BY <1>3, Zenon DEF Free
  <2>2. cpu' = [cpu EXCEPT ![c] = [IdleCpu EXCEPT !.pc = "lb", !.pkt = p, !.u = u, !.svc = svc,
                                                  !.quiet = Free, !.may = P]]
    BY <1>1, <1>2, <1>4, Zenon DEF Receive, UL
  <2> QED
    BY <1>5, <2>1, <2>2, Zenon DEF Arrived
<1>8. /\ IsCpu(y) /\ y.pc = "lb" /\ y.pkt = p /\ y.u = u /\ y.svc = svc /\ y["quiet"] = q
      /\ y.may = P /\ y.got = None
  BY <1>5, ArrivedFields
<1>9. u \in Places
  BY <1>1, <1>6 DEF MapInv, TabInv
<1>10. svc \in Services
  <2>1. u.vni \in Vnis
    BY <1>9 DEF Places, Marks, Vnis
  <2> QED
    BY <1>2, <2>1 DEF Services
<1>11. P = Pool[svc] \cup Old[svc] /\ P \subseteq Backends
  <2>1. Pool[svc] \subseteq Backends
    BY <1>10, PoolType DEF MapInv
  <2>2. ~Free => task.before[svc] \subseteq Backends
    BY <1>10, TaskFacts DEF MapInv
  <2> QED
    BY <1>4, <2>1, <2>2 DEF Old
<1>12. Busy(y)
  BY <1>2, <1>8, <1>9, <1>11 DEF Busy
<1>13. CpuOK(y)
  BY <1>8, <1>11, <1>12 DEF CpuOK, Pcs
<1>14. y.quiet => Free
  BY <1>3, <1>8
<1>15. QuietOK(y)
  BY <1>8, <1>14 DEF QuietOK
<1>16. StepOK(cpu[c], y)
  BY <1>6, <1>8, <1>11, <1>13, <1>15 DEF StepOK, Enters
<1> QED
  BY <1>7, <1>16 DEF DatapathSeen

\* Every step of the datapath is seen like this.
LEMMA DatapathSteps ==
    ASSUME PoolInv, NEW c \in Cpus, Datapath(c)
    PROVE  DatapathSeen(c)
<1>1. MapInv /\ OldInv /\ CpuInv /\ QuietInv
  BY DEF PoolInv
<1> QED
  BY <1>1, SeenReceive, SeenLbLookup, SeenSlotLookup, SeenBackendLookup, SeenErrorLookup,
     SeenErrorSlotLookup DEF Datapath

\* What is known of a CPU depends on the maps and the task.
LEMMA CpuSame ==
    ASSUME UNCHANGED <<tab, nextTable, task>>, NEW x
    PROVE  (CpuOK(x) => CpuOK(x)') /\ (QuietOK(x) => QuietOK(x)')
<1>1. /\ Lbs' = Lbs /\ LB' = LB /\ MG' = MG /\ UL' = UL /\ Tables' = Tables
      /\ (Free' <=> Free)
  BY DEF Lbs, LB, MG, UL, Tables, Free
<1>2. Pool' = Pool
  BY <1>1, PoolKept
<1>3. Old' = Old
  BY <1>1, <1>2 DEF Old
<1>4. Busy(x) => Busy(x)'
  BY <1>2, <1>3 DEF Busy
<1>5. Reading(x) => Reading(x)'
  BY <1>1 DEF Reading, Holds
<1>6. Outcome(x)' = Outcome(x)
  BY <1>1 DEF Outcome
<1> QED
  BY <1>1, <1>4, <1>5, <1>6 DEF CpuOK, QuietOK

\* The old backends too.
LEMMA OldSame ==
    ASSUME UNCHANGED <<tab, nextTable, task>>, OldInv
    PROVE  OldInv'
<1>1. Lbs' = Lbs /\ LB' = LB /\ MG' = MG /\ (Free' <=> Free)
  BY DEF Lbs, LB, MG, Free
<1>2. Pool' = Pool
  BY <1>1, PoolKept
<1> QED
  BY <1>1, <1>2 DEF OldInv, Holds

\* A step of the datapath keeps the invariant.
LEMMA DatapathKeeps ==
    ASSUME PoolInv, NEW c \in Cpus, Datapath(c)
    PROVE  PoolInv'
<1>1. UNCHANGED <<tab, nextTable, task, clashed, broken>>
  BY DatapathSame
<1>2. PICK y : cpu' = [cpu EXCEPT ![c] = y] /\ CpuOK(y) /\ QuietOK(y)
  BY DatapathSteps DEF DatapathSeen, StepOK
<1>3. /\ cpu = [d \in Cpus |-> cpu[d]]
      /\ \A d \in Cpus : CpuOK(cpu[d]) /\ QuietOK(cpu[d])
  BY DEF PoolInv, CpuInv, QuietInv
<1>4. /\ cpu' = [d \in Cpus |-> cpu'[d]]
      /\ \A d \in Cpus : cpu'[d] = y \/ cpu'[d] = cpu[d]
  BY <1>2, <1>3
<1>5. ASSUME NEW d \in Cpus PROVE CpuOK(cpu[d])' /\ QuietOK(cpu[d])'
  <2>1. PICK x : x = cpu'[d]
    OBVIOUS
  <2>2. CpuOK(x) /\ QuietOK(x)
    BY <1>2, <1>3, <1>4, <2>1
  <2>3. CpuOK(x)' /\ QuietOK(x)'
    BY <1>1, <2>2, CpuSame
  <2> QED
    BY <2>1, <2>3
<1>6. CpuInv' /\ QuietInv'
  BY <1>4, <1>5 DEF CpuInv, QuietInv
<1> QED
  BY <1>1, <1>6, MapSame, OldSame DEF PoolInv

\* A write of the control plane keeps the invariant.
LEMMA WriteKeeps ==
    ASSUME PoolInv, MapInv', WritePut \/ WriteFails \/ WriteDel
    PROVE  PoolInv'
<1>1. WriteSeen
  BY WritesSeen DEF PoolInv
<1>2. OldInv'
  BY <1>1, WriteKeepsOld DEF PoolInv
<1>3. cpu' = cpu /\ ~Free
  BY <1>1 DEF WriteSeen
<1>4. ASSUME NEW c \in Cpus PROVE CpuOK(cpu[c])' /\ QuietOK(cpu[c])'
  <2>1. PICK x : x = cpu[c]
    OBVIOUS
  <2>2. CpuOK(x) /\ QuietOK(x)
    BY <2>1 DEF PoolInv, CpuInv, QuietInv
  <2>3. CpuOK(x)'
    BY <1>1, <2>2, WriteKeepsCpu DEF PoolInv
  <2>4. QuietOK(x)'
    BY <1>3, <2>2 DEF QuietOK
  <2> QED
    BY <1>3, <2>1, <2>3, <2>4
<1>5. cpu' = [c \in Cpus |-> cpu'[c]]
  BY <1>3 DEF PoolInv, CpuInv
<1>6. CpuInv' /\ QuietInv'
  BY <1>4, <1>5 DEF CpuInv, QuietInv
<1> QED
  BY <1>2, <1>6 DEF PoolInv

\* The start of an operation keeps the invariant.
LEMMA OpKeeps ==
    ASSUME PoolInv, MapInv', OpSeen
    PROVE  PoolInv'
  BY OpKeepsOld, OpKeepsCpu DEF PoolInv

\* The invariant holds initially.
LEMMA PoolInit == Init => PoolInv
<1> SUFFICES ASSUME Init PROVE PoolInv
  OBVIOUS
<1>1. MapInv
  BY MapInit
<1>2. Free /\ cpu = [c \in Cpus |-> IdleCpu]
  BY DEF Init, Free
<1>3. OldInv
  BY <1>2 DEF OldInv
<1>4. PICK x : x = IdleCpu
  OBVIOUS
<1>5. IsCpu(x) /\ x.pc = "idle" /\ x.got = None /\ x.may = {} /\ ~x.quiet
  BY <1>4 DEF IsCpu, IdleCpu, CpuFields
<1>6. CpuOK(x) /\ QuietOK(x)
  BY <1>5 DEF CpuOK, Pcs, QuietOK
<1>7. CpuInv /\ QuietInv
  BY <1>2, <1>4, <1>6 DEF CpuInv, QuietInv
<1> QED
  BY <1>1, <1>3, <1>7 DEF PoolInv

\* What the steps of the control plane come to.
LEMMA ControlSeen ==
    ASSUME MapInv, Control
    PROVE  OpSeen \/ WritePut \/ WriteFails \/ WriteDel
  BY SeenCreate, SeenTarget, SeenDelete, SeenMove DEF Control

\* Every step keeps the invariant.
LEMMA PoolStep == PoolInv /\ [Next]_vars => PoolInv'
<1> SUFFICES ASSUME PoolInv, [Next]_vars PROVE PoolInv'
  OBVIOUS
<1>1. MapInv /\ MapInv'
  BY MapStep DEF PoolInv
<1>2. CASE Control
  BY <1>1, <1>2, ControlSeen, OpKeeps, WriteKeeps
<1>3. ASSUME NEW c \in Cpus, Datapath(c) PROVE PoolInv'
  BY <1>3, DatapathKeeps
<1>4. CASE UNCHANGED vars
  <2>1. UNCHANGED <<tab, nextTable, task>> /\ cpu' = cpu
    BY <1>4 DEF vars
  <2>2. ASSUME NEW c \in Cpus PROVE CpuOK(cpu[c])' /\ QuietOK(cpu[c])'
    <3>1. PICK x : x = cpu[c]
      OBVIOUS
    <3>2. CpuOK(x)' /\ QuietOK(x)'
      BY <2>1, <3>1, CpuSame DEF PoolInv, CpuInv, QuietInv
    <3> QED
      BY <2>1, <3>1, <3>2
  <2>3. cpu' = [c \in Cpus |-> cpu'[c]]
    BY <2>1 DEF PoolInv, CpuInv
  <2>4. CpuInv' /\ QuietInv'
    BY <2>2, <2>3 DEF CpuInv, QuietInv
  <2> QED
    BY <1>1, <2>1, <2>4, OldSame DEF PoolInv
<1> QED
  BY <1>2, <1>3, <1>4 DEF Next

\* The invariant of the packets holds throughout.
THEOREM PoolInvHolds == Spec => []PoolInv
  BY PoolInit, PoolStep, PTL DEF Spec

\* Type correctness.
THEOREM LbTypeCorrect == Spec => []TypeOK
<1>1. PoolInv => TypeOK
  <2> SUFFICES ASSUME PoolInv PROVE TypeOK
    OBVIOUS
  <2>1. TabInv
    BY DEF PoolInv, MapInv
  <2>2. \A c \in Cpus : CpuOK(cpu[c])
    BY DEF PoolInv, CpuInv
  <2>3. /\ DOMAIN LB \subseteq Services /\ Range(LB) \subseteq Tables
        /\ DOMAIN MG \subseteq Tables \X Slots /\ Range(MG) \subseteq Backends
        /\ DOMAIN UL \subseteq Underlays
    BY <2>1, LbKeysAreServices DEF TabInv, Range
  <2>4. \A i \in DOMAIN Lbs :
          /\ i \in Ids /\ Lbs[i].table \in Tables /\ IsInjective(Lbs[i].backends)
          /\ Lbs[i].backends \in Seq(Backends)
    BY <2>1, EntryKeys DEF TabInv
  <2>5. \A i \in DOMAIN Lbs : Range(Lbs[i].backends) \subseteq Backends
    BY <2>4 DEF Range
  <2>6. \A i, j \in DOMAIN Lbs : Lbs[i].table = Lbs[j].table => i = j
    BY <2>1 DEF TabInv
  <2>7. \A c \in Cpus :
          /\ cpu[c].pc \in {"idle", "lb", "slot", "backend", "errlb", "errslot"}
          /\ cpu[c].got \in Backends \cup {None}
          /\ cpu[c].may \subseteq Backends
    BY <2>2 DEF CpuOK, Pcs
  <2> QED
    BY <2>3, <2>4, <2>5, <2>6, <2>7 DEF TypeOK, Tables, LB, MG, UL
<1> QED
  BY <1>1, PoolInvHolds, PTL

\* A packet that met no operation went where the table built from the list of
\* its service's load balancer sends its flow, an ICMP error where the flow it
\* is about goes, and fell through where there was nothing to select.
THEOREM QuietVerdictHolds == Spec => []QuietVerdict
<1>1. PoolInv => QuietVerdict
  <2> SUFFICES ASSUME PoolInv, NEW c \in Cpus,
                      cpu[c].pc = "idle", cpu[c].quiet, cpu[c].svc \notin clashed
               PROVE  LET p == cpu[c].pkt
                          svc == cpu[c].svc
                          owners == {id \in DOMAIN Lbs : Selectable(p) /\ svc \in Keys(Lbs[id])}
                      IN  /\ owners = {} => cpu[c].verdict = Fallback(p, cpu[c].u)
                          /\ \A id \in owners :
                               IF Lbs[id].backends = << >>
                                 THEN cpu[c].verdict = Fallback(p, cpu[c].u)
                                 ELSE Lbs[id].table \notin broken =>
                                        LET b == Build(Lbs[id].backends)[Hash(FlowOf(p)) % M] IN
                                        cpu[c].verdict =
                                          IF p.kind # "err" /\ b \in DOMAIN tab["underlay"]
                                            THEN <<"tap", tab["underlay"][b].tap>> ELSE <<"relay", b>>
    BY DEF QuietVerdict
  <2>1. PICK x : x = cpu[c]
    OBVIOUS
  <2>2. PICK p, svc, h : p = x.pkt /\ svc = x.svc /\ h = Hash(FlowOf(p)) % M
    OBVIOUS
  <2> DEFINE slot == <<LB[svc], h>>
             selected == Selectable(p) /\ svc \in DOMAIN LB /\ slot \in DOMAIN MG
  <2>3. Free /\ x.verdict = Outcome(x) /\ h \in Slots
    BY <2>1, <2>2, SlotOf DEF PoolInv, QuietInv, QuietOK
  <2>4. TabInv /\ SlotInv /\ KeyInv /\ M \in Nat
    BY LbAssumption DEF PoolInv, MapInv
  <2>5. /\ ~selected => x.verdict = Fallback(p, x.u)
        /\ selected => x.verdict = IF p.kind # "err" /\ MG[slot] \in DOMAIN UL
                                     THEN <<"tap", UL[MG[slot]].tap>> ELSE <<"relay", MG[slot]>>
    BY <2>2, <2>3 DEF Outcome
  <2>6. ASSUME \A id \in DOMAIN Lbs : ~(Selectable(p) /\ svc \in Keys(Lbs[id]))
        PROVE  ~selected
    <3> SUFFICES ASSUME selected PROVE FALSE
      OBVIOUS
    <3>1. PICK id \in DOMAIN Lbs : Lbs[id].table = LB[svc]
      BY <2>3, <2>4 DEF SlotInv
    <3>2. svc \in Keys(Lbs[id])
      BY <2>4, <3>1 DEF KeyInv
    <3> QED
      BY <2>6, <3>2
  <2>7. ASSUME NEW id \in DOMAIN Lbs, Selectable(p), svc \in Keys(Lbs[id])
        PROVE  /\ Lbs[id].backends = << >> => ~selected
               /\ Lbs[id].backends # << >> /\ Lbs[id].table \notin broken =>
                     selected /\ MG[slot] = Build(Lbs[id].backends)[h]
    <3>1. svc \in DOMAIN LB /\ LB[svc] = Lbs[id].table
      BY <2>1, <2>2, <2>4, <2>7 DEF KeyInv
    <3>2. TableExact(MG, broken, Lbs[id])
      BY <2>3, <2>4 DEF SlotInv
    <3>3. ASSUME Lbs[id].backends = << >> PROVE ~selected
      BY <2>3, <2>4, <3>1, <3>2, <3>3 DEF TableExact, FilledTo, Slots
    <3>4. ASSUME Lbs[id].backends # << >>, Lbs[id].table \notin broken
          PROVE  selected /\ MG[slot] = Build(Lbs[id].backends)[h]
      <4>1. PICK n \in 0..M :
              /\ FilledTo(MG, Lbs[id].table, n)
              /\ n < M => Lbs[id].table \in broken
              /\ \A s \in Slots : s < n => MG[<<Lbs[id].table, s>>] = Build(Lbs[id].backends)[s]
        BY <3>2, <3>4 DEF TableExact
      <4>2. h < n
        BY <2>3, <2>4, <3>4, <4>1 DEF Slots
      <4> QED
        BY <2>3, <2>7, <3>1, <4>1, <4>2 DEF FilledTo
    <3> QED
      BY <3>3, <3>4
  <2> HIDE DEF selected, slot
  <2>8. (\A id \in DOMAIN Lbs : ~(Selectable(p) /\ svc \in Keys(Lbs[id])))
           => x.verdict = Fallback(p, x.u)
    BY <2>5, <2>6
  <2>9. ASSUME NEW id \in DOMAIN Lbs, Selectable(p), svc \in Keys(Lbs[id])
        PROVE  IF Lbs[id].backends = << >> THEN x.verdict = Fallback(p, x.u)
               ELSE Lbs[id].table \notin broken =>
                      LET b == Build(Lbs[id].backends)[h] IN
                      x.verdict = IF p.kind # "err" /\ b \in DOMAIN UL
                                    THEN <<"tap", UL[b].tap>> ELSE <<"relay", b>>
    BY <2>5, <2>7, <2>9
  <2> QED
    BY <2>1, <2>2, <2>8, <2>9, Zenon DEF UL
<1> QED
  BY <1>1, PoolInvHolds, PTL


(***************************************************************************)
(* The pool of backends.                                                   *)
(***************************************************************************)
ConnOf(x) ==
    IF x.pc = "idle" THEN [svc |-> None, may |-> {}, got |-> x.got]
                     ELSE [svc |-> x.svc, may |-> x.may, got |-> None]
Conn == [c \in Cpus |-> ConnOf(cpu[c])]

\* The steps of the pool, in the words of the load balancer.
Announces ==
    /\ Old = Pool /\ Old' = Old /\ Pool' \in [Services -> SUBSET Backends]
    /\ Conn' = [c \in Cpus |->
                  IF Conn[c].svc # None THEN [Conn[c] EXCEPT !.may = @ \cup Pool'[Conn[c].svc]]
                                        ELSE Conn[c]]
Starts(c, s) ==
    /\ Conn[c].svc = None
    /\ Conn' = [Conn EXCEPT ![c] = [svc |-> s, may |-> Pool[s] \cup Old[s], got |-> None]]
    /\ Pool' = Pool /\ Old' = Old
Finishes(c) ==
    /\ Conn[c].svc # None
    /\ \E b \in Conn[c].may \cup {None} :
          Conn' = [Conn EXCEPT ![c] = [[svc |-> None, may |-> {}, got |-> None] EXCEPT !.got = b]]
    /\ Pool' = Pool /\ Old' = Old
Settles == Old # Pool /\ Old' = Pool /\ Pool' = Pool /\ Conn' = Conn
Stays == Pool' = Pool /\ Old' = Old /\ Conn' = Conn

\* They are the steps of module BackendPool under the refinement mapping: an
\* announcement,
LEMMA AnnounceMaps == Announces => Pools!Announce
  BY Zenon DEF Announces, Pools!Announce, Pools!Busy, Conn, ConnOf, Old

\* the start of a packet,
LEMMA StartMaps == \A c, s : Starts(c, s) => Pools!Start(c, s)
  BY Zenon DEF Starts, Pools!Start, Pools!Busy, Conn, ConnOf, Old

\* its end,
LEMMA FinishMaps == \A c : Finishes(c) => Pools!Finish(c)
  BY Zenon DEF Finishes, Pools!Finish, Pools!Busy, Pools!Idle, Conn, ConnOf, Old

\* the end of the operation,
LEMMA SettleMaps == Settles => Pools!Settle
  BY Zenon DEF Settles, Pools!Settle, Conn, ConnOf, Old

\* and what the pool does not see.
LEMMA StayMaps == Stays => UNCHANGED Pools!poolVars
  BY Zenon DEF Stays, Pools!poolVars, Conn, ConnOf, Old

\* The record of a packet that is under way names its service; the record of
\* a CPU without one does not.
LEMMA ConnFields ==
    ASSUME NEW x, CpuOK(x)
    PROVE  /\ x.pc = "idle" => ConnOf(x).svc = None
           /\ x.pc # "idle" => ConnOf(x).svc = x.svc /\ x.svc # None /\ ConnOf(x).may = x.may
<1>1. x.pc # "idle" => x.svc \in Services
  BY BusyService DEF CpuOK
<1> QED
  BY <1>1, LbAssumption DEF ConnOf

\* The start of an operation announces a pool.
LEMMA OpRefines ==
    ASSUME PoolInv, MapInv', OpSeen
    PROVE  Pools!Grow \/ Pools!Shrink
<1>1. Old = Pool /\ Old' = Old
  BY DEF OpSeen, Old
<1>2. Pool' \in [Services -> SUBSET Backends]
  BY PoolTypeNext DEF MapInv
<1>3. \A c \in Cpus :
        /\ CpuOK(cpu[c])
        /\ cpu'[c].pc = cpu[c].pc /\ cpu'[c].svc = cpu[c].svc /\ cpu'[c].got = cpu[c].got
        /\ cpu[c].pc # "idle" => cpu'[c].may = cpu[c].may \cup Pool'[cpu[c].svc]
  BY OpKeepsCpu DEF PoolInv, CpuInv
<1>4. ASSUME NEW c \in Cpus
      PROVE  ConnOf(cpu[c])' = IF ConnOf(cpu[c]).svc # None
                                 THEN [ConnOf(cpu[c]) EXCEPT
                                         !.may = @ \cup Pool'[ConnOf(cpu[c]).svc]]
                                 ELSE ConnOf(cpu[c])
  <2>1. PICK x, y : x = cpu[c] /\ y = cpu'[c]
    OBVIOUS
  <2>2. /\ y.pc = x.pc /\ y.svc = x.svc /\ y.got = x.got
        /\ x.pc # "idle" => y.may = x.may \cup Pool'[x.svc]
        /\ x.pc = "idle" => ConnOf(x).svc = None
        /\ x.pc # "idle" => x.svc # None
    BY <1>3, <2>1, ConnFields
  <2>3. CASE x.pc = "idle"
    BY <2>1, <2>2, <2>3 DEF ConnOf
  <2>4. CASE x.pc # "idle"
    BY <2>1, <2>2, <2>4 DEF ConnOf
  <2> QED
    BY <2>3, <2>4
<1>5. Conn' = [c \in Cpus |-> ConnOf(cpu[c])']
  BY DEF Conn
<1>6. Announces
  BY <1>1, <1>2, <1>4, <1>5 DEF Announces, Conn
<1>7. Pools!Announce
  BY <1>6, AnnounceMaps
<1>8. \/ \E b \in Backends : \A k \in Services : Pool'[k] \in {Pool[k], Pool[k] \cup {b}}
      \/ \A k \in Services : Pool'[k] \subseteq Pool[k]
  BY DEF OpSeen
<1> QED
  BY <1>7, <1>8, Zenon DEF Pools!Grow, Pools!Shrink

\* A write of the control plane settles the pool, or is not seen.
LEMMA WriteRefines ==
    ASSUME WriteSeen
    PROVE  Pools!Settle \/ UNCHANGED Pools!poolVars
<1>1. Pool' = Pool /\ Old' \in {Pool, Old} /\ cpu' = cpu
  BY OldSeen DEF WriteSeen
<1>2. Conn' = Conn
  BY <1>1 DEF Conn
<1>3. Settles \/ Stays
  BY <1>1, <1>2 DEF Settles, Stays
<1> QED
  BY <1>3, SettleMaps, StayMaps

\* A step of a packet starts it, finishes it, or is not seen.
LEMMA DatapathRefines ==
    ASSUME PoolInv, NEW c \in Cpus, Datapath(c)
    PROVE  \/ Pools!Finish(c) \/ UNCHANGED Pools!poolVars
           \/ \E s \in Services : Pools!Start(c, s)
<1>1. UNCHANGED <<tab, nextTable, task>>
  BY DatapathSame
<1>2. PICK y : cpu' = [cpu EXCEPT ![c] = y] /\ StepOK(cpu[c], y)
  BY DatapathSteps DEF DatapathSeen
<1>3. PICK x : x = cpu[c]
  OBVIOUS
<1>4. CpuOK(x) /\ CpuOK(y) /\ (Goes(x, y) \/ Leaves(x, y) \/ Enters(x, y))
  BY <1>2, <1>3 DEF StepOK, PoolInv, CpuInv
<1>5. Pool' = Pool /\ Old' = Old
  <2>1. Lbs' = Lbs /\ (Free' <=> Free)
    BY <1>1 DEF Lbs, Free
  <2>2. Pool' = Pool
    BY <2>1, PoolKept
  <2> QED
    BY <1>1, <2>1, <2>2 DEF Old
<1>6. Conn' = [Conn EXCEPT ![c] = ConnOf(y)] /\ Conn[c] = ConnOf(x)
  <2>1. \A d \in Cpus : cpu'[d] = IF d = c THEN y ELSE cpu[d]
    BY <1>2 DEF PoolInv, CpuInv
  <2>2. Conn' = [d \in Cpus |-> ConnOf(cpu'[d])]
    BY DEF Conn, ConnOf
  <2> QED
    BY <1>3, <2>1, <2>2 DEF Conn
<1>7. /\ x.pc = "idle" => ConnOf(x).svc = None
      /\ x.pc # "idle" => ConnOf(x).svc = x.svc /\ x.svc # None /\ ConnOf(x).may = x.may
  BY <1>4, ConnFields
<1>8. CASE Goes(x, y)
  <2>1. ConnOf(y) = ConnOf(x)
    BY <1>8 DEF Goes, ConnOf
  <2>2. Conn' = Conn
    BY <1>6, <2>1 DEF Conn
  <2> QED
    BY <1>5, <2>2, StayMaps DEF Stays
<1>9. CASE Leaves(x, y)
  <2>1. ConnOf(y) = [[svc |-> None, may |-> {}, got |-> None] EXCEPT !.got = y.got]
    BY <1>9 DEF Leaves, ConnOf
  <2>2. Conn[c].svc # None /\ y.got \in Conn[c].may \cup {None}
    BY <1>6, <1>7, <1>9 DEF Leaves
  <2>3. Finishes(c)
    BY <1>5, <1>6, <2>1, <2>2, Zenon DEF Finishes
  <2> QED
    BY <2>3, FinishMaps
<1>10. CASE Enters(x, y)
  <2>1. y.svc \in Services
    BY <1>4, <1>10, BusyService DEF Enters, CpuOK
  <2>2. ConnOf(y) = [svc |-> y.svc, may |-> Pool[y.svc] \cup Old[y.svc], got |-> None]
    BY <1>10 DEF Enters, ConnOf
  <2>3. Conn[c].svc = None
    BY <1>6, <1>7, <1>10 DEF Enters
  <2>4. Starts(c, y.svc)
    BY <1>5, <1>6, <2>2, <2>3, Zenon DEF Starts
  <2> QED
    BY <2>1, <2>4, StartMaps
<1> QED
  BY <1>4, <1>8, <1>9, <1>10

\* The load balancer starts as an empty pool.
LEMMA InitRefines == Init => Pools!Init
<1> SUFFICES ASSUME Init PROVE Pools!Init
  OBVIOUS
<1>1. Free /\ Lbs = << >> /\ cpu = [c \in Cpus |-> IdleCpu]
  BY DEF Init, Free, Lbs
<1>2. Pool = [k \in Services |-> {}]
  <2>1. \A k \in Services : {i \in DOMAIN Lbs : k \in Keys(Lbs[i])} = {}
    BY <1>1
  <2> QED
    BY <2>1 DEF Pool
<1>3. ConnOf(IdleCpu) = [svc |-> None, may |-> {}, got |-> None]
  BY DEF ConnOf, IdleCpu
<1>4. Conn = [c \in Cpus |-> [svc |-> None, may |-> {}, got |-> None]]
  BY <1>1, <1>3 DEF Conn
<1>5. Old = Pool
  BY <1>1 DEF Old
<1> QED
  BY <1>2, <1>4, <1>5, Zenon DEF Pools!Init, Pools!Idle, Conn, ConnOf, Old

\* Every step of the load balancer is a step of the pool, or is not seen.
LEMMA StepRefines == PoolInv /\ [Next]_vars => [Pools!Next]_(Pools!poolVars)
<1> SUFFICES ASSUME PoolInv, [Next]_vars PROVE [Pools!Next]_(Pools!poolVars)
  OBVIOUS
<1>1. MapInv /\ MapInv'
  BY MapStep DEF PoolInv
<1>2. CASE Control
  BY <1>1, <1>2, ControlSeen, OpRefines, WritesSeen, WriteRefines DEF Pools!Next
<1>3. ASSUME NEW c \in Cpus, Datapath(c) PROVE [Pools!Next]_(Pools!poolVars)
  BY <1>3, DatapathRefines DEF Pools!Next
<1>4. CASE UNCHANGED vars
  <2>1. Lbs' = Lbs /\ (Free' <=> Free) /\ task' = task /\ cpu' = cpu
    BY <1>4 DEF vars, Lbs, Free
  <2>2. Stays
    BY <2>1, PoolKept DEF Stays, Old, Conn
  <2> QED
    BY <2>2, StayMaps
<1> QED
  BY <1>2, <1>3, <1>4 DEF Next

\* The load balancer implements the pool of backends: whatever the writes of
\* add_lb_target, del_lb_target and delete_load_balancer interleave with, a
\* packet goes to a backend its service had while the packet was handled.
THEOREM LoadBalancerImplementsPool == Spec => ImplementsPool
  BY PoolInvHolds, InitRefines, StepRefines, PTL DEF Spec, ImplementsPool, Pools!Spec
=============================================================================
