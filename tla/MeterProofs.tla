---------------------------- MODULE MeterProofs ----------------------------
(***************************************************************************)
(* Proofs about module Meter: type correctness, that the truncated refills *)
(* of take never admit more than an exact token bucket would, and that the *)
(* METER entry of a device is the one its interface asked for.             *)
(***************************************************************************)
EXTENDS Meter, TLAPS, FiniteSetTheorems

(***************************************************************************)
(* Arithmetic.                                                             *)
(***************************************************************************)

\* The smaller of two integers.
LEMMA MinOf ==
    ASSUME NEW a \in Int, NEW b \in Int
    PROVE  Min({a, b}) = IF a <= b THEN a ELSE b
<1> DEFINE m == IF a <= b THEN a ELSE b
<1>1. m \in {a, b} /\ \A y \in {a, b} : m <= y
  OBVIOUS
<1>2. \A x \in {a, b} : (\A y \in {a, b} : x <= y) => x = m
  OBVIOUS
<1> QED
  BY <1>1, <1>2 DEF Min

\* The larger of two integers.
LEMMA MaxOf ==
    ASSUME NEW a \in Int, NEW b \in Int
    PROVE  Max({a, b}) = IF a >= b THEN a ELSE b
<1> DEFINE m == IF a >= b THEN a ELSE b
<1>1. m \in {a, b} /\ \A y \in {a, b} : m >= y
  OBVIOUS
<1>2. \A x \in {a, b} : (\A y \in {a, b} : x >= y) => x = m
  OBVIOUS
<1> QED
  BY <1>1, <1>2 DEF Max

\* Products of naturals, and one factor increased.
LEMMA Times ==
    ASSUME NEW a \in Nat, NEW b \in Nat, NEW c \in Nat
    PROVE  a * c \in Nat /\ (a <= b => a * c <= b * c)
  OBVIOUS

\* What is credited for an age of a ticks is at most a * bps / Sec bytes, the
\* product of the remainder wrapping or not.
LEMMA RefillBound ==
    ASSUME NEW a \in Nat, NEW bps \in Nat
    PROVE  LET f == (a \div Sec) * bps + (((a % Sec) * bps) % Width) \div Sec
           IN  f \in Nat /\ f * Sec <= a * bps
<1> DEFINE q == a \div Sec
           r == a % Sec
           w == (r * bps) % Width
           t == w \div Sec
<1>1. Sec \in Nat /\ Sec > 0 /\ Width \in Nat /\ Width > 0
  BY MeterAssumption
<1>2. q \in Nat /\ r \in Nat /\ Sec * q + r <= a
  BY <1>1
<1> HIDE DEF q, r
<1>3. r * bps \in Nat
  BY <1>2, Times
<1>4. w \in Nat /\ w <= r * bps
  BY <1>1, <1>3
<1> HIDE DEF w
<1>5. t \in Nat /\ t * Sec <= w
  BY <1>1, <1>4
<1> HIDE DEF t
<1>6. (Sec * q + r) * bps <= a * bps
  BY <1>1, <1>2, Times
<1>7. (Sec * q + r) * bps = (q * bps) * Sec + r * bps
  BY <1>1, <1>2
<1>8. (q * bps + t) * Sec = (q * bps) * Sec + t * Sec
  BY <1>1, <1>2, <1>5
<1>9. q * bps \in Nat /\ (q * bps) * Sec \in Nat /\ t * Sec \in Nat
  BY <1>1, <1>2, <1>5, Times
<1>10. q * bps + t \in Nat
  BY <1>5, <1>9
<1>11. (q * bps + t) * Sec <= a * bps
  BY <1>3, <1>4, <1>5, <1>6, <1>7, <1>8, <1>9
<1> QED
  BY <1>10, <1>11 DEF q, r, w, t

(***************************************************************************)
(* Buckets.                                                                *)
(***************************************************************************)
BucketType == [bps : Nat, burst : Nat, tokens : Nat, age : Nat, credit : Int]
EntryType == [total : BucketType, public : BucketType]

\* A bucket as TypeOK and Affordable describe it.
Sound(b) == b.bps # 0 => Min({b.tokens * Sec + b.age * b.bps, b.burst * Sec}) <= b.credit
GoodBucket(b) == b \in BucketType /\ BucketOK(b) /\ Sound(b)
GoodEntry(m) == m \in EntryType /\ GoodBucket(m.total) /\ GoodBucket(m.public)

\* A new bucket holds a burst at most, its exact bucket a burst.
LEMMA NewBucket ==
    ASSUME NEW bps \in Nat
    PROVE  GoodBucket(Bucket(bps)) /\ Bucket(bps).bps = bps
<1> DEFINE t == bps \div BurstDiv
           m == Max({t, MinBurst})
           b == Bucket(bps)
<1>1. t \in Nat /\ MinBurst \in Nat /\ Sec \in Nat
  BY MeterAssumption
<1>2. b = [bps |-> bps, burst |-> m, tokens |-> t, age |-> Sec, credit |-> m * Sec]
  BY DEF Bucket
<1> HIDE DEF b, t
<1>3. m \in Nat /\ t <= m
  BY <1>1, MaxOf
<1> HIDE DEF m
<1>4. /\ b.bps = bps /\ b.burst = m /\ b.tokens = t /\ b.age = Sec /\ b.credit = m * Sec
  BY <1>2
<1>5. m * Sec \in Nat /\ t * Sec \in Nat /\ Sec * bps \in Nat
  BY <1>1, <1>3, Times
<1>6. b \in BucketType
  BY <1>1, <1>2, <1>3, <1>5 DEF BucketType
<1>7. BucketOK(b)
  BY <1>1, <1>3, <1>4, <1>5 DEF BucketOK
<1>8. Sound(b)
  BY <1>4, <1>5, MinOf DEF Sound
<1> QED
  BY <1>4, <1>6, <1>7, <1>8 DEF GoodBucket, b

\* What the bucket offers is no more than it may hold and no more than the
\* exact bucket has.
LEMMA FilledBound ==
    ASSUME NEW b, GoodBucket(b)
    PROVE  /\ Filled(b) \in Nat /\ Filled(b) <= b.burst
           /\ b.bps # 0 => Filled(b) * Sec <= b.credit
<1> DEFINE f == Refill(b)
           g == Filled(b)
<1>1. /\ b.bps \in Nat /\ b.burst \in Nat /\ b.tokens \in Nat /\ b.age \in Nat
      /\ b.credit \in Int /\ Sec \in Nat
  BY MeterAssumption DEF GoodBucket, BucketType
<1>2. f \in Nat /\ f * Sec <= b.age * b.bps
  BY <1>1, RefillBound DEF Refill
<1> HIDE DEF f
<1>3. g = IF b.tokens + f <= b.burst THEN b.tokens + f ELSE b.burst
  BY <1>1, <1>2, MinOf DEF Filled, f
<1> HIDE DEF g
<1>4. g \in Nat /\ g <= b.burst /\ g <= b.tokens + f
  BY <1>1, <1>2, <1>3
<1>5. g * Sec <= b.burst * Sec /\ g * Sec <= (b.tokens + f) * Sec /\ g * Sec \in Nat
  BY <1>1, <1>2, <1>4, Times
<1>6. (b.tokens + f) * Sec = b.tokens * Sec + f * Sec
  BY <1>1, <1>2
<1>7. b.tokens * Sec \in Nat /\ f * Sec \in Nat /\ b.age * b.bps \in Nat /\ b.burst * Sec \in Nat
  BY <1>1, <1>2, Times
<1>8. b.bps # 0 => g * Sec <= b.credit
  <2> SUFFICES ASSUME b.bps # 0 PROVE g * Sec <= b.credit
    OBVIOUS
  <2>1. Min({b.tokens * Sec + b.age * b.bps, b.burst * Sec}) <= b.credit
    BY DEF GoodBucket, Sound
  <2>2. g * Sec <= b.tokens * Sec + b.age * b.bps
    BY <1>2, <1>5, <1>6, <1>7
  <2>3. g * Sec <= Min({b.tokens * Sec + b.age * b.bps, b.burst * Sec})
    BY <1>5, <1>7, <2>2, MinOf
  <2>4. Min({b.tokens * Sec + b.age * b.bps, b.burst * Sec}) \in Int
    BY <1>7, MinOf
  <2> QED
    BY <1>1, <1>5, <2>1, <2>3, <2>4
<1> QED
  BY <1>4, <1>8 DEF g

\* A bucket without time to credit is sound if its tokens are.
LEMMA FreshSound ==
    ASSUME NEW t \in Nat, NEW burst \in Nat, NEW bps \in Nat, NEW credit \in Int,
           NEW b, b = [bps |-> bps, burst |-> burst, tokens |-> t, age |-> 0, credit |-> credit],
           t <= burst, credit \in 0 .. (burst * Sec), bps # 0 => t * Sec <= credit
    PROVE  GoodBucket(b) /\ b.bps = bps
<1>1. /\ b.bps = bps /\ b.burst = burst /\ b.tokens = t /\ b.age = 0 /\ b.credit = credit
      /\ Sec \in Nat
  BY MeterAssumption
<1>2. b \in BucketType
  BY DEF BucketType
<1>3. BucketOK(b)
  BY <1>1 DEF BucketOK
<1>4. t * Sec \in Nat /\ burst * Sec \in Nat /\ 0 * bps = 0
  BY <1>1, Times
<1>5. Min({t * Sec + 0 * bps, burst * Sec}) <= t * Sec
  BY <1>4, MinOf
<1>6. Min({t * Sec + 0 * bps, burst * Sec}) \in Int
  BY <1>4, MinOf
<1>7. Sound(b)
  BY <1>1, <1>4, <1>5, <1>6 DEF Sound
<1> QED
  BY <1>1, <1>2, <1>3, <1>7 DEF GoodBucket

\* A bucket after a frame was offered, and after it was charged for it.
LEMMA TakeGood ==
    ASSUME NEW b, GoodBucket(b), NEW len \in Nat
    PROVE  /\ GoodBucket(take(b, len)) /\ take(b, len).bps = b.bps
           /\ Conforms(b, len) =>
                /\ GoodBucket(Charge(take(b, len), len))
                /\ Charge(take(b, len), len).bps = b.bps
<1> DEFINE t == CASE b.bps = 0 -> b.tokens
                  [] b.bps # 0 /\ Filled(b) >= len -> Filled(b) - len
                  [] OTHER -> Filled(b)
           n == take(b, len)
           c == Charge(n, len)
           g == Filled(b)
<1>1. /\ b.bps \in Nat /\ b.burst \in Nat /\ b.tokens \in Nat /\ b.age \in Nat
      /\ b.credit \in Int /\ Sec \in Nat /\ b \in BucketType
  BY MeterAssumption DEF GoodBucket, BucketType
<1>2. b.tokens <= b.burst /\ b.credit \in 0 .. (b.burst * Sec)
  BY <1>1 DEF GoodBucket, BucketOK
<1>3. g \in Nat /\ g <= b.burst /\ (b.bps # 0 => g * Sec <= b.credit)
  BY FilledBound
<1>4. /\ b.bps = 0 => t = b.tokens
      /\ b.bps # 0 /\ g >= len => t = g - len
      /\ b.bps # 0 /\ ~(g >= len) => t = g
  <2>1. CASE b.bps = 0
    BY <2>1
  <2>2. CASE b.bps # 0 /\ g >= len
    BY <2>2
  <2>3. CASE b.bps # 0 /\ ~(g >= len)
    BY <2>3
  <2> QED
    BY <2>1, <2>2, <2>3
<1>5. n = [bps |-> b.bps, burst |-> b.burst, tokens |-> t, age |-> 0, credit |-> b.credit]
  <2>1. n = [b EXCEPT !.tokens = t, !.age = 0]
    BY Zenon DEF take
  <2> HIDE DEF n, t
  <2> QED
    BY <1>1, <2>1 DEF BucketType
<1> HIDE DEF t, n, g
<1>6. t \in Nat /\ t <= b.burst /\ (b.bps # 0 => t <= g)
  BY <1>1, <1>2, <1>3, <1>4
<1>7. b.bps # 0 => t * Sec <= b.credit
  <2> SUFFICES ASSUME b.bps # 0 PROVE t * Sec <= b.credit
    OBVIOUS
  <2>1. t * Sec <= g * Sec /\ t * Sec \in Nat /\ g * Sec \in Nat
    BY <1>1, <1>3, <1>6, Times
  <2> QED
    BY <1>1, <1>3, <2>1
<1>8. GoodBucket(n) /\ n.bps = b.bps
  BY <1>1, <1>2, <1>5, <1>6, <1>7, FreshSound
<1>9. ASSUME Conforms(b, len) PROVE GoodBucket(c) /\ c.bps = b.bps
  <2>1. CASE b.bps = 0
    <3>1. c = n
      BY <1>5, <2>1 DEF Charge
    <3> QED
      BY <1>8, <3>1
  <2>2. CASE b.bps # 0
    <3> DEFINE d == b.credit - len * Sec
    <3>1. g >= len /\ t = g - len
      BY <1>4, <1>9, <2>2 DEF Conforms, g
    <3>2. c = [bps |-> b.bps, burst |-> b.burst, tokens |-> t, age |-> 0, credit |-> d]
      BY <1>5, <2>2 DEF Charge
    <3>3. len * Sec \in Nat /\ g * Sec \in Nat /\ len * Sec <= g * Sec
      BY <1>1, <1>3, <3>1, Times
    <3>4. b.burst * Sec \in Nat
      BY <1>1, Times
    <3>5. d \in Int /\ d \in 0 .. (b.burst * Sec)
      BY <1>1, <1>2, <1>3, <2>2, <3>3, <3>4
    <3>6. t * Sec = g * Sec - len * Sec
      BY <1>1, <1>3, <3>1
    <3>7. t * Sec <= d
      BY <1>1, <1>3, <2>2, <3>3, <3>6
    <3> HIDE DEF d, c
    <3> QED
      BY <1>1, <1>6, <3>2, <3>5, <3>7, FreshSound
  <2> QED
    BY <2>1, <2>2
<1> QED
  BY <1>8, <1>9 DEF n

\* A tick: the exact bucket earns bps, the age of the bucket at most that.
LEMMA OlderGood ==
    ASSUME NEW b, GoodBucket(b)
    PROVE  GoodBucket(Older(b)) /\ Older(b).bps = b.bps
<1> DEFINE n == Older(b)
           a == IF b.age = Sec THEN b.age ELSE b.age + 1
           B == b.burst * Sec
           T == b.tokens * Sec
           d == Min({b.credit + b.bps, B})
<1>1. /\ b.bps \in Nat /\ b.burst \in Nat /\ b.tokens \in Nat /\ b.age \in Nat
      /\ b.credit \in Int /\ Sec \in Nat /\ b \in BucketType
  BY MeterAssumption DEF GoodBucket, BucketType
<1>2. b.tokens <= b.burst /\ b.credit \in 0 .. B /\ b.age <= Sec
  BY <1>1 DEF GoodBucket, BucketOK
<1>3. n = [bps |-> b.bps, burst |-> b.burst, tokens |-> b.tokens, age |-> a, credit |-> d]
  <2>1. n = [b EXCEPT !.age = a, !.credit = d]
    BY Zenon DEF Older
  <2> HIDE DEF n, a, d
  <2> QED
    BY <1>1, <2>1 DEF BucketType
<1>4. B \in Nat /\ T \in Nat
  BY <1>1, Times
<1>5. a \in Nat /\ a <= Sec /\ a <= b.age + 1
  BY <1>1, <1>2
<1>6. a * b.bps <= (b.age + 1) * b.bps /\ a * b.bps \in Nat /\ b.age * b.bps \in Nat
  BY <1>1, <1>5, Times
<1>7. (b.age + 1) * b.bps = b.age * b.bps + b.bps
  BY <1>1
<1> HIDE DEF n, a, B, T
<1>8. d = IF b.credit + b.bps <= B THEN b.credit + b.bps ELSE B
  BY <1>1, <1>4, MinOf
<1> HIDE DEF d
<1>9. d \in 0 .. B
  BY <1>1, <1>2, <1>4, <1>8
<1>10. /\ n.bps = b.bps /\ n.burst = b.burst /\ n.tokens = b.tokens /\ n.age = a /\ n.credit = d
  BY <1>3
<1>11. n \in BucketType
  BY <1>1, <1>3, <1>4, <1>5, <1>9 DEF BucketType
<1>12. BucketOK(n)
  BY <1>1, <1>2, <1>5, <1>9, <1>10 DEF BucketOK, B
<1>13. Sound(n)
  <2> SUFFICES ASSUME b.bps # 0 PROVE Min({T + a * b.bps, B}) <= d
    BY <1>10 DEF Sound, T, B
  <2>1. Min({T + b.age * b.bps, B}) <= b.credit
    BY DEF GoodBucket, Sound, T, B
  <2>2. Min({T + b.age * b.bps, B}) = IF T + b.age * b.bps <= B THEN T + b.age * b.bps ELSE B
    BY <1>4, <1>6, MinOf
  <2>3. Min({T + a * b.bps, B}) = IF T + a * b.bps <= B THEN T + a * b.bps ELSE B
    BY <1>4, <1>6, MinOf
  <2> QED
    BY <1>1, <1>4, <1>6, <1>7, <1>8, <2>1, <2>2, <2>3
<1> QED
  BY <1>10, <1>11, <1>12, <1>13 DEF GoodBucket, n

\* Both buckets of an entry.
LEMMA OlderEntryGood ==
    ASSUME NEW m, GoodEntry(m)
    PROVE  /\ GoodEntry(OlderEntry(m))
           /\ OlderEntry(m).total.bps = m.total.bps /\ OlderEntry(m).public.bps = m.public.bps
<1>1. GoodBucket(m.total) /\ GoodBucket(m.public)
  BY DEF GoodEntry
<1>2. /\ OlderEntry(m) = [total |-> Older(m.total), public |-> Older(m.public)]
      /\ OlderEntry(m).total = Older(m.total) /\ OlderEntry(m).public = Older(m.public)
  BY DEF OlderEntry
<1>3. Older(m.total) \in BucketType /\ Older(m.public) \in BucketType
  BY <1>1, OlderGood DEF GoodBucket
<1> QED
  BY <1>1, <1>2, <1>3, OlderGood DEF GoodEntry, EntryType

\* A request's entry.
LEMMA NewEntry ==
    ASSUME NEW r \in Nat \X Nat
    PROVE  /\ GoodEntry(meter_state(r))
           /\ meter_state(r).total.bps = r[1] * Unit /\ meter_state(r).public.bps = r[2] * Unit
<1>1. r[1] * Unit \in Nat /\ r[2] * Unit \in Nat
  BY MeterAssumption
<1> DEFINE x == Bucket(r[1] * Unit)
           y == Bucket(r[2] * Unit)
<1>2. GoodBucket(x) /\ GoodBucket(y) /\ x.bps = r[1] * Unit /\ y.bps = r[2] * Unit
  BY <1>1, NewBucket
<1>3. meter_state(r) = [total |-> x, public |-> y]
  BY DEF meter_state
<1> HIDE DEF x, y
<1>4. meter_state(r).total = x /\ meter_state(r).public = y
  BY <1>3
<1>5. x \in BucketType /\ y \in BucketType
  BY <1>2 DEF GoodBucket
<1> QED
  BY <1>2, <1>3, <1>4, <1>5 DEF GoodEntry, EntryType

(***************************************************************************)
(* The inductive invariant.                                                *)
(***************************************************************************)
CpuType == [pc : {"idle", "take", "insert"}, entry : EntryType, len : Nat,
            ext : BOOLEAN, pass : BOOLEAN]
Rates(m) == <<m.total.bps, m.public.bps>>

\* Every entry, in METER or copied by a CPU, is sound.
SoundInv ==
    /\ meter = {} \/ \E m : meter = {m}
    /\ \A m \in meter : GoodEntry(m)
    /\ iface \subseteq Requests
    /\ cpu \in [Cpus -> CpuType]
    /\ \A c \in Cpus : GoodEntry(cpu[c].entry)
    /\ verdict \in Verdict
    /\ late \in BOOLEAN

\* Unless a detach met a packet, a CPU that meters one holds a copy with the
\* rates of the entry of an interface that is still there.
CopiesInv ==
    ~late => \A c \in Cpus : cpu[c].pc # "idle" =>
        iface # {} /\ \E m \in meter : Rates(m) = Rates(cpu[c].entry)

Inv == SoundInv /\ LimitsExact /\ CopiesInv

\* The state of a CPU before its first packet.
LEMMA IdleType == IdleCpu \in CpuType /\ IdleCpu.pc = "idle" /\ GoodEntry(IdleCpu.entry)
<1>1. GoodEntry(NoEntry)
  BY NewEntry DEF NoEntry
<1> HIDE DEF NoEntry
<1>2. NoEntry \in EntryType
  BY <1>1 DEF GoodEntry
<1> HIDE DEF GoodEntry
<1> QED
  BY <1>1, <1>2 DEF IdleCpu, CpuType

\* A step of one CPU.
LEMMA CpuSound ==
    ASSUME SoundInv, NEW c \in Cpus, NEW s \in CpuType, GoodEntry(s.entry),
           cpu' = [cpu EXCEPT ![c] = s],
           meter' = {} \/ (\E m : meter' = {m}), \A m \in meter' : GoodEntry(m),
           iface' = iface, late' = late, verdict' \in Verdict
    PROVE  SoundInv'
<1>1. \A x \in Cpus : cpu'[x] = IF x = c THEN s ELSE cpu[x]
  BY DEF SoundInv
<1>2. cpu' \in [Cpus -> CpuType]
  BY DEF SoundInv
<1>3. \A x \in Cpus : GoodEntry(cpu'[x].entry)
  BY <1>1 DEF SoundInv
<1> HIDE DEF GoodEntry
<1> QED
  BY <1>2, <1>3 DEF SoundInv

\* METER.get.
LEMMA GetKeeps ==
    ASSUME Inv, NEW c \in Cpus, NEW len \in Lens, NEW ext \in BOOLEAN, MeterGet(c, len, ext)
    PROVE  Inv'
<1>1. meter' = meter /\ iface' = iface /\ late' = late /\ iface # {} /\ cpu[c].pc = "idle"
  BY DEF MeterGet, At
<1>2. CASE cpu' = cpu /\ verdict' = "pass"
  BY <1>1, <1>2 DEF Inv, SoundInv, CopiesInv, LimitsExact, Verdict
<1>3. CASE \E m \in meter : /\ cpu' = [cpu EXCEPT ![c] = [IdleCpu EXCEPT !.pc = "take",
                                              !.entry = m, !.len = len, !.ext = ext]]
                            /\ verdict' = "none"
  <2>1. PICK m \in meter : cpu' = [cpu EXCEPT ![c] = [IdleCpu EXCEPT !.pc = "take",
                                              !.entry = m, !.len = len, !.ext = ext]]
    BY <1>3
  <2> DEFINE s == [IdleCpu EXCEPT !.pc = "take", !.entry = m, !.len = len, !.ext = ext]
  <2>2. GoodEntry(m) /\ m \in EntryType /\ len \in Nat
    BY MeterAssumption DEF Inv, SoundInv, GoodEntry
  <2>3. s \in CpuType /\ s.entry = m
    <3> HIDE DEF IdleCpu
    <3> QED
      BY <2>2, IdleType DEF CpuType
  <2> HIDE DEF s
  <2>4. cpu' = [cpu EXCEPT ![c] = s]
    BY <2>1 DEF s
  <2>5. SoundInv'
    <3>1. SoundInv /\ verdict' \in Verdict
      BY <1>3 DEF Inv, Verdict
    <3>2. (meter' = {} \/ \E x : meter' = {x}) /\ \A x \in meter' : GoodEntry(x)
      BY <1>1, <3>1 DEF SoundInv
    <3> QED
      BY <1>1, <2>2, <2>3, <2>4, <3>1, <3>2, CpuSound
  <2>6. \A x \in Cpus : cpu'[x] = IF x = c THEN s ELSE cpu[x]
    BY <2>4 DEF Inv, SoundInv
  <2>7. CopiesInv'
    BY <1>1, <2>3, <2>6 DEF Inv, CopiesInv, Rates
  <2>8. LimitsExact'
    BY <1>1 DEF Inv, LimitsExact
  <2> QED
    BY <2>5, <2>7, <2>8 DEF Inv
<1> QED
  BY <1>2, <1>3 DEF MeterGet

\* Both buckets are charged.
LEMMA TakeKeeps ==
    ASSUME Inv, NEW c \in Cpus, MeterTake(c)
    PROVE  Inv'
<1> DEFINE s == cpu[c]
           m == s.entry
           pass == Conforms(m.total, s.len) /\ (s.ext => Conforms(m.public, s.len))
           total == take(m.total, s.len)
           public == IF s.ext THEN take(m.public, s.len) ELSE m.public
           t == IF pass THEN Charge(total, s.len) ELSE total
           p == IF pass /\ s.ext THEN Charge(public, s.len) ELSE public
           e == [total |-> t, public |-> p]
           n == [s EXCEPT !.pc = "insert", !.pass = pass, !.entry = e]
<1>1. /\ meter' = meter /\ iface' = iface /\ late' = late /\ verdict' = "none"
      /\ s.pc = "take" /\ cpu' = [cpu EXCEPT ![c] = n]
  BY DEF MeterTake, At
<1>2. s \in CpuType /\ GoodEntry(m)
  BY DEF Inv, SoundInv
<1>3. s.len \in Nat /\ s.ext \in BOOLEAN
  BY <1>2 DEF CpuType
<1>4. GoodBucket(m.total) /\ GoodBucket(m.public)
  BY <1>2 DEF GoodEntry
<1>5. GoodBucket(t) /\ t.bps = m.total.bps
  <2>1. CASE pass
    BY <1>3, <1>4, <2>1, TakeGood
  <2>2. CASE ~pass
    BY <1>3, <1>4, <2>2, TakeGood
  <2> QED
    BY <2>1, <2>2
<1>6. GoodBucket(p) /\ p.bps = m.public.bps
  <2>1. CASE pass /\ s.ext
    <3>1. Conforms(m.public, s.len) /\ p = Charge(take(m.public, s.len), s.len)
      BY <2>1
    <3> QED
      BY <1>3, <1>4, <3>1, TakeGood
  <2>2. CASE ~pass /\ s.ext
    BY <1>3, <1>4, <2>2, TakeGood
  <2>3. CASE ~s.ext
    BY <1>4, <2>3
  <2> QED
    BY <2>1, <2>2, <2>3
<1> HIDE DEF t, p
<1>7. e.total = t /\ e.public = p
  OBVIOUS
<1>8. GoodEntry(e) /\ Rates(e) = Rates(m) /\ e \in EntryType
  BY <1>5, <1>6, <1>7 DEF GoodEntry, EntryType, Rates, GoodBucket
<1>9. pass \in BOOLEAN
  BY Zenon
<1> HIDE DEF e, pass
<1>10. n \in CpuType /\ n.entry = e
  BY <1>2, <1>8, <1>9 DEF CpuType
<1> HIDE DEF n
<1>11. SoundInv'
  <2>1. SoundInv /\ verdict' \in Verdict
    BY <1>1 DEF Inv, Verdict
  <2>2. (meter' = {} \/ \E x : meter' = {x}) /\ \A x \in meter' : GoodEntry(x)
    BY <1>1, <2>1 DEF SoundInv
  <2> QED
    BY <1>1, <1>8, <1>10, <2>1, <2>2, CpuSound
<1>12. \A x \in Cpus : cpu'[x] = IF x = c THEN n ELSE cpu[x]
  BY <1>1 DEF Inv, SoundInv
<1>13. CopiesInv'
  <2> SUFFICES ASSUME ~late, NEW x \in Cpus, cpu'[x].pc # "idle"
               PROVE  iface # {} /\ \E y \in meter : Rates(y) = Rates(cpu'[x].entry)
    BY <1>1 DEF CopiesInv, Rates
  <2>1. CASE x = c
    BY <1>1, <1>8, <1>10, <1>12, <2>1 DEF Inv, CopiesInv
  <2>2. CASE x # c
    BY <1>12, <2>2 DEF Inv, CopiesInv
  <2> QED
    BY <2>1, <2>2
<1>14. LimitsExact'
  BY <1>1 DEF Inv, LimitsExact
<1> QED
  BY <1>11, <1>13, <1>14 DEF Inv

\* METER.insert.
LEMMA InsertKeeps ==
    ASSUME Inv, NEW c \in Cpus, MeterInsert(c)
    PROVE  Inv'
<1> DEFINE m == cpu[c].entry
<1>1. /\ meter' = {m} /\ iface' = iface /\ late' = late /\ verdict' \in {"pass", "drop"}
      /\ cpu[c].pc = "insert" /\ cpu' = [cpu EXCEPT ![c] = IdleCpu]
  BY DEF MeterInsert, At
<1>2. GoodEntry(m)
  BY DEF Inv, SoundInv
<1> HIDE DEF IdleCpu
<1>3. SoundInv'
  <2>1. SoundInv /\ verdict' \in Verdict
    BY <1>1 DEF Inv, Verdict
  <2>2. (meter' = {} \/ \E x : meter' = {x}) /\ \A x \in meter' : GoodEntry(x)
    BY <1>1, <1>2
  <2>3. IdleCpu \in CpuType /\ GoodEntry(IdleCpu.entry)
    BY IdleType
  <2> QED
    BY <1>1, <2>1, <2>2, <2>3, CpuSound
<1>4. \A x \in Cpus : cpu'[x] = IF x = c THEN IdleCpu ELSE cpu[x]
  BY <1>1 DEF Inv, SoundInv
<1>5. ASSUME ~late
      PROVE  iface # {} /\ \E x : meter = {x} /\ Rates(x) = Rates(m)
  <2>1. iface # {} /\ \E x \in meter : Rates(x) = Rates(m)
    BY <1>1, <1>5 DEF Inv, CopiesInv
  <2> QED
    BY <2>1 DEF Inv, SoundInv
<1>6. CopiesInv'
  <2> SUFFICES ASSUME ~late, NEW x \in Cpus, cpu'[x].pc # "idle"
               PROVE  iface # {} /\ Rates(m) = Rates(cpu'[x].entry)
    BY <1>1 DEF CopiesInv, Rates
  <2>1. cpu'[x] = cpu[x]
    BY <1>4, IdleType
  <2> QED
    BY <1>5, <2>1 DEF Inv, CopiesInv
<1>7. LimitsExact'
  <2> SUFFICES ASSUME ~late
               PROVE  {Rates(x) : x \in meter'} = {<<r[1] * Unit, r[2] * Unit>> : r \in iface \ {<<0, 0>>}}
    BY <1>1 DEF LimitsExact, Rates
  <2>1. {Rates(x) : x \in meter} = {<<r[1] * Unit, r[2] * Unit>> : r \in iface \ {<<0, 0>>}}
    BY DEF Inv, LimitsExact, Rates
  <2>2. PICK x : meter = {x} /\ Rates(x) = Rates(m)
    BY <1>5
  <2>3. {Rates(y) : y \in meter'} = {Rates(y) : y \in meter}
    BY <1>1, <2>2
  <2> QED
    BY <2>1, <2>3
<1> QED
  BY <1>3, <1>6, <1>7 DEF Inv

\* A tick changes no rate.
LEMMA TickKeeps ==
    ASSUME Inv, Tick
    PROVE  Inv'
<1>1. /\ meter' = {OlderEntry(m) : m \in meter} /\ iface' = iface /\ late' = late
      /\ verdict' = "none"
  BY DEF Tick
<1>2. \A m : GoodEntry(m) => GoodEntry(OlderEntry(m)) /\ Rates(OlderEntry(m)) = Rates(m)
                             /\ OlderEntry(m) \in EntryType
  BY OlderEntryGood DEF Rates, GoodEntry
<1>3. \A m \in meter : GoodEntry(m) /\ Rates(OlderEntry(m)) = Rates(m)
  BY <1>2 DEF Inv, SoundInv
<1>4. ASSUME NEW c \in Cpus
      PROVE  /\ cpu'[c] \in CpuType /\ GoodEntry(cpu'[c].entry) /\ cpu'[c].pc = cpu[c].pc
             /\ Rates(cpu'[c].entry) = Rates(cpu[c].entry)
  <2> DEFINE s == cpu[c]
  <2>1. s \in CpuType /\ GoodEntry(s.entry)
    BY DEF Inv, SoundInv
  <2>2. CASE At(c, "idle")
    <3>1. cpu'[c] = s
      BY <2>2 DEF Tick
    <3> QED
      BY <2>1, <3>1
  <2>3. CASE ~At(c, "idle")
    <3>1. cpu'[c] = [s EXCEPT !.entry = OlderEntry(@)]
      BY <2>3 DEF Tick
    <3>2. GoodEntry(OlderEntry(s.entry)) /\ Rates(OlderEntry(s.entry)) = Rates(s.entry)
          /\ OlderEntry(s.entry) \in EntryType
      BY <1>2, <2>1
    <3> HIDE DEF s
    <3>3. cpu'[c] \in CpuType /\ cpu'[c].entry = OlderEntry(s.entry) /\ cpu'[c].pc = s.pc
      BY <2>1, <3>1, <3>2 DEF CpuType
    <3> QED
      BY <3>2, <3>3 DEF s
  <2> QED
    BY <2>2, <2>3
<1>5. cpu' = [c \in Cpus |-> cpu'[c]]
  BY DEF Tick
<1>6. cpu' \in [Cpus -> CpuType]
  BY <1>4, <1>5
<1>7. meter' = {} \/ \E m : meter' = {m}
  BY <1>1 DEF Inv, SoundInv
<1>8. SoundInv'
  <2>1. \A m \in meter' : GoodEntry(m)
    BY <1>1, <1>2, <1>3
  <2> QED
    BY <1>1, <1>4, <1>6, <1>7, <2>1 DEF Inv, SoundInv, Verdict
<1>9. {Rates(m) : m \in meter'} = {Rates(m) : m \in meter}
  BY <1>1, <1>3
<1>10. CopiesInv'
  <2> SUFFICES ASSUME ~late, NEW x \in Cpus, cpu'[x].pc # "idle"
               PROVE  iface # {} /\ \E y \in meter' : Rates(y) = Rates(cpu'[x].entry)
    BY <1>1 DEF CopiesInv, Rates
  <2>1. iface # {} /\ \E y \in meter : Rates(y) = Rates(cpu[x].entry)
    BY <1>4 DEF Inv, CopiesInv
  <2> QED
    BY <1>1, <1>3, <1>4, <2>1
<1>11. LimitsExact'
  BY <1>1, <1>9 DEF Inv, LimitsExact, Rates
<1> QED
  BY <1>8, <1>10, <1>11 DEF Inv

\* create_interface: no packet is metered for a device without interface,
\* unless a detach met it, and METER holds no entry.
LEMMA CreateKeeps ==
    ASSUME Inv, NEW r \in Requests, CreateInterface(r)
    PROVE  Inv'
<1> DEFINE e == meter_state(r)
<1>1. /\ iface = {} /\ iface' = {r} /\ cpu' = cpu /\ late' = late /\ verdict' = "none"
      /\ meter' = IF r = <<0, 0>> THEN meter ELSE {e}
  BY DEF CreateInterface
<1>2. r \in Nat \X Nat
  BY MeterAssumption
<1>3. GoodEntry(e) /\ Rates(e) = <<r[1] * Unit, r[2] * Unit>>
  BY <1>2, NewEntry DEF Rates
<1> HIDE DEF e
<1>4. SoundInv'
  BY <1>1, <1>3 DEF Inv, SoundInv, Verdict
<1>5. ~late => meter = {} /\ \A c \in Cpus : cpu[c].pc = "idle"
  <2> SUFFICES ASSUME ~late PROVE meter = {} /\ \A c \in Cpus : cpu[c].pc = "idle"
    OBVIOUS
  <2>1. {Rates(m) : m \in meter} = {}
    BY <1>1 DEF Inv, LimitsExact, Rates
  <2> QED
    BY <1>1, <2>1 DEF Inv, CopiesInv
<1>6. CopiesInv'
  BY <1>1, <1>5 DEF CopiesInv
<1>7. LimitsExact'
  <2> SUFFICES ASSUME ~late
               PROVE  {Rates(x) : x \in meter'} = {<<q[1] * Unit, q[2] * Unit>> : q \in {r} \ {<<0, 0>>}}
    BY <1>1 DEF LimitsExact, Rates
  <2>1. CASE r = <<0, 0>>
    BY <1>1, <1>5, <2>1
  <2>2. CASE r # <<0, 0>>
    BY <1>1, <1>3, <2>2
  <2> QED
    BY <2>1, <2>2
<1> QED
  BY <1>4, <1>6, <1>7 DEF Inv

\* detach_interface.
LEMMA DetachKeeps ==
    ASSUME Inv, DetachInterface
    PROVE  Inv'
<1>1. iface' = {} /\ meter' = {} /\ late' = (late \/ Busy) /\ cpu' = cpu /\ verdict' = "none"
  BY DEF DetachInterface
<1>2. Busy \in BOOLEAN /\ late \in BOOLEAN
  BY DEF Busy, Inv, SoundInv
<1>3. SoundInv'
  BY <1>1, <1>2 DEF Inv, SoundInv, Verdict
<1>4. ~late' => \A c \in Cpus : cpu[c].pc = "idle"
  BY <1>1 DEF Busy, At
<1>5. CopiesInv'
  BY <1>1, <1>4 DEF CopiesInv
<1>6. LimitsExact'
  BY <1>1 DEF LimitsExact
<1> QED
  BY <1>3, <1>5, <1>6 DEF Inv

\* Initially there is neither an interface nor an entry.
LEMMA InitInv == Init => Inv
<1> SUFFICES ASSUME Init PROVE Inv
  OBVIOUS
<1> HIDE DEF IdleCpu
<1>1. /\ \A c \in Cpus : cpu[c] \in CpuType /\ GoodEntry(cpu[c].entry) /\ cpu[c].pc = "idle"
      /\ cpu = [c \in Cpus |-> cpu[c]]
  BY IdleType DEF Init
<1>2. SoundInv
  BY <1>1 DEF Init, SoundInv, Verdict
<1>3. CopiesInv /\ LimitsExact
  BY <1>1 DEF Init, CopiesInv, LimitsExact
<1> QED
  BY <1>2, <1>3 DEF Inv

\* Every step preserves the inductive invariant.
LEMMA NextInv == Inv /\ [Next]_vars => Inv'
<1> SUFFICES ASSUME Inv, [Next]_vars PROVE Inv'
  OBVIOUS
<1>1. CASE UNCHANGED vars
  BY <1>1 DEF vars, Inv, SoundInv, LimitsExact, CopiesInv
<1>2. CASE Next
  BY <1>2, GetKeeps, TakeKeeps, InsertKeeps, TickKeeps, CreateKeeps, DetachKeeps
  DEF Next, Send, CpuStep
<1> QED
  BY <1>1, <1>2

\* Type correctness: no bucket exceeds its burst, no age a second, and the
\* exact bucket never goes below zero.
THEOREM MeterTypeCorrect == Spec => []TypeOK
<1>1. Inv => TypeOK
  <2> SUFFICES ASSUME Inv PROVE TypeOK
    OBVIOUS
  <2>1. \A m \in meter : EntryOK(m)
    BY DEF Inv, SoundInv, GoodEntry, GoodBucket, EntryOK
  <2>2. \A c \in Cpus : cpu[c].pc \in {"idle", "take", "insert"} /\ EntryOK(cpu[c].entry)
    BY DEF Inv, SoundInv, GoodEntry, GoodBucket, EntryOK, CpuType
  <2>3. Cardinality(meter) <= 1
    <3>1. CASE meter = {}
      BY <3>1, FS_EmptySet
    <3>2. CASE \E m : meter = {m}
      <4>1. PICK m : meter = {m}
        BY <3>2
      <4>2. Cardinality({m}) = 1
        BY FS_Singleton
      <4> QED
        BY <4>1, <4>2
    <3> QED
      BY <3>1, <3>2 DEF Inv, SoundInv
  <2> QED
    BY <2>1, <2>2, <2>3 DEF Inv, SoundInv, TypeOK
<1> QED
  BY <1>1, InitInv, NextInv, PTL DEF Spec

\* For every rate, burst, clock resolution and number of CPUs: what take will
\* admit at once never exceeds what an exact token bucket has left, although
\* refills are rounded down and wrap in u64, and copies are written back late.
THEOREM AffordableHolds == Spec => []Affordable
<1>1. Inv => Affordable
  BY DEF Inv, SoundInv, GoodEntry, GoodBucket, Sound, Affordable
<1> QED
  BY <1>1, InitInv, NextInv, PTL DEF Spec

\* The METER entry of a device carries the rates its interface asked for, and
\* there is none without an interface or a limit, as long as no detach met a
\* packet between METER.get and METER.insert.
THEOREM LimitsExactHolds == Spec => []LimitsExact
<1>1. Inv => LimitsExact
  BY DEF Inv
<1> QED
  BY <1>1, InitInv, NextInv, PTL DEF Spec
=============================================================================
