-------------------------- MODULE NeighborNatProofs --------------------------
(***************************************************************************)
(* Proofs about NeighborNat, for any number of ranges, CPUs and changes.   *)
(***************************************************************************)
EXTENDS NeighborNat, FiniteSetTheorems, TLAPS

Inv == TypeOK /\ ScanInv

(***************************************************************************)
(* The three ways a new list comes about.                                  *)
(***************************************************************************)

\* A request becomes an entry with u16 ports (create_neighbor_nat).
LEMMA EntryOfType ==
    ASSUME NEW v \in Vnis, NEW ip \in NatIps, NEW r \in Requests, NEW u \in Underlays
    PROVE  EntryOf(v, ip, r, u) \in Entry
<1>1. r[1] \in Nat /\ r[2] \in Nat /\ W \in Nat \ {0}
  BY NeighborAssumption
<1>2. r[1] % W \in Port /\ r[2] % W \in Port
  BY <1>1 DEF Port
<1> QED
  BY <1>2 DEF EntryOf, Entry

\* Vec::retain yields a list of the old entries that is no longer.
LEMMA RetainedList ==
    ASSUME NEW s \in Seq(Entry), NEW P \in SUBSET DOMAIN s, NEW f \in Ascending(P)
    PROVE  /\ [i \in DOMAIN f |-> s[f[i]]] \in Seq(Entry)
           /\ Len([i \in DOMAIN f |-> s[f[i]]]) <= Len(s)
           /\ DOMAIN [i \in DOMAIN f |-> s[f[i]]] = DOMAIN f
           /\ \A i \in DOMAIN f : f[i] \in DOMAIN s
           /\ \A i, j \in DOMAIN f : i < j => f[i] # f[j]
<1>1. DOMAIN s = 1 .. Len(s) /\ Len(s) \in Nat
  OBVIOUS
<1>2. IsFiniteSet(1 .. Len(s)) /\ Cardinality(1 .. Len(s)) = Len(s)
  <2>1. 1 \in Int /\ Len(s) \in Int
    BY <1>1
  <2>2. Cardinality(1 .. Len(s)) = IF 1 > Len(s) THEN 0 ELSE Len(s) - 1 + 1
    BY <2>1, FS_Interval
  <2> QED
    BY <1>1, <2>1, <2>2, FS_Interval
<1>3. Cardinality(P) \in Nat /\ Cardinality(P) <= Len(s)
  <2>1. IsFiniteSet(P) /\ Cardinality(P) <= Cardinality(1 .. Len(s))
    BY <1>1, <1>2, FS_Subset
  <2> QED
    BY <2>1, <1>2, FS_CardinalityType
<1>4. f \in [1 .. Cardinality(P) -> P] /\ \A i, j \in DOMAIN f : i < j => f[i] < f[j]
  BY DEF Ascending
<1>5. DOMAIN f = 1 .. Cardinality(P) /\ \A i \in DOMAIN f : f[i] \in P
  BY <1>4
<1>6. \A i \in DOMAIN f : s[f[i]] \in Entry /\ f[i] \in DOMAIN s /\ f[i] \in Int
  BY <1>1, <1>5
<1> DEFINE t == [i \in 1 .. Cardinality(P) |-> s[f[i]]]
<1>7. t \in Seq(Entry) /\ Len(t) = Cardinality(P)
  BY <1>3, <1>5, <1>6
<1>8. [i \in DOMAIN f |-> s[f[i]]] = t
  BY <1>5
<1>9. \A i, j \in DOMAIN f : i < j => f[i] # f[j]
  BY <1>4, <1>6
<1> QED
  BY <1>3, <1>5, <1>6, <1>7, <1>8, <1>9

(***************************************************************************)
(* The inductive invariant.                                                *)
(***************************************************************************)

\* The empty maps satisfy it.
LEMMA InitInv == Init => Inv
<1> SUFFICES ASSUME Init PROVE Inv
  OBVIOUS
<1>1. << >> \in Seq(Entry) /\ Len(<< >>) = 0 /\ DOMAIN slots = {}
  BY DEF Init
<1>2. TypeOK
  BY <1>1, NeighborAssumption DEF Init, TypeOK, Task, LookupState
<1>3. ScanInv
  BY DEF Init, ScanInv, LookupSound, IdleLookup, FreeTask
<1> QED
  BY <1>2, <1>3 DEF Inv

\* A change of the list: every lookup under way counts the new one, too.
LEMMA ReprogramKeeps ==
    ASSUME Inv, NEW list \in Seq(Entry), Len(list) <= NbMax, Reprogram(list), UNCHANGED maps
    PROVE  Inv'
<1>1. /\ ops < MaxOps /\ ops' = ops + 1
      /\ neighNats' = list /\ task' = TaskAt(list, 0)
      /\ attempts' = attempts \cup {list}
      /\ slots' = slots /\ count' = count
  BY DEF Reprogram, maps
<1>2. lookup \in [Cpus -> LookupState]
  BY DEF Inv, TypeOK
<1>3. ASSUME NEW c \in Cpus
      PROVE  /\ lookup'[c] \in LookupState
             /\ lookup'[c].pc = lookup[c].pc
             /\ lookup[c].pc # "idle" =>
                   /\ lookup'[c].vni = lookup[c].vni /\ lookup'[c].ip = lookup[c].ip
                   /\ lookup'[c].port = lookup[c].port /\ lookup'[c].count = lookup[c].count
                   /\ lookup'[c].owner = lookup[c].owner
                   /\ lookup'[c].window = lookup[c].window \cup {list}
  <2>1. lookup'[c] = IF lookup[c].pc = "idle" THEN lookup[c]
                     ELSE [lookup[c] EXCEPT !.window = lookup[c].window \cup {list}]
    BY DEF Reprogram
  <2>2. CASE lookup[c].pc = "idle"
    BY <1>2, <2>1, <2>2
  <2>3. CASE lookup[c].pc # "idle"
    <3>1. lookup[c] \in [pc : {"scan", "done"}, vni : Vnis, ip : NatIps, port : Port,
                         count : 0 .. NbMax, idx : Nat, owner : SUBSET Underlays,
                         window : SUBSET Seq(Entry)]
      BY <1>2, <2>3 DEF LookupState, IdleLookup
    <3> QED
      BY <2>1, <2>3, <3>1 DEF LookupState
  <2> QED
    BY <2>2, <2>3
<1>4. TypeOK'
  <2>1. lookup' \in [Cpus -> LookupState]
    <3>1. lookup' = [c \in Cpus |-> lookup'[c]]
      BY DEF Reprogram
    <3> QED
      BY <1>3, <3>1
  <2>2. task' \in Task
    BY <1>1 DEF Task, TaskAt
  <2>3. ops' \in 0 .. MaxOps
    BY <1>1, NeighborAssumption DEF Inv, TypeOK
  <2> QED
    BY <1>1, <2>1, <2>2, <2>3 DEF Inv, TypeOK
<1>5. LookupSound'
  <2> SUFFICES ASSUME NEW c \in Cpus, lookup'[c].pc = "done", NEW u \in lookup'[c].owner
               PROVE  Names(lookup'[c].window, lookup'[c], u)
    BY DEF LookupSound, Names, Covers
  <2>1. lookup[c].pc = "done" /\ u \in lookup[c].owner
    BY <1>3
  <2>2. Names(lookup[c].window, lookup[c], u)
    BY <2>1 DEF Inv, ScanInv, LookupSound
  <2> QED
    BY <1>3, <2>1, <2>2 DEF Names, Covers
<1>6. \A i \in 0 .. (count' - 1) : SlotFrom(i, attempts)'
  BY <1>1 DEF Inv, ScanInv, SlotFrom
<1>7. ASSUME NEW c \in Cpus, lookup'[c].pc # "idle"
      PROVE  /\ attempts' \subseteq lookup'[c].window
             /\ \A i \in 0 .. (lookup'[c].count - 1) : SlotFrom(i, lookup[c].window)'
  <2>1. /\ attempts \subseteq lookup[c].window
        /\ \A i \in 0 .. (lookup[c].count - 1) : SlotFrom(i, lookup[c].window)
    BY <1>3, <1>7 DEF Inv, ScanInv
  <2> QED
    BY <1>1, <1>3, <1>7, <2>1 DEF SlotFrom
<1>8. /\ task'.todo \in attempts' /\ Len(task'.todo) <= NbMax /\ task'.idx <= Len(task'.todo)
      /\ \A i \in 0 .. (task'.idx - 1) : i \in DOMAIN slots' /\ slots'[i] = task'.todo[i + 1]
  <2>1. task'.todo = list /\ task'.idx = 0
    BY <1>1 DEF TaskAt
  <2>2. Len(list) \in Nat
    OBVIOUS
  <2> QED
    BY <1>1, <2>1, <2>2
<1> QED
  BY <1>4, <1>5, <1>6, <1>7, <1>8 DEF Inv, ScanInv

\* add_neighbor_nat, del_neighbor_nat and the purge of a VNI.
LEMMA ListKeeps ==
    ASSUME Inv,
           \/ \E v \in Vnis, ip \in NatIps, r \in Requests, u \in Underlays :
                 AddNeighborNat(EntryOf(v, ip, r, u))
           \/ \E v \in Vnis, ip \in NatIps, r \in Requests : DelNeighborNat(v, ip, r)
           \/ \E v \in Vnis : PurgeVni(v)
    PROVE  Inv'
<1>1. neighNats \in Seq(Entry) /\ Len(neighNats) <= NbMax /\ NbMax \in Nat
  BY NeighborAssumption DEF Inv, TypeOK
<1>2. ASSUME NEW v \in Vnis, NEW ip \in NatIps, NEW r \in Requests, NEW u \in Underlays,
             AddNeighborNat(EntryOf(v, ip, r, u))
      PROVE  Inv'
  <2> DEFINE n == EntryOf(v, ip, r, u)
  <2>1. n \in Entry
    BY EntryOfType
  <2>2. Len(neighNats) < NbMax /\ Reprogram(Append(neighNats, n)) /\ UNCHANGED maps
    BY <1>2 DEF AddNeighborNat
  <2> HIDE DEF n
  <2>3. Append(neighNats, n) \in Seq(Entry) /\ Len(Append(neighNats, n)) <= NbMax
    BY <1>1, <2>1, <2>2
  <2> QED
    BY <2>2, <2>3, ReprogramKeeps
<1>3. ASSUME NEW P \in SUBSET DOMAIN neighNats, Retain(P), UNCHANGED maps
      PROVE  Inv'
  <2>1. PICK f \in Ascending(P) : Reprogram([i \in DOMAIN f |-> neighNats[f[i]]])
    BY <1>3 DEF Retain
  <2> DEFINE list == [i \in DOMAIN f |-> neighNats[f[i]]]
  <2>2. list \in Seq(Entry) /\ Len(list) <= Len(neighNats)
    BY <1>1, RetainedList
  <2>3. Len(list) <= NbMax
    BY <1>1, <2>2
  <2>4. Reprogram(list)
    BY <2>1
  <2> HIDE DEF list
  <2> QED
    BY <1>3, <2>2, <2>3, <2>4, ReprogramKeeps
<1>4. ASSUME NEW v \in Vnis, NEW ip \in NatIps, NEW r \in Requests, DelNeighborNat(v, ip, r)
      PROVE  Inv'
  BY <1>3, <1>4 DEF DelNeighborNat
<1>5. ASSUME NEW v \in Vnis, PurgeVni(v)
      PROVE  Inv'
  BY <1>3, <1>5 DEF PurgeVni
<1> QED
  BY <1>2, <1>4, <1>5

\* One slot is overwritten while lookups run.
LEMMA FillKeeps ==
    ASSUME Inv, FillSlot
    PROVE  Inv'
<1>1. /\ task.pc = "fill" /\ task.idx < Len(task.todo)
      /\ slots' = [i \in DOMAIN slots \cup {task.idx} |->
                     IF i = task.idx THEN task.todo[task.idx + 1] ELSE slots[i]]
      /\ task' = TaskAt(task.todo, task.idx + 1)
      /\ UNCHANGED <<neighNats, count, lookup, ops, attempts>>
  BY DEF FillSlot
<1>2. task.todo \in Seq(Entry) /\ task.idx \in Nat
  BY <1>1 DEF Inv, TypeOK, Task, FreeTask
<1>3. /\ task.todo \in attempts /\ Len(task.todo) <= NbMax
      /\ \A i \in 0 .. (task.idx - 1) : i \in DOMAIN slots /\ slots[i] = task.todo[i + 1]
  BY <1>1 DEF Inv, ScanInv
<1>4. Len(task.todo) \in Nat /\ NbMax \in Nat /\ task.idx + 1 \in DOMAIN task.todo
      /\ task.idx \in 0 .. (NbMax - 1)
  BY <1>1, <1>2, <1>3, NeighborAssumption
<1>5. task.todo[task.idx + 1] \in Entry
  BY <1>2, <1>4
<1>6. /\ DOMAIN slots' = DOMAIN slots \cup {task.idx}
      /\ \A i \in DOMAIN slots' : slots'[i] = IF i = task.idx THEN task.todo[task.idx + 1] ELSE slots[i]
  BY <1>1
<1>7. task'.pc = "fill" /\ task'.todo = task.todo /\ task'.idx = task.idx + 1
  BY <1>1 DEF TaskAt
<1>8. TypeOK'
  <2>1. task' \in Task
    BY <1>1, <1>2 DEF Task, TaskAt
  <2>2. DOMAIN slots' \subseteq 0 .. (NbMax - 1) /\ \A i \in DOMAIN slots' : slots'[i] \in Entry
    BY <1>4, <1>5, <1>6 DEF Inv, TypeOK
  <2> QED
    BY <1>1, <2>1, <2>2 DEF Inv, TypeOK
<1>9. ASSUME NEW L, task.todo \in L, NEW i, SlotFrom(i, L)
      PROVE  i \in DOMAIN slots' /\ \E list \in L : \E j \in DOMAIN list : slots'[i] = list[j]
  BY <1>4, <1>6, <1>9 DEF SlotFrom
<1>10. LookupSound'
  BY <1>1 DEF Inv, ScanInv, LookupSound, Names, Covers
<1>11. \A i \in 0 .. (count' - 1) : SlotFrom(i, attempts)'
  <2> SUFFICES ASSUME NEW i \in 0 .. (count - 1) PROVE SlotFrom(i, attempts)'
    BY <1>1
  <2>1. SlotFrom(i, attempts)
    BY DEF Inv, ScanInv
  <2> QED
    BY <1>1, <1>3, <1>9, <2>1 DEF SlotFrom
<1>12. ASSUME NEW c \in Cpus, lookup'[c].pc # "idle"
       PROVE  /\ attempts' \subseteq lookup'[c].window
              /\ \A i \in 0 .. (lookup'[c].count - 1) : SlotFrom(i, lookup[c].window)'
  <2>1. /\ attempts \subseteq lookup[c].window
        /\ \A i \in 0 .. (lookup[c].count - 1) : SlotFrom(i, lookup[c].window)
    BY <1>1, <1>12 DEF Inv, ScanInv
  <2>2. task.todo \in lookup[c].window
    BY <1>3, <2>1
  <2>3. ASSUME NEW i \in 0 .. (lookup[c].count - 1)
        PROVE  SlotFrom(i, lookup[c].window)'
    BY <1>1, <1>9, <2>1, <2>2 DEF SlotFrom
  <2> QED
    BY <1>1, <2>1, <2>3
<1>13. /\ task'.todo \in attempts' /\ Len(task'.todo) <= NbMax /\ task'.idx <= Len(task'.todo)
       /\ \A i \in 0 .. (task'.idx - 1) : i \in DOMAIN slots' /\ slots'[i] = task'.todo[i + 1]
  <2>1. \A i \in 0 .. task.idx : i \in DOMAIN slots' /\ slots'[i] = task.todo[i + 1]
    BY <1>2, <1>3, <1>6
  <2>2. task'.idx - 1 = task.idx /\ task'.idx <= Len(task.todo)
    BY <1>1, <1>2, <1>4, <1>7
  <2> QED
    BY <1>1, <1>3, <1>7, <2>1, <2>2
<1> QED
  BY <1>8, <1>10, <1>11, <1>12, <1>13 DEF Inv, ScanInv

\* The count: from here on the slots below it hold the new list only.
LEMMA CountKeeps ==
    ASSUME Inv, SetCount
    PROVE  Inv'
<1>1. /\ task.pc = "fill" /\ task.idx = Len(task.todo) /\ count' = Len(task.todo)
      /\ task' = FreeTask /\ attempts' = {task.todo}
      /\ UNCHANGED <<neighNats, slots, lookup, ops>>
  BY DEF SetCount
<1>2. task.todo \in Seq(Entry)
  BY <1>1 DEF Inv, TypeOK, Task, FreeTask
<1>3. /\ task.todo \in attempts /\ Len(task.todo) <= NbMax
      /\ \A i \in 0 .. (Len(task.todo) - 1) : i \in DOMAIN slots /\ slots[i] = task.todo[i + 1]
  BY <1>1 DEF Inv, ScanInv
<1>4. TypeOK'
  BY <1>1, <1>2, <1>3, NeighborAssumption DEF Inv, TypeOK, Task
<1>5. LookupSound'
  BY <1>1 DEF Inv, ScanInv, LookupSound, Names, Covers
<1>6. \A i \in 0 .. (count' - 1) : SlotFrom(i, attempts)'
  BY <1>1, <1>2, <1>3 DEF SlotFrom
<1>7. ASSUME NEW c \in Cpus, lookup'[c].pc # "idle"
      PROVE  /\ attempts' \subseteq lookup'[c].window
             /\ \A i \in 0 .. (lookup'[c].count - 1) : SlotFrom(i, lookup[c].window)'
  BY <1>1, <1>3, <1>7 DEF Inv, ScanInv, SlotFrom
<1>8. task'.pc # "fill"
  BY <1>1 DEF FreeTask
<1> QED
  BY <1>4, <1>5, <1>6, <1>7, <1>8 DEF Inv, ScanInv

\* A step of a lookup: it suffices to look at its own state.
LEMMA LookupMove ==
    ASSUME Inv, NEW c \in Cpus, NEW s \in LookupState, lookup' = [lookup EXCEPT ![c] = s],
           UNCHANGED <<neighNats, maps, task, ops, attempts>>,
           s.pc = "done" => \A u \in s.owner : Names(s.window, s, u),
           s.pc # "idle" =>
              /\ attempts \subseteq s.window
              /\ \A i \in 0 .. (s.count - 1) : SlotFrom(i, s.window)
    PROVE  Inv'
<1>1. lookup \in [Cpus -> LookupState] /\ slots' = slots /\ count' = count
  BY DEF Inv, TypeOK, maps
<1>2. lookup' \in [Cpus -> LookupState] /\ \A d \in Cpus : lookup'[d] = IF d = c THEN s ELSE lookup[d]
  BY <1>1
<1>3. TypeOK'
  BY <1>1, <1>2 DEF Inv, TypeOK
<1>4. ASSUME NEW d \in Cpus, lookup'[d].pc = "done", NEW u \in lookup'[d].owner
      PROVE  Names(lookup'[d].window, lookup'[d], u)
  BY <1>2, <1>4 DEF Inv, ScanInv, LookupSound
<1>5. LookupSound'
  BY <1>4 DEF LookupSound, Names, Covers
<1>6. ASSUME NEW d \in Cpus, lookup'[d].pc # "idle"
      PROVE  /\ attempts' \subseteq lookup'[d].window
             /\ \A i \in 0 .. (lookup'[d].count - 1) : SlotFrom(i, lookup[d].window)'
  <2>1. /\ attempts \subseteq lookup'[d].window
        /\ \A i \in 0 .. (lookup'[d].count - 1) : SlotFrom(i, lookup'[d].window)
    BY <1>2, <1>6 DEF Inv, ScanInv
  <2> QED
    BY <1>1, <2>1 DEF SlotFrom
<1>7. \A i \in 0 .. (count' - 1) : SlotFrom(i, attempts)'
  BY <1>1 DEF Inv, ScanInv, SlotFrom
<1> QED
  BY <1>1, <1>3, <1>5, <1>6, <1>7 DEF Inv, ScanInv

\* neighbor_nat_lookup.
LEMMA LookupKeeps ==
    ASSUME Inv, NEW c \in Cpus, Lookup(c)
    PROVE  Inv'
<1> DEFINE s == lookup[c]
           Active == [pc : {"scan", "done"}, vni : Vnis, ip : NatIps, port : Port,
                      count : 0 .. NbMax, idx : Nat, owner : SUBSET Underlays,
                      window : SUBSET Seq(Entry)]
<1>1. s \in LookupState
  BY DEF Inv, TypeOK
<1>2. s.pc # "idle" =>
         /\ s \in Active
         /\ attempts \subseteq s.window
         /\ \A i \in 0 .. (s.count - 1) : SlotFrom(i, s.window)
  BY <1>1 DEF LookupState, IdleLookup, Inv, ScanInv
<1>3. ASSUME NEW v \in Vnis, NEW ip \in NatIps, NEW p \in Port, LookupStart(c, v, ip, p)
      PROVE  Inv'
  <2> DEFINE t == [pc |-> "scan", vni |-> v, ip |-> ip, port |-> p, count |-> count,
                   idx |-> 0, owner |-> {}, window |-> attempts]
  <2>1. t \in LookupState
    BY DEF LookupState, Inv, TypeOK
  <2>2. t.pc = "scan" /\ t.window = attempts /\ t.count = count
    OBVIOUS
  <2>3. lookup' = [lookup EXCEPT ![c] = t] /\ UNCHANGED <<neighNats, maps, task, ops, attempts>>
    BY <1>3 DEF LookupStart
  <2>4. \A i \in 0 .. (count - 1) : SlotFrom(i, attempts)
    BY DEF Inv, ScanInv
  <2> HIDE DEF t
  <2> QED
    BY <2>1, <2>2, <2>3, <2>4, LookupMove
<1>4. CASE LookupSlot(c)
  <2>1. /\ InScan(s) /\ UNCHANGED <<neighNats, maps, task, ops, attempts>>
        /\ lookup' = [lookup EXCEPT ![c] =
                        IF s.idx \in DOMAIN slots /\ Covers(slots[s.idx], s.vni, s.ip, s.port)
                          THEN [s EXCEPT !.pc = "done", !.owner = {slots[s.idx].underlay}]
                          ELSE [s EXCEPT !.idx = s.idx + 1]]
    BY <1>4 DEF LookupSlot
  <2>2. /\ s.pc = "scan" /\ s.idx < s.count /\ s \in Active /\ attempts \subseteq s.window
        /\ \A i \in 0 .. (s.count - 1) : SlotFrom(i, s.window)
    BY <1>2, <2>1 DEF InScan
  <2> HIDE DEF s
  <2>3. CASE s.idx \in DOMAIN slots /\ Covers(slots[s.idx], s.vni, s.ip, s.port)
    <3> DEFINE t == [s EXCEPT !.pc = "done", !.owner = {slots[s.idx].underlay}]
    <3>1. slots[s.idx] \in Entry
      BY <2>3 DEF Inv, TypeOK
    <3>2. slots[s.idx].underlay \in Underlays
      BY <3>1 DEF Entry
    <3>3. /\ t \in Active /\ t.pc = "done" /\ t.owner = {slots[s.idx].underlay}
          /\ t.window = s.window /\ t.count = s.count
          /\ t.vni = s.vni /\ t.ip = s.ip /\ t.port = s.port
      BY <2>2, <3>2
    <3>4. lookup' = [lookup EXCEPT ![c] = t]
      BY <2>1, <2>3
    <3> HIDE DEF t
    <3>5. SlotFrom(s.idx, s.window)
      <4>1. s.idx \in Nat /\ s.count \in Nat
        BY <2>2
      <4> QED
        BY <2>2, <4>1
    <3>6. \A u \in t.owner : Names(t.window, t, u)
      BY <2>3, <3>3, <3>5 DEF SlotFrom, Names, Covers
    <3>7. t \in LookupState
      BY <3>3 DEF LookupState
    <3> QED
      BY <2>1, <2>2, <3>3, <3>4, <3>6, <3>7, LookupMove
  <2>4. CASE ~(s.idx \in DOMAIN slots /\ Covers(slots[s.idx], s.vni, s.ip, s.port))
    <3> DEFINE t == [s EXCEPT !.idx = s.idx + 1]
    <3>1. t \in Active /\ t.pc = "scan" /\ t.window = s.window /\ t.count = s.count
      BY <2>2
    <3>2. lookup' = [lookup EXCEPT ![c] = t]
      BY <2>1, <2>4
    <3>3. t \in LookupState
      BY <3>1 DEF LookupState
    <3> HIDE DEF t
    <3> QED
      BY <2>1, <2>2, <3>1, <3>2, <3>3, LookupMove
  <2> QED
    BY <2>3, <2>4
<1>5. CASE LookupMiss(c)
  <2> DEFINE t == [s EXCEPT !.pc = "done", !.owner = {}]
  <2>1. /\ s.pc = "scan" /\ UNCHANGED <<neighNats, maps, task, ops, attempts>>
        /\ lookup' = [lookup EXCEPT ![c] = t]
    BY <1>5 DEF LookupMiss
  <2>2. t \in Active /\ t.pc = "done" /\ t.owner = {} /\ t.window = s.window /\ t.count = s.count
    BY <1>2, <2>1
  <2>3. t \in LookupState
    BY <2>2 DEF LookupState
  <2> HIDE DEF t
  <2> QED
    BY <1>2, <2>1, <2>2, <2>3, LookupMove
<1>6. CASE LookupReturn(c)
  <2>1. /\ lookup' = [lookup EXCEPT ![c] = IdleLookup]
        /\ UNCHANGED <<neighNats, maps, task, ops, attempts>>
    BY <1>6 DEF LookupReturn
  <2>2. IdleLookup \in LookupState /\ IdleLookup.pc = "idle"
    BY DEF LookupState, IdleLookup
  <2> QED
    BY <2>1, <2>2, LookupMove
<1> QED
  BY <1>3, <1>4, <1>5, <1>6 DEF Lookup

\* Every step preserves the inductive invariant.
LEMMA NextInv == Inv /\ [Next]_vars => Inv'
<1> SUFFICES ASSUME Inv, [Next]_vars PROVE Inv'
  OBVIOUS
<1>1. CASE Control
  BY <1>1, ListKeeps, FillKeeps, CountKeeps DEF Control
<1>2. CASE \E c \in Cpus : Lookup(c)
  BY <1>2, LookupKeeps
<1>3. CASE UNCHANGED vars
  <2>1. UNCHANGED <<neighNats, slots, count, task, lookup, ops, attempts>>
    BY <1>3 DEF vars, maps
  <2>2. TypeOK'
    BY <2>1 DEF Inv, TypeOK
  <2>3. ScanInv'
    BY <2>1 DEF Inv, ScanInv, LookupSound, Names, Covers, SlotFrom
  <2> QED
    BY <2>2, <2>3 DEF Inv
<1> QED
  BY <1>1, <1>2, <1>3 DEF Next

\* Type correctness; in particular every slot written has an index below
\* NB_MAX_ENTRIES and the count never exceeds it.
THEOREM NeighborTypeCorrect == Spec => []TypeOK
<1>1. Inv => TypeOK
  BY DEF Inv
<1> QED
  BY <1>1, InitInv, NextInv, PTL DEF Spec

\* However often the slots are rewritten during a lookup, a return packet is
\* only sent to a node that owns its port in a list that was installed, or
\* being installed, meanwhile (neighbor_nat_lookup).
THEOREM LookupSoundHolds == Spec => []LookupSound
<1>1. Inv => LookupSound
  BY DEF Inv, ScanInv
<1> QED
  BY <1>1, InitInv, NextInv, PTL DEF Spec

(***************************************************************************)
(* The list against the slots, and against itself.                         *)
(***************************************************************************)

\* While the mutex is held the list being programmed is the current one.
ListInv == ListProgrammed /\ (task.pc = "fill" => task.todo = neighNats)

\* Steps of the control plane preserve it.
LEMMA ListStep == Inv /\ ListInv /\ [Next]_vars => ListInv'
<1> SUFFICES ASSUME Inv, ListInv, [Next]_vars PROVE ListInv'
  OBVIOUS
<1>1. ASSUME NEW list, Reprogram(list)
      PROVE  ListInv'
  <2>1. neighNats' = list /\ task' = TaskAt(list, 0)
    BY <1>1 DEF Reprogram
  <2>2. task'.pc = "fill" /\ task'.todo = list /\ FreeTask.pc = "free"
    BY <2>1 DEF TaskAt, FreeTask
  <2>3. task' # FreeTask
    BY <2>2
  <2> QED
    BY <2>1, <2>2, <2>3 DEF ListInv, ListProgrammed, Free
<1>2. CASE FillSlot
  <2>1. task.pc = "fill" /\ task' = TaskAt(task.todo, task.idx + 1) /\ neighNats' = neighNats
    BY <1>2 DEF FillSlot
  <2>2. task'.pc = "fill" /\ task'.todo = task.todo /\ FreeTask.pc = "free"
    BY <2>1 DEF TaskAt, FreeTask
  <2>3. task' # FreeTask
    BY <2>2
  <2> QED
    BY <2>1, <2>2, <2>3 DEF ListInv, ListProgrammed, Free
<1>3. CASE SetCount
  <2>1. /\ task.pc = "fill" /\ task.idx = Len(task.todo) /\ count' = Len(task.todo)
        /\ task' = FreeTask /\ neighNats' = neighNats /\ slots' = slots
    BY <1>3 DEF SetCount
  <2>2. task.todo = neighNats
    BY <2>1 DEF ListInv
  <2>3. \A i \in 0 .. (Len(task.todo) - 1) : i \in DOMAIN slots /\ slots[i] = task.todo[i + 1]
    BY <2>1 DEF Inv, ScanInv
  <2>4. task'.pc # "fill"
    BY <2>1 DEF FreeTask
  <2> QED
    BY <2>1, <2>2, <2>3, <2>4 DEF ListInv, ListProgrammed
<1>4. CASE \E c \in Cpus : Lookup(c)
  <2>1. UNCHANGED <<neighNats, maps, task>>
    BY <1>4 DEF Lookup, LookupStart, LookupSlot, LookupMiss, LookupReturn
  <2> QED
    BY <2>1 DEF ListInv, ListProgrammed, Free, maps
<1>5. CASE UNCHANGED vars
  BY <1>5 DEF vars, maps, ListInv, ListProgrammed, Free
<1> QED
  BY <1>1, <1>2, <1>3, <1>4, <1>5 DEF Next, Control, AddNeighborNat, DelNeighborNat, PurgeVni, Retain

\* Whenever no change is under way the datapath scans exactly the list that
\* list_neighbor_nats reports (neigh_nat_reprogram, detach_interface).
THEOREM ListProgrammedHolds == Spec => []ListProgrammed
<1>1. Init => ListInv
  BY DEF Init, ListInv, ListProgrammed, FreeTask
<1>2. ListInv => ListProgrammed
  BY DEF ListInv
<1> QED
  BY <1>1, <1>2, InitInv, NextInv, ListStep, PTL DEF Spec

\* No change of the list gives a port a second owner.
LEMMA OwnerStep == Inv /\ OneOwner /\ [Next]_vars => OneOwner'
<1> SUFFICES ASSUME Inv, OneOwner, [Next]_vars PROVE OneOwner'
  OBVIOUS
<1>1. neighNats \in Seq(Entry) /\ \A e \in Entry : e.min \in Int /\ e.max \in Int
  BY NeighborAssumption DEF Inv, TypeOK, Entry, Port
<1> DEFINE Apart(e, n) == e.ip = n.ip =>
              \A p \in Port : ~(p >= e.min /\ p < e.max /\ p >= n.min /\ p < n.max)
<1>2. \A i, j \in DOMAIN neighNats : i # j => Apart(neighNats[i], neighNats[j])
  BY DEF OneOwner
<1>3. ASSUME \A i, j \in DOMAIN neighNats' : i # j => Apart(neighNats'[i], neighNats'[j])
      PROVE  OneOwner'
  BY <1>3 DEF OneOwner, Port
<1>4. ASSUME NEW v \in Vnis, NEW ip \in NatIps, NEW r \in Requests, NEW u \in Underlays,
             AddNeighborNat(EntryOf(v, ip, r, u))
      PROVE  OneOwner'
  <2> DEFINE n == EntryOf(v, ip, r, u)
  <2>1. n \in Entry
    BY EntryOfType
  <2>2. /\ \A i \in DOMAIN neighNats : ~Conflict(neighNats[i], n)
        /\ neighNats' = Append(neighNats, n)
    BY <1>4 DEF AddNeighborNat, Reprogram
  <2> HIDE DEF n
  <2>3. ASSUME NEW i \in DOMAIN neighNats
        PROVE  Apart(neighNats[i], n) /\ Apart(n, neighNats[i])
    <3>1. neighNats[i] \in Entry /\ ~Conflict(neighNats[i], n)
      BY <1>1, <2>2
    <3>2. neighNats[i].min \in Int /\ neighNats[i].max \in Int /\ n.min \in Int /\ n.max \in Int
      BY <1>1, <2>1, <3>1
    <3>3. Port \subseteq Int
      BY NeighborAssumption DEF Port
    <3> QED
      BY <3>1, <3>2, <3>3 DEF Conflict
  <2>4. /\ DOMAIN neighNats' = DOMAIN neighNats \cup {Len(neighNats) + 1}
        /\ \A i \in DOMAIN neighNats : neighNats'[i] = neighNats[i]
        /\ neighNats'[Len(neighNats) + 1] = n
    BY <1>1, <2>1, <2>2
  <2>5. \A i, j \in DOMAIN neighNats' : i # j => Apart(neighNats'[i], neighNats'[j])
    <3> HIDE DEF Apart
    <3> QED
      BY <1>2, <2>3, <2>4
  <2> QED
    BY <1>3, <2>5
<1>5. ASSUME NEW P \in SUBSET DOMAIN neighNats, Retain(P)
      PROVE  OneOwner'
  <2>1. PICK f \in Ascending(P) : Reprogram([i \in DOMAIN f |-> neighNats[f[i]]])
    BY <1>5 DEF Retain
  <2>2. neighNats' = [i \in DOMAIN f |-> neighNats[f[i]]]
    BY <2>1 DEF Reprogram
  <2>3. /\ \A i \in DOMAIN f : f[i] \in DOMAIN neighNats
        /\ \A i, j \in DOMAIN f : i < j => f[i] # f[j]
    BY <1>1, RetainedList
  <2>4. \A i, j \in DOMAIN f : i # j => f[i] # f[j]
    <3>1. DOMAIN f \subseteq Int
      <4>1. f \in [1 .. Cardinality(P) -> P]
        BY DEF Ascending
      <4>2. DOMAIN f = 1 .. Cardinality(P)
        BY <4>1
      <4> QED
        BY <4>2
    <3> QED
      BY <2>3, <3>1
  <2>5. \A i, j \in DOMAIN neighNats' : i # j => Apart(neighNats'[i], neighNats'[j])
    <3> HIDE DEF Apart
    <3>1. DOMAIN neighNats' = DOMAIN f /\ \A i \in DOMAIN f : neighNats'[i] = neighNats[f[i]]
      BY <2>2
    <3> QED
      BY <1>2, <2>3, <2>4, <3>1
  <2> QED
    BY <1>3, <2>5
<1>6. CASE UNCHANGED neighNats
  BY <1>6 DEF OneOwner
<1>7. CASE Control
  <2>1. ASSUME NEW v \in Vnis, NEW ip \in NatIps, NEW r \in Requests, DelNeighborNat(v, ip, r)
        PROVE  OneOwner'
    BY <1>5, <2>1 DEF DelNeighborNat
  <2>2. ASSUME NEW v \in Vnis, PurgeVni(v)
        PROVE  OneOwner'
    BY <1>5, <2>2 DEF PurgeVni
  <2>3. CASE FillSlot \/ SetCount
    BY <1>6, <2>3 DEF FillSlot, SetCount
  <2> QED
    BY <1>4, <1>7, <2>1, <2>2, <2>3 DEF Control
<1>8. CASE \E c \in Cpus : Lookup(c)
  BY <1>6, <1>8 DEF Lookup, LookupStart, LookupSlot, LookupMiss, LookupReturn
<1>9. CASE UNCHANGED vars
  BY <1>6, <1>9 DEF vars
<1> QED
  BY <1>7, <1>8, <1>9 DEF Next

\* A port of a nat_ip never has two owners (add_neighbor_nat).
THEOREM OneOwnerHolds == Spec => []OneOwner
<1>1. Init => OneOwner
  BY DEF Init, OneOwner
<1> QED
  BY <1>1, InitInv, NextInv, OwnerStep, PTL DEF Spec

(***************************************************************************)
(* Misses.                                                                 *)
(***************************************************************************)

\* A slot holds the entry at its own position of some list of L.
SlotAt(i, L) == i \in DOMAIN slots /\ \E l \in L : i + 1 \in DOMAIN l /\ slots[i] = l[i + 1]

\* What a lookup under way has established: the slots below its count hold
\* entries in place, some list of its window is no longer than the count it
\* read, and no entry at a position already passed covers the packet, as long
\* as the lists of the window agree on the positions they share.
Passed(s) ==
    /\ s.idx <= s.count
    /\ \A i \in 0 .. (s.count - 1) : SlotAt(i, s.window)
    /\ \E l \in s.window : Len(l) = s.count
    /\ s.owner = {} /\ Aligned(s.window) =>
          \A l \in s.window : \A i \in DOMAIN l : i <= s.idx => ~Covers(l[i], s.vni, s.ip, s.port)
    /\ s.pc = "scan" => s.owner = {}
    /\ s.pc = "done" /\ s.owner = {} => s.idx = s.count

\* The inductive form of MissSound.
MissInv ==
    /\ \A i \in 0 .. (count - 1) : SlotAt(i, attempts)
    /\ \E l \in attempts : Len(l) = count
    /\ \A c \in Cpus : lookup[c].pc # "idle" => Passed(lookup[c])

\* The lookups that are under way, typed.
LEMMA ActiveType ==
    ASSUME TypeOK, NEW c \in Cpus, lookup[c].pc # "idle"
    PROVE  lookup[c] \in [pc : {"scan", "done"}, vni : Vnis, ip : NatIps, port : Port,
                          count : 0 .. NbMax, idx : Nat, owner : SUBSET Underlays,
                          window : SUBSET Seq(Entry)]
  BY DEF TypeOK, LookupState, IdleLookup

\* A change of the list keeps every lookup's findings: at the positions it
\* has passed the new list has nothing that the lookup did not see, unless
\* the lists disagree.
LEMMA ReprogramMiss ==
    ASSUME Inv, MissInv, NEW list \in Seq(Entry), Reprogram(list), UNCHANGED maps
    PROVE  MissInv'
<1>1. /\ attempts' = attempts \cup {list} /\ slots' = slots /\ count' = count
      /\ lookup' = [c \in Cpus |-> IF lookup[c].pc = "idle" THEN lookup[c]
                                   ELSE [lookup[c] EXCEPT !.window = @ \cup {list}]]
  BY DEF Reprogram, maps
<1>2. \A i \in 0 .. (count' - 1) : SlotAt(i, attempts)'
  BY <1>1 DEF MissInv, SlotAt
<1>3. \E l \in attempts' : Len(l) = count'
  BY <1>1 DEF MissInv
<1>4. ASSUME NEW c \in Cpus, lookup'[c].pc # "idle"
      PROVE  Passed(lookup[c])'
  <2> DEFINE s == lookup[c]
             t == [s EXCEPT !.window = @ \cup {list}]
  <2>1. s.pc # "idle" /\ lookup'[c] = t
    BY <1>1, <1>4
  <2>2. s \in [pc : {"scan", "done"}, vni : Vnis, ip : NatIps, port : Port,
               count : 0 .. NbMax, idx : Nat, owner : SUBSET Underlays,
               window : SUBSET Seq(Entry)]
    BY <2>1, ActiveType DEF Inv
  <2>3. Passed(s)
    BY <2>1 DEF MissInv
  <2> HIDE DEF s
  <2>4. /\ t.window = s.window \cup {list} /\ t.pc = s.pc /\ t.idx = s.idx /\ t.count = s.count
        /\ t.owner = s.owner /\ t.vni = s.vni /\ t.ip = s.ip /\ t.port = s.port
    BY <2>2
  <2> HIDE DEF t
  <2>5. \A i \in 0 .. (t.count - 1) : SlotAt(i, t.window)
    BY <2>3, <2>4 DEF Passed, SlotAt
  <2>6. \E l \in t.window : Len(l) = t.count
    BY <2>3, <2>4 DEF Passed
  <2>7. ASSUME t.owner = {}, Aligned(t.window), NEW l \in t.window, NEW i \in DOMAIN l, i <= t.idx
        PROVE  ~Covers(l[i], t.vni, t.ip, t.port)
    <3>1. Aligned(s.window)
      BY <2>4, <2>7 DEF Aligned
    <3>2. l \in Seq(Entry)
      BY <2>2, <2>4, <2>7
    <3>3. i \in Nat /\ i >= 1
      BY <3>2, <2>7
    <3>4. i - 1 \in 0 .. (s.count - 1) /\ (i - 1) + 1 = i
      <4>1. s.idx <= s.count /\ s.idx \in Nat /\ s.count \in Nat
        BY <2>2, <2>3 DEF Passed
      <4> QED
        BY <4>1, <3>3, <2>4, <2>7
    <3>5. SlotAt(i - 1, s.window)
      BY <2>3, <3>4 DEF Passed
    <3>6. PICK m \in s.window : i \in DOMAIN m
      BY <3>4, <3>5 DEF SlotAt
    <3>7. m[i] = l[i]
      BY <2>4, <2>7, <3>6 DEF Aligned
    <3>8. ~Covers(m[i], s.vni, s.ip, s.port)
      BY <2>3, <2>4, <2>7, <3>1, <3>6 DEF Passed
    <3> QED
      BY <2>4, <3>7, <3>8
  <2>8. Passed(t)
    BY <2>3, <2>4, <2>5, <2>6, <2>7 DEF Passed
  <2> QED
    BY <2>1, <2>8, <1>1 DEF Passed, SlotAt, Aligned, Covers
<1> QED
  BY <1>2, <1>3, <1>4 DEF MissInv

\* A slot that is overwritten gets the entry of its position in the new list.
LEMMA FillMiss ==
    ASSUME Inv, MissInv, FillSlot
    PROVE  MissInv'
<1>1. /\ task.pc = "fill" /\ task.idx < Len(task.todo) /\ UNCHANGED <<count, lookup, attempts>>
      /\ slots' = [i \in DOMAIN slots \cup {task.idx} |->
                     IF i = task.idx THEN task.todo[task.idx + 1] ELSE slots[i]]
  BY DEF FillSlot
<1>2. /\ task.todo \in attempts /\ task.todo \in Seq(Entry) /\ task.idx \in Nat
  BY <1>1 DEF Inv, ScanInv, TypeOK, Task, FreeTask
<1>3. task.idx + 1 \in DOMAIN task.todo
  BY <1>1, <1>2
<1>4. ASSUME NEW L, attempts \subseteq L, NEW i, SlotAt(i, L)
      PROVE  /\ i \in DOMAIN slots'
             /\ \E l \in L : i + 1 \in DOMAIN l /\ slots'[i] = l[i + 1]
  BY <1>1, <1>2, <1>3, <1>4 DEF SlotAt
<1>5. \A i \in 0 .. (count' - 1) : SlotAt(i, attempts)'
  BY <1>1, <1>4 DEF MissInv, SlotAt
<1>6. ASSUME NEW c \in Cpus, lookup'[c].pc # "idle"
      PROVE  Passed(lookup[c])'
  <2>1. Passed(lookup[c]) /\ attempts \subseteq lookup[c].window
    BY <1>1, <1>6 DEF MissInv, Inv, ScanInv
  <2>2. \A i \in 0 .. (lookup[c].count - 1) : SlotAt(i, lookup[c].window)
    BY <2>1 DEF Passed
  <2>3. PICK L : L = lookup[c].window /\ lookup'[c].window = L
    BY <1>1
  <2>4. ASSUME NEW i \in 0 .. (lookup[c].count - 1)
        PROVE  SlotAt(i, lookup[c].window)'
    <3>1. attempts \subseteq L /\ SlotAt(i, L)
      BY <2>1, <2>2, <2>3
    <3>2. i \in DOMAIN slots' /\ \E l \in L : i + 1 \in DOMAIN l /\ slots'[i] = l[i + 1]
      BY <1>4, <3>1
    <3> QED
      BY <2>3, <3>2 DEF SlotAt
  <2>5. \A i \in 0 .. (lookup'[c].count - 1) : SlotAt(i, lookup[c].window)'
    BY <1>1, <2>4
  <2> QED
    BY <1>1, <2>1, <2>5 DEF Passed, Aligned, Covers
<1> QED
  BY <1>1, <1>5, <1>6 DEF MissInv

\* The count is written once the slots below it hold the new list.
LEMMA CountMiss ==
    ASSUME Inv, MissInv, SetCount
    PROVE  MissInv'
<1>1. /\ task.pc = "fill" /\ task.idx = Len(task.todo) /\ count' = Len(task.todo)
      /\ attempts' = {task.todo} /\ UNCHANGED <<slots, lookup>>
  BY DEF SetCount
<1>2. /\ task.todo \in Seq(Entry)
      /\ \A i \in 0 .. (task.idx - 1) : i \in DOMAIN slots /\ slots[i] = task.todo[i + 1]
  BY <1>1 DEF Inv, ScanInv, TypeOK, Task, FreeTask
<1>3. \A i \in 0 .. (count' - 1) : i + 1 \in DOMAIN task.todo
  BY <1>1, <1>2
<1>4. \A i \in 0 .. (count' - 1) : SlotAt(i, attempts)'
  BY <1>1, <1>2, <1>3 DEF SlotAt
<1>5. \A c \in Cpus : lookup'[c].pc # "idle" => Passed(lookup[c])'
  BY <1>1 DEF MissInv, Passed, SlotAt, Aligned, Covers
<1> QED
  BY <1>1, <1>4, <1>5 DEF MissInv

\* A step of a lookup: it suffices to look at its own state.
LEMMA LookupMoveMiss ==
    ASSUME Inv, MissInv, NEW c \in Cpus, NEW s, lookup' = [lookup EXCEPT ![c] = s],
           UNCHANGED <<neighNats, maps, task, ops, attempts>>,
           s.pc # "idle" => Passed(s)
    PROVE  MissInv'
<1>1. lookup \in [Cpus -> LookupState] /\ slots' = slots /\ count' = count /\ attempts' = attempts
  BY DEF Inv, TypeOK, maps
<1>2. \A d \in Cpus : lookup'[d] = IF d = c THEN s ELSE lookup[d]
  BY <1>1
<1>3. \A d \in Cpus : lookup'[d].pc # "idle" => Passed(lookup'[d])
  BY <1>2 DEF MissInv
<1>4. \A d \in Cpus : lookup'[d].pc # "idle" => Passed(lookup[d])'
  BY <1>1, <1>3 DEF Passed, SlotAt, Aligned, Covers
<1> QED
  BY <1>1, <1>4 DEF MissInv, SlotAt

\* A slot that was read and does not cover the packet settles its position in
\* every list of the window.
LEMMA LookupMissKeeps ==
    ASSUME Inv, MissInv, NEW c \in Cpus, Lookup(c)
    PROVE  MissInv'
<1> DEFINE s == lookup[c]
<1>1. s.pc # "idle" =>
         /\ s \in [pc : {"scan", "done"}, vni : Vnis, ip : NatIps, port : Port,
                   count : 0 .. NbMax, idx : Nat, owner : SUBSET Underlays,
                   window : SUBSET Seq(Entry)]
         /\ Passed(s)
  BY ActiveType DEF Inv, MissInv
<1>2. ASSUME NEW v \in Vnis, NEW ip \in NatIps, NEW p \in Port, LookupStart(c, v, ip, p)
      PROVE  MissInv'
  <2> DEFINE t == [pc |-> "scan", vni |-> v, ip |-> ip, port |-> p, count |-> count,
                   idx |-> 0, owner |-> {}, window |-> attempts]
  <2>1. lookup' = [lookup EXCEPT ![c] = t] /\ UNCHANGED <<neighNats, maps, task, ops, attempts>>
    BY <1>2 DEF LookupStart
  <2>2. /\ t.pc = "scan" /\ t.window = attempts /\ t.count = count /\ t.idx = 0 /\ t.owner = {}
    OBVIOUS
  <2>3. count \in Nat /\ \A l \in attempts : \A i \in DOMAIN l : i \in Nat /\ i >= 1
    BY DEF Inv, TypeOK
  <2> HIDE DEF t
  <2>4. Passed(t)
    BY <2>2, <2>3 DEF Passed, MissInv
  <2> QED
    BY <2>1, <2>4, LookupMoveMiss
<1>3. CASE LookupSlot(c)
  <2>1. /\ InScan(s) /\ UNCHANGED <<neighNats, maps, task, ops, attempts>>
        /\ lookup' = [lookup EXCEPT ![c] =
                        IF s.idx \in DOMAIN slots /\ Covers(slots[s.idx], s.vni, s.ip, s.port)
                          THEN [s EXCEPT !.pc = "done", !.owner = {slots[s.idx].underlay}]
                          ELSE [s EXCEPT !.idx = s.idx + 1]]
    BY <1>3 DEF LookupSlot
  <2>2. s.pc # "idle" /\ s.pc = "scan" /\ s.idx < s.count
    BY <2>1 DEF InScan
  <2> HIDE DEF s
  <2>3. CASE s.idx \in DOMAIN slots /\ Covers(slots[s.idx], s.vni, s.ip, s.port)
    <3> DEFINE t == [s EXCEPT !.pc = "done", !.owner = {slots[s.idx].underlay}]
    <3>1. /\ t.pc = "done" /\ t.owner # {} /\ t.window = s.window /\ t.count = s.count
          /\ t.idx = s.idx
      BY <1>1, <2>2
    <3>2. lookup' = [lookup EXCEPT ![c] = t]
      BY <2>1, <2>3
    <3> HIDE DEF t
    <3>3. Passed(t)
      BY <1>1, <2>2, <3>1 DEF Passed
    <3> QED
      BY <2>1, <3>2, <3>3, LookupMoveMiss
  <2>4. CASE ~(s.idx \in DOMAIN slots /\ Covers(slots[s.idx], s.vni, s.ip, s.port))
    <3> DEFINE t == [s EXCEPT !.idx = s.idx + 1]
    <3>1. /\ t.pc = "scan" /\ t.owner = s.owner /\ t.window = s.window /\ t.count = s.count
          /\ t.idx = s.idx + 1 /\ t.vni = s.vni /\ t.ip = s.ip /\ t.port = s.port
      BY <1>1, <2>2
    <3>2. lookup' = [lookup EXCEPT ![c] = t]
      BY <2>1, <2>4
    <3> HIDE DEF t
    <3>3. s.idx \in Nat /\ s.count \in Nat /\ s.window \subseteq Seq(Entry) /\ Passed(s)
      BY <1>1, <2>2
    <3>4. SlotAt(s.idx, s.window)
      BY <2>2, <3>3 DEF Passed
    <3>5. PICK m \in s.window : s.idx + 1 \in DOMAIN m /\ slots[s.idx] = m[s.idx + 1]
      BY <3>4 DEF SlotAt
    <3>6. ~Covers(m[s.idx + 1], s.vni, s.ip, s.port)
      BY <2>4, <3>4, <3>5 DEF SlotAt
    <3>7. ASSUME t.owner = {}, Aligned(t.window), NEW l \in t.window, NEW i \in DOMAIN l, i <= t.idx
          PROVE  ~Covers(l[i], t.vni, t.ip, t.port)
      <4>1. i \in Nat /\ (i <= s.idx \/ i = s.idx + 1)
        <5>1. l \in Seq(Entry) /\ i \in Nat
          BY <3>1, <3>3, <3>7
        <5> QED
          BY <5>1, <3>1, <3>3, <3>7
      <4>2. CASE i <= s.idx
        BY <4>2, <3>1, <3>3, <3>7 DEF Passed
      <4>3. CASE i = s.idx + 1
        BY <4>3, <3>1, <3>5, <3>6, <3>7 DEF Aligned
      <4> QED
        BY <4>1, <4>2, <4>3
    <3>8. t.idx <= t.count
      BY <2>2, <3>1, <3>3
    <3>9. Passed(t)
      BY <2>2, <3>1, <3>3, <3>7, <3>8 DEF Passed
    <3> QED
      BY <2>1, <3>2, <3>9, LookupMoveMiss
  <2> QED
    BY <2>3, <2>4
<1>4. CASE LookupMiss(c)
  <2> DEFINE t == [s EXCEPT !.pc = "done", !.owner = {}]
  <2>1. /\ s.pc = "scan" /\ ~InScan(s) /\ UNCHANGED <<neighNats, maps, task, ops, attempts>>
        /\ lookup' = [lookup EXCEPT ![c] = t]
    BY <1>4 DEF LookupMiss
  <2>2. s.pc # "idle"
    BY <2>1
  <2> HIDE DEF s
  <2>3. s.idx = s.count
    BY <1>1, <2>1, <2>2, NeighborAssumption DEF InScan, Passed
  <2>4. /\ t.pc = "done" /\ t.owner = {} /\ t.window = s.window /\ t.count = s.count
        /\ t.idx = s.idx /\ t.vni = s.vni /\ t.ip = s.ip /\ t.port = s.port
    BY <1>1, <2>2
  <2> HIDE DEF t
  <2>5. Passed(s) /\ s.owner = {}
    BY <1>1, <2>1, <2>2 DEF Passed
  <2>6. Passed(t)
    BY <2>3, <2>4, <2>5 DEF Passed
  <2> QED
    BY <2>1, <2>6, LookupMoveMiss
<1>5. CASE LookupReturn(c)
  <2>1. /\ lookup' = [lookup EXCEPT ![c] = IdleLookup]
        /\ UNCHANGED <<neighNats, maps, task, ops, attempts>>
    BY <1>5 DEF LookupReturn
  <2>2. IdleLookup.pc = "idle"
    BY DEF IdleLookup
  <2> QED
    BY <2>1, <2>2, LookupMoveMiss
<1> QED
  BY <1>2, <1>3, <1>4, <1>5 DEF Lookup

\* add, delete and purge replace the list and touch no map.
LEMMA ListChange ==
    ASSUME Inv,
           \/ \E v \in Vnis, ip \in NatIps, r \in Requests, u \in Underlays :
                 AddNeighborNat(EntryOf(v, ip, r, u))
           \/ \E v \in Vnis, ip \in NatIps, r \in Requests : DelNeighborNat(v, ip, r)
           \/ \E v \in Vnis : PurgeVni(v)
    PROVE  \E list \in Seq(Entry) : Reprogram(list) /\ UNCHANGED maps
<1>1. neighNats \in Seq(Entry)
  BY DEF Inv, TypeOK
<1>2. ASSUME NEW v \in Vnis, NEW ip \in NatIps, NEW r \in Requests, NEW u \in Underlays,
             AddNeighborNat(EntryOf(v, ip, r, u))
      PROVE  \E list \in Seq(Entry) : Reprogram(list) /\ UNCHANGED maps
  <2>1. EntryOf(v, ip, r, u) \in Entry
    BY EntryOfType
  <2>2. Append(neighNats, EntryOf(v, ip, r, u)) \in Seq(Entry)
    BY <1>1, <2>1
  <2> QED
    BY <1>2, <2>2 DEF AddNeighborNat
<1>3. ASSUME NEW P \in SUBSET DOMAIN neighNats, Retain(P), UNCHANGED maps
      PROVE  \E list \in Seq(Entry) : Reprogram(list) /\ UNCHANGED maps
  <2>1. PICK f \in Ascending(P) : Reprogram([i \in DOMAIN f |-> neighNats[f[i]]])
    BY <1>3 DEF Retain
  <2>2. [i \in DOMAIN f |-> neighNats[f[i]]] \in Seq(Entry)
    BY <1>1, RetainedList
  <2> QED
    BY <1>3, <2>1, <2>2
<1>4. ASSUME NEW v \in Vnis, NEW ip \in NatIps, NEW r \in Requests, DelNeighborNat(v, ip, r)
      PROVE  \E list \in Seq(Entry) : Reprogram(list) /\ UNCHANGED maps
  BY <1>3, <1>4 DEF DelNeighborNat
<1>5. ASSUME NEW v \in Vnis, PurgeVni(v)
      PROVE  \E list \in Seq(Entry) : Reprogram(list) /\ UNCHANGED maps
  BY <1>3, <1>5 DEF PurgeVni
<1> QED
  BY <1>2, <1>4, <1>5

\* Every step preserves what lookups have established.
LEMMA MissStep == Inv /\ MissInv /\ [Next]_vars => MissInv'
<1> SUFFICES ASSUME Inv, MissInv, [Next]_vars PROVE MissInv'
  OBVIOUS
<1>1. CASE Control
  BY <1>1, ListChange, ReprogramMiss, FillMiss, CountMiss DEF Control
<1>2. CASE \E c \in Cpus : Lookup(c)
  BY <1>2, LookupMissKeeps
<1>3. CASE UNCHANGED vars
  BY <1>3 DEF vars, maps, MissInv, Passed, SlotAt, Aligned, Covers
<1> QED
  BY <1>1, <1>2, <1>3 DEF Next

\* A lookup that finds no owner is right: in some list of its window no range
\* covers the packet, unless a deletion moved entries to other slots during
\* the lookup (neigh_nat_reprogram against neighbor_nat_lookup).
THEOREM MissSoundHolds == Spec => []MissSound
<1>1. Init => MissInv
  <2> SUFFICES ASSUME Init PROVE MissInv
    OBVIOUS
  <2>1. count = 0 /\ attempts = {<< >>} /\ \A c \in Cpus : lookup[c].pc = "idle"
    BY DEF Init, IdleLookup
  <2> QED
    BY <2>1 DEF MissInv
<1>2. Inv /\ MissInv => MissSound
  <2> SUFFICES ASSUME Inv, MissInv, NEW c \in Cpus, lookup[c].pc = "done", lookup[c].owner = {},
                      Aligned(lookup[c].window)
               PROVE  \E list \in lookup[c].window : \A i \in DOMAIN list :
                        ~Covers(list[i], lookup[c].vni, lookup[c].ip, lookup[c].port)
    BY DEF MissSound
  <2>1. /\ Passed(lookup[c])
        /\ lookup[c].window \subseteq Seq(Entry)
    BY ActiveType DEF MissInv, Inv
  <2>2. PICK l \in lookup[c].window : Len(l) = lookup[c].idx
    BY <2>1 DEF Passed
  <2>3. \A i \in DOMAIN l : i <= lookup[c].idx
    BY <2>1, <2>2
  <2> QED
    BY <2>1, <2>2, <2>3 DEF Passed
<1> QED
  BY <1>1, <1>2, InitInv, NextInv, MissStep, PTL DEF Spec
=============================================================================
