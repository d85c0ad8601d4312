--------------------------- MODULE FirewallProofs ---------------------------
(***************************************************************************)
(* Proofs about module Firewall: type correctness; that the slots and      *)
(* counts half rewritten by fw_reprogram never let a packet through that   *)
(* no rule list installed meanwhile accepts; that they are the list once   *)
(* it is installed, and that an undisturbed evaluation decides by it.      *)
(***************************************************************************)
EXTENDS Firewall, TLAPS, FiniteSetTheorems, WellFoundedInduction

(***************************************************************************)
(* Policies.                                                               *)
(***************************************************************************)

\* A nonempty set of naturals has a least element.
LEMMA LeastNat ==
    ASSUME NEW T \in SUBSET Nat, T # {}
    PROVE  \E m \in T : \A n \in T : m <= n
<1> DEFINE Lt == {x \in Nat \X Nat : x[1] < x[2]}
<1>1. OpToRel(<, Nat) = Lt
  BY Zenon DEF OpToRel
<1>2. IsWellFoundedOn(Lt, Nat)
  BY <1>1, NatLessThanWellFounded
<1> HIDE DEF Lt
<1>3. PICK m \in T : \A n \in T : ~(<<n, m>> \in Lt)
  BY <1>2, WFMin
<1>4. \A n \in T : m <= n
  <2> TAKE n \in T
  <2>1. m \in Nat /\ n \in Nat
    OBVIOUS
  <2>2. n < m => <<n, m>> \in Lt
    BY <2>1 DEF Lt
  <2> QED
    BY <1>3, <2>1, <2>2
<1> QED
  BY <1>4

\* In such a list any match is enough: the first match accepts too.
LEMMA FirstMatch ==
    ASSUME NEW pol \in Policy, AllAccept(pol), NEW dir, NEW p,
           NEW i \in DOMAIN pol, Matches(pol[i], dir, p)
    PROVE  Accepts(pol, dir, p)
<1> DEFINE T == {j \in DOMAIN pol : Matches(pol[j], dir, p)}
<1>1. DOMAIN pol = 1 .. Len(pol) /\ Len(pol) \in Nat
  BY DEF Policy
<1>2. T \in SUBSET Nat /\ T # {}
  BY <1>1
<1>3. PICK m \in T : \A n \in T : m <= n
  BY <1>2, LeastNat
<1>4. m \in DOMAIN pol /\ Matches(pol[m], dir, p) /\ pol[m].action = "accept"
  BY <1>3 DEF AllAccept
<1>5. \A j \in 1 .. (m - 1) : ~Matches(pol[j], dir, p)
  BY <1>1, <1>3, <1>4
<1> QED
  BY <1>4, <1>5 DEF Accepts

\* A zero count means that the list has no rule of the direction.
LEMMA ZeroCount ==
    ASSUME NEW pol \in Policy, NEW dir, NEW p
    PROVE  /\ Count(pol, dir) \in Nat
           /\ Count(pol, dir) = 0 => Accepts(pol, dir, p)
<1> DEFINE S == {i \in DOMAIN pol : pol[i].dir = dir}
<1>1. DOMAIN pol = 1 .. Len(pol) /\ Len(pol) \in Nat
  BY DEF Policy
<1>2. IsFiniteSet(DOMAIN pol)
  BY <1>1, FS_Interval
<1>3. IsFiniteSet(S)
  BY <1>2, FS_Subset
<1>4. Cardinality(S) \in Nat /\ (Cardinality(S) = 0 => S = {})
  BY <1>3, FS_CardinalityType, FS_EmptySet
<1>5. S = {} => \A i \in DOMAIN pol : pol[i].dir # dir
  OBVIOUS
<1> QED
  BY <1>4, <1>5 DEF Count, Accepts
(***************************************************************************)
(* The inductive invariant.                                                *)
(***************************************************************************)
Inv == TypeOK /\ TornInv

\* What a CPU's evaluation must satisfy by itself.
EvOK(s) ==
    /\ s.pc # "idle" =>
          /\ attempts[s.dev] \subseteq s.window
          /\ \A pol \in s.window : AllAccept(pol)
    /\ (s.pc = "done" /\ s.verdict = "accept") => \E pol \in s.window : Accepts(pol, s.dir, s.pkt)

\* A step of one evaluation (fw_eval_dir) leaves everything else alone.
LEMMA EvStep ==
    ASSUME Inv, NEW c \in Cpus, NEW s \in EvState, EvOK(s),
           ev' = [ev EXCEPT ![c] = s],
           UNCHANGED <<shadowVars, mapVars, task, bounds, attempts>>
    PROVE  Inv'
<1> USE DEF shadowVars, mapVars, bounds
<1>1. ev' \in [Cpus -> EvState]
  BY DEF Inv, TypeOK
<1>2. TypeOK'
  BY <1>1 DEF Inv, TypeOK
<1>3. \A x \in Cpus : ev'[x] = IF x = c THEN s ELSE ev[x]
  BY DEF Inv, TypeOK
<1>4. AcceptSound'
  BY <1>3 DEF Inv, TornInv, AcceptSound, EvOK
<1>5. Windows'
  BY <1>3 DEF Inv, TornInv, Windows, EvOK
<1>6. ListsAccept' /\ SlotsKnown' /\ Progress'
  BY DEF Inv, TornInv, ListsAccept, SlotsKnown, Progress
<1>7. CountsKnown'
  BY DEF Inv, TornInv, CountsKnown, MetaCount
<1> QED
  BY <1>2, <1>4, <1>5, <1>6, <1>7 DEF Inv, TornInv

\* An evaluation under way is as its type and the invariant say.
LEMMA EvUnderWay ==
    ASSUME Inv, NEW c \in Cpus, ev[c].pc # "idle"
    PROVE  /\ ev[c] \in [pc : {"scan", "done"}, dev : Devices, dir : Dirs, pkt : Pkts,
                         idx : Slots, verdict : Actions, window : SUBSET Policy]
           /\ EvOK(ev[c])
<1>1. ev[c] \in EvState /\ ev[c] # IdleEv
  BY DEF Inv, TypeOK, IdleEv
<1> QED
  BY <1>1 DEF Inv, TornInv, AcceptSound, Windows, EvOK, EvState

\* The verdict is recorded, the packet and its window stay.
LEMMA DecidedType ==
    ASSUME NEW v \in Actions,
           NEW s \in [pc : {"scan", "done"}, dev : Devices, dir : Dirs, pkt : Pkts,
                      idx : Slots, verdict : Actions, window : SUBSET Policy]
    PROVE  /\ Decided(s, v) \in EvState
           /\ Decided(s, v).pc = "done" /\ Decided(s, v).verdict = v
           /\ Decided(s, v).dev = s.dev /\ Decided(s, v).dir = s.dir
           /\ Decided(s, v).pkt = s.pkt /\ Decided(s, v).window = s.window
  BY Zenon DEF Decided, EvState

\* The read of FW_META: a zero count is the count of a list that accepts.
LEMMA EvalMetaKeeps ==
    ASSUME Inv, NEW c \in Cpus, NEW dev \in Devices, NEW dir \in Dirs, NEW p \in Pkts,
           EvalMeta(c, dev, dir, p)
    PROVE  Inv'
<1> DEFINE s == [pc |-> IF MetaCount(dev, dir) # 0 THEN "scan" ELSE "done",
                 dev |-> dev, dir |-> dir, pkt |-> p, idx |-> 0, verdict |-> "accept",
                 window |-> attempts[dev]]
<1>1. attempts[dev] \in SUBSET Policy
  BY DEF Inv, TypeOK
<1>2. 0 \in Slots
  BY FirewallAssumption DEF Slots
<1>3. s \in EvState
  BY <1>1, <1>2 DEF EvState, Actions
<1>4. PICK pol \in attempts[dev] : \A d \in Dirs : MetaCount(dev, d) = Count(pol, d)
  BY DEF Inv, TornInv, CountsKnown
<1>5. MetaCount(dev, dir) = 0 => Accepts(pol, dir, p)
  BY <1>1, <1>4, ZeroCount
<1>6. EvOK(s)
  BY <1>4, <1>5 DEF EvOK, Inv, TornInv, ListsAccept
<1> QED
  BY <1>3, <1>6, EvStep DEF EvalMeta

\* The read of a slot: its rule belongs to a list of the window, and accepts.
LEMMA EvalScanKeeps ==
    ASSUME Inv, NEW c \in Cpus, EvalScan(c)
    PROVE  Inv'
<1> DEFINE s == ev[c]
           k == <<s.dev, s.idx>>
<1>1. s.pc = "scan" /\ s.idx < MaxRules
  BY DEF EvalScan
<1>2. /\ s \in [pc : {"scan", "done"}, dev : Devices, dir : Dirs, pkt : Pkts,
                idx : Slots, verdict : Actions, window : SUBSET Policy]
      /\ EvOK(s)
  BY <1>1, EvUnderWay
<1>3. CASE k \in DOMAIN fwRules /\ Matches(fwRules[k], s.dir, s.pkt)
  <2>1. k[1] = s.dev
    OBVIOUS
  <2>2. PICK pol \in attempts[s.dev] : \E i \in DOMAIN pol : fwRules[k] = pol[i]
    BY <1>3, <2>1 DEF Inv, TornInv, SlotsKnown
  <2>3. pol \in Policy /\ pol \in s.window /\ AllAccept(pol)
    BY <1>1, <1>2, <2>2 DEF EvOK
  <2>4. Accepts(pol, s.dir, s.pkt)
    BY <1>3, <2>2, <2>3, FirstMatch
  <2>5. fwRules[k].action \in Actions
    BY <2>2, <2>3 DEF AllAccept, Actions
  <2>6. Decided(s, fwRules[k].action) \in EvState
    BY <1>2, <2>5, DecidedType
  <2>7. EvOK(Decided(s, fwRules[k].action))
    BY <1>1, <1>2, <2>3, <2>4, <2>5, DecidedType DEF EvOK
  <2>8. ev' = [ev EXCEPT ![c] = Decided(s, fwRules[k].action)]
    BY <1>3 DEF EvalScan
  <2> QED
    BY <2>6, <2>7, <2>8, EvStep DEF EvalScan
<1>4. CASE ~(k \in DOMAIN fwRules /\ Matches(fwRules[k], s.dir, s.pkt))
  <2>1. s.idx + 1 \in Slots
    BY <1>1, <1>2, FirewallAssumption DEF Slots
  <2>2. [s EXCEPT !.idx = @ + 1] \in EvState /\ EvOK([s EXCEPT !.idx = @ + 1])
    BY <1>1, <1>2, <2>1 DEF EvOK, EvState
  <2>3. ev' = [ev EXCEPT ![c] = [s EXCEPT !.idx = @ + 1]]
    BY <1>4 DEF EvalScan
  <2> QED
    BY <2>2, <2>3, EvStep DEF EvalScan
<1> QED
  BY <1>3, <1>4

\* The end of the scan and of the program.
LEMMA EvalEndKeeps ==
    ASSUME Inv, NEW c \in Cpus, EvalMiss(c) \/ EvalReturn(c)
    PROVE  Inv'
<1>1. CASE EvalMiss(c)
  <2>1. ev[c].pc = "scan"
    BY <1>1 DEF EvalMiss
  <2>2. /\ ev[c] \in [pc : {"scan", "done"}, dev : Devices, dir : Dirs, pkt : Pkts,
                      idx : Slots, verdict : Actions, window : SUBSET Policy]
        /\ EvOK(ev[c])
    BY <2>1, EvUnderWay
  <2>3. "drop" \in Actions
    BY DEF Actions
  <2>4. Decided(ev[c], "drop") \in EvState
    BY <2>2, <2>3, DecidedType
  <2>5. EvOK(Decided(ev[c], "drop"))
    BY <2>1, <2>2, <2>3, DecidedType DEF EvOK
  <2> QED
    BY <1>1, <2>4, <2>5, EvStep DEF EvalMiss
<1>2. CASE EvalReturn(c)
  <2>1. IdleEv \in EvState /\ EvOK(IdleEv)
    BY DEF EvState, EvOK, IdleEv
  <2> QED
    BY <1>2, <2>1, EvStep DEF EvalReturn
<1> QED
  BY <1>1, <1>2

(***************************************************************************)
(* The control plane.                                                      *)
(***************************************************************************)

\* Interfaces come and go: the maps, and the lists that count, stay.
LEMMA InterfaceKeeps ==
    ASSUME Inv, NEW id \in Ids,
           (\E dev \in Devices : CreateInterface(id, dev)) \/ DetachInterface(id)
    PROVE  Inv'
<1>1. UNCHANGED <<mapVars, task, ev, ops, attempts>>
  BY DEF CreateInterface, DetachInterface, bounds
<1>2. DOMAIN byIfindex' \subseteq Ids /\ \A x \in DOMAIN byIfindex' : byIfindex'[x] \in Devices
  BY DEF CreateInterface, DetachInterface, Inv, TypeOK, Restrict
<1>3. /\ fw' \in [Devices -> Seq(Entry)]
      /\ \A d \in Devices : fw'[d] = fw[d] \/ fw'[d] = << >>
  <2>1. fw \in [Devices -> Seq(Entry)] /\ << >> \in Seq(Entry)
    BY DEF Inv, TypeOK
  <2>2. CASE \E dev \in Devices : CreateInterface(id, dev)
    BY <2>1, <2>2 DEF CreateInterface
  <2>3. CASE DetachInterface(id)
    BY <2>1, <2>3 DEF DetachInterface
  <2> QED
    BY <2>2, <2>3
<1>4. detached' \in 0 .. MaxDetach
  BY FirewallAssumption DEF CreateInterface, DetachInterface, Inv, TypeOK, bounds
<1>5. TypeOK'
  BY <1>1, <1>2, <1>3, <1>4 DEF Inv, TypeOK, mapVars
<1>6. ListsAccept'
  <2>1. \A d \in Devices : Len(fw'[d]) <= MaxRules
    BY <1>3, FirewallAssumption DEF Inv, TornInv, ListsAccept
  <2>2. \A d \in Devices : \A i \in DOMAIN fw'[d] : fw'[d][i].rule.action = "accept"
    BY <1>3 DEF Inv, TornInv, ListsAccept
  <2> QED
    BY <1>1, <2>1, <2>2 DEF Inv, TornInv, ListsAccept
<1>7. AcceptSound' /\ SlotsKnown' /\ Progress' /\ Windows'
  BY <1>1 DEF Inv, TornInv, AcceptSound, SlotsKnown, Progress, Windows, mapVars
<1>8. CountsKnown'
  BY <1>1 DEF Inv, TornInv, CountsKnown, MetaCount, mapVars
<1> QED
  BY <1>5, <1>6, <1>7, <1>8 DEF Inv, TornInv

\* A new list begins to be installed: it counts from now on.
LEMMA StartKeeps ==
    ASSUME Inv, NEW dev \in Devices, NEW list \in Seq(Entry),
           MaxRules > 0, Len(list) <= MaxRules, ops < MaxOps,
           \A i \in DOMAIN list : list[i].rule.action = "accept",
           StartReprogram(dev, list),
           UNCHANGED <<byIfindex, mapVars, detached>>
    PROVE  Inv'
<1> DEFINE new == RulesOf(list)
<1>1. new \in Policy /\ Len(new) = Len(list) /\ AllAccept(new)
  <2>1. DOMAIN list = 1 .. Len(list) /\ Len(list) \in Nat
    OBVIOUS
  <2>2. \A i \in 1 .. Len(list) : list[i].rule \in Rule
    <3>1. \A i \in 1 .. Len(list) : list[i] \in Entry
      BY <2>1
    <3> QED
      BY <3>1 DEF Entry
  <2>3. new = [i \in 1 .. Len(list) |-> list[i].rule]
    BY <2>1 DEF RulesOf
  <2>4. new \in Seq(Rule) /\ Len(new) = Len(list)
    BY <2>1, <2>2, <2>3
  <2> QED
    BY <2>1, <2>3, <2>4 DEF Policy, AllAccept
<1> HIDE DEF new
<1>2. /\ attempts' \in [Devices -> SUBSET Policy]
      /\ \A d \in Devices : attempts'[d] = IF d = dev THEN attempts[d] \cup {new} ELSE attempts[d]
  BY <1>1 DEF StartReprogram, new, Inv, TypeOK
<1>3. \A d \in Devices : \A pol \in attempts'[d] : AllAccept(pol)
  BY <1>1, <1>2 DEF Inv, TornInv, ListsAccept
<1>4. \A c \in Cpus : ev'[c] = IF ev[c].pc # "idle" /\ ev[c].dev = dev
                                 THEN [ev[c] EXCEPT !.window = @ \cup {new}] ELSE ev[c]
  BY DEF StartReprogram, new
<1>5. \A c \in Cpus :
        /\ ev'[c] \in EvState
        /\ ev'[c].pc = ev[c].pc
        /\ ev[c].pc # "idle" =>
              /\ ev'[c].dev = ev[c].dev /\ ev'[c].dir = ev[c].dir /\ ev'[c].pkt = ev[c].pkt
              /\ ev'[c].verdict = ev[c].verdict
              /\ ev'[c].window = IF ev[c].dev = dev THEN ev[c].window \cup {new} ELSE ev[c].window
  <2> TAKE c \in Cpus
  <2>1. CASE ev[c].pc = "idle"
    BY <1>4, <2>1 DEF Inv, TypeOK
  <2>2. CASE ev[c].pc # "idle"
    <3>1. ev[c] \in [pc : {"scan", "done"}, dev : Devices, dir : Dirs, pkt : Pkts,
                     idx : Slots, verdict : Actions, window : SUBSET Policy]
      BY <2>2, EvUnderWay
    <3>2. CASE ev[c].dev = dev
      <4>1. ev'[c] = [ev[c] EXCEPT !.window = @ \cup {new}]
        BY <1>4, <2>2, <3>2
      <4>2. ev[c].window \cup {new} \in SUBSET Policy
        BY <1>1, <3>1
      <4> QED
        BY <3>1, <3>2, <4>1, <4>2 DEF EvState
    <3>3. CASE ev[c].dev # dev
      BY <1>4, <3>1, <3>3 DEF EvState
    <3> QED
      BY <3>2, <3>3
  <2> QED
    BY <2>1, <2>2
<1>6. TypeOK'
  <2>1. ev' \in [Cpus -> EvState]
    BY <1>5 DEF StartReprogram
  <2>2. task' \in Task
    BY <1>1 DEF StartReprogram, TaskAt, Task, new
  <2>3. fw' \in [Devices -> Seq(Entry)]
    BY DEF StartReprogram, Inv, TypeOK
  <2>4. ops' \in 0 .. MaxOps
    BY FirewallAssumption DEF StartReprogram, Inv, TypeOK
  <2> QED
    BY <1>2, <2>1, <2>2, <2>3, <2>4 DEF Inv, TypeOK, mapVars
<1>7. ListsAccept'
  <2>1. \A d \in Devices : fw'[d] = IF d = dev THEN list ELSE fw[d]
    BY DEF StartReprogram, Inv, TypeOK
  <2> QED
    BY <1>3, <2>1 DEF Inv, TornInv, ListsAccept
<1>8. SlotsKnown'
  <2>1. \A k \in DOMAIN fwRules : k[1] \in Devices
    BY DEF Inv, TypeOK
  <2> QED
    BY <1>2, <2>1 DEF Inv, TornInv, SlotsKnown, mapVars
<1>9. CountsKnown'
  BY <1>2 DEF Inv, TornInv, CountsKnown, MetaCount, mapVars
<1>10. Progress'
  <2>1. /\ task'.pc = "clear" /\ task'.dev = dev /\ task'.todo = new /\ task'.idx = 0
    BY DEF StartReprogram, TaskAt, new
  <2>2. \A k \in DOMAIN fwRules : k[2] >= 0
    BY DEF Inv, TypeOK
  <2> QED
    BY <1>1, <1>2, <2>1, <2>2 DEF Progress, mapVars
<1>11. Windows'
  <2> SUFFICES ASSUME NEW c \in Cpus, ev'[c].pc # "idle"
               PROVE  /\ attempts'[ev'[c].dev] \subseteq ev'[c].window
                      /\ \A pol \in ev'[c].window : AllAccept(pol)
    BY DEF Windows
  <2>1. ev[c].dev \in Devices /\ EvOK(ev[c])
    BY <1>5, EvUnderWay
  <2> QED
    BY <1>1, <1>2, <1>5, <2>1 DEF EvOK
<1>12. AcceptSound'
  BY <1>5 DEF AcceptSound, Inv, TornInv
<1> QED
  BY <1>6, <1>7, <1>8, <1>9, <1>10, <1>11, <1>12 DEF Inv, TornInv

\* create_firewall_rule and add_fw_rule: DROP requests are refused.
LEMMA AddKeeps ==
    ASSUME Inv, NEW id \in Ids, NEW rid \in RuleIds, NEW r \in Requests, AddFwRule(id, rid, r)
    PROVE  Inv'
<1> DEFINE dev == byIfindex[id]
           list == Append(fw[dev], [id |-> rid, rule |-> r])
<1>1. dev \in Devices /\ r \in Rule /\ r.action = "accept"
  BY FirewallAssumption DEF AddFwRule, RequestAllowed, Inv, TypeOK, Rule, Actions
<1>2. fw[dev] \in Seq(Entry) /\ [id |-> rid, rule |-> r] \in Entry
  BY <1>1 DEF Inv, TypeOK, Entry
<1>3. list \in Seq(Entry) /\ Len(list) = Len(fw[dev]) + 1
  BY <1>2
<1>4. Len(fw[dev]) < MaxRules
  BY DEF AddFwRule
<1>5. MaxRules > 0 /\ Len(list) <= MaxRules
  BY <1>2, <1>3, <1>4, FirewallAssumption
<1>6. \A i \in DOMAIN fw[dev] : fw[dev][i].rule.action = "accept"
  BY <1>1 DEF Inv, TornInv, ListsAccept
<1>7. \A i \in DOMAIN list : list[i].rule.action = "accept"
  BY <1>1, <1>2, <1>6
<1>8. StartReprogram(dev, list) /\ ops < MaxOps /\ UNCHANGED <<byIfindex, mapVars, detached>>
  BY DEF AddFwRule
<1> HIDE DEF list, dev
<1> QED
  BY <1>1, <1>3, <1>5, <1>7, <1>8, StartKeeps

\* del_fw_rule: what is left was in the list.
LEMMA DelKeeps ==
    ASSUME Inv, NEW id \in Ids, NEW rid \in RuleIds, DelFwRule(id, rid)
    PROVE  Inv'
<1> DEFINE dev == byIfindex[id]
           old == fw[dev]
<1>1. dev \in Devices
  BY DEF DelFwRule, Inv, TypeOK
<1>2. PICK i \in DOMAIN old : StartReprogram(dev, WithoutNth(old, i))
  BY DEF DelFwRule
<1>3. old \in Seq(Entry) /\ Len(old) <= MaxRules
  BY <1>1 DEF Inv, TypeOK, TornInv, ListsAccept
<1>4. \A j \in DOMAIN old : old[j].rule.action = "accept"
  BY <1>1 DEF Inv, TornInv, ListsAccept
<1> DEFINE list == WithoutNth(old, i)
<1>5. Len(old) \in Nat \ {0} /\ DOMAIN old = 1 .. Len(old)
  BY <1>2, <1>3
<1>6. /\ list \in Seq(Entry) /\ Len(list) = Len(old) - 1
      /\ \A j \in DOMAIN list : list[j].rule.action = "accept"
  BY <1>3, <1>4, <1>5 DEF WithoutNth
<1>7. MaxRules > 0 /\ Len(list) <= MaxRules
  BY <1>3, <1>5, <1>6, FirewallAssumption
<1>8. ops < MaxOps /\ UNCHANGED <<byIfindex, mapVars, detached>>
  BY DEF DelFwRule
<1> HIDE DEF list, dev, old
<1>9. StartReprogram(dev, list)
  BY <1>2 DEF list
<1> QED
  BY <1>1, <1>6, <1>7, <1>8, <1>9, StartKeeps

\* The task of fw_reprogram while it runs.
LEMMA TaskRuns ==
    ASSUME Inv, task.pc \in {"clear", "fill"}
    PROVE  /\ task.dev \in Devices /\ task.todo \in Policy /\ task.idx \in Nat
           /\ Len(task.todo) \in Nat /\ task.todo \in attempts[task.dev]
           /\ DOMAIN task.todo = 1 .. Len(task.todo)
<1>1. task \in Task /\ task # FreeTask
  BY DEF Inv, TypeOK, FreeTask
<1>2. task.dev \in Devices /\ task.todo \in Policy /\ task.idx \in Nat
  BY <1>1 DEF Task
<1> QED
  BY <1>2 DEF Inv, TornInv, Progress, Policy

\* The clear loop: the slots passed are empty.
LEMMA ClearKeeps ==
    ASSUME Inv, ReprogramClear
    PROVE  Inv'
<1> USE DEF shadowVars, bounds
<1>1. task.pc = "clear"
  BY DEF ReprogramClear
<1>2. /\ task.dev \in Devices /\ task.todo \in Policy /\ task.idx \in Nat
      /\ Len(task.todo) \in Nat /\ task.todo \in attempts[task.dev]
  BY <1>1, TaskRuns
<1>3. /\ DOMAIN fwRules' = DOMAIN fwRules \ {<<task.dev, task.idx>>}
      /\ \A k \in DOMAIN fwRules' : fwRules'[k] = fwRules[k]
  BY DEF ReprogramClear, Restrict
<1>4. task.idx < MaxRules /\ \A k \in DOMAIN fwRules : k[1] = task.dev => k[2] >= task.idx
  BY <1>1 DEF Inv, TornInv, Progress
<1>5. \A k \in DOMAIN fwRules' :
         /\ k[1] \in Devices /\ k[2] \in Nat /\ k[2] < MaxRules
         /\ k[1] = task.dev => k[2] >= task.idx + 1
  <2> TAKE k \in DOMAIN fwRules'
  <2>1. k \in DOMAIN fwRules /\ k \in Devices \X Nat /\ k # <<task.dev, task.idx>>
    BY <1>3 DEF Inv, TypeOK
  <2>2. k[2] < MaxRules
    BY <2>1 DEF Inv, TornInv, SlotsKnown
  <2>3. k = <<k[1], k[2]>> /\ k[1] \in Devices /\ k[2] \in Nat
    BY <2>1
  <2>4. k[1] = task.dev => k[2] # task.idx
    BY <2>1, <2>3
  <2> QED
    BY <1>2, <1>4, <2>1, <2>2, <2>3, <2>4
<1>6. task' = IF task.idx + 1 < MaxRules
                THEN TaskAt("clear", task.dev, task.todo, task.idx + 1)
                ELSE TaskAt("fill", task.dev, task.todo, 0)
  BY DEF ReprogramClear
<1>7. TypeOK'
  <2>1. task' \in Task
    BY <1>2, <1>6 DEF TaskAt, Task
  <2> QED
    BY <1>3, <2>1 DEF ReprogramClear, Inv, TypeOK
<1>8. Progress'
  <2>1. UNCHANGED attempts /\ Len(task.todo) <= MaxRules
    BY <1>1 DEF ReprogramClear, Inv, TornInv, Progress
  <2>2. CASE task.idx + 1 < MaxRules
    <3>1. task'.pc = "clear" /\ task'.dev = task.dev /\ task'.todo = task.todo
          /\ task'.idx = task.idx + 1
      BY <1>6, <2>2 DEF TaskAt
    <3> QED
      BY <1>2, <1>5, <2>1, <2>2, <3>1 DEF Progress
  <2>3. CASE ~(task.idx + 1 < MaxRules)
    <3>1. task'.pc = "fill" /\ task'.dev = task.dev /\ task'.todo = task.todo /\ task'.idx = 0
      BY <1>6, <2>3 DEF TaskAt
    <3>2. \A k \in DOMAIN fwRules' : k[1] # task.dev
      BY <1>2, <1>5, <2>3, FirewallAssumption
    <3> QED
      BY <1>2, <2>1, <3>1, <3>2 DEF Progress
  <2> QED
    BY <2>2, <2>3
<1>9. SlotsKnown'
  BY <1>3 DEF ReprogramClear, Inv, TornInv, SlotsKnown
<1>10. ListsAccept' /\ Windows' /\ AcceptSound'
  BY DEF ReprogramClear, Inv, TornInv, ListsAccept, Windows, AcceptSound
<1>11. CountsKnown'
  BY DEF ReprogramClear, Inv, TornInv, CountsKnown, MetaCount
<1> QED
  BY <1>7, <1>8, <1>9, <1>10, <1>11 DEF Inv, TornInv

\* The fill loop: the slots passed hold the rules of the list, in order.
LEMMA FillKeeps ==
    ASSUME Inv, ReprogramFill
    PROVE  Inv'
<1> USE DEF shadowVars, bounds
<1> DEFINE k0 == <<task.dev, task.idx>>
<1>1. task.pc = "fill" /\ task.idx < Len(task.todo)
  BY DEF ReprogramFill
<1>2. /\ task.dev \in Devices /\ task.todo \in Policy /\ task.idx \in Nat
      /\ Len(task.todo) \in Nat /\ task.todo \in attempts[task.dev]
      /\ DOMAIN task.todo = 1 .. Len(task.todo)
  BY <1>1, TaskRuns
<1>3. /\ DOMAIN fwRules' = DOMAIN fwRules \cup {k0}
      /\ \A k \in DOMAIN fwRules' :
            fwRules'[k] = IF k = k0 THEN task.todo[task.idx + 1] ELSE fwRules[k]
  BY DEF ReprogramFill
<1>4. task.idx + 1 \in DOMAIN task.todo /\ task.todo[task.idx + 1] \in Rule
  BY <1>1, <1>2 DEF Policy
<1>5. task.idx < MaxRules /\ Len(task.todo) <= MaxRules
  BY <1>1, <1>2, FirewallAssumption DEF Inv, TornInv, Progress
<1>6. task' = TaskAt("fill", task.dev, task.todo, task.idx + 1) /\ UNCHANGED attempts
  BY DEF ReprogramFill
<1>7. TypeOK'
  <2>1. task' \in Task
    BY <1>2, <1>6 DEF TaskAt, Task
  <2>2. k0 \in Devices \X Nat
    BY <1>2
  <2> QED
    BY <1>3, <1>4, <2>1, <2>2 DEF ReprogramFill, Inv, TypeOK
<1>8. SlotsKnown'
  <2> SUFFICES ASSUME NEW k \in DOMAIN fwRules'
               PROVE  /\ k[2] < MaxRules
                      /\ \E pol \in attempts[k[1]] : \E i \in DOMAIN pol : fwRules'[k] = pol[i]
    BY <1>6 DEF SlotsKnown
  <2>1. CASE k = k0
    <3>1. k[1] = task.dev /\ k[2] = task.idx /\ fwRules'[k] = task.todo[task.idx + 1]
      BY <1>3, <2>1
    <3> QED
      BY <1>2, <1>4, <1>5, <3>1
  <2>2. CASE k # k0
    BY <1>3, <2>2 DEF Inv, TornInv, SlotsKnown
  <2> QED
    BY <2>1, <2>2
<1>9. Progress'
  <2>1. task'.pc = "fill" /\ task'.dev = task.dev /\ task'.todo = task.todo
        /\ task'.idx = task.idx + 1
    BY <1>6 DEF TaskAt
  <2>2. \A k \in DOMAIN fwRules' :
          k[1] = task.dev => k[2] < task.idx + 1 /\ fwRules'[k] = task.todo[k[2] + 1]
    <3> TAKE k \in DOMAIN fwRules'
    <3>1. CASE k = k0
      BY <1>2, <1>3, <3>1
    <3>2. CASE k # k0
      <4>1. k \in DOMAIN fwRules /\ fwRules'[k] = fwRules[k] /\ k[2] \in Nat
        BY <1>3, <3>2 DEF Inv, TypeOK
      <4>2. k[1] = task.dev => k[2] < task.idx /\ fwRules[k] = task.todo[k[2] + 1]
        BY <1>1, <4>1 DEF Inv, TornInv, Progress
      <4> QED
        BY <1>2, <4>1, <4>2
    <3> QED
      BY <3>1, <3>2
  <2> QED
    BY <1>1, <1>2, <1>5, <1>6, <2>1, <2>2 DEF Progress
<1>10. ListsAccept' /\ Windows' /\ AcceptSound'
  BY DEF ReprogramFill, Inv, TornInv, ListsAccept, Windows, AcceptSound
<1>11. CountsKnown'
  BY DEF ReprogramFill, Inv, TornInv, CountsKnown, MetaCount
<1> QED
  BY <1>7, <1>8, <1>9, <1>10, <1>11 DEF Inv, TornInv

\* The counts are written: from now on only the new list counts, and every
\* slot and the counts agree with it.
LEMMA MetaKeeps ==
    ASSUME Inv, ReprogramMeta
    PROVE  Inv'
<1> USE DEF shadowVars, bounds
<1>1. task.pc = "fill" /\ task.idx = Len(task.todo)
  BY DEF ReprogramMeta
<1>2. /\ task.dev \in Devices /\ task.todo \in Policy /\ task.idx \in Nat
      /\ Len(task.todo) \in Nat /\ task.todo \in attempts[task.dev]
      /\ DOMAIN task.todo = 1 .. Len(task.todo)
  BY <1>1, TaskRuns
<1> DEFINE counts == [d \in Dirs |-> Count(task.todo, d)]
<1>3. /\ DOMAIN fwMeta' = DOMAIN fwMeta \cup {task.dev}
      /\ \A x \in DOMAIN fwMeta' : fwMeta'[x] = IF x = task.dev THEN counts ELSE fwMeta[x]
  BY DEF ReprogramMeta
<1>4. counts \in Counts
  BY <1>2, ZeroCount DEF Counts
<1>5. /\ attempts' \in [Devices -> SUBSET Policy]
      /\ \A d \in Devices : attempts'[d] = IF d = task.dev THEN {task.todo} ELSE attempts[d]
  BY <1>2 DEF ReprogramMeta, Inv, TypeOK
<1>6. \A d \in Devices : attempts'[d] \subseteq attempts[d]
  BY <1>2, <1>5
<1>7. TypeOK'
  <2>1. task' \in Task
    BY DEF ReprogramMeta, Task
  <2> QED
    BY <1>2, <1>3, <1>4, <1>5, <2>1 DEF ReprogramMeta, Inv, TypeOK
<1>8. ListsAccept'
  BY <1>6 DEF ReprogramMeta, Inv, TornInv, ListsAccept
<1>9. SlotsKnown'
  <2> SUFFICES ASSUME NEW k \in DOMAIN fwRules
               PROVE  /\ k[2] < MaxRules
                      /\ \E pol \in attempts'[k[1]] : \E i \in DOMAIN pol : fwRules[k] = pol[i]
    BY DEF SlotsKnown, ReprogramMeta
  <2>1. k[1] \in Devices /\ k[2] \in Nat
    BY DEF Inv, TypeOK
  <2>2. CASE k[1] = task.dev
    <3>1. k[2] < Len(task.todo) /\ fwRules[k] = task.todo[k[2] + 1]
      BY <1>1, <2>2 DEF Inv, TornInv, Progress
    <3>2. k[2] + 1 \in DOMAIN task.todo
      BY <1>2, <2>1, <3>1
    <3> QED
      BY <1>5, <2>1, <2>2, <3>1, <3>2 DEF Inv, TornInv, SlotsKnown
  <2>3. CASE k[1] # task.dev
    BY <1>5, <2>1, <2>3 DEF Inv, TornInv, SlotsKnown
  <2> QED
    BY <2>2, <2>3
<1>10. CountsKnown'
  <2> SUFFICES ASSUME NEW d \in Devices
               PROVE  \E pol \in attempts'[d] : \A dir \in Dirs :
                         MetaCount(d, dir)' = Count(pol, dir)
    BY DEF CountsKnown
  <2>1. CASE d = task.dev
    <3>1. \A dir \in Dirs : MetaCount(d, dir)' = Count(task.todo, dir)
      BY <1>3, <2>1 DEF MetaCount
    <3> QED
      BY <1>5, <2>1, <3>1
  <2>2. CASE d # task.dev
    <3>1. \A dir \in Dirs : MetaCount(d, dir)' = MetaCount(d, dir)
      BY <1>3, <2>2 DEF MetaCount
    <3> QED
      BY <1>5, <2>2, <3>1 DEF Inv, TornInv, CountsKnown
  <2> QED
    BY <2>1, <2>2
<1>11. Progress'
  BY DEF ReprogramMeta, Progress, FreeTask
<1>12. Windows'
  <2> SUFFICES ASSUME NEW c \in Cpus, ev[c].pc # "idle"
               PROVE  /\ attempts'[ev[c].dev] \subseteq ev[c].window
                      /\ \A pol \in ev[c].window : AllAccept(pol)
    BY DEF Windows, ReprogramMeta
  <2>1. ev[c].dev \in Devices /\ EvOK(ev[c])
    BY EvUnderWay
  <2> QED
    BY <1>6, <2>1 DEF EvOK
<1>13. AcceptSound'
  BY DEF ReprogramMeta, Inv, TornInv, AcceptSound
<1> QED
  BY <1>7, <1>8, <1>9, <1>10, <1>11, <1>12, <1>13 DEF Inv, TornInv

\* A failed insert leaves the maps as they are and every attempt counting.
LEMMA FailKeeps ==
    ASSUME Inv, ReprogramFail
    PROVE  Inv'
<1> USE DEF shadowVars, mapVars, bounds
<1>1. task' = FreeTask /\ UNCHANGED <<shadowVars, mapVars, ev, bounds, attempts>>
  BY DEF ReprogramFail
<1>2. TypeOK'
  BY <1>1 DEF Inv, TypeOK, Task
<1>3. ListsAccept' /\ SlotsKnown' /\ Windows' /\ AcceptSound'
  BY <1>1 DEF Inv, TornInv, ListsAccept, SlotsKnown, Windows, AcceptSound
<1>4. CountsKnown'
  BY <1>1 DEF Inv, TornInv, CountsKnown, MetaCount
<1>5. Progress'
  BY <1>1 DEF Progress, FreeTask
<1> QED
  BY <1>2, <1>3, <1>4, <1>5 DEF Inv, TornInv

(***************************************************************************)
(* The theorems.                                                           *)
(***************************************************************************)

\* Empty maps encode the empty list.
LEMMA InitInv == Init => Inv
<1> SUFFICES ASSUME Init PROVE Inv
  OBVIOUS
<1>1. << >> \in Policy /\ << >> \in Seq(Entry) /\ DOMAIN << >> = {} /\ Len(<< >>) = 0
  BY DEF Policy
<1>2. DOMAIN byIfindex = {} /\ DOMAIN fwRules = {} /\ DOMAIN fwMeta = {}
  BY <1>1 DEF Init
<1>3. \A c \in Cpus : ev[c].pc = "idle"
  BY DEF Init, IdleEv
<1>4. TypeOK
  BY <1>1, <1>2, FirewallAssumption DEF Init, TypeOK, Task, EvState
<1>5. ListsAccept
  BY <1>1, FirewallAssumption DEF Init, ListsAccept, AllAccept
<1>6. CountsKnown
  <2>1. \A dir \in Dirs : Count(<< >>, dir) = 0
    <3> TAKE dir \in Dirs
    <3>1. {i \in DOMAIN << >> : << >>[i].dir = dir} = {}
      BY <1>1
    <3> QED
      BY <3>1, FS_EmptySet DEF Count
  <2>2. \A d \in Devices : \A dir \in Dirs : MetaCount(d, dir) = 0
    BY <1>2 DEF MetaCount
  <2>3. \A d \in Devices : << >> \in attempts[d]
    BY DEF Init
  <2> QED
    BY <2>1, <2>2, <2>3 DEF CountsKnown
<1>7. SlotsKnown /\ Progress /\ Windows /\ AcceptSound
  BY <1>2, <1>3 DEF Init, SlotsKnown, Progress, Windows, AcceptSound, FreeTask
<1> QED
  BY <1>4, <1>5, <1>6, <1>7 DEF Inv, TornInv

\* Every step preserves the inductive invariant.
LEMMA NextInv == Inv /\ [Next]_vars => Inv'
<1> SUFFICES ASSUME Inv, [Next]_vars PROVE Inv'
  OBVIOUS
<1>1. CASE UNCHANGED vars
  <2> USE DEF vars, shadowVars, mapVars, bounds
  <2>1. TypeOK'
    BY <1>1 DEF Inv, TypeOK
  <2>2. ListsAccept' /\ SlotsKnown' /\ Windows' /\ AcceptSound' /\ Progress'
    BY <1>1 DEF Inv, TornInv, ListsAccept, SlotsKnown, Windows, AcceptSound, Progress
  <2>3. CountsKnown'
    BY <1>1 DEF Inv, TornInv, CountsKnown, MetaCount
  <2> QED
    BY <2>1, <2>2, <2>3 DEF Inv, TornInv
<1>2. CASE Control
  BY <1>2, InterfaceKeeps, AddKeeps, DelKeeps, ClearKeeps, FillKeeps, MetaKeeps, FailKeeps
  DEF Control, Reprogram
<1>3. CASE \E c \in Cpus : Eval(c)
  <2>1. InUse \subseteq Devices
    BY DEF InUse, Range, Inv, TypeOK
  <2> QED
    BY <1>3, <2>1, EvalMetaKeeps, EvalScanKeeps, EvalEndKeeps DEF Eval
<1> QED
  BY <1>1, <1>2, <1>3 DEF Next

\* Type correctness of the shadow lists, the two maps, the control plane's
\* task and every evaluation.
THEOREM FirewallTypeCorrect == Spec => []TypeOK
<1>1. Inv => TypeOK
  BY DEF Inv
<1> QED
  BY <1>1, InitInv, NextInv, PTL DEF Spec

\* For any number of interfaces, rules and CPUs and any number of rule
\* operations that fall into an evaluation, fw_eval_dir accepts a packet only
\* if a rule list installed, or being installed by fw_reprogram, in the
\* meantime accepts it; insert failures of the maps included.
THEOREM AcceptSoundHolds == Spec => []AcceptSound
<1>1. Inv => AcceptSound
  BY DEF Inv, TornInv
<1> QED
  BY <1>1, InitInv, NextInv, PTL DEF Spec

(***************************************************************************)
(* A device whose last operation succeeded.                                *)
(***************************************************************************)

\* The slots of a device hold a list, and nothing beyond it.
Holds(rules, d, pol) ==
    \A i \in 0 .. (MaxRules - 1) :
        IF i < Len(pol) THEN <<d, i>> \in DOMAIN rules /\ rules[<<d, i>>] = pol[i + 1]
                        ELSE <<d, i>> \notin DOMAIN rules

\* The slots in use once fw_reprogram has written what is left to write.
Wanted == DOMAIN fwRules \cup {<<task.dev, i>> : i \in 0 .. (Len(task.todo) - 1)}

\* The inductive form of InstalledExact.  A list that replaces itself fits
\* into FW_RULES for sure: the slots it needs are the ones it has freed.
ExactInv ==
    /\ IsFiniteSet(DOMAIN fwRules) /\ Cardinality(DOMAIN fwRules) <= RulesCapacity
    /\ \A d \in Devices : \A pol \in attempts[d] : Len(pol) <= MaxRules
    /\ task.pc = "fill" => \A i \in 0 .. (task.idx - 1) : <<task.dev, i>> \in DOMAIN fwRules
    /\ task.pc # "free" /\ attempts[task.dev] = {task.todo} =>
          IsFiniteSet(Wanted) /\ Cardinality(Wanted) <= RulesCapacity
    /\ \A d \in Devices : \A pol :
          attempts[d] = {pol} /\ (task.pc = "free" \/ task.dev # d) => Holds(fwRules, d, pol)

\* add_fw_rule starts fw_reprogram with a list that fits and that has one
\* rule more than the list of the device ...
LEMMA AddStarts ==
    ASSUME Inv, NEW id \in Ids, NEW rid \in RuleIds, NEW r \in Requests, AddFwRule(id, rid, r)
    PROVE  \E dev \in Devices, list \in Seq(Entry) :
              /\ StartReprogram(dev, list) /\ Len(list) <= MaxRules /\ Len(list) # Len(fw[dev])
              /\ task.pc = "free" /\ UNCHANGED <<byIfindex, mapVars, detached>>
<1> DEFINE dev == byIfindex[id]
           list == Append(fw[dev], [id |-> rid, rule |-> r])
<1>1. dev \in Devices /\ r \in Rule
  BY FirewallAssumption DEF AddFwRule, Inv, TypeOK
<1>2. fw[dev] \in Seq(Entry) /\ [id |-> rid, rule |-> r] \in Entry
  BY <1>1 DEF Inv, TypeOK, Entry
<1>3. list \in Seq(Entry) /\ Len(list) = Len(fw[dev]) + 1 /\ Len(fw[dev]) \in Nat
  BY <1>2
<1>4. Len(list) <= MaxRules /\ Len(list) # Len(fw[dev])
  BY <1>3, FirewallAssumption DEF AddFwRule
<1>5. /\ StartReprogram(dev, list) /\ UNCHANGED <<byIfindex, mapVars, detached>>
      /\ task.pc = "free"
  BY DEF AddFwRule, Free, FreeTask
<1> HIDE DEF list, dev
<1> QED
  BY <1>1, <1>3, <1>4, <1>5

\* ... and del_fw_rule with one that has a rule less.
LEMMA DelStarts ==
    ASSUME Inv, NEW id \in Ids, NEW rid \in RuleIds, DelFwRule(id, rid)
    PROVE  \E dev \in Devices, list \in Seq(Entry) :
              /\ StartReprogram(dev, list) /\ Len(list) <= MaxRules /\ Len(list) # Len(fw[dev])
              /\ task.pc = "free" /\ UNCHANGED <<byIfindex, mapVars, detached>>
<1> DEFINE dev == byIfindex[id]
           old == fw[dev]
<1>1. dev \in Devices
  BY DEF DelFwRule, Inv, TypeOK
<1>2. PICK i \in DOMAIN old : StartReprogram(dev, WithoutNth(old, i))
  BY DEF DelFwRule
<1>3. old \in Seq(Entry) /\ Len(old) <= MaxRules
  BY <1>1 DEF Inv, TypeOK, TornInv, ListsAccept
<1>4. Len(old) \in Nat \ {0} /\ DOMAIN old = 1 .. Len(old)
  BY <1>2, <1>3
<1>5. /\ WithoutNth(old, i) \in Seq(Entry) /\ Len(WithoutNth(old, i)) = Len(old) - 1
  BY <1>3, <1>4 DEF WithoutNth
<1>6. Len(WithoutNth(old, i)) <= MaxRules /\ Len(WithoutNth(old, i)) # Len(old)
  BY <1>3, <1>4, <1>5, FirewallAssumption
<1>7. UNCHANGED <<byIfindex, mapVars, detached>> /\ task.pc = "free"
  BY DEF DelFwRule, Free, FreeTask
<1> QED
  BY <1>1, <1>2, <1>5, <1>6, <1>7

\* The start of fw_reprogram.
LEMMA StartExact ==
    ASSUME Inv, ExactInv, NEW dev \in Devices, NEW list \in Seq(Entry), Len(list) <= MaxRules,
           task.pc = "free", StartReprogram(dev, list), UNCHANGED mapVars
    PROVE  ExactInv'
<1> DEFINE new == RulesOf(list)
<1>1. new \in Policy /\ Len(new) = Len(list)
  <2>1. DOMAIN list = 1 .. Len(list) /\ Len(list) \in Nat
    OBVIOUS
  <2>2. \A i \in 1 .. Len(list) : list[i].rule \in Rule
    <3>1. \A i \in 1 .. Len(list) : list[i] \in Entry
      BY <2>1
    <3> QED
      BY <3>1 DEF Entry
  <2>3. new = [i \in 1 .. Len(list) |-> list[i].rule]
    BY <2>1 DEF RulesOf
  <2> QED
    BY <2>1, <2>2, <2>3 DEF Policy
<1>2. /\ task'.pc = "clear" /\ task'.dev = dev /\ task'.todo = new /\ fwRules' = fwRules
      /\ \A d \in Devices : attempts'[d] = IF d = dev THEN attempts[d] \cup {new} ELSE attempts[d]
  BY DEF StartReprogram, TaskAt, mapVars, Inv, TypeOK
<1> HIDE DEF new
<1>3. \A d \in Devices : \A pol \in attempts'[d] : Len(pol) <= MaxRules
  BY <1>1, <1>2 DEF ExactInv
<1>4. ASSUME attempts'[dev] = {new}
      PROVE  IsFiniteSet(Wanted)' /\ Cardinality(Wanted') <= RulesCapacity
  <2>1. attempts[dev] # {}
    BY DEF Inv, TornInv, CountsKnown
  <2>2. attempts[dev] = {new}
    <3>1. attempts[dev] \cup {new} = {new}
      BY <1>2, <1>4
    <3>2. \A x \in attempts[dev] : x = new
      BY <3>1
    <3> QED
      BY <2>1, <3>2
  <2>3. Holds(fwRules, dev, new)
    BY <2>2 DEF ExactInv
  <2>4. \A i \in 0 .. (Len(new) - 1) : <<dev, i>> \in DOMAIN fwRules
    BY <1>1, <2>3, FirewallAssumption DEF Holds
  <2>5. {<<dev, i>> : i \in 0 .. (Len(new) - 1)} \subseteq DOMAIN fwRules
    BY <2>4
  <2>6. Wanted' = DOMAIN fwRules \cup {<<dev, i>> : i \in 0 .. (Len(new) - 1)}
    BY <1>2 DEF Wanted
  <2>7. Wanted' = DOMAIN fwRules
    BY <2>5, <2>6
  <2> QED
    BY <2>7 DEF ExactInv
<1>5. \A d \in Devices : \A pol :
        attempts'[d] = {pol} /\ d # dev => Holds(fwRules, d, pol)
  BY <1>2 DEF ExactInv
<1> QED
  BY <1>2, <1>3, <1>4, <1>5 DEF ExactInv

\* The clear loop empties slots of the device only.
LEMMA ClearExact ==
    ASSUME Inv, ExactInv, ReprogramClear
    PROVE  ExactInv'
<1>1. /\ task.pc = "clear" /\ attempts' = attempts
      /\ task' = IF task.idx + 1 < MaxRules
                   THEN TaskAt("clear", task.dev, task.todo, task.idx + 1)
                   ELSE TaskAt("fill", task.dev, task.todo, 0)
  BY DEF ReprogramClear
<1>2. /\ task.dev \in Devices /\ Len(task.todo) \in Nat
  BY <1>1, TaskRuns
<1>3. /\ DOMAIN fwRules' = DOMAIN fwRules \ {<<task.dev, task.idx>>}
      /\ \A k \in DOMAIN fwRules' : fwRules'[k] = fwRules[k]
  BY DEF ReprogramClear, Restrict
<1>4. task'.pc # "free" /\ task'.dev = task.dev /\ task'.todo = task.todo
      /\ (task'.pc = "fill" => task'.idx = 0)
  BY <1>1 DEF TaskAt
<1>5. IsFiniteSet(DOMAIN fwRules') /\ Cardinality(DOMAIN fwRules') <= RulesCapacity
  <2>1. IsFiniteSet(DOMAIN fwRules) /\ Cardinality(DOMAIN fwRules) <= RulesCapacity
    BY DEF ExactInv
  <2> QED
    BY <1>3, <2>1, FS_Subset, FS_CardinalityType, FirewallAssumption
<1>6. Wanted' \subseteq Wanted
  BY <1>3, <1>4 DEF Wanted
<1>7. ASSUME attempts'[task.dev] = {task.todo}
      PROVE  IsFiniteSet(Wanted') /\ Cardinality(Wanted') <= RulesCapacity
  <2>1. IsFiniteSet(Wanted) /\ Cardinality(Wanted) <= RulesCapacity
    BY <1>1, <1>7 DEF ExactInv
  <2> QED
    BY <1>6, <2>1, FS_Subset, FS_CardinalityType, FirewallAssumption
<1>8. ASSUME NEW d \in Devices, NEW pol, attempts[d] = {pol}, d # task.dev
      PROVE  Holds(fwRules', d, pol)
  <2>1. Holds(fwRules, d, pol)
    BY <1>8 DEF ExactInv
  <2>2. \A i : <<d, i>> # <<task.dev, task.idx>>
    BY <1>8
  <2> QED
    BY <1>3, <2>1, <2>2 DEF Holds
<1> QED
  BY <1>1, <1>4, <1>5, <1>7, <1>8 DEF ExactInv

\* The fill loop writes slots of the device only, and counts them.
LEMMA FillExact ==
    ASSUME Inv, ExactInv, ReprogramFill
    PROVE  ExactInv'
<1> DEFINE k == <<task.dev, task.idx>>
<1>1. /\ task.pc = "fill" /\ task.idx < Len(task.todo) /\ attempts' = attempts
      /\ task' = TaskAt("fill", task.dev, task.todo, task.idx + 1)
      /\ Room(fwRules, k, RulesCapacity)
  BY DEF ReprogramFill
<1>2. task.dev \in Devices /\ Len(task.todo) \in Nat /\ task.idx \in Nat
  BY <1>1, TaskRuns
<1>3. /\ DOMAIN fwRules' = DOMAIN fwRules \cup {k}
      /\ \A x \in DOMAIN fwRules' : x # k => fwRules'[x] = fwRules[x]
  BY DEF ReprogramFill
<1>4. /\ task'.pc = "fill" /\ task'.dev = task.dev /\ task'.todo = task.todo
      /\ task'.idx = task.idx + 1
  BY <1>1 DEF TaskAt
<1>5. IsFiniteSet(DOMAIN fwRules') /\ Cardinality(DOMAIN fwRules') <= RulesCapacity
  <2>1. IsFiniteSet(DOMAIN fwRules) /\ Cardinality(DOMAIN fwRules) <= RulesCapacity
    BY DEF ExactInv
  <2>2. Cardinality(DOMAIN fwRules) \in Nat
    BY <2>1, FS_CardinalityType
  <2>3. k \in DOMAIN fwRules \/ Cardinality(DOMAIN fwRules) < RulesCapacity
    BY <1>1 DEF Room
  <2>4. /\ IsFiniteSet(DOMAIN fwRules \cup {k})
        /\ Cardinality(DOMAIN fwRules \cup {k}) =
              IF k \in DOMAIN fwRules THEN Cardinality(DOMAIN fwRules)
                                      ELSE Cardinality(DOMAIN fwRules) + 1
    BY <2>1, FS_AddElement
  <2> QED
    BY <1>3, <2>1, <2>2, <2>3, <2>4, FirewallAssumption
<1>6. \A i \in 0 .. (task'.idx - 1) : <<task'.dev, i>> \in DOMAIN fwRules'
  <2> TAKE i \in 0 .. (task'.idx - 1)
  <2>1. i = task.idx \/ i \in 0 .. (task.idx - 1)
    BY <1>2, <1>4
  <2> QED
    BY <1>1, <1>3, <1>4, <2>1 DEF ExactInv
<1>7. Wanted' = Wanted
  <2>1. k \in {<<task.dev, i>> : i \in 0 .. (Len(task.todo) - 1)}
    BY <1>1, <1>2
  <2> QED
    BY <1>3, <1>4, <2>1 DEF Wanted
<1>8. ASSUME NEW d \in Devices, NEW pol, attempts[d] = {pol}, d # task.dev
      PROVE  Holds(fwRules', d, pol)
  <2>1. Holds(fwRules, d, pol)
    BY <1>8 DEF ExactInv
  <2>2. \A i : <<d, i>> # k
    BY <1>8
  <2> QED
    BY <1>3, <2>1, <2>2 DEF Holds
<1> QED
  BY <1>1, <1>4, <1>5, <1>6, <1>7, <1>8 DEF ExactInv

\* After the fill loop the device holds the new list.
LEMMA Filled ==
    ASSUME Inv, ExactInv, task.pc = "fill", task.idx = Len(task.todo)
    PROVE  Holds(fwRules, task.dev, task.todo)
<1>1. task.dev \in Devices /\ Len(task.todo) \in Nat
  BY TaskRuns
<1> SUFFICES ASSUME NEW i \in 0 .. (MaxRules - 1)
             PROVE  IF i < Len(task.todo)
                      THEN /\ <<task.dev, i>> \in DOMAIN fwRules
                           /\ fwRules[<<task.dev, i>>] = task.todo[i + 1]
                      ELSE <<task.dev, i>> \notin DOMAIN fwRules
  BY DEF Holds
<1>2. \A x \in DOMAIN fwRules :
        x[1] = task.dev => x[2] < Len(task.todo) /\ fwRules[x] = task.todo[x[2] + 1]
  BY DEF Inv, TornInv, Progress
<1>3. <<task.dev, i>> \in DOMAIN fwRules =>
         i < Len(task.todo) /\ fwRules[<<task.dev, i>>] = task.todo[i + 1]
  BY <1>2
<1>4. i < Len(task.todo) => <<task.dev, i>> \in DOMAIN fwRules
  <2>1. i < Len(task.todo) => i \in 0 .. (task.idx - 1)
    BY <1>1, FirewallAssumption
  <2> QED
    BY <2>1 DEF ExactInv
<1> QED
  BY <1>3, <1>4

\* The counts are written: the only list that counts is the one in the slots.
LEMMA MetaExact ==
    ASSUME Inv, ExactInv, ReprogramMeta
    PROVE  ExactInv'
<1>1. /\ task.pc = "fill" /\ task.idx = Len(task.todo) /\ task' = FreeTask /\ fwRules' = fwRules
  BY DEF ReprogramMeta
<1>2. task.dev \in Devices /\ task.todo \in attempts[task.dev]
  BY <1>1, TaskRuns
<1>3. \A d \in Devices : attempts'[d] = IF d = task.dev THEN {task.todo} ELSE attempts[d]
  BY <1>2 DEF ReprogramMeta, Inv, TypeOK
<1>4. task'.pc = "free"
  BY <1>1 DEF FreeTask
<1>5. \A d \in Devices : \A pol : attempts'[d] = {pol} => Holds(fwRules, d, pol)
  BY <1>1, <1>2, <1>3, Filled DEF ExactInv
<1>6. \A d \in Devices : \A pol \in attempts'[d] : Len(pol) <= MaxRules
  BY <1>2, <1>3 DEF ExactInv
<1> QED
  BY <1>1, <1>4, <1>5, <1>6 DEF ExactInv

\* An insert fails only while another list counts as well, or when nothing
\* but the counts is left to write: then the slots are right.
LEMMA FailExact ==
    ASSUME Inv, ExactInv, ReprogramFail
    PROVE  ExactInv'
<1>1. /\ task.pc = "fill" /\ task' = FreeTask /\ fwRules' = fwRules /\ attempts' = attempts
      /\ \/ /\ task.idx < Len(task.todo)
            /\ ~Room(fwRules, <<task.dev, task.idx>>, RulesCapacity)
         \/ task.idx = Len(task.todo)
  BY DEF ReprogramFail, mapVars
<1>2. /\ task.dev \in Devices /\ task.todo \in attempts[task.dev]
      /\ task.idx \in Nat /\ Len(task.todo) \in Nat
  BY <1>1, TaskRuns
<1>3. task'.pc = "free"
  BY <1>1 DEF FreeTask
<1>4. ASSUME NEW pol, attempts[task.dev] = {pol}
      PROVE  Holds(fwRules, task.dev, pol)
  <2>1. pol = task.todo /\ attempts[task.dev] = {task.todo}
    BY <1>2, <1>4
  <2>2. IsFiniteSet(Wanted) /\ Cardinality(Wanted) <= RulesCapacity
    BY <1>1, <2>1 DEF ExactInv
  <2>3. ASSUME task.idx < Len(task.todo), ~Room(fwRules, <<task.dev, task.idx>>, RulesCapacity)
        PROVE  FALSE
    <3> DEFINE k == <<task.dev, task.idx>>
    <3>1. k \notin DOMAIN fwRules /\ ~(Cardinality(DOMAIN fwRules) < RulesCapacity)
      BY <2>3 DEF Room
    <3>2. k \in Wanted /\ DOMAIN fwRules \subseteq Wanted
      BY <1>2, <2>3 DEF Wanted
    <3>3. Cardinality(DOMAIN fwRules) <= Cardinality(Wanted)
          /\ Cardinality(DOMAIN fwRules) # Cardinality(Wanted)
      BY <2>2, <3>1, <3>2, FS_Subset
    <3>4. Cardinality(DOMAIN fwRules) \in Nat /\ Cardinality(Wanted) \in Nat
      BY <2>2, FS_CardinalityType DEF ExactInv
    <3> QED
      BY <2>2, <3>1, <3>3, <3>4, FirewallAssumption
  <2> QED
    BY <1>1, <2>1, <2>3, Filled
<1>5. \A d \in Devices : \A pol : attempts[d] = {pol} => Holds(fwRules, d, pol)
  BY <1>4 DEF ExactInv
<1> QED
  BY <1>1, <1>3, <1>5 DEF ExactInv

\* Steps that touch neither the slots nor the task.
LEMMA ExactStays ==
    ASSUME ExactInv, UNCHANGED <<fwRules, task, attempts>>
    PROVE  ExactInv'
  BY DEF ExactInv, Wanted, Holds

\* Every step preserves the inductive form of InstalledExact.
LEMMA ExactStep == Inv /\ ExactInv /\ [Next]_vars => ExactInv'
<1> SUFFICES ASSUME Inv, ExactInv, [Next]_vars PROVE ExactInv'
  OBVIOUS
<1> USE DEF mapVars, shadowVars, bounds
<1>1. CASE UNCHANGED vars
  BY <1>1, ExactStays DEF vars
<1>2. CASE \E c \in Cpus : Eval(c)
  BY <1>2, ExactStays DEF Eval, EvalMeta, EvalScan, EvalMiss, EvalReturn
<1>3. CASE \/ \E id \in Ids, dev \in Devices : CreateInterface(id, dev)
           \/ \E id \in Ids : DetachInterface(id)
  BY <1>3, ExactStays DEF CreateInterface, DetachInterface
<1>4. CASE \E id \in Ids, rid \in RuleIds, r \in Requests : AddFwRule(id, rid, r)
  BY <1>4, AddStarts, StartExact
<1>5. CASE \E id \in Ids, rid \in RuleIds : DelFwRule(id, rid)
  BY <1>5, DelStarts, StartExact
<1>6. CASE Reprogram
  BY <1>6, ClearExact, FillExact, MetaExact, FailExact DEF Reprogram
<1> QED
  BY <1>1, <1>2, <1>3, <1>4, <1>5, <1>6 DEF Next, Control

\* The empty maps hold the empty list of every device.
LEMMA InitExact == Init => ExactInv
<1> SUFFICES ASSUME Init PROVE ExactInv
  OBVIOUS
<1>1. DOMAIN fwRules = {} /\ task.pc = "free"
  BY DEF Init, FreeTask
<1>2. \A d \in Devices : attempts[d] = {<< >>}
  BY DEF Init
<1>3. Len(<< >>) = 0
  OBVIOUS
<1>4. \A d \in Devices : \A pol : attempts[d] = {pol} => pol = << >>
  BY <1>2
<1>5. \A d \in Devices : Holds(fwRules, d, << >>)
  BY <1>1, <1>3, FirewallAssumption DEF Holds
<1>6. IsFiniteSet(DOMAIN fwRules) /\ Cardinality(DOMAIN fwRules) <= RulesCapacity
  BY <1>1, FS_EmptySet, FirewallAssumption
<1>7. \A d \in Devices : \A pol \in attempts[d] : Len(pol) <= MaxRules
  BY <1>2, <1>3, FirewallAssumption
<1> QED
  BY <1>1, <1>4, <1>5, <1>6, <1>7 DEF ExactInv

\* Whatever operations failed half way in a full map before, a device whose
\* last operation succeeded has its rule list, and nothing else, in its slots
\* and counts (fw_reprogram).
THEOREM InstalledExactHolds == Spec => []InstalledExact
<1>1. Inv /\ ExactInv => InstalledExact
  <2> SUFFICES ASSUME Inv, ExactInv, NEW d \in Devices, Free, attempts[d] = {RulesOf(fw[d])}
               PROVE  Programmed(d, RulesOf(fw[d]))
    BY DEF InstalledExact
  <2>1. task.pc = "free"
    BY DEF Free, FreeTask
  <2>2. Holds(fwRules, d, RulesOf(fw[d]))
    BY <2>1 DEF ExactInv
  <2>3. \A dir \in Dirs : MetaCount(d, dir) = Count(RulesOf(fw[d]), dir)
    BY DEF Inv, TornInv, CountsKnown
  <2> QED
    BY <2>2, <2>3 DEF Programmed, Holds
<1> QED
  BY <1>1, InitInv, NextInv, InitExact, ExactStep, PTL DEF Spec

(***************************************************************************)
(* Evaluations that no rule operation of their device overlaps.            *)
(***************************************************************************)

\* What an evaluation has established about the only list of its window.
Judged(s, pol) ==
    /\ s.pc = "scan" =>
          /\ Count(pol, s.dir) # 0
          /\ \A j \in DOMAIN pol : j <= s.idx => ~Matches(pol[j], s.dir, s.pkt)
    /\ s.pc = "done" => (s.verdict = "accept" <=> Accepts(pol, s.dir, s.pkt))

\* The inductive form of QuietExact: as long as no interface was detached the
\* list of a device counts, so that fw_reprogram, which always starts with a
\* list of another length, gives every window that it meets a second list.
QuietInv ==
    /\ \A d \in Devices : IsFiniteSet(attempts[d])
    /\ \A c \in Cpus : ev[c].pc # "idle" => IsFiniteSet(ev[c].window)
    /\ detached = 0 =>
          /\ \A d \in Devices : RulesOf(fw[d]) \in attempts[d]
          /\ task.pc # "free" =>
                /\ \E a \in attempts[task.dev] : a # task.todo
                /\ RulesOf(fw[task.dev]) = task.todo
          /\ \A c \in Cpus : \A pol :
                ev[c].pc # "idle" /\ ev[c].window = {pol} => Judged(ev[c], pol)

\* A list of rules is as long as the list of entries it comes from.
LEMMA RulesOfLen ==
    ASSUME NEW list \in Seq(Entry)
    PROVE  RulesOf(list) \in Policy /\ Len(RulesOf(list)) = Len(list)
<1>1. DOMAIN list = 1 .. Len(list) /\ Len(list) \in Nat
  OBVIOUS
<1>2. \A i \in 1 .. Len(list) : list[i].rule \in Rule
  <2>1. \A i \in 1 .. Len(list) : list[i] \in Entry
    BY <1>1
  <2> QED
    BY <2>1 DEF Entry
<1>3. RulesOf(list) = [i \in 1 .. Len(list) |-> list[i].rule]
  BY <1>1 DEF RulesOf
<1> QED
  BY <1>1, <1>2, <1>3 DEF Policy

\* A window of one list: the device holds that list, completely.
LEMMA QuietHolds ==
    ASSUME Inv, ExactInv, QuietInv, detached = 0, NEW c \in Cpus, ev[c].pc # "idle",
           NEW pol, ev[c].window = {pol}
    PROVE  /\ pol \in Policy /\ AllAccept(pol) /\ Len(pol) <= MaxRules
           /\ Holds(fwRules, ev[c].dev, pol)
<1>1. /\ ev[c] \in [pc : {"scan", "done"}, dev : Devices, dir : Dirs, pkt : Pkts,
                    idx : Slots, verdict : Actions, window : SUBSET Policy]
      /\ EvOK(ev[c])
  BY EvUnderWay
<1>2. attempts[ev[c].dev] \subseteq {pol} /\ AllAccept(pol) /\ ev[c].dev \in Devices /\ pol \in Policy
  BY <1>1 DEF EvOK
<1>3. attempts[ev[c].dev] # {}
  BY <1>2 DEF Inv, TornInv, CountsKnown
<1>4. attempts[ev[c].dev] = {pol}
  BY <1>2, <1>3
<1>5. task.pc = "free" \/ task.dev # ev[c].dev
  <2> SUFFICES ASSUME task.pc # "free", task.dev = ev[c].dev PROVE FALSE
    OBVIOUS
  <2>1. task.todo \in {pol}
    BY <1>4 DEF Inv, TornInv, Progress
  <2>2. PICK a \in {pol} : a # task.todo
    BY <1>4 DEF QuietInv
  <2> QED
    BY <2>1, <2>2
<1> QED
  BY <1>2, <1>4, <1>5 DEF ExactInv

\* A step of one evaluation.
LEMMA EvQuiet ==
    ASSUME Inv, QuietInv, NEW c \in Cpus, NEW s, ev' = [ev EXCEPT ![c] = s],
           UNCHANGED <<fw, task, detached, attempts>>,
           s.pc # "idle" => IsFiniteSet(s.window),
           detached = 0 => \A pol : s.pc # "idle" /\ s.window = {pol} => Judged(s, pol)
    PROVE  QuietInv'
<1>1. \A x \in Cpus : ev'[x] = IF x = c THEN s ELSE ev[x]
  BY DEF Inv, TypeOK
<1>2. \A x \in Cpus : ev'[x].pc # "idle" => IsFiniteSet(ev'[x].window)
  BY <1>1 DEF QuietInv
<1>3. detached = 0 => \A x \in Cpus : \A pol :
        ev'[x].pc # "idle" /\ ev'[x].window = {pol} => Judged(ev'[x], pol)
  BY <1>1 DEF QuietInv
<1>4. detached = 0 => \A x \in Cpus : \A pol :
        ev'[x].pc # "idle" /\ ev'[x].window = {pol} => Judged(ev[x], pol)'
  BY <1>3 DEF Judged, Count, Matches, Accepts
<1> QED
  BY <1>2, <1>4 DEF QuietInv

\* The read of the counts.
LEMMA EvalMetaQuiet ==
    ASSUME Inv, QuietInv, NEW c \in Cpus, NEW dev \in Devices, NEW dir \in Dirs, NEW p \in Pkts,
           EvalMeta(c, dev, dir, p)
    PROVE  QuietInv'
<1> DEFINE s == [pc |-> IF MetaCount(dev, dir) # 0 THEN "scan" ELSE "done",
                 dev |-> dev, dir |-> dir, pkt |-> p, idx |-> 0, verdict |-> "accept",
                 window |-> attempts[dev]]
<1>1. ev' = [ev EXCEPT ![c] = s] /\ UNCHANGED <<fw, task, detached, attempts>>
  BY DEF EvalMeta, shadowVars, bounds
<1>2. /\ s.dir = dir /\ s.pkt = p /\ s.idx = 0 /\ s.verdict = "accept" /\ s.window = attempts[dev]
      /\ s.pc = IF MetaCount(dev, dir) # 0 THEN "scan" ELSE "done"
  OBVIOUS
<1> HIDE DEF s
<1>3. ASSUME NEW pol, s.window = {pol} PROVE Judged(s, pol)
  <2>1. pol \in Policy
    BY <1>2, <1>3 DEF Inv, TypeOK
  <2>2. MetaCount(dev, dir) = Count(pol, dir)
    BY <1>2, <1>3 DEF Inv, TornInv, CountsKnown
  <2>3. \A j \in DOMAIN pol : ~(j <= 0)
    BY <2>1 DEF Policy
  <2>4. Count(pol, dir) = 0 => Accepts(pol, dir, p)
    BY <2>1, ZeroCount
  <2> QED
    BY <1>2, <2>2, <2>3, <2>4 DEF Judged
<1>4. IsFiniteSet(s.window)
  BY <1>2 DEF QuietInv
<1> QED
  BY <1>1, <1>3, <1>4, EvQuiet

\* The read of a slot: in a window of one list it holds the rule of its
\* position.
LEMMA EvalScanQuiet ==
    ASSUME Inv, ExactInv, QuietInv, NEW c \in Cpus, EvalScan(c)
    PROVE  QuietInv'
<1> DEFINE s == ev[c]
           k == <<s.dev, s.idx>>
<1>1. /\ s.pc = "scan" /\ s.idx < MaxRules /\ UNCHANGED <<fw, task, detached, attempts>>
      /\ ev' = [ev EXCEPT ![c] = IF k \in DOMAIN fwRules /\ Matches(fwRules[k], s.dir, s.pkt)
                                   THEN Decided(s, fwRules[k].action)
                                   ELSE [s EXCEPT !.idx = @ + 1]]
  BY DEF EvalScan, shadowVars, bounds
<1>2. /\ s \in [pc : {"scan", "done"}, dev : Devices, dir : Dirs, pkt : Pkts,
                idx : Slots, verdict : Actions, window : SUBSET Policy]
      /\ IsFiniteSet(s.window) /\ s.idx \in Nat
  BY <1>1, EvUnderWay DEF QuietInv, Slots
<1>3. ASSUME detached = 0, NEW pol, s.window = {pol}
      PROVE  /\ pol \in Policy /\ AllAccept(pol) /\ Len(pol) \in Nat /\ DOMAIN pol = 1 .. Len(pol)
             /\ Judged(s, pol)
             /\ IF s.idx < Len(pol) THEN k \in DOMAIN fwRules /\ fwRules[k] = pol[s.idx + 1]
                                    ELSE k \notin DOMAIN fwRules
  <2>1. pol \in Policy /\ AllAccept(pol) /\ Holds(fwRules, s.dev, pol) /\ Judged(s, pol)
    BY <1>1, <1>3, QuietHolds DEF QuietInv
  <2>2. s.idx \in 0 .. (MaxRules - 1)
    BY <1>1, <1>2, FirewallAssumption
  <2> QED
    BY <2>1, <2>2 DEF Holds, Policy
<1> HIDE DEF s
<1>4. CASE k \in DOMAIN fwRules /\ Matches(fwRules[k], s.dir, s.pkt)
  <2> DEFINE t == Decided(s, fwRules[k].action)
  <2>1. fwRules[k].action \in Actions
    BY <1>4 DEF Inv, TypeOK, Rule
  <2>2. /\ t.pc = "done" /\ t.verdict = fwRules[k].action /\ t.dir = s.dir /\ t.pkt = s.pkt
        /\ t.window = s.window
    BY <1>2, <2>1, DecidedType
  <2>3. ev' = [ev EXCEPT ![c] = t]
    BY <1>1, <1>4
  <2> HIDE DEF t
  <2>4. ASSUME detached = 0, NEW pol, t.window = {pol} PROVE Judged(t, pol)
    <3>1. /\ pol \in Policy /\ AllAccept(pol) /\ s.idx < Len(pol) /\ fwRules[k] = pol[s.idx + 1]
          /\ s.idx + 1 \in DOMAIN pol
      BY <1>2, <1>3, <1>4, <2>2, <2>4
    <3>2. t.verdict = "accept" /\ Matches(pol[s.idx + 1], s.dir, s.pkt)
      BY <1>4, <2>2, <3>1 DEF AllAccept
    <3>3. Accepts(pol, s.dir, s.pkt)
      BY <3>1, <3>2, FirstMatch
    <3> QED
      BY <2>2, <3>2, <3>3 DEF Judged
  <2>5. /\ t.pc # "idle" => IsFiniteSet(t.window)
        /\ detached = 0 => \A pol : t.pc # "idle" /\ t.window = {pol} => Judged(t, pol)
        /\ UNCHANGED <<fw, task, detached, attempts>>
    BY <1>1, <1>2, <2>2, <2>4
  <2> HIDE DEF k
  <2> QED
    BY <2>3, <2>5, EvQuiet
<1>5. CASE ~(k \in DOMAIN fwRules /\ Matches(fwRules[k], s.dir, s.pkt))
  <2> DEFINE t == [s EXCEPT !.idx = @ + 1]
  <2>1. /\ t.pc = "scan" /\ t.idx = s.idx + 1 /\ t.dir = s.dir /\ t.pkt = s.pkt
        /\ t.window = s.window
    BY <1>1, <1>2
  <2>2. ev' = [ev EXCEPT ![c] = t]
    BY <1>1, <1>5
  <2> HIDE DEF t
  <2>3. ASSUME detached = 0, NEW pol, t.window = {pol} PROVE Judged(t, pol)
    <3>1. /\ Judged(s, pol) /\ Len(pol) \in Nat /\ DOMAIN pol = 1 .. Len(pol)
          /\ IF s.idx < Len(pol) THEN k \in DOMAIN fwRules /\ fwRules[k] = pol[s.idx + 1]
                                 ELSE k \notin DOMAIN fwRules
      BY <1>3, <2>1, <2>3
    <3>2. ASSUME NEW j \in DOMAIN pol, j <= t.idx PROVE ~Matches(pol[j], s.dir, s.pkt)
      <4>1. j <= s.idx \/ (j = s.idx + 1 /\ s.idx < Len(pol))
        BY <1>2, <2>1, <3>1, <3>2
      <4>2. CASE j <= s.idx
        BY <1>1, <3>1, <3>2, <4>2 DEF Judged
      <4>3. CASE j = s.idx + 1 /\ s.idx < Len(pol)
        BY <1>5, <3>1, <4>3
      <4> QED
        BY <4>1, <4>2, <4>3
    <3> QED
      BY <1>1, <2>1, <3>1, <3>2 DEF Judged
  <2>4. /\ t.pc # "idle" => IsFiniteSet(t.window)
        /\ detached = 0 => \A pol : t.pc # "idle" /\ t.window = {pol} => Judged(t, pol)
        /\ UNCHANGED <<fw, task, detached, attempts>>
    BY <1>1, <1>2, <2>1, <2>3
  <2> HIDE DEF k
  <2> QED
    BY <2>2, <2>4, EvQuiet
<1> QED
  BY <1>4, <1>5

\* The end of the scan: the list has a rule of the direction, none matched.
LEMMA EvalEndQuiet ==
    ASSUME Inv, ExactInv, QuietInv, NEW c \in Cpus, EvalMiss(c) \/ EvalReturn(c)
    PROVE  QuietInv'
<1>1. CASE EvalMiss(c)
  <2> DEFINE s == ev[c]
             t == Decided(s, "drop")
  <2>1. /\ s.pc = "scan" /\ s.idx = MaxRules /\ ev' = [ev EXCEPT ![c] = t]
        /\ UNCHANGED <<fw, task, detached, attempts>>
    BY <1>1 DEF EvalMiss, shadowVars, bounds
  <2>2. /\ s \in [pc : {"scan", "done"}, dev : Devices, dir : Dirs, pkt : Pkts,
                  idx : Slots, verdict : Actions, window : SUBSET Policy]
        /\ IsFiniteSet(s.window)
    BY <2>1, EvUnderWay DEF QuietInv
  <2>3. /\ t.pc = "done" /\ t.verdict = "drop" /\ t.dir = s.dir /\ t.pkt = s.pkt
        /\ t.window = s.window
    BY <2>2, DecidedType DEF Actions
  <2>4. ASSUME detached = 0, NEW pol, t.window = {pol} PROVE Judged(t, pol)
    <3>1. pol \in Policy /\ Len(pol) <= MaxRules /\ Judged(s, pol)
      BY <2>1, <2>3, <2>4, QuietHolds DEF QuietInv
    <3>2. \A j \in DOMAIN pol : ~Matches(pol[j], s.dir, s.pkt)
      BY <2>1, <3>1, FirewallAssumption DEF Judged, Policy
    <3>3. ~(\A i \in DOMAIN pol : pol[i].dir # s.dir)
      <4> SUFFICES ASSUME \A i \in DOMAIN pol : pol[i].dir # s.dir PROVE Count(pol, s.dir) = 0
        BY <2>1, <3>1 DEF Judged
      <4>1. {i \in DOMAIN pol : pol[i].dir = s.dir} = {}
        OBVIOUS
      <4> QED
        BY <4>1, FS_EmptySet DEF Count
    <3> QED
      BY <2>3, <3>2, <3>3 DEF Judged, Accepts
  <2> HIDE DEF t, s
  <2> QED
    BY <2>1, <2>2, <2>3, <2>4, EvQuiet
<1>2. CASE EvalReturn(c)
  <2>1. ev' = [ev EXCEPT ![c] = IdleEv] /\ UNCHANGED <<fw, task, detached, attempts>>
    BY <1>2 DEF EvalReturn, shadowVars, bounds
  <2>2. IdleEv.pc = "idle"
    BY DEF IdleEv
  <2> QED
    BY <2>1, <2>2, EvQuiet
<1> QED
  BY <1>1, <1>2

\* The start of fw_reprogram: windows of the device get a second list.
LEMMA StartQuiet ==
    ASSUME Inv, QuietInv, NEW dev \in Devices, NEW list \in Seq(Entry),
           Len(list) # Len(fw[dev]), StartReprogram(dev, list), detached' = detached
    PROVE  QuietInv'
<1> DEFINE new == RulesOf(list)
           old == RulesOf(fw[dev])
<1>1. new # old
  BY RulesOfLen DEF Inv, TypeOK
<1>2. /\ task'.pc = "clear" /\ task'.dev = dev /\ task'.todo = new
      /\ \A d \in Devices : attempts'[d] = IF d = dev THEN attempts[d] \cup {new} ELSE attempts[d]
      /\ \A d \in Devices : fw'[d] = IF d = dev THEN list ELSE fw[d]
  BY DEF StartReprogram, TaskAt, Inv, TypeOK
<1>3. \A c \in Cpus : ev'[c] = IF ev[c].pc # "idle" /\ ev[c].dev = dev
                                 THEN [ev[c] EXCEPT !.window = @ \cup {new}] ELSE ev[c]
  BY DEF StartReprogram
<1>4. \A d \in Devices : IsFiniteSet(attempts'[d])
  <2> TAKE d \in Devices
  <2>1. IsFiniteSet(attempts[d])
    BY DEF QuietInv
  <2> HIDE DEF new
  <2>2. IsFiniteSet(attempts[d] \cup {new})
    BY <2>1, FS_AddElement
  <2> QED
    BY <1>2, <2>1, <2>2
<1>5. detached = 0 => \A d \in Devices : RulesOf(fw'[d]) \in attempts'[d]
  BY <1>2 DEF QuietInv
<1>6. /\ detached = 0 => \E a \in attempts'[dev] : a # new
      /\ RulesOf(fw'[dev]) = new
  BY <1>1, <1>2 DEF QuietInv
<1> HIDE DEF new, old
<1>7. ASSUME NEW c \in Cpus, ev'[c].pc # "idle"
      PROVE  /\ IsFiniteSet(ev'[c].window)
             /\ detached = 0 => \A pol : ev'[c].window = {pol} => Judged(ev'[c], pol)
  <2>1. CASE ev[c].pc # "idle" /\ ev[c].dev = dev
    <3>1. /\ ev[c] \in [pc : {"scan", "done"}, dev : Devices, dir : Dirs, pkt : Pkts,
                        idx : Slots, verdict : Actions, window : SUBSET Policy]
          /\ EvOK(ev[c]) /\ IsFiniteSet(ev[c].window)
      BY <2>1, EvUnderWay DEF QuietInv
    <3>2. ev'[c].window = ev[c].window \cup {new}
      BY <1>3, <2>1, <3>1
    <3>3. IsFiniteSet(ev'[c].window)
      <4>1. IsFiniteSet(ev[c].window \cup {new})
        BY <3>1, FS_AddElement
      <4> QED
        BY <3>2, <4>1
    <3>4. detached = 0 => old \in ev[c].window
      BY <2>1, <3>1 DEF EvOK, QuietInv, old
    <3>5. detached = 0 => \A pol : ev'[c].window # {pol}
      BY <1>1, <3>2, <3>4
    <3> QED
      BY <3>3, <3>5
  <2>2. CASE ~(ev[c].pc # "idle" /\ ev[c].dev = dev)
    <3>1. ev'[c] = ev[c]
      BY <1>3, <2>2
    <3> QED
      BY <1>7, <3>1 DEF QuietInv
  <2> QED
    BY <2>1, <2>2
<1>8. ASSUME NEW c \in Cpus, ev'[c].pc # "idle", detached = 0, NEW pol, ev'[c].window = {pol}
      PROVE  Judged(ev[c], pol)'
  <2>1. Judged(ev'[c], pol)
    BY <1>7, <1>8
  <2> QED
    BY <2>1 DEF Judged, Count, Matches, Accepts
<1> QED
  BY <1>2, <1>4, <1>5, <1>6, <1>7, <1>8 DEF QuietInv, RulesOf

\* Steps that change nothing an evaluation depends on.
LEMMA QuietStays ==
    ASSUME QuietInv, UNCHANGED <<fw, ev, detached, attempts>>,
           task' = task \/ task'.pc = "free" \/ (task.pc # "free" /\ task'.dev = task.dev /\ task'.todo = task.todo)
    PROVE  QuietInv'
<1>1. \A c \in Cpus : \A pol : Judged(ev[c], pol) => Judged(ev[c], pol)'
  BY DEF Judged, Count, Matches, Accepts
<1>2. detached = 0 /\ task'.pc # "free" =>
        /\ \E a \in attempts'[task'.dev] : a # task'.todo
        /\ RulesOf(fw'[task'.dev]) = task'.todo
  BY DEF QuietInv
<1>3. (\A d \in Devices : IsFiniteSet(attempts[d]))'
      /\ (\A c \in Cpus : ev[c].pc # "idle" => IsFiniteSet(ev[c].window))'
  BY DEF QuietInv
<1>4. detached = 0 => (\A d \in Devices : RulesOf(fw[d]) \in attempts[d])'
  BY DEF QuietInv, RulesOf
<1> QED
  BY <1>1, <1>2, <1>3, <1>4 DEF QuietInv, RulesOf

\* The counts are written: the list of the device is the one that counts.
LEMMA MetaQuiet ==
    ASSUME Inv, QuietInv, ReprogramMeta
    PROVE  QuietInv'
<1>1. /\ task.pc = "fill" /\ task'.pc = "free" /\ UNCHANGED <<fw, ev, detached>>
  BY DEF ReprogramMeta, FreeTask, shadowVars, bounds
<1>2. task.dev \in Devices
  BY <1>1, TaskRuns
<1>3. \A d \in Devices : attempts'[d] = IF d = task.dev THEN {task.todo} ELSE attempts[d]
  BY <1>2 DEF ReprogramMeta, Inv, TypeOK
<1>4. \A d \in Devices : IsFiniteSet(attempts'[d])
  BY <1>3, FS_Singleton DEF QuietInv
<1>5. detached = 0 => \A d \in Devices : RulesOf(fw[d]) \in attempts'[d]
  BY <1>1, <1>3 DEF QuietInv
<1>6. \A c \in Cpus : \A pol : Judged(ev[c], pol) => Judged(ev[c], pol)'
  BY <1>1 DEF Judged, Count, Matches, Accepts
<1> QED
  BY <1>1, <1>4, <1>5, <1>6 DEF QuietInv, RulesOf

\* Every step preserves the inductive form of QuietExact.
LEMMA QuietStep == Inv /\ ExactInv /\ QuietInv /\ [Next]_vars => QuietInv'
<1> SUFFICES ASSUME Inv, ExactInv, QuietInv, [Next]_vars PROVE QuietInv'
  OBVIOUS
<1> USE DEF mapVars, shadowVars, bounds
<1>1. CASE UNCHANGED vars
  BY <1>1, QuietStays DEF vars
<1>2. CASE \E c \in Cpus : Eval(c)
  <2>1. InUse \subseteq Devices
    BY DEF InUse, Range, Inv, TypeOK
  <2> QED
    BY <1>2, <2>1, EvalMetaQuiet, EvalScanQuiet, EvalEndQuiet DEF Eval
<1>3. CASE \E id \in Ids, dev \in Devices : CreateInterface(id, dev)
  BY <1>3, QuietStays DEF CreateInterface
<1>4. CASE \E id \in Ids : DetachInterface(id)
  <2>1. detached' # 0 /\ UNCHANGED <<task, ev, attempts>>
    BY <1>4, FirewallAssumption DEF DetachInterface, Inv, TypeOK
  <2> QED
    BY <2>1 DEF QuietInv
<1>5. CASE \E id \in Ids, rid \in RuleIds, r \in Requests : AddFwRule(id, rid, r)
  BY <1>5, AddStarts, StartQuiet
<1>6. CASE \E id \in Ids, rid \in RuleIds : DelFwRule(id, rid)
  BY <1>6, DelStarts, StartQuiet
<1>7. CASE ReprogramClear
  <2>1. /\ task.pc = "clear" /\ UNCHANGED <<fw, ev, detached, attempts>>
        /\ task'.dev = task.dev /\ task'.todo = task.todo
    BY <1>7 DEF ReprogramClear, TaskAt
  <2> QED
    BY <2>1, QuietStays
<1>8. CASE ReprogramFill
  <2>1. /\ task.pc = "fill" /\ UNCHANGED <<fw, ev, detached, attempts>>
        /\ task'.dev = task.dev /\ task'.todo = task.todo
    BY <1>8 DEF ReprogramFill, TaskAt
  <2> QED
    BY <2>1, QuietStays
<1>9. CASE ReprogramFail
  <2>1. task'.pc = "free" /\ UNCHANGED <<fw, ev, detached, attempts>>
    BY <1>9 DEF ReprogramFail, FreeTask
  <2> QED
    BY <2>1, QuietStays
<1>10. CASE ReprogramMeta
  BY <1>10, MetaQuiet
<1> QED
  BY <1>1, <1>2, <1>3, <1>4, <1>5, <1>6, <1>7, <1>8, <1>9, <1>10 DEF Next, Control, Reprogram

\* Initially every device has the empty list and nothing is evaluated.
LEMMA InitQuiet == Init => QuietInv
<1> SUFFICES ASSUME Init PROVE QuietInv
  OBVIOUS
<1>1. \A d \in Devices : attempts[d] = {<< >>} /\ fw[d] = << >>
  BY DEF Init
<1>2. RulesOf(<< >>) = << >>
  BY DEF RulesOf
<1>3. task.pc = "free" /\ \A c \in Cpus : ev[c].pc = "idle"
  BY DEF Init, FreeTask, IdleEv
<1>4. \A d \in Devices : IsFiniteSet(attempts[d]) /\ RulesOf(fw[d]) \in attempts[d]
  BY <1>1, <1>2, FS_Singleton
<1> QED
  BY <1>3, <1>4 DEF QuietInv

\* For any number of interfaces, rules and CPUs: as long as no interface was
\* detached, an evaluation that no rule operation of its device overlaps
\* decides exactly what the rule list says (fw_eval_dir over what
\* fw_reprogram has written), rejected packets included.
THEOREM QuietExactHolds == Spec => []QuietExact
<1>1. Inv /\ ExactInv /\ QuietInv => QuietExact
  <2> SUFFICES ASSUME Inv, QuietInv, detached = 0, NEW c \in Cpus,
                      ev[c].pc = "done", Cardinality(ev[c].window) = 1, NEW pol \in ev[c].window
               PROVE  ev[c].verdict = "accept" <=> Accepts(pol, ev[c].dir, ev[c].pkt)
    BY DEF QuietExact
  <2>1. IsFiniteSet(ev[c].window)
    BY DEF QuietInv
  <2>2. \E x : ev[c].window = {x}
    BY <2>1, FS_Singleton
  <2>3. ev[c].window = {pol}
    BY <2>2
  <2> QED
    BY <2>3 DEF QuietInv, Judged
<1> QED
  BY <1>1, InitInv, NextInv, InitExact, ExactStep, InitQuiet, QuietStep, PTL DEF Spec
=============================================================================
