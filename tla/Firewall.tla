------------------------------ MODULE Firewall ------------------------------
(***************************************************************************)
(* The per-interface firewall: the shadow rule lists of the control plane, *)
(* the FW_RULES and FW_META BPF maps they are programmed into slot by      *)
(* slot, and the evaluator that every CPU runs over these maps without a   *)
(* lock while the control plane rewrites them.                             *)
(*                                                                         *)
(* Every operation on a BPF map is a step of its own.  The control plane's *)
(* mutex is held from the change of the shadow list to the end of          *)
(* fw_reprogram: no other operation starts while task.pc # "free".         *)
(*                                                                         *)
(* A rule is abstracted to its direction, its action and the set of        *)
(* packets fw_rule_matches accepts for it.  Enforcement is on, as          *)
(* the bringup command sets it in FW_CONFIG (for serve see Bringup).       *)
(* The evaluator is reached only by packets with a complete IPv4 header:   *)
(* its callers have taken a conntrack key from them.                       *)
(***************************************************************************)
EXTENDS Integers, Sequences, FiniteSets, Functions

CONSTANTS
    Ids,           \* interface ids
    Devices,       \* ifindexes
    RuleIds,       \* firewall rule ids
    Pkts,          \* packets, as the rules tell them apart
    Requests,      \* rules of create_firewall_rule requests
    MaxRules,      \* FW_MAX_RULES
    RulesCapacity, \* entries FW_RULES can hold
    MetaCapacity,  \* entries FW_META can hold
    Cpus,          \* CPUs that run the datapath programs
    MaxOps,        \* bound: rule operations considered in a behaviour
    MaxDetach      \* bound: detach_interface calls considered in a behaviour

Dirs == {"ingress", "egress"}
Actions == {"accept", "drop"}
Rule == [dir : Dirs, action : Actions, pkts : SUBSET Pkts]
Policy == Seq(Rule)

ASSUME FirewallAssumption ==
    /\ Requests \subseteq Rule
    /\ MaxRules \in Nat
    /\ RulesCapacity \in Nat
    /\ MetaCapacity \in Nat
    /\ MaxOps \in Nat
    /\ MaxDetach \in Nat

VARIABLES
    byIfindex,   \* by_ifindex: a function from the interfaces to devices
    fw,          \* the shadow list of each device; no list is an empty one
    fwRules,     \* FW_RULES: a function from the <<ifindex, slot>> in use
    fwMeta,      \* FW_META: a function from ifindexes to the two counts
    task,        \* the control plane inside fw_reprogram
    ev,          \* what each CPU evaluates
    ops,         \* number of rule operations so far
    detached,    \* number of interfaces detached so far
    attempts     \* history: the policies of a device that were installed or
                 \* begun to be since the last one was completely installed

shadowVars == <<byIfindex, fw>>
mapVars == <<fwRules, fwMeta>>
bounds == <<ops, detached>>
vars == <<shadowVars, mapVars, task, ev, bounds, attempts>>

-----------------------------------------------------------------------------
(* Policies. *)

\* fw_rule_matches and the direction test of the evaluator.
Matches(r, dir, p) == r.dir = dir /\ p \in r.pkts

\* The number of rules of a direction: the accumulators of fw_reprogram.
Count(pol, dir) == Cardinality({i \in DOMAIN pol : pol[i].dir = dir})

\* What a rule list means: no rule of the direction accepts everything,
\* otherwise the first matching rule decides, and no match drops.
Accepts(pol, dir, p) ==
    \/ \A i \in DOMAIN pol : pol[i].dir # dir
    \/ \E i \in DOMAIN pol :
          /\ Matches(pol[i], dir, p) /\ pol[i].action = "accept"
          /\ \A j \in 1 .. (i - 1) : ~Matches(pol[j], dir, p)

\* The rules of a shadow list, in slot order.
RulesOf(list) == [i \in DOMAIN list |-> list[i].rule]

-----------------------------------------------------------------------------
(* The control plane. *)

FreeTask == [pc |-> "free"]
TaskAt(pc, dev, todo, idx) == [pc |-> pc, dev |-> dev, todo |-> todo, idx |-> idx]
Free == task = FreeTask
InUse == Range(byIfindex)

CreateInterface(id, dev) ==
    /\ Free
    /\ id \notin DOMAIN byIfindex
    /\ byIfindex' = [x \in DOMAIN byIfindex \cup {id} |-> IF x = id THEN dev ELSE byIfindex[x]]
    /\ UNCHANGED <<fw, mapVars, task, ev, bounds, attempts>>

\* The shadow list goes, FW_RULES and FW_META stay.
DetachInterface(id) ==
    /\ Free /\ detached < MaxDetach
    /\ id \in DOMAIN byIfindex
    /\ byIfindex' = Restrict(byIfindex, DOMAIN byIfindex \ {id})
    /\ fw' = [fw EXCEPT ![byIfindex[id]] = << >>]
    /\ detached' = detached + 1
    /\ UNCHANGED <<mapVars, task, ev, ops, attempts>>

\* The start of fw_reprogram: the new list is cloned.  Every evaluation of
\* the device that is under way may see parts of it from now on.
StartReprogram(dev, list) ==
    /\ fw' = [fw EXCEPT ![dev] = list]
    /\ task' = TaskAt("clear", dev, RulesOf(list), 0)
    /\ attempts' = [attempts EXCEPT ![dev] = @ \cup {RulesOf(list)}]
    /\ ev' = [c \in Cpus |-> IF ev[c].pc # "idle" /\ ev[c].dev = dev
                               THEN [ev[c] EXCEPT !.window = @ \cup {RulesOf(list)}]
                               ELSE ev[c]]
    /\ ops' = ops + 1

\* Mutant: a request with the DROP action is stored like any other.
RequestAllowed_StoresDrop(r) == TRUE

\* create_firewall_rule refuses the DROP action (NO_DROP_SUPPORT).
RequestAllowed(r) == r.action # "drop"

\* add_fw_rule refuses an unknown interface, a full list and a known id.
AddFwRule(id, rid, r) ==
    /\ Free /\ ops < MaxOps
    /\ RequestAllowed(r)
    /\ id \in DOMAIN byIfindex
    /\ LET list == fw[byIfindex[id]] IN
       /\ Len(list) < MaxRules
       /\ \A i \in DOMAIN list : list[i].id # rid
       /\ StartReprogram(byIfindex[id], Append(list, [id |-> rid, rule |-> r]))
    /\ UNCHANGED <<byIfindex, mapVars, detached>>

\* A list without its i-th element.
WithoutNth(list, i) ==
    [j \in 1 .. (Len(list) - 1) |-> IF j < i THEN list[j] ELSE list[j + 1]]

\* del_fw_rule; a rule that is not found changes nothing.  The ids of a list
\* are distinct, so that retain drops one entry.
DelFwRule(id, rid) ==
    /\ Free /\ ops < MaxOps
    /\ id \in DOMAIN byIfindex
    /\ \E i \in DOMAIN fw[byIfindex[id]] :
          /\ fw[byIfindex[id]][i].id = rid
          /\ StartReprogram(byIfindex[id], WithoutNth(fw[byIfindex[id]], i))
    /\ UNCHANGED <<byIfindex, mapVars, detached>>

\* fw_reprogram, first loop: one slot after the other is emptied.
ReprogramClear ==
    /\ task.pc = "clear"
    /\ fwRules' = Restrict(fwRules, DOMAIN fwRules \ {<<task.dev, task.idx>>})
    /\ task' = IF task.idx + 1 < MaxRules
                 THEN TaskAt("clear", task.dev, task.todo, task.idx + 1)
                 ELSE TaskAt("fill", task.dev, task.todo, 0)
    /\ UNCHANGED <<shadowVars, fwMeta, ev, bounds, attempts>>

\* A hash map takes a key it holds, or a new one while it is not full.
Room(f, k, capacity) == k \in DOMAIN f \/ Cardinality(DOMAIN f) < capacity

\* Mutant: the slot of the last rule is skipped.
ReprogramFill_SkipsLast ==
    /\ task.pc = "fill" /\ task.idx < Len(task.todo)
    /\ LET k == <<task.dev, task.idx>> IN
       /\ Room(fwRules, k, RulesCapacity)
       /\ fwRules' = [x \in DOMAIN fwRules \cup {k} |->
                        IF x = k THEN task.todo[task.idx + 1] ELSE fwRules[x]]
    /\ task' = TaskAt("fill", task.dev, task.todo,
                      IF task.idx + 2 = Len(task.todo) THEN task.idx + 2 ELSE task.idx + 1)
    /\ UNCHANGED <<shadowVars, fwMeta, ev, bounds, attempts>>

\* Second loop: the rules are written in order.
ReprogramFill ==
    /\ task.pc = "fill" /\ task.idx < Len(task.todo)
    /\ LET k == <<task.dev, task.idx>> IN
       /\ Room(fwRules, k, RulesCapacity)
       /\ fwRules' = [x \in DOMAIN fwRules \cup {k} |->
                        IF x = k THEN task.todo[task.idx + 1] ELSE fwRules[x]]
    /\ task' = TaskAt("fill", task.dev, task.todo, task.idx + 1)
    /\ UNCHANGED <<shadowVars, fwMeta, ev, bounds, attempts>>

\* Last, the counts: the policy is completely installed.
ReprogramMeta ==
    /\ task.pc = "fill" /\ task.idx = Len(task.todo)
    /\ Room(fwMeta, task.dev, MetaCapacity)
    /\ fwMeta' = [x \in DOMAIN fwMeta \cup {task.dev} |->
                    IF x = task.dev THEN [d \in Dirs |-> Count(task.todo, d)] ELSE fwMeta[x]]
    /\ attempts' = [attempts EXCEPT ![task.dev] = {task.todo}]
    /\ task' = FreeTask
    /\ UNCHANGED <<shadowVars, fwRules, ev, bounds>>

\* An insert that fails ends fw_reprogram: nothing is undone.
ReprogramFail ==
    /\ task.pc = "fill"
    /\ \/ task.idx < Len(task.todo) /\ ~Room(fwRules, <<task.dev, task.idx>>, RulesCapacity)
       \/ task.idx = Len(task.todo) /\ ~Room(fwMeta, task.dev, MetaCapacity)
    /\ task' = FreeTask
    /\ UNCHANGED <<shadowVars, mapVars, ev, bounds, attempts>>

-----------------------------------------------------------------------------
(* The evaluator, fw_eval_dir. *)

IdleEv == [pc |-> "idle"]
Decided(s, verdict) == [s EXCEPT !.pc = "done", !.verdict = verdict]

\* Mutant: the count of the other direction is read.
MetaCount_Swapped(dev, dir) ==
    IF dev \in DOMAIN fwMeta THEN fwMeta[dev][CHOOSE d \in Dirs : d # dir] ELSE 0

\* What the datapath reads as the number of rules of a direction.
MetaCount(dev, dir) == IF dev \in DOMAIN fwMeta THEN fwMeta[dev][dir] ELSE 0

\* The counts are read.  A missing entry or a zero count accepts.
EvalMeta(c, dev, dir, p) ==
    /\ ev[c].pc = "idle"
    /\ dev \in InUse
    /\ ev' = [ev EXCEPT ![c] =
                [pc |-> IF MetaCount(dev, dir) # 0 THEN "scan" ELSE "done",
                 dev |-> dev, dir |-> dir, pkt |-> p, idx |-> 0, verdict |-> "accept",
                 window |-> attempts[dev]]]
    /\ UNCHANGED <<shadowVars, mapVars, task, bounds, attempts>>

\* One slot is read: its rule decides or the scan goes on.
EvalScan(c) ==
    /\ ev[c].pc = "scan" /\ ev[c].idx < MaxRules
    /\ LET s == ev[c]
           k == <<s.dev, s.idx>>
       IN  ev' = [ev EXCEPT ![c] =
                    IF k \in DOMAIN fwRules /\ Matches(fwRules[k], s.dir, s.pkt)
                      THEN Decided(s, fwRules[k].action)
                      ELSE [s EXCEPT !.idx = @ + 1]]
    /\ UNCHANGED <<shadowVars, mapVars, task, bounds, attempts>>

\* No slot matched.
EvalMiss(c) ==
    /\ ev[c].pc = "scan" /\ ev[c].idx = MaxRules
    /\ ev' = [ev EXCEPT ![c] = Decided(ev[c], "drop")]
    /\ UNCHANGED <<shadowVars, mapVars, task, bounds, attempts>>

\* The caller acts on the verdict.
EvalReturn(c) ==
    /\ ev[c].pc = "done"
    /\ ev' = [ev EXCEPT ![c] = IdleEv]
    /\ UNCHANGED <<shadowVars, mapVars, task, bounds, attempts>>

-----------------------------------------------------------------------------
Init ==
    /\ byIfindex = << >>
    /\ fw = [d \in Devices |-> << >>]
    /\ fwRules = << >>
    /\ fwMeta = << >>
    /\ task = FreeTask
    /\ ev = [c \in Cpus |-> IdleEv]
    /\ ops = 0 /\ detached = 0
    /\ attempts = [d \in Devices |-> {<< >>}]

Reprogram == ReprogramClear \/ ReprogramFill \/ ReprogramMeta \/ ReprogramFail

Control ==
    \/ \E id \in Ids, dev \in Devices : CreateInterface(id, dev)
    \/ \E id \in Ids : DetachInterface(id)
    \/ \E id \in Ids, rid \in RuleIds, r \in Requests : AddFwRule(id, rid, r)
    \/ \E id \in Ids, rid \in RuleIds : DelFwRule(id, rid)
    \/ Reprogram

Eval(c) ==
    \/ \E dev \in InUse, dir \in Dirs, p \in Pkts : EvalMeta(c, dev, dir, p)
    \/ EvalScan(c) \/ EvalMiss(c) \/ EvalReturn(c)

Next == Control \/ \E c \in Cpus : Eval(c)

Spec == Init /\ [][Next]_vars

-----------------------------------------------------------------------------
(* Properties. *)

Entry == [id : RuleIds, rule : Rule]
Counts == [Dirs -> Nat]
Slots == 0 .. MaxRules
Task == {FreeTask} \cup
        [pc : {"clear", "fill"}, dev : Devices, todo : Policy, idx : Nat]
EvState == {IdleEv} \cup
           [pc : {"scan", "done"}, dev : Devices, dir : Dirs, pkt : Pkts, idx : Slots,
            verdict : Actions, window : SUBSET Policy]

\* Type invariant.
TypeOK ==
    /\ DOMAIN byIfindex \subseteq Ids
    /\ \A id \in DOMAIN byIfindex : byIfindex[id] \in Devices
    /\ fw \in [Devices -> Seq(Entry)]
    /\ DOMAIN fwRules \subseteq Devices \X Nat
    /\ \A k \in DOMAIN fwRules : fwRules[k] \in Rule
    /\ DOMAIN fwMeta \subseteq Devices
    /\ \A d \in DOMAIN fwMeta : fwMeta[d] \in Counts
    /\ task \in Task
    /\ ev \in [Cpus -> EvState]
    /\ ops \in 0 .. MaxOps
    /\ detached \in 0 .. MaxDetach
    /\ attempts \in [Devices -> SUBSET Policy]

\* An evaluation that ran while the slots were rewritten, however often,
\* accepts a packet only if one of the rule lists installed or being
\* installed meanwhile accepts it: the intermediate contents of FW_RULES and
\* FW_META never let a packet through that no rule list allows
\* (fw_reprogram against fw_eval_dir).
AcceptSound ==
    \A c \in Cpus :
        (ev[c].pc = "done" /\ ev[c].verdict = "accept")
          => \E pol \in ev[c].window : Accepts(pol, ev[c].dir, ev[c].pkt)

\* A rule list without DROP rules, which create_firewall_rule refuses.
AllAccept(pol) == \A i \in DOMAIN pol : pol[i].action = "accept"

\* No list holds a DROP rule or more rules than there are slots.
ListsAccept ==
    /\ \A d \in Devices : \A i \in DOMAIN fw[d] : fw[d][i].rule.action = "accept"
    /\ \A d \in Devices : Len(fw[d]) <= MaxRules
    /\ \A d \in Devices : \A pol \in attempts[d] : AllAccept(pol)

\* Every slot holds a rule of a list that counts, every count is the one of
\* such a list.
SlotsKnown ==
    \A k \in DOMAIN fwRules :
        /\ k[2] < MaxRules
        /\ \E pol \in attempts[k[1]] : \E i \in DOMAIN pol : fwRules[k] = pol[i]
CountsKnown ==
    \A d \in Devices : \E pol \in attempts[d] : \A dir \in Dirs : MetaCount(d, dir) = Count(pol, dir)

\* How far fw_reprogram has got: the slots passed are empty, then filled.
Progress ==
    task.pc # "free" =>
        /\ task.todo \in attempts[task.dev]
        /\ Len(task.todo) <= MaxRules
        /\ task.pc = "clear" =>
              /\ task.idx < MaxRules
              /\ \A k \in DOMAIN fwRules : k[1] = task.dev => k[2] >= task.idx
        /\ task.pc = "fill" =>
              /\ task.idx <= Len(task.todo)
              /\ \A k \in DOMAIN fwRules :
                    k[1] = task.dev => k[2] < task.idx /\ fwRules[k] = task.todo[k[2] + 1]

\* A list that counts for a device counts for every evaluation under way.
Windows ==
    \A c \in Cpus : ev[c].pc # "idle" =>
        /\ attempts[ev[c].dev] \subseteq ev[c].window
        /\ \A pol \in ev[c].window : AllAccept(pol)

\* The inductive form of AcceptSound.
TornInv ==
    /\ AcceptSound
    /\ ListsAccept
    /\ SlotsKnown
    /\ CountsKnown
    /\ Progress
    /\ Windows

\* The rule list that the slots and counts of a device encode.
Programmed(dev, pol) ==
    /\ \A i \in 0 .. (MaxRules - 1) :
          IF i < Len(pol) THEN <<dev, i>> \in DOMAIN fwRules /\ fwRules[<<dev, i>>] = pol[i + 1]
                          ELSE <<dev, i>> \notin DOMAIN fwRules
    /\ \A d \in Dirs : MetaCount(dev, d) = Count(pol, d)

\* A list that was completely installed, and is still the one of the device,
\* is what the slots and counts encode: whatever earlier operations failed
\* half way in a full map, the next one that succeeds repairs the device
\* (fw_reprogram clears, fills and counts all of it).
InstalledExact ==
    \A d \in Devices :
        (Free /\ attempts[d] = {RulesOf(fw[d])}) => Programmed(d, RulesOf(fw[d]))

\* An evaluation whose window holds one list only decides exactly what the
\* list says: no rule operation of its device overlapped it and the device
\* was completely installed.  (After a detach the same list may be installed
\* once more, which the window does not tell from none.)
QuietExact ==
    detached = 0 =>
        \A c \in Cpus : (ev[c].pc = "done" /\ Cardinality(ev[c].window) = 1) =>
            \A pol \in ev[c].window :
                ev[c].verdict = "accept" <=> Accepts(pol, ev[c].dir, ev[c].pkt)

=============================================================================
