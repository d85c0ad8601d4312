----------------------------- MODULE NeighborNat -----------------------------
(***************************************************************************)
(* The distributed NAT return: the list of remote NAT ranges that the      *)
(* control plane keeps, the NEIGHBOR_NAT slots and NEIGHBOR_NAT_COUNT it   *)
(* programs the list into in place, and the lookup every CPU runs over the *)
(* slots without a lock, meanwhile.                                        *)
(*                                                                         *)
(* Every operation on a BPF map is a step.  The control-plane mutex is     *)
(* held from the change of the list to the write of the count.  Which VNIs *)
(* have interfaces left is not modelled: a lookup and the purge of a VNI   *)
(* may happen for any.  The slots are a hash map with room for every index *)
(* below NB_MAX_ENTRIES: writing one never fails.                          *)
(***************************************************************************)
EXTENDS Integers, Sequences, FiniteSets

CONSTANTS
    Vnis,        \* VNIs
    NatIps,      \* nat_ip addresses
    Underlays,   \* underlay addresses of the nodes that own NAT ranges
    W,           \* number of L4 ports: 2^16 in the code
    Requests,    \* (min_port, max_port) pairs of the gRPC requests
    NbMax,       \* NB_MAX_ENTRIES
    Cpus,        \* CPUs that run uplink_rx
    MaxOps       \* bound: changes of the list considered in a behaviour

ASSUME NeighborAssumption ==
    /\ W \in Nat \ {0}
    /\ Requests \subseteq Nat \X Nat
    /\ NbMax \in Nat
    /\ MaxOps \in Nat

Port == 0 .. (W - 1)

\* NeighborNatEntry; enabled is 1 in every entry that is ever written.
Entry == [vni : Vnis, ip : NatIps, min : Port, max : Port, underlay : Underlays]

VARIABLES
    neighNats,   \* the list of the control plane
    slots,       \* NEIGHBOR_NAT: a function from the indexes written
    count,       \* NEIGHBOR_NAT_COUNT
    task,        \* the control plane inside neigh_nat_reprogram
    lookup,      \* what each CPU looks up
    ops,         \* number of changes of the list so far
    attempts     \* history: the lists installed, or begun to be, since the
                 \* last one was completely installed

maps == <<slots, count>>
vars == <<neighNats, maps, task, lookup, ops, attempts>>

-----------------------------------------------------------------------------
(* The control plane. *)

FreeTask == [pc |-> "free"]
TaskAt(todo, idx) == [pc |-> "fill", todo |-> todo, idx |-> idx]
Free == task = FreeTask

\* What a request becomes: grpc truncates its ports to u16.
EntryOf(v, ip, r, u) ==
    [vni |-> v, ip |-> ip, min |-> r[1] % W, max |-> r[2] % W, underlay |-> u]

\* Mutant: only a range that is there already is refused.
Conflict_ExactOnly(e, n) ==
    e.ip = n.ip /\ e.vni = n.vni /\ e.min = n.min /\ e.max = n.max

\* The same range again, or one that overlaps, in any VNI.
Conflict(e, n) ==
    /\ e.ip = n.ip
    /\ \/ e.vni = n.vni /\ e.min = n.min /\ e.max = n.max
       \/ e.min < n.max /\ e.max > n.min

\* The list is replaced and neigh_nat_reprogram starts.  Every lookup that
\* is under way may see parts of the new list from now on.
Reprogram(list) ==
    /\ ops < MaxOps
    /\ neighNats' = list
    /\ task' = TaskAt(list, 0)
    /\ attempts' = attempts \cup {list}
    /\ lookup' = [c \in Cpus |-> IF lookup[c].pc = "idle" THEN lookup[c]
                                 ELSE [lookup[c] EXCEPT !.window = @ \cup {list}]]
    /\ ops' = ops + 1

AddNeighborNat(n) ==
    /\ Free
    /\ Len(neighNats) < NbMax
    /\ \A i \in DOMAIN neighNats : ~Conflict(neighNats[i], n)
    /\ Reprogram(Append(neighNats, n))
    /\ UNCHANGED maps

\* The elements of P in ascending order.
Ascending(P) ==
    {f \in [1 .. Cardinality(P) -> P] : \A i, j \in DOMAIN f : i < j => f[i] < f[j]}

\* Vec::retain of the positions P; nothing happens when that is all of them.
Retain(P) ==
    /\ P # DOMAIN neighNats
    /\ \E f \in Ascending(P) : Reprogram([i \in DOMAIN f |-> neighNats[f[i]]])

DelNeighborNat(v, ip, r) ==
    /\ Free
    /\ Retain({i \in DOMAIN neighNats :
                 LET e == neighNats[i]
                 IN  ~(e.vni = v /\ e.ip = ip /\ e.min = r[1] % W /\ e.max = r[2] % W)})
    /\ UNCHANGED maps

\* detach_interface of the last interface of a VNI purges its entries.
PurgeVni(v) ==
    /\ Free
    /\ Retain({i \in DOMAIN neighNats : neighNats[i].vni # v})
    /\ UNCHANGED maps

\* neigh_nat_reprogram: one slot after the other is overwritten ...
FillSlot ==
    /\ task.pc = "fill" /\ task.idx < Len(task.todo)
    /\ slots' = [i \in DOMAIN slots \cup {task.idx} |->
                   IF i = task.idx THEN task.todo[task.idx + 1] ELSE slots[i]]
    /\ task' = TaskAt(task.todo, task.idx + 1)
    /\ UNCHANGED <<neighNats, count, lookup, ops, attempts>>

\* Mutant: the count is written although slots are still missing.
SetCount_Early ==
    /\ task.pc = "fill" /\ task.idx + 1 >= Len(task.todo)
    /\ count' = Len(task.todo)
    /\ task' = IF task.idx = Len(task.todo) THEN FreeTask ELSE task
    /\ attempts' = IF task.idx = Len(task.todo) THEN {task.todo} ELSE attempts
    /\ UNCHANGED <<neighNats, slots, lookup, ops>>

\* Mutant: a list that shrank keeps the old count.
SetCount_OnlyGrows ==
    /\ task.pc = "fill" /\ task.idx = Len(task.todo)
    /\ count' = IF Len(task.todo) > count THEN Len(task.todo) ELSE count
    /\ task' = FreeTask
    /\ attempts' = {task.todo}
    /\ UNCHANGED <<neighNats, slots, lookup, ops>>

\* ... and the count is written last.  Slots beyond it keep what they hold.
SetCount ==
    /\ task.pc = "fill" /\ task.idx = Len(task.todo)
    /\ count' = Len(task.todo)
    /\ task' = FreeTask
    /\ attempts' = {task.todo}
    /\ UNCHANGED <<neighNats, slots, lookup, ops>>

-----------------------------------------------------------------------------
(* neighbor_nat_lookup. *)

IdleLookup == [pc |-> "idle"]

\* A packet for (vni, dst, dport) belongs to the range of an entry.
Covers(e, v, ip, p) == e.vni = v /\ e.ip = ip /\ p >= e.min /\ p < e.max

\* The count is read once.
LookupStart(c, v, ip, p) ==
    /\ lookup[c].pc = "idle"
    /\ lookup' = [lookup EXCEPT ![c] = [pc |-> "scan", vni |-> v, ip |-> ip, port |-> p,
                                        count |-> count, idx |-> 0, owner |-> {},
                                        window |-> attempts]]
    /\ UNCHANGED <<neighNats, maps, task, ops, attempts>>

\* Mutant: the last slot is not read.
InScan_OneTooFew(s) == s.pc = "scan" /\ s.idx < NbMax /\ s.idx + 1 < s.count

InScan(s) == s.pc = "scan" /\ s.idx < NbMax /\ s.idx < s.count

\* One slot is read.
LookupSlot(c) ==
    /\ InScan(lookup[c])
    /\ LET s == lookup[c]
           i == s.idx
       IN  lookup' = [lookup EXCEPT ![c] =
                        IF i \in DOMAIN slots /\ Covers(slots[i], s.vni, s.ip, s.port)
                          THEN [s EXCEPT !.pc = "done", !.owner = {slots[i].underlay}]
                          ELSE [s EXCEPT !.idx = i + 1]]
    /\ UNCHANGED <<neighNats, maps, task, ops, attempts>>

\* No slot was left.
LookupMiss(c) ==
    /\ lookup[c].pc = "scan" /\ ~InScan(lookup[c])
    /\ lookup' = [lookup EXCEPT ![c] = [lookup[c] EXCEPT !.pc = "done", !.owner = {}]]
    /\ UNCHANGED <<neighNats, maps, task, ops, attempts>>

\* uplink_rx forwards the packet to the owner found or keeps it.
LookupReturn(c) ==
    /\ lookup[c].pc = "done"
    /\ lookup' = [lookup EXCEPT ![c] = IdleLookup]
    /\ UNCHANGED <<neighNats, maps, task, ops, attempts>>

-----------------------------------------------------------------------------
Init ==
    /\ neighNats = << >>
    /\ slots = << >> /\ count = 0
    /\ task = FreeTask
    /\ lookup = [c \in Cpus |-> IdleLookup]
    /\ ops = 0
    /\ attempts = {<< >>}

Control ==
    \/ \E v \in Vnis, ip \in NatIps, r \in Requests, u \in Underlays :
          AddNeighborNat(EntryOf(v, ip, r, u))
    \/ \E v \in Vnis, ip \in NatIps, r \in Requests : DelNeighborNat(v, ip, r)
    \/ \E v \in Vnis : PurgeVni(v)
    \/ FillSlot \/ SetCount

Lookup(c) ==
    \/ \E v \in Vnis, ip \in NatIps, p \in Port : LookupStart(c, v, ip, p)
    \/ LookupSlot(c) \/ LookupMiss(c) \/ LookupReturn(c)

Next == Control \/ \E c \in Cpus : Lookup(c)

Spec == Init /\ [][Next]_vars

-----------------------------------------------------------------------------
(* Properties. *)

Task == {FreeTask} \cup [pc : {"fill"}, todo : Seq(Entry), idx : Nat]
LookupState == {IdleLookup} \cup
    [pc : {"scan", "done"}, vni : Vnis, ip : NatIps, port : Port, count : 0 .. NbMax,
     idx : Nat, owner : SUBSET Underlays, window : SUBSET Seq(Entry)]

\* Type invariant.
TypeOK ==
    /\ neighNats \in Seq(Entry) /\ Len(neighNats) <= NbMax
    /\ DOMAIN slots \subseteq 0 .. (NbMax - 1)
    /\ \A i \in DOMAIN slots : slots[i] \in Entry
    /\ count \in 0 .. NbMax
    /\ task \in Task
    /\ lookup \in [Cpus -> LookupState]
    /\ ops \in 0 .. MaxOps
    /\ attempts \subseteq Seq(Entry)

\* An owner that some list of L names for the packet.
Names(L, s, u) ==
    \E list \in L : \E i \in DOMAIN list :
        Covers(list[i], s.vni, s.ip, s.port) /\ list[i].underlay = u

\* A return packet is only ever sent to a node that one of the lists
\* installed, or being installed, during the lookup names as the owner of its
\* port: neither a slot left over beyond the count nor an entry half moved
\* down misdirects it (neigh_nat_reprogram against neighbor_nat_lookup).
LookupSound ==
    \A c \in Cpus : lookup[c].pc = "done" =>
        \A u \in lookup[c].owner : Names(lookup[c].window, lookup[c], u)

\* A slot holds an entry of some list of L.
SlotFrom(i, L) == i \in DOMAIN slots /\ \E list \in L : \E j \in DOMAIN list : slots[i] = list[j]

\* The inductive form of LookupSound: the slots below the count hold entries
\* of lists that count, so do the slots below the count a lookup has read,
\* and the slots reprogrammed so far hold the new list.
ScanInv ==
    /\ LookupSound
    /\ \A i \in 0 .. (count - 1) : SlotFrom(i, attempts)
    /\ \A c \in Cpus : lookup[c].pc # "idle" =>
          /\ attempts \subseteq lookup[c].window
          /\ \A i \in 0 .. (lookup[c].count - 1) : SlotFrom(i, lookup[c].window)
    /\ task.pc = "fill" =>
          /\ task.todo \in attempts /\ Len(task.todo) <= NbMax /\ task.idx <= Len(task.todo)
          /\ \A i \in 0 .. (task.idx - 1) : i \in DOMAIN slots /\ slots[i] = task.todo[i + 1]

\* A port of a nat_ip has at most one owner, whatever was added, deleted and
\* purged, in all VNIs together: the order of the slots never matters
\* (add_neighbor_nat).
OneOwner ==
    \A i, j \in DOMAIN neighNats :
        (i # j /\ neighNats[i].ip = neighNats[j].ip)
          => \A p \in Port : ~( /\ p >= neighNats[i].min /\ p < neighNats[i].max
                                /\ p >= neighNats[j].min /\ p < neighNats[j].max )

\* Whenever the mutex is free the datapath scans exactly the list that
\* list_neighbor_nats reports.
ListProgrammed ==
    Free => /\ count = Len(neighNats)
            /\ \A i \in 0 .. (count - 1) : i \in DOMAIN slots /\ slots[i] = neighNats[i + 1]

\* The lists only grew or shrank at their end.
Aligned(L) == \A l, m \in L : \A i \in DOMAIN l \cap DOMAIN m : l[i] = m[i]

\* A packet for a range that every list of the window names is re-forwarded,
\* unless a deletion moved entries to other slots meanwhile: adding entries
\* and deleting the last one never hides an owner from a lookup under way.
MissSound ==
    \A c \in Cpus :
        (lookup[c].pc = "done" /\ lookup[c].owner = {} /\ Aligned(lookup[c].window)) =>
            \E list \in lookup[c].window : \A i \in DOMAIN list :
                ~Covers(list[i], lookup[c].vni, lookup[c].ip, lookup[c].port)
=============================================================================
