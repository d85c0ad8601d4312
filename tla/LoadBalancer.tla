---------------------------- MODULE LoadBalancer ----------------------------
(***************************************************************************)
(* Load balancers: the shadow table of the control plane, the LB, MAGLEV   *)
(* and UNDERLAY maps it is projected into, the Maglev table builder, the   *)
(* gRPC handlers' checks, and the part of uplink_rx that selects a backend *)
(* for a packet and relays or delivers it.                                 *)
(*                                                                         *)
(* An operation holds the control-plane mutex while it performs its map    *)
(* writes, one per step, in the order of the code.  A packet reads LB,     *)
(* MAGLEV and UNDERLAY in separate steps, between any two of the writes.   *)
(* The datapath writes none of these maps.                                 *)
(*                                                                         *)
(* An address is a pair of its family and its last four bytes, the only    *)
(* ones the LB map and the hash see.  NAT, neighbour NAT and the firewall, *)
(* through which a packet passes that selects no backend, are the subject  *)
(* of other modules.                                                       *)
(***************************************************************************)
EXTENDS Integers, Sequences, FiniteSets, Functions

CONSTANTS
    Requests,       \* create_load_balancer requests
    Backends,       \* underlay addresses of targets
    Guests,         \* UNDERLAY values of the backends that may be guests of this node
    Packets,        \* packets that arrive on the uplink
    M,              \* TABLE_SIZE
    Offset(_),      \* fnv1a(backend, 1)
    Skip(_),        \* fnv1a(backend, 2)
    Hash(_),        \* hash5
    Capacity(_),    \* entries each BPF map can hold
    Cpus,           \* CPUs that run uplink_rx
    None,           \* no backend, no preferred underlay
    MaxCalls,       \* bound: gRPC calls considered in a behaviour
    MaxPackets      \* bound: uplink packets considered in a behaviour

TCP == 6
UDP == 17
ICMP == 1
ICMPV6 == 58

Last4(ip) == ip[2]

\* The preferred underlay address, or the hypervisor's prefix followed by
\* VNI and last four bytes.
UnderlayOf(r) == IF r.pref # None THEN r.pref ELSE <<r.vni, Last4(r.ip)>>

\* create_load_balancer lets a request pass.
Accepted(r) ==
    /\ \A i \in DOMAIN r.ports : r.ports[i][2] \notin {ICMP, ICMPV6} /\ r.ports[i][1] <= 65535
    /\ IsInjective(r.ports)

Ids == {r.id : r \in Requests}
Underlays == Backends \cup {UnderlayOf(r) : r \in Requests}
Key(vni, a, port, proto) == <<vni, a, port, proto>>
Keys(e) == {Key(e.vni, Last4(e.ip), e.ports[i][1], e.ports[i][2]) : i \in DOMAIN e.ports}
\* Flow of an embedded packet, seen from the client.
Swap(t) == [src |-> t.dst, dst |-> t.src, sport |-> t.dport, dport |-> t.sport, proto |-> t.proto]

\* The LB key and the flow of a packet; an ICMP error stands for the packet
\* it embeds.
HdrKey(vni, t) == Key(vni, t.dst, IF t.proto = ICMP THEN 0 ELSE t.dport, t.proto)
ErrKey(vni, t) == Key(vni, t.src, t.sport, t.proto)
ServiceOf(vni, p) == IF p.kind = "err" THEN ErrKey(vni, p.emb) ELSE HdrKey(vni, p.hdr)
FlowOf(p) == IF p.kind = "err" THEN Swap(p.emb) ELSE p.hdr

Vnis == {r.vni : r \in Requests} \cup {Guests[b].vni : b \in DOMAIN Guests}
Services == (UNION {Keys(r) : r \in Requests})
            \cup {ServiceOf(vni, p) : vni \in Vnis, p \in Packets}

\* Two facts the table builder needs; no protocol number exceeds a byte; an
\* error is an ICMP packet over IPv4; no load balancer asks for the underlay
\* address of a backend.
ASSUME LbAssumption ==
    /\ M \in Nat /\ M > 1
    /\ \A d \in 2..(M - 1) : M % d # 0
    /\ \A b \in Backends : Offset(b) \in Nat /\ Skip(b) \in Nat
    /\ \A p \in Packets : Hash(p.hdr) \in Nat /\ Hash(Swap(p.emb)) \in Nat
    /\ \A p \in Packets : p.kind = "err" => p.fam = 4 /\ p.hdr.proto = ICMP
    /\ \A r \in Requests : r.ports \in Seq(Nat \X (0..255))
    /\ DOMAIN Guests \subseteq Backends
    /\ \A b \in DOMAIN Guests : Guests[b].tap # 0
    /\ \A r \in Requests : UnderlayOf(r) \notin Backends
    /\ None \notin Underlays \cup Services
    /\ MaxCalls \in Nat /\ MaxPackets \in Nat

VARIABLES
    tab,        \* the tables: tab[t] is a function from the keys present
    nextTable,  \* next_table_id
    task,       \* the operation that holds the control-plane mutex
    cpu,        \* what each CPU is doing
    ncalls,     \* number of gRPC calls so far
    npackets,   \* number of packets so far
    clashed,    \* history: keys that a create took from a live load balancer
    broken      \* history: Maglev tables of operations that failed half way

history == <<clashed, broken>>
vars == <<tab, nextTable, task, cpu, ncalls, npackets, history>>

-----------------------------------------------------------------------------
(* The Maglev table. *)

Upsert(f, k, v) == [x \in DOMAIN f \cup {k} |-> IF x = k THEN v ELSE f[x]]

\* The permutation of a backend.
Slot(b, j) == ((Offset(b) % M) + j * ((Skip(b) % (M - 1)) + 1)) % M

\* The i-th backend takes the first slot of its permutation that is free.
Place(bs, t, i) ==
    LET free == {j \in 0..(M - 1) : Slot(bs[i], j) \notin DOMAIN t}
        first == CHOOSE j \in free : \A l \in free : j <= l
    IN  Upsert(t, Slot(bs[i], first), bs[i])

\* Mutant: after the first round only the last backend is served.
Build_LastTakesRest(bs) ==
    LET fill[k \in 0..M] ==
            IF k = 0 THEN << >> ELSE Place(bs, fill[k - 1], IF k <= Len(bs) THEN k ELSE Len(bs))
    IN  fill[M]

\* build: the backends take turns.  The result maps a slot to its backend.
Build(bs) ==
    LET fill[k \in 0..M] ==
            IF k = 0 THEN << >> ELSE Place(bs, fill[k - 1], ((k - 1) % Len(bs)) + 1)
    IN  fill[M]

-----------------------------------------------------------------------------
(* Writes of the control plane. *)

Put(t, k, v) == [op |-> "put", tab |-> t, key |-> k, val |-> v]
Del(t, k) == [op |-> "del", tab |-> t, key |-> k]

Lbs == tab["lbs"]
LiveKeys == UNION {Keys(Lbs[id]) : id \in DOMAIN Lbs}

\* The backends of a service, in the eyes of the control plane.
Pool == [k \in Services |->
           UNION {Range(Lbs[id].backends) : id \in {i \in DOMAIN Lbs : k \in Keys(Lbs[i])}}]

FreeTask == [ops |-> << >>, table |-> 0, before |-> << >>]
Free == task = FreeTask

\* The map can take the key; the shadow table always can.
Room(t, k) ==
    t # "lbs" => k \in DOMAIN tab[t] \/ Cardinality(DOMAIN tab[t]) < Capacity(t)

Advance == task' = IF Len(task.ops) = 1 THEN FreeTask ELSE [task EXCEPT !.ops = Tail(@)]

WritePut ==
    /\ ~Free /\ Head(task.ops).op = "put"
    /\ LET w == Head(task.ops) IN
       /\ Room(w.tab, w.key)
       /\ tab' = [tab EXCEPT ![w.tab] = Upsert(@, w.key, w.val)]
    /\ Advance
    /\ UNCHANGED <<nextTable, cpu, ncalls, npackets, history>>

\* An insert into a full map: the rest is not done and nothing is undone.
WriteFails ==
    /\ ~Free /\ Head(task.ops).op = "put"
    /\ ~Room(Head(task.ops).tab, Head(task.ops).key)
    /\ task' = FreeTask
    /\ broken' = broken \cup {task.table}
    /\ UNCHANGED <<tab, nextTable, cpu, ncalls, npackets, clashed>>

\* The result of a removal is ignored.
WriteDel ==
    /\ ~Free /\ Head(task.ops).op = "del"
    /\ LET w == Head(task.ops) IN
       tab' = [tab EXCEPT ![w.tab] = Restrict(@, DOMAIN @ \ {w.key})]
    /\ Advance
    /\ UNCHANGED <<nextTable, cpu, ncalls, npackets, history>>

-----------------------------------------------------------------------------
(* Operations of the control plane. *)

\* An operation starts: every packet under way has met it.
Called == Free /\ ncalls < MaxCalls /\ ncalls' = ncalls + 1
Perform(ops, table) == task' = [ops |-> ops, table |-> table, before |-> Pool]

\* The packets under way may be given the backends listed from now on.
Announced(lbs) ==
    cpu' = [c \in Cpus |-> [cpu[c] EXCEPT
              !.quiet = FALSE,
              !.may = IF cpu[c].pc = "idle" THEN @
                      ELSE @ \cup UNION {Range(lbs[id].backends) :
                                           id \in {i \in DOMAIN lbs : cpu[c].svc \in Keys(lbs[i])}}]]

KeyWrites(r, table) ==
    [i \in DOMAIN r.ports |-> Put("lb", Key(r.vni, Last4(r.ip), r.ports[i][1], r.ports[i][2]), table)]
Entry(r, table) ==
    [vni |-> r.vni, ip |-> r.ip, ul |-> UnderlayOf(r), ports |-> r.ports, table |-> table,
     backends |-> << >>]

\* Mutant: the table id is the number of load balancers there are.
CreateLb_ReusesTable(r) ==
    /\ Called /\ Accepted(r)
    /\ r.id \notin DOMAIN Lbs
    /\ nextTable' = nextTable + 1
    /\ Perform(KeyWrites(r, Cardinality(DOMAIN Lbs) + 1)
                 \o << Put("underlay", UnderlayOf(r), [vni |-> r.vni, tap |-> 0]),
                       Put("lbs", r.id, Entry(r, Cardinality(DOMAIN Lbs) + 1)) >>, nextTable)
    /\ Announced(Lbs)
    /\ clashed' = (clashed \cup Keys(r)) \cap LiveKeys
    /\ UNCHANGED <<tab, npackets, broken>>

\* create_lb: the table id is taken first, the shadow entry made last.
CreateLb(r) ==
    /\ Called /\ Accepted(r)
    /\ r.id \notin DOMAIN Lbs
    /\ nextTable' = nextTable + 1
    /\ Perform(KeyWrites(r, nextTable)
                 \o << Put("underlay", UnderlayOf(r), [vni |-> r.vni, tap |-> 0]),
                       Put("lbs", r.id, Entry(r, nextTable)) >>, nextTable)
    /\ Announced(Lbs)
    /\ clashed' = (clashed \cup Keys(r)) \cap LiveKeys
    /\ UNCHANGED <<tab, npackets, broken>>

\* Mutant: one slot too many.
SlotWrites_OffByOne(table, bs) ==
    [i \in 1..(M + 1) |-> Put("maglev", <<table, i - 1>>, Build(bs)[(i - 1) % M])]

SlotWrites(table, bs) ==
    LET built == Build(bs) IN [i \in 1..M |-> Put("maglev", <<table, i - 1>>, built[i - 1])]
SlotRemovals(table) == [i \in 1..M |-> Del("maglev", <<table, i - 1>>)]

\* The shadow entry with another backend list, and the writes that follow.
Relist(id, bs, ops) ==
    LET lbs == [Lbs EXCEPT ![id].backends = bs] IN
    /\ tab' = [tab EXCEPT !["lbs"] = lbs]
    /\ Perform(ops, Lbs[id].table)
    /\ Announced(lbs)
    /\ UNCHANGED <<nextTable, npackets, history>>

\* add_lb_target.
AddLbTarget(id, b) ==
    /\ Called
    /\ id \in DOMAIN Lbs
    /\ b \notin Range(Lbs[id].backends)
    /\ LET bs == Append(Lbs[id].backends, b) IN
       Relist(id, bs, SlotWrites(Lbs[id].table, bs))

\* The list without b.
Retain(bs, b) ==
    LET kept[n \in 0..Len(bs)] ==
            IF n = 0 THEN << >>
            ELSE IF bs[n] = b THEN kept[n - 1] ELSE Append(kept[n - 1], bs[n])
    IN  kept[Len(bs)]

\* Mutant: with the last backend gone, only the first slot is cleared.
DelLbTarget_KeepsSlots(id, b) ==
    /\ Called
    /\ id \in DOMAIN Lbs
    /\ b \in Range(Lbs[id].backends)
    /\ LET bs == Retain(Lbs[id].backends, b) IN
       Relist(id, bs, IF bs = << >> THEN << Del("maglev", <<Lbs[id].table, 0>>) >>
                                    ELSE SlotWrites(Lbs[id].table, bs))

\* del_lb_target: an empty list clears the table, any other rewrites it.
DelLbTarget(id, b) ==
    /\ Called
    /\ id \in DOMAIN Lbs
    /\ b \in Range(Lbs[id].backends)
    /\ LET bs == Retain(Lbs[id].backends, b) IN
       Relist(id, bs, IF bs = << >> THEN SlotRemovals(Lbs[id].table)
                                    ELSE SlotWrites(Lbs[id].table, bs))

\* Mutant: only the first service is removed.
KeyRemovals_First(e) == << Del("lb", Key(e.vni, Last4(e.ip), e.ports[1][1], e.ports[1][2])) >>

KeyRemovals(e) ==
    [i \in DOMAIN e.ports |-> Del("lb", Key(e.vni, Last4(e.ip), e.ports[i][1], e.ports[i][2]))]

\* delete_lb: the underlay address stays marked.
DeleteLb(id) ==
    /\ Called
    /\ id \in DOMAIN Lbs
    /\ LET lbs == Restrict(Lbs, DOMAIN Lbs \ {id}) IN
       /\ tab' = [tab EXCEPT !["lbs"] = lbs]
       /\ Announced(lbs)
    /\ Perform(KeyRemovals(Lbs[id]) \o SlotRemovals(Lbs[id].table), Lbs[id].table)
    /\ UNCHANGED <<nextTable, npackets, history>>

\* A guest that may be a backend is attached or detached: see Overlay.
MoveGuest(b) ==
    /\ Called
    /\ tab' = [tab EXCEPT !["underlay"] =
                 IF b \in DOMAIN @ THEN Restrict(@, DOMAIN @ \ {b})
                                   ELSE Upsert(@, b, Guests[b])]
    /\ Announced(Lbs)
    /\ UNCHANGED <<nextTable, task, npackets, history>>

-----------------------------------------------------------------------------
(* uplink_rx. *)

NoPacket == [fam |-> 0, kind |-> "none", outer |-> None]
IdleCpu == [pc |-> "idle", pkt |-> NoPacket, u |-> << >>, svc |-> << >>, table |-> 0,
            got |-> None, may |-> {}, quiet |-> FALSE, verdict |-> << >>]

\* A packet for an underlay address of this node.  Any other goes to the
\* kernel and changes nothing.
Receive(c, p) ==
    /\ cpu[c].pc = "idle" /\ npackets < MaxPackets
    /\ p.outer \in DOMAIN tab["underlay"]
    /\ npackets' = npackets + 1
    /\ LET u == tab["underlay"][p.outer]
           svc == ServiceOf(u.vni, p)
       IN  cpu' = [cpu EXCEPT ![c] =
                     [IdleCpu EXCEPT !.pc = "lb", !.pkt = p, !.u = u, !.svc = svc, !.quiet = Free,
                                     !.may = Pool[svc] \cup (IF Free THEN {} ELSE task.before[svc])]]
    /\ UNCHANGED <<tab, nextTable, task, ncalls, history>>

Step(c, rec) ==
    /\ cpu' = [cpu EXCEPT ![c] = rec]
    /\ UNCHANGED <<tab, nextTable, task, ncalls, npackets, history>>
Done(c, b, verdict) ==
    Step(c, [cpu[c] EXCEPT !.pc = "idle", !.may = {}, !.got = b, !.verdict = verdict])

\* No backend: an echo request for an address without a tap is answered,
\* everything else goes to the tap of the underlay address, 0 being none.
\* (A guest's NAT address is answered for as well: see NatConntrack.)
Fallback(p, u) == IF p.kind = "echo" /\ u.tap = 0 THEN <<"echo">> ELSE <<"tap", u.tap>>
NoSelection(c) == Done(c, None, Fallback(cpu[c].pkt, cpu[c].u))

\* The protocols lb_select_forward looks up: those l4_ports knows, without
\* ICMPv6 in lb_select_forward_v6.  Of an ICMP error, those of the packet it
\* embeds.
L4Protocols(fam) == {TCP, UDP} \cup (IF fam = 4 THEN {ICMP} ELSE {})
Looked(p) == p.hdr.proto \in L4Protocols(p.fam)
ErrorLooked(p) == p.emb.proto \in {TCP, UDP}
Selectable(p) == IF p.kind = "err" THEN ErrorLooked(p) ELSE Looked(p)

\* lb_select_forward, lb_select_forward_v6.
LbLookup(c) ==
    /\ cpu[c].pc = "lb"
    /\ LET k == HdrKey(cpu[c].u.vni, cpu[c].pkt.hdr)
           hit == Looked(cpu[c].pkt) /\ k \in DOMAIN tab["lb"]
       IN  \/ /\ hit
              /\ Step(c, [cpu[c] EXCEPT !.pc = "slot", !.table = tab["lb"][k]])
           \/ /\ ~hit /\ cpu[c].pkt.kind = "err"
              /\ Step(c, [cpu[c] EXCEPT !.pc = "errlb"])
           \/ /\ ~hit /\ cpu[c].pkt.kind # "err"
              /\ NoSelection(c)

SlotLookup(c) ==
    /\ cpu[c].pc = "slot"
    /\ LET s == <<cpu[c].table, Hash(cpu[c].pkt.hdr) % M>> IN
       \/ /\ s \in DOMAIN tab["maglev"]
          /\ Step(c, [cpu[c] EXCEPT !.pc = "backend", !.got = tab["maglev"][s]])
       \/ /\ s \notin DOMAIN tab["maglev"]
          /\ NoSelection(c)

\* A local backend gets the packet, a remote one a relayed packet.
BackendLookup(c) ==
    /\ cpu[c].pc = "backend"
    /\ LET b == cpu[c].got IN
       Done(c, b, IF b \in DOMAIN tab["underlay"] THEN <<"tap", tab["underlay"][b].tap>>
                                                  ELSE <<"relay", b>>)

\* lb_select_forward_icmp_error.
ErrorLookup(c) ==
    /\ cpu[c].pc = "errlb"
    /\ LET k == ErrKey(cpu[c].u.vni, cpu[c].pkt.emb)
           hit == ErrorLooked(cpu[c].pkt) /\ k \in DOMAIN tab["lb"]
       IN  \/ /\ hit
              /\ Step(c, [cpu[c] EXCEPT !.pc = "errslot", !.table = tab["lb"][k]])
           \/ /\ ~hit
              /\ NoSelection(c)

\* Mutant: the hash is taken of the embedded header as it stands.
ErrorFlow_Unswapped(p) == p.emb

\* The flow an ICMP error is about has the embedded addresses swapped.
ErrorFlow(p) == Swap(p.emb)

\* The error is relayed to the backend wherever that is.
ErrorSlotLookup(c) ==
    /\ cpu[c].pc = "errslot"
    /\ LET s == <<cpu[c].table, Hash(ErrorFlow(cpu[c].pkt)) % M>> IN
       \/ /\ s \in DOMAIN tab["maglev"]
          /\ Done(c, tab["maglev"][s], <<"relay", tab["maglev"][s]>>)
       \/ /\ s \notin DOMAIN tab["maglev"]
          /\ NoSelection(c)

-----------------------------------------------------------------------------

Init ==
    /\ tab = [t \in {"lbs", "lb", "maglev", "underlay"} |-> << >>]
    /\ nextTable = 1
    /\ task = FreeTask
    /\ cpu = [c \in Cpus |-> IdleCpu]
    /\ ncalls = 0 /\ npackets = 0
    /\ clashed = {} /\ broken = {}

Control ==
    \/ \E r \in Requests : CreateLb(r)
    \/ \E id \in Ids, b \in Backends : AddLbTarget(id, b) \/ DelLbTarget(id, b)
    \/ \E id \in Ids : DeleteLb(id)
    \/ \E b \in DOMAIN Guests : MoveGuest(b)
    \/ WritePut
    \/ WriteFails
    \/ WriteDel

Datapath(c) ==
    \/ \E p \in Packets : Receive(c, p)
    \/ LbLookup(c)
    \/ SlotLookup(c)
    \/ BackendLookup(c)
    \/ ErrorLookup(c)
    \/ ErrorSlotLookup(c)

Next == Control \/ \E c \in Cpus : Datapath(c)

Spec == Init /\ [][Next]_vars

-----------------------------------------------------------------------------
(* Properties. *)

Slots == 0..(M - 1)

\* Type invariant: keys and values of the maps, shadow entries with distinct
\* backends and pairwise different tables, the fields of a CPU.
TypeOK ==
    /\ DOMAIN tab["lb"] \subseteq Services
    /\ Range(tab["lb"]) \subseteq 1..(nextTable - 1)
    /\ DOMAIN tab["maglev"] \subseteq (1..(nextTable - 1)) \X Slots
    /\ Range(tab["maglev"]) \subseteq Backends
    /\ DOMAIN tab["underlay"] \subseteq Underlays
    /\ DOMAIN Lbs \subseteq Ids
    /\ \A i \in DOMAIN Lbs :
          /\ Lbs[i].table \in 1..(nextTable - 1)
          /\ Range(Lbs[i].backends) \subseteq Backends
          /\ IsInjective(Lbs[i].backends)
          /\ \A j \in DOMAIN Lbs : Lbs[i].table = Lbs[j].table => i = j
    /\ \A c \in Cpus :
          /\ cpu[c].pc \in {"idle", "lb", "slot", "backend", "errlb", "errslot"}
          /\ cpu[c].got \in Backends \cup {None}
          /\ cpu[c].may \subseteq Backends

\* Between operations, the slots of a load balancer that MAGLEV holds are
\* the first ones of the table built from its backend list, even where an
\* insert failed in add_lb_target or del_lb_target; all of them are there
\* unless one did; no slot is left of a load balancer that is gone.
SlotsExact ==
    Free =>
      /\ \A id \in DOMAIN Lbs :
            LET e == Lbs[id]
                have == {s \in Slots : <<e.table, s>> \in DOMAIN tab["maglev"]}
                built == Build(e.backends)
            IN  IF e.backends = << >> THEN have = {}
                ELSE /\ \E n \in 0..M : have = 0..(n - 1) /\ (n < M => e.table \in broken)
                     /\ \A s \in have : tab["maglev"][<<e.table, s>>] = built[s]
      /\ \A k \in DOMAIN tab["maglev"] : \E id \in DOMAIN Lbs : Lbs[id].table = k[1]

\* Between operations, every service of a load balancer leads to its table,
\* unless a later create_lb took the same VNI, last four bytes, port and
\* protocol; and every entry of LB leads to the table of a load balancer
\* that has the service, or of one whose creation failed.
KeysExact ==
    Free =>
      /\ \A id \in DOMAIN Lbs : \A k \in Keys(Lbs[id]) \ clashed :
            k \in DOMAIN tab["lb"] /\ tab["lb"][k] = Lbs[id].table
      /\ \A k \in DOMAIN tab["lb"] :
            \/ tab["lb"][k] \in broken
            \/ \E id \in DOMAIN Lbs : k \in Keys(Lbs[id]) /\ tab["lb"][k] = Lbs[id].table

\* The Maglev tables spread the slots evenly over the backends.
Balanced ==
    \A id \in DOMAIN Lbs :
        LET bs == Lbs[id].backends
            built == Build(bs)
            share(b) == Cardinality({s \in Slots : built[s] = b})
        IN  bs # << >> =>
              \A b1, b2 \in Range(bs) : share(b1) <= share(b2) + 1

\* A packet that met no operation is treated as the shadow table says: with
\* a service of one load balancer, all packets of a flow, and the ICMP errors
\* about it, go to the backend in the flow's slot; with none, without backends,
\* or with a protocol the datapath does not look up, the packet falls through.
QuietVerdict ==
    \A c \in Cpus :
        cpu[c].pc = "idle" /\ cpu[c].quiet /\ cpu[c].svc \notin clashed =>
          LET p == cpu[c].pkt
              svc == cpu[c].svc
              owners == {id \in DOMAIN Lbs : Selectable(p) /\ svc \in Keys(Lbs[id])}
          IN  /\ owners = {} => cpu[c].verdict = Fallback(p, cpu[c].u)
              /\ \A id \in owners :
                   IF Lbs[id].backends = << >>
                     THEN cpu[c].verdict = Fallback(p, cpu[c].u)
                     ELSE Lbs[id].table \notin broken =>
                            LET b == Build(Lbs[id].backends)[Hash(FlowOf(p)) % M] IN
                            cpu[c].verdict =
                              IF p.kind # "err" /\ b \in DOMAIN tab["underlay"]
                                THEN <<"tap", tab["underlay"][b].tap>> ELSE <<"relay", b>>

\* The load balancer implements the pool of backends: with the tables
\* rewritten slot by slot and read in two steps, a packet still only goes to
\* a backend its service had while the packet was handled.
Pools == INSTANCE BackendPool WITH
    NoBackend <- None,
    pool <- Pool,
    old <- (IF Free THEN Pool ELSE task.before),
    conn <- [c \in Cpus |->
               IF cpu[c].pc = "idle"
                 THEN [svc |-> None, may |-> {}, got |-> cpu[c].got]
                 ELSE [svc |-> cpu[c].svc, may |-> cpu[c].may, got |-> None]]
ImplementsPool == Pools!Spec
=============================================================================
