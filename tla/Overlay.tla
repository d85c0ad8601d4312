------------------------------ MODULE Overlay ------------------------------
(***************************************************************************)
(* Interfaces, routes, alias prefixes and VIPs: the shadow tables of the   *)
(* control plane, the BPF maps they are projected into, the gRPC handlers  *)
(* that call it, and the guest edge of the datapath, which reads the maps  *)
(* for forwarding and writes three of them when it learns a MAC.           *)
(*                                                                         *)
(* Every table is a function of tab.  An operation of the control plane    *)
(* holds its mutex while it performs a list of writes, one per step, in    *)
(* the order of the code; a CPU interleaves between any two of them.  An   *)
(* insert into a full map ends the operation; a failing removal does not.  *)
(*                                                                         *)
(* A prefix is the set of addresses it covers, so that the longest match   *)
(* is the smallest set.  NAT, neighbour NAT and firewall state, which some *)
(* of the operations also touch, are the subject of other modules; no load *)
(* balancer is configured.  VNI 0, for which no check is made, is not used,*)
(* nor are preferred underlay addresses of prefixes and VIPs.              *)
(***************************************************************************)
EXTENDS Integers, Sequences, FiniteSets, Functions

CONSTANTS
    Ids,            \* interface ids
    Vnis,           \* VNIs
    Addrs,          \* overlay addresses of both families
    Dests,          \* those that guests send to
    Devices,        \* ifindexes of taps
    Requests,       \* create_interface requests
    Routes,         \* prefixes of create_route requests
    Aliases,        \* prefixes of create_prefix requests
    Prefixes6,      \* the IPv6 ones among all prefixes
    Remotes,        \* underlay addresses of other nodes
    Preferred,      \* underlay addresses asked for with an interface
    VipOf(_),       \* the VIP the operator asks for a guest
    HostMac,        \* what mac_of returns for a tap
    GuestMacs,      \* MACs a guest may use in a DHCP request
    None,           \* no IPv6 address, no preferred underlay
    Capacity(_),    \* entries each BPF map can hold
    Cpus,           \* CPUs that run the guest programs
    MaxCalls,       \* bound: gRPC calls considered in a behaviour
    MaxPackets      \* bound: guest packets considered in a behaviour

Shadows == {"byId", "prefixes", "lbPrefixes", "routesShadow", "learned"}
Maps == {"ports", "ifaces", "underlay", "routes", "vips", "meter", "dhcpMeta"}
Tables == Shadows \cup Maps

Prefixes == Routes \cup Aliases \cup {{a} : a \in Addrs}
Macs == GuestMacs \cup {HostMac}

Request == [id : Ids, vni : Vnis, ip : Addrs, ip6 : Addrs \cup {None}, dev : Devices,
            pref : Preferred \cup {None}, metered : BOOLEAN]

\* The underlay address of an interface: the preferred one, or the
\* hypervisor's prefix followed by VNI and IPv4 address.
UnderlayOf(r) == IF r.pref # None THEN r.pref ELSE <<r.vni, r.ip>>
Underlays == Preferred \cup (Vnis \X Addrs)
Guest(r) == <<r.vni, r.ip>>

ASSUME OverlayAssumption ==
    /\ IsFiniteSet(Addrs)
    /\ Requests \subseteq Request
    /\ \A r, s \in Requests : r.ip # s.ip6     \* addresses of two families
    /\ Routes \cup Aliases \subseteq SUBSET Addrs
    /\ Prefixes6 \subseteq Prefixes
    /\ Dests \subseteq Addrs
    /\ \A r \in Requests : VipOf(Guest(r)) \in Addrs
    /\ \A t \in Maps : Capacity(t) \in Nat
    /\ None \notin Addrs \cup Preferred
    /\ MaxCalls \in Nat
    /\ MaxPackets \in Nat

\* What the operator takes care of and the code does not check: routes,
\* alias prefixes and guests' host routes have different prefixes, no two
\* guests ask for the same underlay address or VIP, none for an address of
\* a guest or of another node.
ASSUME OperatorAssumption ==
    /\ Routes \cap Aliases = {}
    /\ Underlays \cap Remotes = {}
    /\ \A r \in Requests : {{r.ip}, {r.ip6}} \cap (Routes \cup Aliases) = {}
    /\ \A r, s \in Requests :
          /\ UnderlayOf(r) = UnderlayOf(s) => Guest(r) = Guest(s)
          /\ r.vni = s.vni /\ VipOf(Guest(r)) = VipOf(Guest(s)) => r.ip = s.ip
          /\ r.vni = s.vni => VipOf(Guest(r)) # s.ip

VARIABLES
    tab,        \* the tables: tab[t] is a function from the keys present
    task,       \* the operation that holds the control-plane mutex
    calls,      \* handlers between two critical sections
    cpu,        \* what each CPU is doing
    ncalls,     \* number of gRPC calls so far
    npackets,   \* number of guest packets so far
    late,       \* history: taps, underlays and guests of an interface
                \* operation that a MAC update overlapped
    shared,     \* history: taps that two interfaces had at a time
    broken,     \* history: guests that an insert failed for
    orphans,    \* history: routes of alias prefixes of detached interfaces
    lateVnis,   \* history: VNIs left by their last interface while a checked
                \* create_route was on its way
    lastMac     \* history: the MAC last learned for an underlay address

bounds == <<ncalls, npackets>>
history == <<late, shared, broken, orphans, lateVnis, lastMac>>
vars == <<tab, task, calls, cpu, bounds, history>>

-----------------------------------------------------------------------------
(* Writes of the control plane and the task that performs them. *)

Put(t, k, v) == [op |-> "put", tab |-> t, key |-> k, val |-> v]
Del(t, K) == [op |-> "del", tab |-> t, keys |-> K]
Snap(u) == [op |-> "snap", ul |-> u]

\* guest: whom a failure concerns; dev: the tap of an interface operation;
\* detach: whether it is detach_interface; then: the handler's second part.
FreeTask == [ops |-> << >>, guest |-> None, dev |-> None, detach |-> FALSE, then |-> {}]
Free == task = FreeTask
Task(ops, guest) == [FreeTask EXCEPT !.ops = ops, !.guest = guest]

ById == tab["byId"]
Upsert(f, k, v) == [x \in DOMAIN f \cup {k} |-> IF x = k THEN v ELSE f[x]]
\* Mutant: one entry more than the map holds.
Room_OffByOne(t, k) ==
    t \in Maps => k \in DOMAIN tab[t] \/ Cardinality(DOMAIN tab[t]) <= Capacity(t)

\* The map can take the key; the shadow tables always can.
Room(t, k) ==
    t \in Maps => k \in DOMAIN tab[t] \/ Cardinality(DOMAIN tab[t]) < Capacity(t)

\* The task without its first write; the last one releases the mutex.
Advance ==
    IF Len(task.ops) = 1
      THEN task' = FreeTask /\ calls' = calls \cup task.then
      ELSE task' = [task EXCEPT !.ops = Tail(@)] /\ UNCHANGED calls

WritePut ==
    /\ ~Free /\ Head(task.ops).op = "put"
    /\ LET w == Head(task.ops) IN
       /\ Room(w.tab, w.key)
       /\ tab' = [tab EXCEPT ![w.tab] = Upsert(@, w.key, w.val)]
    /\ Advance
    /\ UNCHANGED <<cpu, bounds, history>>

\* An insert that fails: the rest is not done and nothing is undone.
WriteFails ==
    /\ ~Free /\ Head(task.ops).op = "put"
    /\ ~Room(Head(task.ops).tab, Head(task.ops).key)
    /\ task' = FreeTask
    /\ broken' = broken \cup {task.guest}
    /\ UNCHANGED <<tab, calls, cpu, bounds, late, shared, orphans, lateVnis, lastMac>>

\* Removals go key by key, in no particular order.
WriteDel ==
    /\ ~Free /\ Head(task.ops).op = "del"
    /\ LET t == Head(task.ops).tab
           K == Head(task.ops).keys \cap DOMAIN tab[t]
       IN  \/ K = {} /\ Advance /\ UNCHANGED tab
           \/ \E k \in K :
                 /\ tab' = [tab EXCEPT ![t] = Restrict(@, DOMAIN @ \ {k})]
                 /\ IF K = {k} THEN Advance ELSE UNCHANGED <<task, calls>>
    /\ UNCHANGED <<cpu, bounds, history>>

\* detach_interface keeps the MAC that UNDERLAY holds.
WriteSnap ==
    /\ ~Free /\ Head(task.ops).op = "snap"
    /\ LET u == Head(task.ops).ul IN
       tab' = IF u \in DOMAIN tab["underlay"]
                THEN [tab EXCEPT !["learned"] = Upsert(@, u, tab["underlay"][u].mac)]
                ELSE tab
    /\ Advance
    /\ UNCHANGED <<cpu, bounds, history>>

-----------------------------------------------------------------------------
(* Interfaces. *)

\* Where a CPU can be; a MAC update is under way on the tap in the latter.
ForwardPcs == {"vip", "route", "underlay", "local"}
LearnPcs == {"lport", "luget", "luput", "liget", "liput"}
Learning(dev) == \E c \in Cpus : cpu[c].pc \in LearnPcs /\ cpu[c].dev = dev
Marks(r) == {r.dev, UnderlayOf(r), Guest(r)}
Overlapped(r) == IF Learning(r.dev) THEN late \cup Marks(r) ELSE late

Called == ncalls < MaxCalls /\ ncalls' = ncalls + 1

SelfRoutes(r) == {<<r.vni, {a}>> : a \in {r.ip, r.ip6} \ {None}}
PortMeta(r, mac) == [vni |-> r.vni, ip |-> r.ip, ul |-> UnderlayOf(r), mac |-> mac]
IfaceValue(r, mac) == [dev |-> r.dev, ul |-> UnderlayOf(r), mac |-> mac]
UnderlayValue(r, mac) == [vni |-> r.vni, dev |-> r.dev, mac |-> mac]

\* The learned MAC survives in the shadow cache.
EffectiveMac(u) == IF u \in DOMAIN tab["learned"] THEN tab["learned"][u] ELSE HostMac

\* program_iface_maps.
IfaceWrites(r, mac) ==
    << Put("ports", r.dev, PortMeta(r, mac)),
       Put("ifaces", Guest(r), IfaceValue(r, mac)),
       Put("underlay", UnderlayOf(r), UnderlayValue(r, mac)),
       Put("routes", <<r.vni, {r.ip}>>, UnderlayOf(r)) >>
    \o (IF r.ip6 # None THEN << Put("routes", <<r.vni, {r.ip6}>>, UnderlayOf(r)) >> ELSE << >>)
    \o (IF r.metered THEN << Put("meter", r.dev, TRUE) >> ELSE << >>)

\* An address of the request is in use in its VNI.
InUse(r) ==
    \E id \in DOMAIN ById :
        /\ ById[id].vni = r.vni
        /\ ById[id].ip = r.ip \/ (r.ip6 # None /\ ById[id].ip6 = r.ip6)

\* create_interface: the record comes first, then the maps; the handler
\* writes DHCP_META afterwards in a critical section of its own.
CreateInterface(r) ==
    /\ Free /\ Called
    /\ r.id \notin DOMAIN ById /\ ~InUse(r)
    /\ task' = [Task(<< Put("byId", r.id, r) >> \o IfaceWrites(r, EffectiveMac(UnderlayOf(r))),
                     Guest(r))
                EXCEPT !.dev = r.dev, !.then = {[op |-> "dhcp", id |-> r.id]}]
    /\ late' = Overlapped(r)
    /\ shared' = IF \E id \in DOMAIN ById : ById[id].dev = r.dev THEN shared \cup {r.dev} ELSE shared
    /\ UNCHANGED <<tab, calls, cpu, npackets, broken, orphans, lateVnis, lastMac>>

\* set_dhcp_meta; the interface may be gone, or another one, by now.
SetDhcpMeta(x) ==
    /\ Free /\ x.op = "dhcp"
    /\ calls' = calls \ {x}
    /\ task' = IF x.id \in DOMAIN ById
                 THEN Task(<< Put("dhcpMeta", ById[x.id].dev, x.id) >>, Guest(ById[x.id]))
                 ELSE task
    /\ UNCHANGED <<tab, cpu, bounds, history>>

LastOfVni(id) == \A x \in DOMAIN ById \ {id} : ById[x].vni # ById[id].vni
RoutesOf(v) == {k \in DOMAIN tab["routesShadow"] : k[1] = v}
VipKeys(g) ==
    IF g \in DOMAIN tab["vips"] THEN << {<<g[1], tab["vips"][g]>>}, {g} >> ELSE << {}, {g} >>

\* Mutant: the IPv6 routes stay.
PurgeWrites_KeepsRoutes6(r) ==
    LET K == {k \in RoutesOf(r.vni) : k[2] \notin Prefixes6} IN
    << Del("vips", VipKeys(Guest(r))[1]), Del("vips", VipKeys(Guest(r))[2]),
       Del("routes", K), Del("routesShadow", K) >>

\* What goes with the last interface of a VNI.
PurgeWrites(r) ==
    << Del("vips", VipKeys(Guest(r))[1]), Del("vips", VipKeys(Guest(r))[2]),
       Del("routes", RoutesOf(r.vni)), Del("routesShadow", RoutesOf(r.vni)) >>

PrefixKeys(t, id) == {k \in DOMAIN tab[t] : k[1] = id}

\* Mutant: the UNDERLAY entry is left behind.
DetachWrites_KeepsUnderlay(id, r) ==
    << Del("byId", {id}), Del("prefixes", PrefixKeys("prefixes", id)),
       Del("ports", {r.dev}), Del("ifaces", {Guest(r)}), Snap(UnderlayOf(r)),
       Del("meter", {r.dev}), Del("dhcpMeta", {r.dev}), Del("routes", SelfRoutes(r)) >>

\* Mutant: the MAC is kept after the UNDERLAY entry is gone.
DetachWrites_SnapsLate(id, r) ==
    << Del("byId", {id}), Del("prefixes", PrefixKeys("prefixes", id)),
       Del("ports", {r.dev}), Del("ifaces", {Guest(r)}), Del("underlay", {UnderlayOf(r)}),
       Snap(UnderlayOf(r)),
       Del("meter", {r.dev}), Del("dhcpMeta", {r.dev}), Del("routes", SelfRoutes(r)) >>

\* detach_interface; lb_prefixes and the routes of the prefixes stay.
DetachWrites(id, r) ==
    << Del("byId", {id}), Del("prefixes", PrefixKeys("prefixes", id)),
       Del("ports", {r.dev}), Del("ifaces", {Guest(r)}), Snap(UnderlayOf(r)),
       Del("underlay", {UnderlayOf(r)}),
       Del("meter", {r.dev}), Del("dhcpMeta", {r.dev}), Del("routes", SelfRoutes(r)) >>

DetachInterface(id) ==
    /\ Free /\ Called
    /\ id \in DOMAIN ById
    /\ LET r == ById[id] IN
       /\ task' = [Task(DetachWrites(id, r) \o (IF LastOfVni(id) THEN PurgeWrites(r) ELSE << >>),
                        Guest(r))
                   EXCEPT !.dev = r.dev, !.detach = TRUE]
       /\ late' = Overlapped(r)
       /\ orphans' = orphans \cup {<<r.vni, k[2]>> : k \in PrefixKeys("prefixes", id)}
       /\ lateVnis' = IF LastOfVni(id) /\ \E x \in calls : x.op = "route" /\ x.vni = r.vni
                        THEN lateVnis \cup {r.vni} ELSE lateVnis
    /\ cpu' = [c \in Cpus |-> IF cpu[c].pc \in ForwardPcs THEN [cpu[c] EXCEPT !.stale = TRUE] ELSE cpu[c]]
    /\ UNCHANGED <<tab, calls, npackets, shared, broken, lastMac>>

-----------------------------------------------------------------------------
(* Routes. *)

\* vni_in_use, as far as interfaces and routes go.
VniInUse(v) == RoutesOf(v) # {} \/ \E id \in DOMAIN ById : ById[id].vni = v

\* The handler of create_route: the VNI is checked under the mutex ...
CheckRoute(v, p, nh) ==
    /\ Free /\ Called
    /\ VniInUse(v)
    /\ calls' = calls \cup {[op |-> "route", vni |-> v, pfx |-> p, nh |-> nh]}
    /\ UNCHANGED <<tab, task, cpu, npackets, history>>

\* ... and the route created under it once more.  A duplicate is refused.
CreateRoute(x) ==
    /\ Free /\ x.op = "route"
    /\ calls' = calls \ {x}
    /\ LET k == <<x.vni, x.pfx>> IN
       task' = IF k \in DOMAIN tab["routesShadow"] THEN task
               ELSE Task(<< Put("routes", k, x.nh), Put("routesShadow", k, x.nh) >>, None)
    /\ UNCHANGED <<tab, cpu, bounds, history>>

\* The writes of delete_route.
RouteWrites(k) == << Del("routesShadow", {k}), Del("routes", {k}) >>

\* delete_route.  (Its check of the VNI cannot fail for a route that exists.)
DeleteRoute(k) ==
    /\ Free /\ Called
    /\ k \in DOMAIN tab["routesShadow"]
    /\ task' = Task(RouteWrites(k), None)
    /\ UNCHANGED <<tab, calls, cpu, npackets, history>>

\* reset_vni lists the routes of one family, then of the other, and deletes
\* each under a lock of its own; here the families are calls of their own.
ListReset(v, F) ==
    /\ Free /\ Called
    /\ {k \in RoutesOf(v) : k[2] \in F} # {}
    /\ calls' = calls \cup {[op |-> "reset", keys |-> {k \in RoutesOf(v) : k[2] \in F}]}
    /\ UNCHANGED <<tab, task, cpu, npackets, history>>

ResetOne(x) ==
    /\ Free /\ x.op = "reset"
    /\ \E k \in x.keys :
          /\ calls' = (calls \ {x}) \cup
                      (IF x.keys = {k} THEN {} ELSE {[x EXCEPT !.keys = @ \ {k}]})
          /\ task' = IF k \in DOMAIN tab["routesShadow"] THEN Task(RouteWrites(k), None) ELSE task
    /\ UNCHANGED <<tab, cpu, bounds, history>>

-----------------------------------------------------------------------------
(* Alias prefixes, load-balancer prefixes and VIPs. *)

\* Mutant: prefixes of other interfaces are not looked at.
PrefixTaken_OwnOnly(id, p) == <<id, p>> \in DOMAIN tab["prefixes"]

\* add_prefix refuses a prefix any interface of the VNI has; add_prefix6
\* looks at the prefixes of the interface itself only.
PrefixTaken(id, p) ==
    \E k \in DOMAIN tab["prefixes"] :
        /\ k[2] = p
        /\ k[1] = id \/ ( /\ p \notin Prefixes6
                          /\ k[1] \in DOMAIN ById /\ ById[k[1]].vni = ById[id].vni )

AddPrefix(id, p) ==
    /\ Free /\ Called
    /\ id \in DOMAIN ById /\ ~PrefixTaken(id, p)
    /\ LET u == UnderlayOf(ById[id]) IN
       task' = Task(<< Put("routes", <<ById[id].vni, p>>, u), Put("prefixes", <<id, p>>, u) >>, None)
    /\ UNCHANGED <<tab, calls, cpu, npackets, history>>

DelPrefix(id, p) ==
    /\ Free /\ Called
    /\ id \in DOMAIN ById /\ <<id, p>> \in DOMAIN tab["prefixes"]
    /\ task' = Task(<< Del("prefixes", {<<id, p>>}), Del("routes", {<<ById[id].vni, p>>}) >>, None)
    /\ UNCHANGED <<tab, calls, cpu, npackets, history>>

\* The load-balancer prefixes are announced only: no map knows them.
AddLbPrefix(id, p) ==
    /\ Free /\ Called
    /\ id \in DOMAIN ById /\ <<id, p>> \notin DOMAIN tab["lbPrefixes"]
    /\ task' = Task(<< Put("lbPrefixes", <<id, p>>, UnderlayOf(ById[id])) >>, None)
    /\ UNCHANGED <<tab, calls, cpu, npackets, history>>

DelLbPrefix(id, p) ==
    /\ Free /\ Called
    /\ id \in DOMAIN ById /\ <<id, p>> \in DOMAIN tab["lbPrefixes"]
    /\ task' = Task(<< Del("lbPrefixes", {<<id, p>>}) >>, None)
    /\ UNCHANGED <<tab, calls, cpu, npackets, history>>

\* create_vip writes both directions.
CreateVip(id) ==
    /\ Free /\ Called
    /\ id \in DOMAIN ById
    /\ LET g == Guest(ById[id]) IN
       /\ g \notin DOMAIN tab["vips"]
       /\ task' = Task(<< Put("vips", g, VipOf(g)), Put("vips", <<g[1], VipOf(g)>>, g[2]) >>, g)
    /\ UNCHANGED <<tab, calls, cpu, npackets, history>>

\* Mutant: the reverse entry stays.
VipWrites_ForwardOnly(g) == << Del("vips", VipKeys(g)[2]) >>

VipWrites(g) == << Del("vips", VipKeys(g)[1]), Del("vips", VipKeys(g)[2]) >>

DeleteVip(id) ==
    /\ Free /\ Called
    /\ id \in DOMAIN ById /\ Guest(ById[id]) \in DOMAIN tab["vips"]
    /\ task' = Task(VipWrites(Guest(ById[id])), Guest(ById[id]))
    /\ UNCHANGED <<tab, calls, cpu, npackets, history>>

-----------------------------------------------------------------------------
(* The guest edge of the datapath: tc_guest_tx and the DHCP responder. *)

IdleCpu == [pc |-> "idle"]

\* The guest program is attached to the tap while a record has it; one that
\* runs when detach_interface drops the link goes on.
Attached(dev) ==
    (\E id \in DOMAIN ById : ById[id].dev = dev) \/ (task.detach /\ task.dev = dev)

\* A packet arrives and PORT_META is copied; a miss passes it on untouched.
GuestPacket(c, dev, a) ==
    /\ cpu[c].pc = "idle" /\ npackets < MaxPackets
    /\ Attached(dev) /\ dev \in DOMAIN tab["ports"]
    /\ npackets' = npackets + 1
    /\ cpu' = [cpu EXCEPT ![c] = [pc |-> "vip", dev |-> dev, meta |-> tab["ports"][dev],
                                  addr |-> a, stale |-> task.detach]]
    /\ UNCHANGED <<tab, task, calls, ncalls, history>>

\* dnat_egress: a VIP of the VNI becomes its guest's address.
VipLookup(c) ==
    /\ cpu[c].pc = "vip"
    /\ LET k == <<cpu[c].meta.vni, cpu[c].addr>> IN
       cpu' = [cpu EXCEPT ![c].pc = "route",
                          ![c].addr = IF k \in DOMAIN tab["vips"] THEN tab["vips"][k] ELSE @]
    /\ UNCHANGED <<tab, task, calls, bounds, history>>

\* Mutant: the VNI is not part of the key.
Matching_AnyVni(v, a) == {k \in DOMAIN tab["routes"] : a \in k[2]}

\* The routes that cover an address, and the longest of them.
Matching(v, a) == {k \in DOMAIN tab["routes"] : k[1] = v /\ a \in k[2]}
Longest(K) == CHOOSE k \in K : \A l \in K : Cardinality(k[2]) <= Cardinality(l[2])

RouteLookup(c) ==
    /\ cpu[c].pc = "route"
    /\ LET K == Matching(cpu[c].meta.vni, cpu[c].addr) IN
       cpu' = [cpu EXCEPT ![c] =
                 IF K = {} THEN IdleCpu
                 ELSE [pc |-> "underlay", dev |-> @.dev, meta |-> @.meta, stale |-> @.stale,
                       nh |-> tab["routes"][Longest(K)]]]
    /\ UNCHANGED <<tab, task, calls, bounds, history>>

\* A next hop in UNDERLAY is local; any other is encapsulated and sent off.
UnderlayLookup(c) ==
    /\ cpu[c].pc = "underlay"
    /\ LET u == cpu[c].nh IN
       cpu' = [cpu EXCEPT ![c] =
                 IF u \notin DOMAIN tab["underlay"] THEN IdleCpu
                 ELSE [pc |-> "local", dev |-> @.dev, meta |-> @.meta, stale |-> @.stale,
                       nh |-> u, to |-> tab["underlay"][u]]]
    /\ UNCHANGED <<tab, task, calls, bounds, history>>

Deliver(c) ==
    /\ cpu[c].pc = "local"
    /\ cpu' = [cpu EXCEPT ![c] = IdleCpu]
    /\ UNCHANGED <<tab, task, calls, bounds, history>>

\* A DHCP request whose Ethernet source is not the MAC known for the tap.
DhcpPacket(c, dev, mac) ==
    /\ cpu[c].pc = "idle" /\ npackets < MaxPackets
    /\ Attached(dev) /\ dev \in DOMAIN tab["ports"] /\ mac # tab["ports"][dev].mac
    /\ npackets' = npackets + 1
    /\ LET m == tab["ports"][dev] IN
       /\ cpu' = [cpu EXCEPT ![c] = [pc |-> "lport", dev |-> dev, meta |-> m, mac |-> mac]]
       /\ late' = IF task.dev = dev \/ Learning(dev)
                    THEN late \cup {dev, m.ul, <<m.vni, m.ip>>} ELSE late
    /\ UNCHANGED <<tab, task, calls, ncalls, shared, broken, orphans, lateVnis, lastMac>>

\* An insert by the datapath: one into a full map is lost.
Learn(t, k, v) ==
    tab' = IF Room(t, k) THEN [tab EXCEPT ![t] = Upsert(@, k, v)] ELSE tab

\* learn_mac: PORT_META gets the copy the packet carries ...
LearnPort(c) ==
    /\ cpu[c].pc = "lport"
    /\ Learn("ports", cpu[c].dev, [cpu[c].meta EXCEPT !.mac = cpu[c].mac])
    /\ cpu' = [cpu EXCEPT ![c].pc = "luget"]
    /\ UNCHANGED <<task, calls, bounds, history>>

\* ... UNDERLAY and INTERFACES what they held when they were looked up.
LearnGet(c, pc, t, k, put, skip) ==
    /\ cpu[c].pc = pc
    /\ cpu' = [cpu EXCEPT ![c] =
                 IF k \in DOMAIN tab[t]
                   THEN [pc |-> put, dev |-> @.dev, meta |-> @.meta, mac |-> @.mac,
                         val |-> tab[t][k]]
                   ELSE IF skip = "idle" THEN IdleCpu ELSE [@ EXCEPT !.pc = skip]]
    /\ UNCHANGED <<tab, task, calls, bounds, history>>

LearnUnderlayGet(c) == LearnGet(c, "luget", "underlay", cpu[c].meta.ul, "luput", "liget")
LearnIfaceGet(c) ==
    LearnGet(c, "liget", "ifaces", <<cpu[c].meta.vni, cpu[c].meta.ip>>, "liput", "idle")

LearnUnderlayPut(c) ==
    /\ cpu[c].pc = "luput"
    /\ Learn("underlay", cpu[c].meta.ul, [cpu[c].val EXCEPT !.mac = cpu[c].mac])
    /\ cpu' = [cpu EXCEPT ![c].pc = "liget"]
    /\ lastMac' = [lastMac EXCEPT ![cpu[c].meta.ul] = cpu[c].mac]
    /\ UNCHANGED <<task, calls, bounds, late, shared, broken, orphans, lateVnis>>

LearnIfacePut(c) ==
    /\ cpu[c].pc = "liput"
    /\ Learn("ifaces", <<cpu[c].meta.vni, cpu[c].meta.ip>>, [cpu[c].val EXCEPT !.mac = cpu[c].mac])
    /\ cpu' = [cpu EXCEPT ![c] = IdleCpu]
    /\ UNCHANGED <<task, calls, bounds, history>>

-----------------------------------------------------------------------------
(* The system. *)

Init ==
    /\ tab = [t \in Tables |-> << >>]
    /\ task = FreeTask
    /\ calls = {}
    /\ cpu = [c \in Cpus |-> IdleCpu]
    /\ ncalls = 0 /\ npackets = 0
    /\ late = {} /\ shared = {} /\ broken = {} /\ orphans = {} /\ lateVnis = {}
    /\ lastMac = [u \in Underlays |-> HostMac]

\* The operation that holds the mutex goes on.
Write == WritePut \/ WriteFails \/ WriteDel \/ WriteSnap

\* A gRPC call takes the mutex for the first time.
Call ==
    \/ \E r \in Requests : CreateInterface(r)
    \/ \E id \in Ids : DetachInterface(id) \/ CreateVip(id) \/ DeleteVip(id)
    \/ \E v \in Vnis, p \in Routes, nh \in Remotes : CheckRoute(v, p, nh)
    \/ \E k \in Vnis \X Routes : DeleteRoute(k)
    \/ \E v \in Vnis : ListReset(v, Prefixes6) \/ ListReset(v, Prefixes \ Prefixes6)
    \/ \E id \in Ids, p \in Aliases :
          AddPrefix(id, p) \/ DelPrefix(id, p) \/ AddLbPrefix(id, p) \/ DelLbPrefix(id, p)

\* One of those already answered in part takes it again.
Resume == \E x \in calls : SetDhcpMeta(x) \/ CreateRoute(x) \/ ResetOne(x)

Datapath(c) ==
    \/ \E dev \in Devices : \/ \E a \in Dests : GuestPacket(c, dev, a)
                            \/ \E mac \in GuestMacs : DhcpPacket(c, dev, mac)
    \/ VipLookup(c) \/ RouteLookup(c) \/ UnderlayLookup(c) \/ Deliver(c)
    \/ LearnPort(c) \/ LearnUnderlayGet(c) \/ LearnUnderlayPut(c)
    \/ LearnIfaceGet(c) \/ LearnIfacePut(c)

Next == Write \/ Call \/ Resume \/ \E c \in Cpus : Datapath(c)

Spec == Init /\ [][Next]_vars

-----------------------------------------------------------------------------
(* Properties. *)

Records == {ById[id] : id \in DOMAIN ById}
Maplet(f, k, v) == k \in DOMAIN f /\ f[k] = v

\* Tables have keys and values of their kinds, so have CPUs.
TypeOK ==
    /\ DOMAIN tab = Tables
    /\ DOMAIN ById \subseteq Ids /\ Records \subseteq Requests
    /\ \A id \in DOMAIN ById : ById[id].id = id
    /\ DOMAIN tab["ports"] \cup DOMAIN tab["meter"] \cup DOMAIN tab["dhcpMeta"] \subseteq Devices
    /\ DOMAIN tab["ifaces"] \cup DOMAIN tab["vips"] \subseteq Vnis \X Addrs
    /\ DOMAIN tab["underlay"] \cup DOMAIN tab["learned"] \subseteq Underlays
    /\ DOMAIN tab["routes"] \cup DOMAIN tab["routesShadow"] \subseteq Vnis \X Prefixes
    /\ DOMAIN tab["prefixes"] \cup DOMAIN tab["lbPrefixes"] \subseteq Ids \X Aliases
    /\ \A t \in Maps : Cardinality(DOMAIN tab[t]) <= Capacity(t)
    /\ \A c \in Cpus : cpu[c].pc \in {"idle"} \cup ForwardPcs \cup LearnPcs
    /\ ncalls \in 0 .. MaxCalls /\ npackets \in 0 .. MaxPackets

\* Tenant isolation of the local fast path (egress.rs): a packet goes to the
\* tap of an interface of its sender's VNI, whatever writes of the control
\* plane came between its four lookups.  Packets overtaken by a
\* detach_interface, and underlay addresses whose entry a MAC update wrote
\* back while they changed hands, are excepted: the code protects neither.
DeliverSound ==
    \A c \in Cpus :
        cpu[c].pc = "local" /\ ~cpu[c].stale /\ cpu[c].nh \notin late =>
            \E r \in Records : /\ r.vni = cpu[c].meta.vni /\ UnderlayOf(r) = cpu[c].nh
                               /\ r.dev = cpu[c].to.dev

\* Between operations, every interface has its entries in PORT_META,
\* INTERFACES and UNDERLAY and its host routes, with one and the same MAC:
\* the one learned last for its underlay address, across any number of
\* detach_interface and create_interface calls (the promise of learned_macs
\* in program_iface_maps).  Excepted are interfaces an insert failed for,
\* taps given to two interfaces, and updates that raced an operation.
InterfaceProgrammed ==
    Free => \A r \in Records :
        LET u == UnderlayOf(r) IN
        Learning(r.dev) \/ r.dev \in shared \/ Guest(r) \in broken \/ Marks(r) \cap late # {}
        \/ /\ Maplet(tab["ports"], r.dev, PortMeta(r, lastMac[u]))
           /\ Maplet(tab["ifaces"], Guest(r), IfaceValue(r, lastMac[u]))
           /\ Maplet(tab["underlay"], u, UnderlayValue(r, lastMac[u]))
           /\ \A k \in SelfRoutes(r) : Maplet(tab["routes"], k, u)

\* Between operations, no map has an entry of an interface that is gone:
\* detach_interface and the DHCP metadata written by a later critical section
\* leave nothing behind, raced MAC updates excepted.
NoLeftovers ==
    Free =>
        /\ DOMAIN tab["ports"] \subseteq {r.dev : r \in Records} \cup late
        /\ DOMAIN tab["ifaces"] \subseteq {Guest(r) : r \in Records} \cup late
        /\ DOMAIN tab["underlay"] \subseteq {UnderlayOf(r) : r \in Records} \cup late
        /\ DOMAIN tab["meter"] \cup DOMAIN tab["dhcpMeta"] \subseteq {r.dev : r \in Records}

\* Between operations, ROUTES holds exactly what the shadow tables account
\* for: the routes of create_route, the alias prefixes of the interfaces and
\* their host routes, and besides only prefixes of detached interfaces,
\* which detach_interface forgets.  (An IPv6 prefix can be announced by two
\* interfaces, and the first to withdraw it takes the route with it.)
RoutesExact ==
    Free =>
        /\ \A k \in DOMAIN tab["routesShadow"] : Maplet(tab["routes"], k, tab["routesShadow"][k])
        /\ \A k \in DOMAIN tab["prefixes"] :
              k[2] \in Prefixes6 \/ Maplet(tab["routes"], <<ById[k[1]].vni, k[2]>>, tab["prefixes"][k])
        /\ DOMAIN tab["routes"] \subseteq
              DOMAIN tab["routesShadow"] \cup orphans
              \cup {<<ById[k[1]].vni, k[2]>> : k \in DOMAIN tab["prefixes"]}
              \cup UNION {SelfRoutes(r) : r \in Records}

\* Between operations, a VNI without an interface has no routes (the purge
\* at the end of detach_interface), unless a create_route had passed its
\* check of the VNI when the last interface left.
VniPurged ==
    Free => \A v \in Vnis \ lateVnis : (\A r \in Records : r.vni # v) => RoutesOf(v) = {}

\* Between operations, the two directions of VIPS agree, so that what
\* snat_egress does to a packet dnat_egress undoes: a guest's VIP leads back
\* to the guest, and no VIP leads to a guest that has not got it.
VipPaired ==
    Free => \A k \in DOMAIN tab["vips"] :
        \/ k \in broken \/ <<k[1], tab["vips"][k]>> \in broken
        \/ Maplet(tab["vips"], <<k[1], tab["vips"][k]>>, k[2])
=============================================================================
