---------------------------- MODULE OverlayProofs ----------------------------
(***************************************************************************)
(* Proofs about Overlay, for any number of interfaces, VNIs, addresses,    *)
(* prefixes, taps and CPUs, and any capacity of the maps.                  *)
(***************************************************************************)
EXTENDS Overlay, TLAPS, FiniteSetTheorems, SequenceTheorems, WellFoundedInduction

(***************************************************************************)
(* What the tables, the writes still to be done and the CPUs hold.         *)
(***************************************************************************)

\* The writes the operation under way has still to do.
Todo == Range(task.ops)

\* The operation under way removes the key.
Dropping(t, k) == \E w \in Todo : w.op = "del" /\ w.tab = t /\ k \in w.keys

\* The interfaces there are, one that is being detached excepted, and the one
\* that is being created.
Live == {ById[id] : id \in {x \in DOMAIN ById : ~Dropping("byId", x)}}
Coming == {w.val : w \in {x \in Todo : x.op = "put" /\ x.tab = "byId"}}

Meta == [vni : Vnis, ip : Addrs, ul : Underlays, mac : Macs]
IfaceValues == [dev : Devices, ul : Underlays, mac : Macs]
UnderlayValues == [vni : Vnis, dev : Devices, mac : Macs]

\* A next hop of a route of the VNI: another node, or an interface of it.
NextHop(v, u) == u \in Remotes \/ \E r \in Requests : r.vni = v /\ UnderlayOf(r) = u

\* An entry of VIPS: the VIP of a guest, or the guest of a VIP.
VipEntry(k, a) ==
    \E r \in Requests : \/ k = Guest(r) /\ a = VipOf(Guest(r))
                        \/ k = <<r.vni, VipOf(Guest(r))>> /\ a = r.ip

\* The keys and the values of each table.
Fits(t, k, v) ==
    /\ t = "byId" => k \in Ids /\ v \in Requests /\ v.id = k
    /\ t = "ports" => k \in Devices /\ v \in Meta
    /\ t \in {"meter", "dhcpMeta"} => k \in Devices
    /\ t = "ifaces" => k \in Vnis \X Addrs /\ v \in IfaceValues
    /\ t = "vips" => k \in Vnis \X Addrs /\ VipEntry(k, v)
    /\ t = "underlay" => k \in Underlays /\ v \in UnderlayValues
    /\ t = "learned" => k \in Underlays /\ v \in Macs
    /\ t = "routes" => k \in Vnis \X Prefixes /\ NextHop(k[1], v)
    /\ t = "routesShadow" => k \in Vnis \X Routes /\ v \in Remotes
    /\ t \in {"prefixes", "lbPrefixes"} => k \in Ids \X Aliases

WriteFits(w) ==
    /\ w.op \in {"put", "del", "snap"}
    /\ w.op = "put" => w.tab \in Tables /\ Fits(w.tab, w.key, w.val)
    /\ w.op = "del" => w.tab \in Tables
    /\ w.op = "snap" => w.ul \in Underlays

\* Where a CPU can be, and the copies it has there.
CpuState ==
    {IdleCpu} \cup
    [pc : {"vip", "route"}, dev : Devices, meta : Meta, addr : Addrs, stale : BOOLEAN] \cup
    [pc : {"underlay"}, dev : Devices, meta : Meta, stale : BOOLEAN, nh : Remotes \cup Underlays] \cup
    [pc : {"local"}, dev : Devices, meta : Meta, stale : BOOLEAN, nh : Remotes \cup Underlays,
     to : UnderlayValues] \cup
    [pc : {"lport", "luget", "liget"}, dev : Devices, meta : Meta, mac : Macs] \cup
    [pc : {"luput", "liget"}, dev : Devices, meta : Meta, mac : Macs, val : UnderlayValues] \cup
    [pc : {"liput"}, dev : Devices, meta : Meta, mac : Macs, val : IfaceValues]

TablesFit ==
    /\ DOMAIN tab = Tables
    /\ \A t \in Tables : IsFiniteSet(DOMAIN tab[t])
    /\ \A t \in Tables : \A k \in DOMAIN tab[t] : Fits(t, k, tab[t][k])
    /\ \A t \in Maps : Cardinality(DOMAIN tab[t]) <= Capacity(t)

TaskFits ==
    /\ task \in [ops : Seq(Todo), guest : {task.guest}, dev : Devices \cup {None},
                 detach : BOOLEAN, then : SUBSET [op : {"dhcp"}, id : Ids]]
    /\ task.ops = << >> => Free
    /\ \A w \in Todo : WriteFits(w)

CallFits(x) ==
    /\ x.op = "route" => x.vni \in Vnis /\ x.pfx \in Routes /\ x.nh \in Remotes
    /\ x.op = "reset" => x \in [op : {"reset"}, keys : SUBSET (Vnis \X Routes)]

CpuFits(s) ==
    /\ s \in CpuState
    /\ s.pc \in {"underlay", "local"} => NextHop(s.meta.vni, s.nh)

\* The inductive form of TypeOK.
TypeInv ==
    /\ TablesFit
    /\ TaskFits
    /\ \A x \in calls : CallFits(x)
    /\ DOMAIN cpu = Cpus /\ \A c \in Cpus : CpuFits(cpu[c])
    /\ ncalls \in 0 .. MaxCalls /\ npackets \in 0 .. MaxPackets

(***************************************************************************)
(* Interfaces and what the maps hold of them.                              *)
(***************************************************************************)

\* A copy of PORT_META is that of the interface.
Owns(r, d, m) == r.dev = d /\ m.vni = r.vni /\ m.ip = r.ip /\ m.ul = UnderlayOf(r)

\* The interface is there, or a MAC update overlapped its coming or going.
Known(r) == r \in Live \/ Marks(r) \subseteq late

TapsKnown ==
    /\ \A d \in DOMAIN tab["ports"] :
          \E r \in Requests : Owns(r, d, tab["ports"][d]) /\ (Known(r) \/ Dropping("ports", d))
    /\ \A g \in DOMAIN tab["ifaces"] :
          g \in late \/ Dropping("ifaces", g) \/ \E r \in Live : Guest(r) = g
    /\ \A u \in DOMAIN tab["underlay"] :
          \/ u \in late \/ Dropping("underlay", u)
          \/ \E r \in Live : UnderlayOf(r) = u /\ r.dev = tab["underlay"][u].dev
    /\ \A t \in {"meter", "dhcpMeta"} : \A d \in DOMAIN tab[t] :
          Dropping(t, d) \/ \E r \in Live : r.dev = d

\* What is still to be written belongs to an interface as well.
PutKnown(w) ==
    /\ w.tab = "ports" => \E r \in Live \cup Coming : Owns(r, w.key, w.val)
    /\ w.tab = "ifaces" => \E r \in Live \cup Coming : Guest(r) = w.key
    /\ w.tab = "underlay" =>
          \E r \in Live \cup Coming : UnderlayOf(r) = w.key /\ r.dev = w.val.dev
    /\ w.tab \in {"meter", "dhcpMeta"} => \E r \in Live \cup Coming : r.dev = w.key
    /\ w.tab = "byId" =>
          w.key \notin DOMAIN ById /\ \A id \in DOMAIN ById : Guest(ById[id]) # Guest(w.val)

\* The record of an interface is the first of its writes.
RecordFirst ==
    task.ops # << >> => \A w \in Range(Tail(task.ops)) : ~(w.op = "put" /\ w.tab = "byId")

TodoKnown ==
    /\ RecordFirst
    /\ \A w \in Todo : w.op = "put" => ~task.detach /\ PutKnown(w)
    /\ \A w \in Todo : w.op = "del" =>
          /\ w.tab \in {"byId", "ports", "ifaces", "underlay", "meter", "dhcpMeta"} => task.detach
          /\ w.tab = "ports" => w.keys = {task.dev}
    /\ \A r \in Live : ~Dropping("underlay", UnderlayOf(r))

\* No two interfaces are the same guest.
GuestsDiffer == \A i, j \in DOMAIN ById : Guest(ById[i]) = Guest(ById[j]) => i = j

CpuKnown(s) ==
    /\ s.pc \in LearnPcs => \E r \in Requests : Owns(r, s.dev, s.meta) /\ Known(r)
    /\ s.pc = "luput" => \/ s.meta.ul \in late
                         \/ \E r \in Live : UnderlayOf(r) = s.meta.ul /\ r.dev = s.val.dev
    /\ s.pc \in ForwardPcs /\ ~s.stale => ~task.detach
    /\ s.pc = "local" /\ ~s.stale /\ s.nh \notin late =>
          \E r \in Live : r.vni = s.meta.vni /\ UnderlayOf(r) = s.nh /\ r.dev = s.to.dev

\* The inductive form of DeliverSound and NoLeftovers.
TapInv == TapsKnown /\ TodoKnown /\ GuestsDiffer /\ \A c \in Cpus : CpuKnown(cpu[c])

(***************************************************************************)
(* Routes, prefixes and VIPs, and the writes that keep them together.      *)
(***************************************************************************)

\* An operation inserts or removes.
OneKind == \A w, x \in Todo : w.op = "put" => x.op = "put"

\* The VNI has an interface, or lost its last one to a create_route.
VniHeld(v) == v \in lateVnis \/ \E r \in Live : r.vni = v

\* The inductive form of VniPurged.
VniInv ==
    /\ \A v \in Vnis \ lateVnis :
          \/ \E r \in Live : r.vni = v
          \/ \A k \in DOMAIN tab["routesShadow"] : k[1] = v => Dropping("routesShadow", k)
    /\ \A x \in calls : x.op = "route" => VniHeld(x.vni)
    /\ \A w \in Todo : w.op = "put" /\ w.tab = "routesShadow" => VniHeld(w.key[1])

\* The entry of the other direction.
Pair(k, a) == <<k[1], a>>

\* It is there or will be.
PairComes(p) ==
    p \in DOMAIN tab["vips"] \/ \E w \in Todo : w.op = "put" /\ w.tab = "vips" /\ w.key = p

\* The inductive form of VipPaired.
VipInv ==
    /\ \A k \in DOMAIN tab["vips"] :
          LET p == Pair(k, tab["vips"][k]) IN
          /\ k \in broken \/ p \in broken \/ PairComes(p) \/ Dropping("vips", k)
          /\ Dropping("vips", k) => p \notin DOMAIN tab["vips"] \/ Dropping("vips", p)
    /\ \A w \in Todo : w.op = "put" /\ w.tab = "vips" =>
          /\ task.guest \in {w.key, Pair(w.key, w.val)}
          /\ PairComes(Pair(w.key, w.val))

\* An insert into a shadow table of routes, and the route it is about.
Accounts(w) == w.op = "put" /\ w.tab \in {"routesShadow", "prefixes"}
PrefixRoute(k) == <<ById[k[1]].vni, k[2]>>
RouteKey(w) == IF w.tab = "routesShadow" THEN w.key ELSE PrefixRoute(w.key)
Announces(w) == w.op = "put" /\ w.tab = "routes"

\* The prefixes of the interfaces.
Held == {k \in DOMAIN tab["prefixes"] : k[1] \in DOMAIN ById}

\* A route is written before it is accounted for, and nothing else with it.
RouteOrder ==
    /\ \A b \in Todo : Accounts(b) =>
          /\ \/ task.ops = <<b>> /\ Maplet(tab["routes"], RouteKey(b), b.val)
             \/ \E a \in Todo : /\ task.ops = <<a, b>> /\ Announces(a)
                                /\ a.key = RouteKey(b) /\ a.val = b.val
          /\ b.tab = "prefixes" =>
                /\ b.key[1] \in DOMAIN ById
                /\ b.key[2] \notin Prefixes6 => \A k \in Held : PrefixRoute(k) # PrefixRoute(b.key)
    /\ \A w \in Todo : Announces(w) =>
          /\ w.key \notin DOMAIN tab["routesShadow"]
          /\ \A k \in Held : k[2] \notin Prefixes6 => PrefixRoute(k) # w.key
          /\ \/ \E b \in Todo : Accounts(b) /\ RouteKey(b) = w.key
             \/ \E r \in Live \cup Coming : w.key \in SelfRoutes(r)

\* What is removed of a route is removed of all tables.
RouteDrops ==
    /\ \A k \in DOMAIN tab["routesShadow"] : Dropping("routes", k) => Dropping("routesShadow", k)
    /\ \A k \in DOMAIN tab["routes"] : Dropping("routesShadow", k) => Dropping("routes", k)
    /\ \A k \in Held :
          /\ k[2] \notin Prefixes6 /\ Dropping("routes", PrefixRoute(k)) => Dropping("prefixes", k)
          /\ Dropping("prefixes", k) /\ PrefixRoute(k) \in DOMAIN tab["routes"] =>
                Dropping("routes", PrefixRoute(k)) \/ PrefixRoute(k) \in orphans
          /\ Dropping("byId", k[1]) => Dropping("prefixes", k)

\* The inductive form of RoutesExact.
RouteInv ==
    /\ \A k \in DOMAIN tab["routesShadow"] :
          Dropping("routesShadow", k) \/ Maplet(tab["routes"], k, tab["routesShadow"][k])
    /\ \A k \in DOMAIN tab["prefixes"] :
          \/ Dropping("prefixes", k)
          \/ /\ k[1] \in DOMAIN ById
             /\ k[2] \in Prefixes6 \/ Maplet(tab["routes"], PrefixRoute(k), tab["prefixes"][k])
    /\ \A k, l \in Held : k[2] \notin Prefixes6 /\ PrefixRoute(k) = PrefixRoute(l) => k = l
    /\ \A k \in DOMAIN tab["routes"] :
          \/ k \in DOMAIN tab["routesShadow"] \cup orphans
          \/ Dropping("routes", k)
          \/ \E x \in Held : PrefixRoute(x) = k
          \/ \E r \in Live : k \in SelfRoutes(r)
          \/ \E b \in Todo : Accounts(b) /\ RouteKey(b) = k
    /\ RouteOrder /\ RouteDrops

(***************************************************************************)
(* What the maps hold of an interface, and the MACs in it.                 *)
(***************************************************************************)

\* InterfaceProgrammed says nothing about the interface any more.
Excused(r) == r.dev \in shared \/ Guest(r) \in broken \/ Marks(r) \cap late # {}

\* The interfaces there are and the one to come share neither taps nor routes.
Mine == Live \cup Coming
Apart(r, s) ==
    /\ Guest(r) # Guest(s)
    /\ r.dev = s.dev => r.dev \in shared
    /\ SelfRoutes(r) \cap SelfRoutes(s) = {}
ApartInv == \A r, s \in Mine : r = s \/ Apart(r, s)

\* A write of an operation on the interface with underlay address u.
Concerns(w, u) ==
    \/ w.op = "snap" /\ w.ul = u
    \/ w.op = "put" /\ w.tab \in {"ports", "ifaces"} /\ w.val.ul = u
    \/ w.op = "put" /\ w.tab = "underlay" /\ w.key = u
    \/ w.op = "put" /\ w.tab = "routes" /\ w.val = u /\ w.key[2] \notin Aliases
    \/ w.op = "del" /\ w.tab = "underlay" /\ u \in w.keys
    \/ w.op = "del" /\ w.tab = "ifaces" /\ \E r \in Requests : UnderlayOf(r) = u /\ Guest(r) \in w.keys
Working(u) == \E w \in Todo : Concerns(w, u)

\* An operation works on one interface.
WorkInv ==
    \A u \in Underlays : Working(u) =>
        /\ \A r \in Requests : UnderlayOf(r) = u => Guest(r) = task.guest
        /\ \A r \in Mine : UnderlayOf(r) = u => r.dev = task.dev

\* An interface that stays loses none of its entries.
StayInv ==
    \A r \in Live :
        /\ Dropping("ports", r.dev) => r.dev \in shared
        /\ ~Dropping("ifaces", Guest(r)) /\ ~Dropping("underlay", UnderlayOf(r))
        /\ \A k \in SelfRoutes(r) : ~Dropping("routes", k)

\* The MAC is kept before the entry that has it is removed, and nothing else
\* concerns the cache.
SnapOrder ==
    /\ \A i, j \in DOMAIN task.ops :
          /\ task.ops[i].op = "del" /\ task.ops[i].tab = "underlay"
          /\ task.ops[j].op = "snap"
          => j < i
    /\ \A w \in Todo : w.op # "snap" => w.tab # "learned"

\* What the operation under way is allowed to do.
WorksInv == ApartInv /\ WorkInv /\ StayInv /\ SnapOrder

\* UNDERLAY has the MAC learned last; while it has no entry, or one about to
\* be removed whose MAC was kept, the cache has it.
Snapped(u) == \A w \in Todo : w.op = "snap" => w.ul # u
MacInv ==
    /\ lastMac \in [Underlays -> Macs]
    /\ \A u \in Underlays \ late :
          /\ u \in DOMAIN tab["underlay"] => tab["underlay"][u].mac = lastMac[u]
          /\ u \notin DOMAIN tab["underlay"] \/ (Dropping("underlay", u) /\ Snapped(u)) =>
                EffectiveMac(u) = lastMac[u]

\* The writes of program_iface_maps.
TapWrite(w, r, mac) ==
    \/ w = Put("ports", r.dev, PortMeta(r, mac))
    \/ w = Put("ifaces", Guest(r), IfaceValue(r, mac))
    \/ w = Put("underlay", UnderlayOf(r), UnderlayValue(r, mac))
PutOwned(w) ==
    /\ w.tab \in {"ports", "ifaces", "underlay"} =>
          \E r \in Mine, mac \in Macs :
             TapWrite(w, r, mac) /\ (UnderlayOf(r) \in late \/ mac = lastMac[UnderlayOf(r)])
    /\ w.tab = "routes" /\ w.key[2] \notin Routes \cup Aliases =>
          \E r \in Mine : w.key \in SelfRoutes(r) /\ w.val = UnderlayOf(r)
PutInv == \A w \in Todo : w.op = "put" => PutOwned(w)

\* A MAC update for the underlay address is under way.
Learner(c, u) == cpu[c].pc \in LearnPcs /\ cpu[c].meta.ul = u
LearnInv ==
    \A u \in Underlays \ late : \A c \in Cpus : Learner(c, u) =>
        /\ ~Working(u)
        /\ \A e \in Cpus : Learner(e, u) => e = c
        /\ cpu[c].pc = "luput" => Maplet(tab["underlay"], u, cpu[c].val)

MacsInv == MacInv /\ PutInv /\ LearnInv

\* The interface has its entries or will get them, with the MAC learned last;
\* an update that is under way has got as far as its program counter says.
Comes(t, k, v) == Put(t, k, v) \in Todo
Past(c, u) == Learner(c, u) /\ cpu[c].pc # "lport"
Late(c, u) == Learner(c, u) /\ cpu[c].pc \in {"liget", "liput"}
HasPort(r) ==
    /\ \A c \in Cpus : Past(c, UnderlayOf(r)) => Maplet(tab["ports"], r.dev, PortMeta(r, cpu[c].mac))
    /\ (\A c \in Cpus : ~Past(c, UnderlayOf(r))) =>
          Maplet(tab["ports"], r.dev, PortMeta(r, lastMac[UnderlayOf(r)]))
HasIface(r) ==
    /\ \E mac \in Macs : Maplet(tab["ifaces"], Guest(r), IfaceValue(r, mac))
    /\ (\A c \in Cpus : ~Late(c, UnderlayOf(r))) =>
          Maplet(tab["ifaces"], Guest(r), IfaceValue(r, lastMac[UnderlayOf(r)]))
    /\ \A c \in Cpus : Late(c, UnderlayOf(r)) =>
          /\ lastMac[UnderlayOf(r)] = cpu[c].mac
          /\ cpu[c].pc = "liput" => Maplet(tab["ifaces"], Guest(r), cpu[c].val)
HasUnderlay(r) ==
    Maplet(tab["underlay"], UnderlayOf(r), UnderlayValue(r, lastMac[UnderlayOf(r)]))
Programmed(r) ==
    /\ Comes("ports", r.dev, PortMeta(r, lastMac[UnderlayOf(r)])) \/ HasPort(r)
    /\ Comes("ifaces", Guest(r), IfaceValue(r, lastMac[UnderlayOf(r)])) \/ HasIface(r)
    /\ Comes("underlay", UnderlayOf(r), UnderlayValue(r, lastMac[UnderlayOf(r)])) \/ HasUnderlay(r)
    /\ \A k \in SelfRoutes(r) : Comes("routes", k, UnderlayOf(r)) \/ Maplet(tab["routes"], k, UnderlayOf(r))

\* The inductive form of InterfaceProgrammed.
ProgInv == \A r \in Mine : Excused(r) \/ Programmed(r)

(***************************************************************************)
(* Sequences of writes.                                                    *)
(***************************************************************************)

\* What is left of a sequence of writes after its first.
LEMMA TailRange ==
    ASSUME NEW S, NEW q \in Seq(S), q # << >>
    PROVE  /\ Head(q) \in Range(q) /\ Len(q) \in Nat \ {0}
           /\ Len(q) = 1 => Range(q) = {Head(q)}
           /\ Len(q) # 1 => /\ Range(q) = {Head(q)} \cup Range(Tail(q))
                            /\ Tail(q) \in Seq(Range(Tail(q))) /\ Tail(q) # << >>
<1>1. Len(q) \in Nat \ {0} /\ Head(q) = q[1] /\ DOMAIN q = 1 .. Len(q)
  BY LenProperties, EmptySeq, HeadTailProperties
<1>2. Head(q) \in Range(q)
  BY <1>1 DEF Range
<1>3. ASSUME Len(q) = 1 PROVE Range(q) = {Head(q)}
  BY <1>1, <1>3 DEF Range
<1>4. ASSUME Len(q) # 1
      PROVE  /\ Range(q) = {Head(q)} \cup Range(Tail(q))
             /\ Tail(q) \in Seq(Range(Tail(q))) /\ Tail(q) # << >>
  <2>1. /\ Tail(q) \in Seq(S) /\ Len(Tail(q)) = Len(q) - 1 /\ DOMAIN Tail(q) = 1 .. (Len(q) - 1)
        /\ \A i \in 1 .. (Len(q) - 1) : Tail(q)[i] = q[i + 1]
    BY <1>1, <1>4
  <2>2. Tail(q) \in Seq(Range(Tail(q)))
    BY <2>1, SeqOfRange
  <2>3. Tail(q) # << >>
    <3>1. Len(Tail(q)) # 0 /\ Len(<< >>) = 0
      BY <1>1, <1>4, <2>1
    <3> QED
      BY <3>1, Zenon
  <2>4. Range(q) \subseteq {Head(q)} \cup Range(Tail(q))
    <3> SUFFICES ASSUME NEW i \in 1 .. Len(q), i # 1 PROVE q[i] \in Range(Tail(q))
      BY <1>1 DEF Range
    <3>1. i - 1 \in DOMAIN Tail(q) /\ Tail(q)[i - 1] = q[i]
      BY <1>1, <2>1
    <3> QED
      BY <3>1 DEF Range
  <2>5. Range(Tail(q)) \subseteq Range(q)
    <3> SUFFICES ASSUME NEW i \in 1 .. (Len(q) - 1) PROVE Tail(q)[i] \in Range(q)
      BY <2>1 DEF Range
    <3>1. i + 1 \in DOMAIN q /\ Tail(q)[i] = q[i + 1]
      BY <1>1, <2>1
    <3> QED
      BY <3>1 DEF Range
  <2> QED
    BY <1>2, <2>2, <2>3, <2>4, <2>5
<1> QED
  BY <1>1, <1>2, <1>3, <1>4

\* The free task has nothing to do.
LEMMA FreeFacts ==
    /\ FreeTask.ops = << >> /\ FreeTask.dev = None /\ FreeTask.detach = FALSE /\ FreeTask.then = {}
    /\ Range(<< >>) = {}
    /\ Free => Todo = {} /\ ~task.detach
<1>1. FreeTask.ops = << >> /\ FreeTask.dev = None /\ FreeTask.detach = FALSE /\ FreeTask.then = {}
  BY DEF FreeTask
<1>2. Range(<< >>) = {}
  BY DEF Range
<1> QED
  BY <1>1, <1>2 DEF Free, Todo

\* A task that is not free has a first write, which fits its table.
LEMMA HeadFacts ==
    ASSUME TaskFits, ~Free
    PROVE  /\ task.ops # << >> /\ task.ops \in Seq(Todo)
           /\ Head(task.ops) \in Todo /\ WriteFits(Head(task.ops))
<1>1. task.ops # << >> /\ task.ops \in Seq(Todo)
  BY DEF TaskFits
<1>2. Head(task.ops) \in Range(task.ops)
  BY <1>1, TailRange
<1> QED
  BY <1>1, <1>2 DEF TaskFits, Todo

\* A write that is done is taken from the list.
LEMMA AdvanceFacts ==
    ASSUME TaskFits, ~Free, Advance
    PROVE  /\ TaskFits'
           /\ Todo = {Head(task.ops)} \cup Todo'
           /\ Todo' = {} \/ (task'.dev = task.dev /\ task'.detach = task.detach)
           /\ Todo' = {} \/ task'.guest = task.guest
           /\ task'.detach => task.detach
           /\ Free' => task' = FreeTask
           /\ calls' \subseteq calls \cup task.then
<1>1. task.ops # << >> /\ task.ops \in Seq(Todo)
  BY HeadFacts
<1>2. CASE Len(task.ops) = 1
  <2>1. task' = FreeTask /\ calls' = calls \cup task.then
    BY <1>2 DEF Advance
  <2>2. Todo = {Head(task.ops)} /\ Todo' = {}
    BY <1>1, <1>2, <2>1, TailRange, FreeFacts DEF Todo
  <2>3. TaskFits'
    <3>1. FreeTask \in [ops : Seq({}), guest : {FreeTask.guest}, dev : Devices \cup {None},
                        detach : BOOLEAN, then : SUBSET [op : {"dhcp"}, id : Ids]]
      <4>1. << >> \in Seq({})
        OBVIOUS
      <4> QED
        BY <4>1 DEF FreeTask
    <3> QED
      BY <2>1, <2>2, <3>1 DEF TaskFits, Free
  <2> QED
    BY <2>1, <2>2, <2>3, FreeFacts
<1>3. CASE Len(task.ops) # 1
  <2>1. task' = [task EXCEPT !.ops = Tail(@)] /\ calls' = calls
    BY <1>3 DEF Advance
  <2>2. task'.ops = Tail(task.ops) /\ task'.dev = task.dev /\ task'.detach = task.detach
        /\ task'.guest = task.guest /\ task'.then = task.then
    BY <2>1 DEF TaskFits
  <2>3. /\ Todo = {Head(task.ops)} \cup Range(Tail(task.ops))
        /\ Tail(task.ops) \in Seq(Range(Tail(task.ops))) /\ Tail(task.ops) # << >>
    BY <1>1, <1>3, TailRange DEF Todo
  <2>4. Todo' = Range(Tail(task.ops))
    BY <2>2 DEF Todo
  <2>5. TaskFits'
    <3>1. task' \in [ops : Seq(Todo'), guest : {task'.guest}, dev : Devices \cup {None},
                     detach : BOOLEAN, then : SUBSET [op : {"dhcp"}, id : Ids]]
      BY <2>1, <2>2, <2>3, <2>4 DEF TaskFits
    <3>2. \A w \in Todo' : WriteFits(w)
      BY <2>3, <2>4 DEF TaskFits
    <3>3. task'.ops # << >>
      BY <2>2, <2>3
    <3>4. \A w : WriteFits(w)' <=> WriteFits(w)
      BY DEF WriteFits, Fits, VipEntry, NextHop
    <3> QED
      BY <3>1, <3>2, <3>3, <3>4 DEF TaskFits
  <2> QED
    BY <2>1, <2>2, <2>3, <2>4, <2>5 DEF Free
<1> QED
  BY <1>2, <1>3

\* The first write is taken from the list, so what follows it comes next.
LEMMA AdvanceTail ==
    ASSUME TaskFits, ~Free, Advance
    PROVE  /\ Todo' \subseteq Range(Tail(task.ops))
           /\ task'.ops # << >> => Range(Tail(task'.ops)) \subseteq Range(Tail(task.ops))
<1>1. task.ops # << >> /\ task.ops \in Seq(Todo)
  BY HeadFacts
<1>2. CASE Len(task.ops) = 1
  <2>1. task' = FreeTask
    BY <1>2 DEF Advance
  <2> QED
    BY <2>1, FreeFacts DEF Todo
<1>3. CASE Len(task.ops) # 1
  <2>1. task' = [task EXCEPT !.ops = Tail(@)]
    BY <1>3 DEF Advance
  <2>2. task'.ops = Tail(task.ops)
    BY <2>1 DEF TaskFits
  <2>3. PICK q : q = Tail(task.ops)
    OBVIOUS
  <2>4. q \in Seq(Range(q)) /\ q # << >>
    BY <1>1, <1>3, <2>3, TailRange
  <2>5. Range(Tail(q)) \subseteq Range(q)
    <3>1. CASE Len(q) # 1
      BY <2>4, <3>1, TailRange
    <3>2. CASE Len(q) = 1
      <4>1. Tail(q) \in Seq(Range(q)) /\ Len(Tail(q)) = 0
        BY <2>4, <3>2, HeadTailProperties
      <4>2. Tail(q) = << >>
        BY <4>1, EmptySeq
      <4> QED
        BY <4>2, FreeFacts
    <3> QED
      BY <3>1, <3>2
  <2> QED
    BY <2>2, <2>3, <2>5 DEF Todo
<1> QED
  BY <1>2, <1>3

\* The list has the writes of the set.
Lists(q, S) == q \in Seq(S) /\ Range(q) = S

\* Short lists of writes.
LEMMA ShortLists ==
    /\ Lists(<< >>, {})
    /\ \A a : Lists(<<a>>, {a}) /\ <<a>> # << >>
    /\ \A a, b : Lists(<<a, b>>, {a, b}) /\ <<a, b>> # << >>
<1>1. Lists(<< >>, {})
  BY FreeFacts DEF Lists
<1>2. ASSUME NEW a PROVE Lists(<<a>>, {a}) /\ <<a>> # << >>
  <2>1. Len(<<a>>) = 1 /\ Len(<< >>) = 0 /\ <<a>> \in Seq({a})
    OBVIOUS
  <2>2. <<a>> # << >>
    BY <2>1, Zenon
  <2>3. Range(<<a>>) = {a}
    BY DEF Range
  <2> QED
    BY <2>1, <2>2, <2>3 DEF Lists
<1>3. ASSUME NEW a, NEW b PROVE Lists(<<a, b>>, {a, b}) /\ <<a, b>> # << >>
  <2>1. Len(<<a, b>>) = 2 /\ Len(<< >>) = 0 /\ <<a, b>> \in Seq({a, b})
    OBVIOUS
  <2>2. <<a, b>> # << >>
    BY <2>1, Zenon
  <2>3. Range(<<a, b>>) = {a, b}
    BY DEF Range
  <2> QED
    BY <2>1, <2>2, <2>3 DEF Lists
<1> QED
  BY <1>1, <1>2, <1>3

\* Lists of four and of nine.
LEMMA LongLists ==
    /\ \A a, b, c, d : Lists(<<a, b, c, d>>, {a, b, c, d}) /\ <<a, b, c, d>> # << >>
    /\ \A a, b, c, d, e, f, g, h, i :
          /\ Lists(<<a, b, c, d, e, f, g, h, i>>, {a, b, c, d, e, f, g, h, i})
          /\ <<a, b, c, d, e, f, g, h, i>> # << >>
<1>1. ASSUME NEW a, NEW b, NEW c, NEW d
      PROVE  Lists(<<a, b, c, d>>, {a, b, c, d}) /\ <<a, b, c, d>> # << >>
  <2>1. Len(<<a, b, c, d>>) = 4 /\ Len(<< >>) = 0 /\ <<a, b, c, d>> \in Seq({a, b, c, d})
    OBVIOUS
  <2>2. <<a, b, c, d>> # << >>
    BY <2>1, Zenon
  <2>3. Range(<<a, b, c, d>>) = {a, b, c, d}
    BY DEF Range
  <2> QED
    BY <2>1, <2>2, <2>3 DEF Lists
<1>2. ASSUME NEW a, NEW b, NEW c, NEW d, NEW e, NEW f, NEW g, NEW h, NEW i
      PROVE  /\ Lists(<<a, b, c, d, e, f, g, h, i>>, {a, b, c, d, e, f, g, h, i})
             /\ <<a, b, c, d, e, f, g, h, i>> # << >>
  <2>1. /\ Len(<<a, b, c, d, e, f, g, h, i>>) = 9 /\ Len(<< >>) = 0
        /\ <<a, b, c, d, e, f, g, h, i>> \in Seq({a, b, c, d, e, f, g, h, i})
    OBVIOUS
  <2>2. <<a, b, c, d, e, f, g, h, i>> # << >>
    BY <2>1, Zenon
  <2>3. Range(<<a, b, c, d, e, f, g, h, i>>) = {a, b, c, d, e, f, g, h, i}
    BY DEF Range
  <2> QED
    BY <2>1, <2>2, <2>3 DEF Lists
<1> QED
  BY <1>1, <1>2

\* Two lists of writes, one after the other.
LEMMA JoinLists ==
    ASSUME NEW S, NEW T, NEW p, NEW q, Lists(p, S), Lists(q, T)
    PROVE  Lists(p \o q, S \cup T) /\ (p # << >> => p \o q # << >>)
<1>1. p \in Seq(S \cup T) /\ q \in Seq(S \cup T) /\ Range(p) = S /\ Range(q) = T
  BY SeqMonotonic DEF Lists
<1>2. p \o q \in Seq(S \cup T) /\ Len(p \o q) = Len(p) + Len(q)
  BY <1>1, ConcatProperties
<1>3. Range(p \o q) = S \cup T
  BY <1>1, RangeConcatenation
<1>4. ASSUME p # << >> PROVE p \o q # << >>
  <2>1. Len(p) \in Nat \ {0} /\ Len(q) \in Nat /\ Len(<< >>) = 0
    BY <1>1, <1>4, LenProperties, EmptySeq
  <2>2. Len(p \o q) # 0
    BY <1>2, <2>1
  <2> QED
    BY <2>1, <2>2, Zenon
<1> QED
  BY <1>2, <1>3, <1>4 DEF Lists

\* What follows the first write of a list.
LEMMA TailOfJoin ==
    ASSUME NEW x, NEW z, NEW Z, Lists(z, Z)
    PROVE  Range(Tail(<<x>> \o z)) \subseteq Z
<1>1. PICK q : q = <<x>> \o z
  OBVIOUS
<1>2. <<x>> \in Seq({x} \cup Z) /\ z \in Seq({x} \cup Z) /\ Range(z) = Z
  BY SeqMonotonic DEF Lists
<1>3. /\ q \in Seq({x} \cup Z) /\ Len(q) = 1 + Len(z) /\ Len(z) \in Nat
      /\ \A i \in 1 .. Len(z) : q[i + 1] = z[i]
  BY <1>1, <1>2
<1>4. /\ DOMAIN Tail(q) = 1 .. Len(z) /\ DOMAIN z = 1 .. Len(z)
      /\ \A i \in 1 .. Len(z) : Tail(q)[i] = z[i]
  BY <1>2, <1>3
<1>5. Range(Tail(q)) \subseteq Range(z)
  BY <1>4 DEF Range
<1> QED
  BY <1>1, <1>2, <1>5

\* The writes of create_interface.
CreateTodo(r, mac) ==
    { Put("byId", r.id, r) } \cup
    (({ Put("ports", r.dev, PortMeta(r, mac)), Put("ifaces", Guest(r), IfaceValue(r, mac)),
        Put("underlay", UnderlayOf(r), UnderlayValue(r, mac)),
        Put("routes", <<r.vni, {r.ip}>>, UnderlayOf(r)) }
      \cup (IF r.ip6 # None THEN { Put("routes", <<r.vni, {r.ip6}>>, UnderlayOf(r)) } ELSE {}))
     \cup (IF r.metered THEN { Put("meter", r.dev, TRUE) } ELSE {}))

\* They are the list.
LEMMA CreateLists ==
    ASSUME NEW r, NEW mac, NEW q, q = << Put("byId", r.id, r) >> \o IfaceWrites(r, mac)
    PROVE  /\ Lists(q, CreateTodo(r, mac)) /\ q # << >>
           /\ \A w \in Range(Tail(q)) : w.tab # "byId"
<1>1. PICK x : x = Put("byId", r.id, r)
  OBVIOUS
<1>2. PICK A, p : /\ A = { Put("ports", r.dev, PortMeta(r, mac)),
                           Put("ifaces", Guest(r), IfaceValue(r, mac)),
                           Put("underlay", UnderlayOf(r), UnderlayValue(r, mac)),
                           Put("routes", <<r.vni, {r.ip}>>, UnderlayOf(r)) }
                  /\ p = << Put("ports", r.dev, PortMeta(r, mac)),
                            Put("ifaces", Guest(r), IfaceValue(r, mac)),
                            Put("underlay", UnderlayOf(r), UnderlayValue(r, mac)),
                            Put("routes", <<r.vni, {r.ip}>>, UnderlayOf(r)) >>
                  /\ Lists(p, A)
  BY LongLists
<1>3. PICK e, f : e = Put("routes", <<r.vni, {r.ip6}>>, UnderlayOf(r)) /\ f = Put("meter", r.dev, TRUE)
  OBVIOUS
<1>4. PICK S, s : /\ S = (IF r.ip6 # None THEN {e} ELSE {})
                  /\ s = (IF r.ip6 # None THEN <<e>> ELSE << >>)
                  /\ Lists(s, S)
  BY ShortLists
<1>5. PICK T, t : /\ T = (IF r.metered THEN {f} ELSE {})
                  /\ t = (IF r.metered THEN <<f>> ELSE << >>)
                  /\ Lists(t, T)
  BY ShortLists
<1>6. q = <<x>> \o ((p \o s) \o t) /\ CreateTodo(r, mac) = {x} \cup ((A \cup S) \cup T)
  BY <1>1, <1>2, <1>3, <1>4, <1>5, Zenon DEF IfaceWrites, CreateTodo
<1>7. Lists(p \o s, A \cup S)
  BY <1>2, <1>4, JoinLists
<1>8. Lists((p \o s) \o t, (A \cup S) \cup T)
  BY <1>5, <1>7, JoinLists
<1>9. Lists(<<x>>, {x}) /\ <<x>> # << >>
  BY ShortLists
<1>10. /\ Lists(<<x>> \o ((p \o s) \o t), {x} \cup ((A \cup S) \cup T))
       /\ <<x>> \o ((p \o s) \o t) # << >>
  BY <1>8, <1>9, JoinLists
<1>11. \A w \in (A \cup S) \cup T : w.tab # "byId"
  BY <1>2, <1>3, <1>4, <1>5 DEF Put
<1>12. Range(Tail(<<x>> \o ((p \o s) \o t))) \subseteq (A \cup S) \cup T
  BY <1>8, TailOfJoin
<1> QED
  BY <1>6, <1>10, <1>11, <1>12

\* The writes of detach_interface.
PurgeTodo(r) ==
    { Del("vips", VipKeys(Guest(r))[1]), Del("vips", VipKeys(Guest(r))[2]),
      Del("routes", RoutesOf(r.vni)), Del("routesShadow", RoutesOf(r.vni)) }

DetachTodo(id, r) ==
    { Del("byId", {id}), Del("prefixes", PrefixKeys("prefixes", id)),
      Del("ports", {r.dev}), Del("ifaces", {Guest(r)}), Snap(UnderlayOf(r)),
      Del("underlay", {UnderlayOf(r)}),
      Del("meter", {r.dev}), Del("dhcpMeta", {r.dev}), Del("routes", SelfRoutes(r)) }
    \cup (IF LastOfVni(id) THEN PurgeTodo(r) ELSE {})

\* They are the list.
LEMMA DetachLists ==
    ASSUME NEW id, NEW r, NEW q,
           q = DetachWrites(id, r) \o (IF LastOfVni(id) THEN PurgeWrites(r) ELSE << >>)
    PROVE  Lists(q, DetachTodo(id, r)) /\ q # << >>
<1>1. PICK S, p : /\ p = DetachWrites(id, r) /\ Lists(p, S) /\ p # << >>
                  /\ S = { Del("byId", {id}), Del("prefixes", PrefixKeys("prefixes", id)),
                           Del("ports", {r.dev}), Del("ifaces", {Guest(r)}), Snap(UnderlayOf(r)),
                           Del("underlay", {UnderlayOf(r)}), Del("meter", {r.dev}),
                           Del("dhcpMeta", {r.dev}), Del("routes", SelfRoutes(r)) }
  BY LongLists DEF DetachWrites
<1>2. Lists(PurgeWrites(r), PurgeTodo(r))
  BY LongLists DEF PurgeWrites, PurgeTodo
<1>3. PICK T, s : /\ s = (IF LastOfVni(id) THEN PurgeWrites(r) ELSE << >>)
                  /\ T = (IF LastOfVni(id) THEN PurgeTodo(r) ELSE {})
                  /\ Lists(s, T)
  BY <1>2, ShortLists
<1>4. Lists(p \o s, S \cup T) /\ p \o s # << >>
  BY <1>1, <1>3, JoinLists
<1>5. q = p \o s /\ S \cup T = DetachTodo(id, r)
  BY <1>1, <1>3, Zenon DEF DetachTodo
<1> QED
  BY <1>4, <1>5

(***************************************************************************)
(* Every table, write and copy is of its kind.                             *)
(***************************************************************************)

\* What fits depends on no variable.
LEMMA FitsSame ==
    /\ \A t, k, v : Fits(t, k, v)' <=> Fits(t, k, v)
    /\ \A w : WriteFits(w)' <=> WriteFits(w)
    /\ \A x : CallFits(x)' <=> CallFits(x)
    /\ \A s : CpuFits(s)' <=> CpuFits(s)
  BY DEF Fits, WriteFits, CallFits, CpuFits, VipEntry, NextHop, CpuState, Meta, IfaceValues,
     UnderlayValues, Underlays, Prefixes, Macs, UnderlayOf, Guest, Tables, Shadows, Maps, IdleCpu

\* An insert for which there is room.
LEMMA PutFits ==
    ASSUME TablesFit, NEW t \in Tables, NEW k, NEW v, Fits(t, k, v), Room(t, k),
           tab' = [tab EXCEPT ![t] = Upsert(@, k, v)]
    PROVE  /\ TablesFit'
           /\ DOMAIN tab'[t] = DOMAIN tab[t] \cup {k}
           /\ \A x \in DOMAIN tab[t] \cup {k} : tab'[t][x] = IF x = k THEN v ELSE tab[t][x]
           /\ \A s \in Tables \ {t} : tab'[s] = tab[s]
<1>1. /\ DOMAIN tab' = Tables /\ tab'[t] = Upsert(tab[t], k, v)
      /\ \A s \in Tables \ {t} : tab'[s] = tab[s]
  BY DEF TablesFit
<1>2. /\ DOMAIN tab'[t] = DOMAIN tab[t] \cup {k}
      /\ \A x \in DOMAIN tab[t] \cup {k} : tab'[t][x] = IF x = k THEN v ELSE tab[t][x]
  BY <1>1 DEF Upsert
<1>3. IsFiniteSet(DOMAIN tab[t])
  BY DEF TablesFit
<1>4. /\ IsFiniteSet(DOMAIN tab'[t])
      /\ Cardinality(DOMAIN tab'[t]) =
           IF k \in DOMAIN tab[t] THEN Cardinality(DOMAIN tab[t]) ELSE Cardinality(DOMAIN tab[t]) + 1
  BY <1>2, <1>3, FS_AddElement
<1>5. \A s \in Tables : IsFiniteSet(DOMAIN tab'[s])
  BY <1>1, <1>4 DEF TablesFit
<1>6. \A s \in Tables : \A x \in DOMAIN tab'[s] : Fits(s, x, tab'[s][x])
  BY <1>1, <1>2 DEF TablesFit
<1>7. \A s \in Maps : Cardinality(DOMAIN tab'[s]) <= Capacity(s)
  <2>1. ASSUME t \in Maps PROVE Cardinality(DOMAIN tab'[t]) <= Capacity(t)
    <3>1. Cardinality(DOMAIN tab[t]) <= Capacity(t) /\ Capacity(t) \in Nat
      BY <2>1, OverlayAssumption DEF TablesFit
    <3>2. Cardinality(DOMAIN tab[t]) \in Nat
      BY <1>3, FS_CardinalityType
    <3> QED
      BY <1>4, <2>1, <3>1, <3>2 DEF Room
  <2>2. Maps \subseteq Tables
    BY DEF Tables
  <2> QED
    BY <1>1, <2>1, <2>2 DEF TablesFit
<1>8. TablesFit'
  BY <1>1, <1>5, <1>6, <1>7, FitsSame DEF TablesFit
<1> QED
  BY <1>1, <1>2, <1>8

\* A removal.
LEMMA DelFits ==
    ASSUME TablesFit, NEW t \in Tables, NEW k,
           tab' = [tab EXCEPT ![t] = Restrict(@, DOMAIN @ \ {k})]
    PROVE  /\ TablesFit'
           /\ DOMAIN tab'[t] = DOMAIN tab[t] \ {k}
           /\ \A x \in DOMAIN tab[t] \ {k} : tab'[t][x] = tab[t][x]
           /\ \A s \in Tables \ {t} : tab'[s] = tab[s]
<1>1. /\ DOMAIN tab' = Tables /\ tab'[t] = Restrict(tab[t], DOMAIN tab[t] \ {k})
      /\ \A s \in Tables \ {t} : tab'[s] = tab[s]
  BY DEF TablesFit
<1>2. /\ DOMAIN tab'[t] = DOMAIN tab[t] \ {k}
      /\ \A x \in DOMAIN tab[t] \ {k} : tab'[t][x] = tab[t][x]
  BY <1>1 DEF Restrict
<1>3. IsFiniteSet(DOMAIN tab[t])
  BY DEF TablesFit
<1>4. /\ IsFiniteSet(DOMAIN tab'[t])
      /\ Cardinality(DOMAIN tab'[t]) <= Cardinality(DOMAIN tab[t])
      /\ Cardinality(DOMAIN tab'[t]) \in Nat /\ Cardinality(DOMAIN tab[t]) \in Nat
  <2>1. DOMAIN tab[t] \ {k} \in SUBSET DOMAIN tab[t]
    OBVIOUS
  <2> QED
    BY <1>2, <1>3, <2>1, FS_Subset, FS_CardinalityType
<1>5. \A s \in Tables : IsFiniteSet(DOMAIN tab'[s])
  BY <1>1, <1>4 DEF TablesFit
<1>6. \A s \in Tables : \A x \in DOMAIN tab'[s] : Fits(s, x, tab'[s][x])
  BY <1>1, <1>2 DEF TablesFit
<1>7. \A s \in Maps : Cardinality(DOMAIN tab'[s]) <= Capacity(s)
  <2>1. ASSUME t \in Maps PROVE Cardinality(DOMAIN tab'[t]) <= Capacity(t)
    <3>1. Cardinality(DOMAIN tab[t]) <= Capacity(t) /\ Capacity(t) \in Nat
      BY <2>1, OverlayAssumption DEF TablesFit
    <3> QED
      BY <1>4, <3>1
  <2>2. Maps \subseteq Tables
    BY DEF Tables
  <2> QED
    BY <1>1, <2>1, <2>2 DEF TablesFit
<1>8. TablesFit'
  BY <1>1, <1>5, <1>6, <1>7, FitsSame DEF TablesFit
<1> QED
  BY <1>1, <1>2, <1>8

\* A task that starts.
LEMMA StartFits ==
    ASSUME NEW S, Lists(task'.ops, S), task'.ops # << >>, \A w \in S : WriteFits(w),
           task' \in [ops : {task'.ops}, guest : {task'.guest}, dev : Devices \cup {None},
                     detach : BOOLEAN, then : SUBSET [op : {"dhcp"}, id : Ids]]
    PROVE  TaskFits' /\ Todo' = S /\ ~Free'
<1>1. task'.ops \in Seq(S) /\ Todo' = S
  BY DEF Lists, Todo
<1>2. ~Free'
  BY FreeFacts DEF Free
<1>3. task' \in [ops : Seq(Todo'), guest : {task'.guest}, dev : Devices \cup {None},
                 detach : BOOLEAN, then : SUBSET [op : {"dhcp"}, id : Ids]]
  BY <1>1
<1> QED
  BY <1>1, <1>2, <1>3, FitsSame DEF TaskFits

\* The fields of a request and what is derived from them.
LEMMA RequestFacts ==
    ASSUME NEW r \in Requests
    PROVE  /\ r.id \in Ids /\ r.vni \in Vnis /\ r.ip \in Addrs /\ r.dev \in Devices
           /\ r.ip6 \in Addrs \cup {None} /\ r.metered \in BOOLEAN
           /\ UnderlayOf(r) \in Underlays /\ Guest(r) \in Vnis \X Addrs
           /\ Guest(r)[1] = r.vni /\ Guest(r)[2] = r.ip
           /\ VipOf(Guest(r)) \in Addrs
           /\ <<r.vni, {r.ip}>> \in Vnis \X Prefixes
           /\ r.ip6 # None => <<r.vni, {r.ip6}>> \in Vnis \X Prefixes
<1>1. r \in Request
  BY OverlayAssumption
<1>2. /\ r.id \in Ids /\ r.vni \in Vnis /\ r.ip \in Addrs /\ r.dev \in Devices
      /\ r.ip6 \in Addrs \cup {None} /\ r.metered \in BOOLEAN /\ r.pref \in Preferred \cup {None}
  BY <1>1 DEF Request
<1>3. UnderlayOf(r) \in Underlays
  BY <1>2 DEF UnderlayOf, Underlays
<1>4. Guest(r) \in Vnis \X Addrs /\ Guest(r)[1] = r.vni /\ Guest(r)[2] = r.ip
  BY <1>2 DEF Guest
<1>5. VipOf(Guest(r)) \in Addrs
  BY OverlayAssumption
<1>6. \A a \in Addrs : {a} \in Prefixes
  BY DEF Prefixes
<1> QED
  BY <1>2, <1>3, <1>4, <1>5, <1>6

\* The values that are written for an interface.
LEMMA ValueFacts ==
    ASSUME NEW r \in Requests, NEW mac \in Macs
    PROVE  /\ PortMeta(r, mac) \in Meta /\ Owns(r, r.dev, PortMeta(r, mac))
           /\ IfaceValue(r, mac) \in IfaceValues
           /\ UnderlayValue(r, mac) \in UnderlayValues /\ UnderlayValue(r, mac).dev = r.dev
  BY RequestFacts DEF PortMeta, IfaceValue, UnderlayValue, Meta, IfaceValues, UnderlayValues, Owns

\* The records of the interfaces.
LEMMA RecordFacts ==
    ASSUME TypeInv, NEW id \in DOMAIN ById
    PROVE  ById[id] \in Requests /\ ById[id].id = id /\ id \in Ids
<1>1. Fits("byId", id, tab["byId"][id])
  BY DEF TypeInv, TablesFit, ById, Tables, Shadows
<1> QED
  BY <1>1 DEF Fits, ById

\* The writes of the control plane fit the tables.
LEMMA WritesFit ==
    /\ \A t \in Tables : \A k, v : Fits(t, k, v) => WriteFits(Put(t, k, v))
    /\ \A t \in Tables : \A K : WriteFits(Del(t, K))
    /\ \A u \in Underlays : WriteFits(Snap(u))
  BY DEF WriteFits, Put, Del, Snap

\* create_interface takes the mutex.
LEMMA CreateStarts ==
    ASSUME TypeInv, NEW r \in Requests, CreateInterface(r)
    PROVE  /\ TaskFits' /\ ~Free' /\ task'.dev = r.dev /\ task'.detach = FALSE
           /\ task'.guest = Guest(r)
           /\ EffectiveMac(UnderlayOf(r)) \in Macs
           /\ Todo' = CreateTodo(r, EffectiveMac(UnderlayOf(r)))
           /\ RecordFirst'
<1>1. PICK mac : mac = EffectiveMac(UnderlayOf(r))
  OBVIOUS
<1>2. mac \in Macs
  <2>1. \A u \in DOMAIN tab["learned"] : Fits("learned", u, tab["learned"][u])
    BY DEF TypeInv, TablesFit, Tables, Shadows
  <2> QED
    BY <1>1, <2>1 DEF EffectiveMac, Fits, Macs
<1>3. PICK q : q = << Put("byId", r.id, r) >> \o IfaceWrites(r, mac)
  OBVIOUS
<1>4. /\ Lists(q, CreateTodo(r, mac)) /\ q # << >>
      /\ \A w \in Range(Tail(q)) : w.tab # "byId"
  BY <1>3, CreateLists
<1>5. task' = [ops |-> q, guest |-> Guest(r), dev |-> r.dev, detach |-> FALSE,
               then |-> {[op |-> "dhcp", id |-> r.id]}]
  BY <1>1, <1>3 DEF CreateInterface, Task, FreeTask
<1>6. \A w \in CreateTodo(r, mac) : WriteFits(w)
  <2>1. NextHop(r.vni, UnderlayOf(r))
    BY DEF NextHop
  <2>2. /\ Fits("byId", r.id, r)
        /\ Fits("ports", r.dev, PortMeta(r, mac))
        /\ Fits("ifaces", Guest(r), IfaceValue(r, mac))
        /\ Fits("underlay", UnderlayOf(r), UnderlayValue(r, mac))
        /\ Fits("meter", r.dev, TRUE)
    BY <1>2, RequestFacts, ValueFacts DEF Fits
  <2>3. /\ Fits("routes", <<r.vni, {r.ip}>>, UnderlayOf(r))
        /\ r.ip6 # None => Fits("routes", <<r.vni, {r.ip6}>>, UnderlayOf(r))
    BY <2>1, RequestFacts DEF Fits
  <2>4. {"byId", "ports", "ifaces", "underlay", "meter", "routes"} \subseteq Tables
    BY DEF Tables, Maps, Shadows
  <2> QED
    BY <2>2, <2>3, <2>4, WritesFit DEF CreateTodo
<1>7. r.dev \in Devices \cup {None} /\ r.id \in Ids
  BY RequestFacts
<1>8. task' \in [ops : {task'.ops}, guest : {task'.guest}, dev : Devices \cup {None},
                detach : BOOLEAN, then : SUBSET [op : {"dhcp"}, id : Ids]]
  <2>1. {[op |-> "dhcp", id |-> r.id]} \in SUBSET [op : {"dhcp"}, id : Ids]
    <3>1. PICK z \in [op : {"dhcp"}, id : Ids] : z = [op |-> "dhcp", id |-> r.id]
      BY <1>7
    <3> QED
      BY <3>1
  <2> QED
    BY <1>5, <1>7, <2>1
<1>9. task'.ops = q /\ task'.dev = r.dev /\ task'.detach = FALSE /\ task'.guest = Guest(r)
  BY <1>5
<1>10. TaskFits' /\ ~Free' /\ Todo' = CreateTodo(r, mac)
  BY <1>4, <1>6, <1>8, <1>9, StartFits
<1>11. RecordFirst'
  BY <1>4, <1>9 DEF RecordFirst
<1> QED
  BY <1>1, <1>2, <1>9, <1>10, <1>11

\* detach_interface takes the mutex.
LEMMA DetachStarts ==
    ASSUME TypeInv, NEW id \in Ids, DetachInterface(id)
    PROVE  /\ id \in DOMAIN ById /\ ById[id] \in Requests
           /\ TaskFits' /\ ~Free' /\ task'.dev = ById[id].dev /\ task'.detach = TRUE
           /\ task'.guest = Guest(ById[id])
           /\ Todo' = DetachTodo(id, ById[id])
<1>1. PICK r : r = ById[id]
  OBVIOUS
<1>2. id \in DOMAIN ById /\ r \in Requests
  BY <1>1, RecordFacts DEF DetachInterface
<1>3. PICK q : q = DetachWrites(id, r) \o (IF LastOfVni(id) THEN PurgeWrites(r) ELSE << >>)
  OBVIOUS
<1>4. Lists(q, DetachTodo(id, r)) /\ q # << >>
  BY <1>3, DetachLists
<1>5. task' = [ops |-> q, guest |-> Guest(r), dev |-> r.dev, detach |-> TRUE, then |-> {}]
  BY <1>1, <1>3 DEF DetachInterface, Task, FreeTask
<1>6. \A w \in DetachTodo(id, r) : WriteFits(w)
  <2>1. {"byId", "prefixes", "ports", "ifaces", "underlay", "meter", "dhcpMeta", "routes", "vips",
         "routesShadow"} \subseteq Tables
    BY DEF Tables, Maps, Shadows
  <2> QED
    BY <1>2, <2>1, WritesFit, RequestFacts DEF DetachTodo, PurgeTodo
<1>7. task' \in [ops : {task'.ops}, guest : {task'.guest}, dev : Devices \cup {None},
                detach : BOOLEAN, then : SUBSET [op : {"dhcp"}, id : Ids]]
  BY <1>2, <1>5, RequestFacts
<1>8. task'.ops = q /\ task'.dev = r.dev /\ task'.detach = TRUE /\ task'.guest = Guest(r)
  BY <1>5
<1>9. TaskFits' /\ ~Free' /\ Todo' = DetachTodo(id, r)
  BY <1>4, <1>6, <1>7, <1>8, StartFits
<1> QED
  BY <1>1, <1>2, <1>8, <1>9

\* Any other operation that takes the mutex.
LEMMA TaskStarts ==
    ASSUME NEW q, NEW S, NEW g, Lists(q, S), q # << >>, \A w \in S : WriteFits(w),
           task' = Task(q, g)
    PROVE  /\ TaskFits' /\ ~Free' /\ task'.detach = FALSE /\ task'.dev = None /\ task'.guest = g
           /\ Todo' = S
<1>1. task' = [ops |-> q, guest |-> g, dev |-> None, detach |-> FALSE, then |-> {}]
  BY DEF Task, FreeTask
<1>2. task' \in [ops : {task'.ops}, guest : {task'.guest}, dev : Devices \cup {None},
                detach : BOOLEAN, then : SUBSET [op : {"dhcp"}, id : Ids]]
  BY <1>1
<1>3. task'.ops = q /\ task'.dev = None /\ task'.detach = FALSE /\ task'.guest = g
  BY <1>1
<1>4. TaskFits' /\ ~Free' /\ Todo' = S
  BY <1>2, <1>3, StartFits
<1> QED
  BY <1>3, <1>4

\* set_dhcp_meta.
LEMMA DhcpStarts ==
    ASSUME TypeInv, NEW x, SetDhcpMeta(x), x.id \in DOMAIN ById
    PROVE  /\ TaskFits' /\ ~Free' /\ task'.detach = FALSE /\ task'.dev = None
           /\ Todo' = {Put("dhcpMeta", ById[x.id].dev, x.id)}
<1>1. Fits("dhcpMeta", ById[x.id].dev, x.id) /\ "dhcpMeta" \in Tables
  BY RecordFacts, RequestFacts DEF Fits, Tables, Maps
<1>2. WriteFits(Put("dhcpMeta", ById[x.id].dev, x.id))
  BY <1>1, WritesFit
<1>3. task' = Task(<< Put("dhcpMeta", ById[x.id].dev, x.id) >>, Guest(ById[x.id]))
  BY DEF SetDhcpMeta
<1>4. PICK a : a = Put("dhcpMeta", ById[x.id].dev, x.id)
  OBVIOUS
<1>5. Lists(<<a>>, {a}) /\ <<a>> # << >> /\ \A w \in {a} : WriteFits(w)
  BY <1>2, <1>4, ShortLists
<1>6. PICK S : S = {a}
  OBVIOUS
<1>7. TaskFits' /\ ~Free' /\ task'.detach = FALSE /\ task'.dev = None /\ Todo' = S
  BY <1>3, <1>4, <1>5, <1>6, TaskStarts
<1> QED
  BY <1>4, <1>6, <1>7

\* The list of an operation.
LEMMA TaskOps ==
    ASSUME NEW q, NEW g, task' = Task(q, g)
    PROVE  task'.ops = q
  BY DEF Task, FreeTask

\* create_route, past its check.
LEMMA RouteStarts ==
    ASSUME TypeInv, NEW x \in calls, CreateRoute(x), <<x.vni, x.pfx>> \notin DOMAIN tab["routesShadow"]
    PROVE  /\ TaskFits' /\ ~Free' /\ task'.detach = FALSE /\ task'.dev = None
           /\ x.vni \in Vnis /\ x.pfx \in Routes /\ x.nh \in Remotes
           /\ task'.ops = << Put("routes", <<x.vni, x.pfx>>, x.nh), Put("routesShadow", <<x.vni, x.pfx>>, x.nh) >>
           /\ Todo' = { Put("routes", <<x.vni, x.pfx>>, x.nh), Put("routesShadow", <<x.vni, x.pfx>>, x.nh) }
<1>1. x.vni \in Vnis /\ x.pfx \in Routes /\ x.nh \in Remotes
  BY DEF TypeInv, CallFits, CreateRoute
<1>2. /\ Fits("routes", <<x.vni, x.pfx>>, x.nh) /\ Fits("routesShadow", <<x.vni, x.pfx>>, x.nh)
      /\ {"routes", "routesShadow"} \subseteq Tables
  BY <1>1 DEF Fits, Tables, Maps, Shadows, NextHop, Prefixes
<1>3. PICK a, b : a = Put("routes", <<x.vni, x.pfx>>, x.nh) /\ b = Put("routesShadow", <<x.vni, x.pfx>>, x.nh)
  OBVIOUS
<1>4. WriteFits(a) /\ WriteFits(b)
  BY <1>2, <1>3, WritesFit
<1>5. task' = Task(<<a, b>>, None)
  BY <1>3 DEF CreateRoute
<1>6. Lists(<<a, b>>, {a, b}) /\ <<a, b>> # << >> /\ \A w \in {a, b} : WriteFits(w)
  BY <1>4, ShortLists
<1>7. PICK S : S = {a, b}
  OBVIOUS
<1>8. /\ TaskFits' /\ ~Free' /\ task'.detach = FALSE /\ task'.dev = None
      /\ Todo' = S
  BY <1>5, <1>6, <1>7, TaskStarts
<1>9. task'.ops = <<a, b>>
  BY <1>5, TaskOps
<1> QED
  BY <1>1, <1>3, <1>7, <1>8, <1>9

\* delete_route, and each deletion of reset_vni.
LEMMA UnrouteStarts ==
    ASSUME NEW k, task' = Task(RouteWrites(k), None)
    PROVE  /\ TaskFits' /\ ~Free' /\ task'.detach = FALSE /\ task'.dev = None
           /\ Todo' = { Del("routesShadow", {k}), Del("routes", {k}) }
<1>1. PICK a, b : a = Del("routesShadow", {k}) /\ b = Del("routes", {k})
  OBVIOUS
<1>2. WriteFits(a) /\ WriteFits(b)
  BY <1>1, WritesFit DEF Tables, Maps, Shadows
<1>3. Lists(<<a, b>>, {a, b}) /\ <<a, b>> # << >> /\ \A w \in {a, b} : WriteFits(w)
  BY <1>2, ShortLists
<1>4. task' = Task(<<a, b>>, None)
  BY <1>1 DEF RouteWrites
<1>5. PICK S : S = {a, b}
  OBVIOUS
<1>6. TaskFits' /\ ~Free' /\ task'.detach = FALSE /\ task'.dev = None /\ Todo' = S
  BY <1>3, <1>4, <1>5, TaskStarts
<1> QED
  BY <1>1, <1>5, <1>6

\* An operation of one write.
LEMMA OneStarts ==
    ASSUME NEW a, NEW g, WriteFits(a), task' = Task(<<a>>, g)
    PROVE  /\ TaskFits' /\ ~Free' /\ task'.detach = FALSE /\ task'.dev = None /\ task'.guest = g
           /\ Todo' = {a}
<1>1. PICK S : S = {a}
  OBVIOUS
<1>2. Lists(<<a>>, S) /\ <<a>> # << >> /\ \A w \in S : WriteFits(w)
  BY <1>1, ShortLists
<1>3. /\ TaskFits' /\ ~Free' /\ task'.detach = FALSE /\ task'.dev = None /\ task'.guest = g
      /\ Todo' = S
  BY <1>2, TaskStarts
<1> QED
  BY <1>1, <1>3

\* An operation of two writes.
LEMMA TwoStarts ==
    ASSUME NEW a, NEW b, NEW g, WriteFits(a), WriteFits(b), task' = Task(<<a, b>>, g)
    PROVE  /\ TaskFits' /\ ~Free' /\ task'.detach = FALSE /\ task'.dev = None /\ task'.guest = g
           /\ Todo' = {a, b}
<1>1. PICK S : S = {a, b}
  OBVIOUS
<1>2. Lists(<<a, b>>, S) /\ <<a, b>> # << >> /\ \A w \in S : WriteFits(w)
  BY <1>1, ShortLists
<1>3. /\ TaskFits' /\ ~Free' /\ task'.detach = FALSE /\ task'.dev = None /\ task'.guest = g
      /\ Todo' = S
  BY <1>2, TaskStarts
<1> QED
  BY <1>1, <1>3

\* The operations on prefixes.
LEMMA PrefixStarts ==
    ASSUME TypeInv, NEW id \in DOMAIN ById, NEW p \in Aliases
    PROVE  /\ AddPrefix(id, p) =>
                /\ TaskFits' /\ ~Free' /\ task'.detach = FALSE /\ task'.dev = None
                /\ Todo' = { Put("routes", <<ById[id].vni, p>>, UnderlayOf(ById[id])),
                             Put("prefixes", <<id, p>>, UnderlayOf(ById[id])) }
                /\ task'.ops = << Put("routes", <<ById[id].vni, p>>, UnderlayOf(ById[id])),
                                  Put("prefixes", <<id, p>>, UnderlayOf(ById[id])) >>
           /\ DelPrefix(id, p) =>
                /\ TaskFits' /\ ~Free' /\ task'.detach = FALSE /\ task'.dev = None
                /\ Todo' = { Del("prefixes", {<<id, p>>}), Del("routes", {<<ById[id].vni, p>>}) }
           /\ AddLbPrefix(id, p) =>
                /\ TaskFits' /\ ~Free' /\ task'.detach = FALSE /\ task'.dev = None
                /\ Todo' = { Put("lbPrefixes", <<id, p>>, UnderlayOf(ById[id])) }
           /\ DelLbPrefix(id, p) =>
                /\ TaskFits' /\ ~Free' /\ task'.detach = FALSE /\ task'.dev = None
                /\ Todo' = { Del("lbPrefixes", {<<id, p>>}) }
<1>1. PICK r \in Requests : r = ById[id] /\ id \in Ids
  BY RecordFacts
<1>2. {"routes", "prefixes", "lbPrefixes"} \subseteq Tables
  BY DEF Tables, Maps, Shadows
<1>3. /\ Fits("routes", <<r.vni, p>>, UnderlayOf(r)) /\ Fits("prefixes", <<id, p>>, UnderlayOf(r))
      /\ Fits("lbPrefixes", <<id, p>>, UnderlayOf(r))
  BY <1>1, RequestFacts DEF Fits, NextHop, Prefixes
<1>4. /\ WriteFits(Put("routes", <<r.vni, p>>, UnderlayOf(r)))
      /\ WriteFits(Put("prefixes", <<id, p>>, UnderlayOf(r)))
      /\ WriteFits(Put("lbPrefixes", <<id, p>>, UnderlayOf(r)))
      /\ WriteFits(Del("prefixes", {<<id, p>>})) /\ WriteFits(Del("routes", {<<r.vni, p>>}))
      /\ WriteFits(Del("lbPrefixes", {<<id, p>>}))
  BY <1>2, <1>3, WritesFit
<1>5. ASSUME AddPrefix(id, p)
      PROVE  /\ TaskFits' /\ ~Free' /\ task'.detach = FALSE /\ task'.dev = None
             /\ Todo' = { Put("routes", <<r.vni, p>>, UnderlayOf(r)),
                          Put("prefixes", <<id, p>>, UnderlayOf(r)) }
             /\ task'.ops = << Put("routes", <<r.vni, p>>, UnderlayOf(r)),
                               Put("prefixes", <<id, p>>, UnderlayOf(r)) >>
  <2>1. PICK a, b : /\ a = Put("routes", <<r.vni, p>>, UnderlayOf(r))
                    /\ b = Put("prefixes", <<id, p>>, UnderlayOf(r))
    OBVIOUS
  <2>2. task' = Task(<<a, b>>, None) /\ WriteFits(a) /\ WriteFits(b)
    BY <1>1, <1>4, <1>5, <2>1 DEF AddPrefix
  <2>3. TaskFits' /\ ~Free' /\ task'.detach = FALSE /\ task'.dev = None /\ Todo' = {a, b}
    BY <2>2, TwoStarts
  <2>4. task'.ops = <<a, b>>
    BY <2>2, TaskOps
  <2> QED
    BY <2>1, <2>3, <2>4
<1>6. ASSUME DelPrefix(id, p)
      PROVE  /\ TaskFits' /\ ~Free' /\ task'.detach = FALSE /\ task'.dev = None
             /\ Todo' = { Del("prefixes", {<<id, p>>}), Del("routes", {<<r.vni, p>>}) }
  BY <1>1, <1>4, <1>6, TwoStarts DEF DelPrefix
<1>7. ASSUME AddLbPrefix(id, p)
      PROVE  /\ TaskFits' /\ ~Free' /\ task'.detach = FALSE /\ task'.dev = None
             /\ Todo' = { Put("lbPrefixes", <<id, p>>, UnderlayOf(r)) }
  BY <1>1, <1>4, <1>7, OneStarts DEF AddLbPrefix
<1>8. ASSUME DelLbPrefix(id, p)
      PROVE  /\ TaskFits' /\ ~Free' /\ task'.detach = FALSE /\ task'.dev = None
             /\ Todo' = { Del("lbPrefixes", {<<id, p>>}) }
  BY <1>1, <1>4, <1>8, OneStarts DEF DelLbPrefix
<1> QED
  BY <1>1, <1>5, <1>6, <1>7, <1>8

\* The operations on VIPs.
LEMMA VipStarts ==
    ASSUME TypeInv, NEW id \in DOMAIN ById, NEW g, g = Guest(ById[id])
    PROVE  /\ CreateVip(id) =>
                /\ TaskFits' /\ ~Free' /\ task'.detach = FALSE /\ task'.dev = None /\ task'.guest = g
                /\ Todo' = { Put("vips", g, VipOf(g)), Put("vips", <<g[1], VipOf(g)>>, g[2]) }
           /\ DeleteVip(id) =>
                /\ TaskFits' /\ ~Free' /\ task'.detach = FALSE /\ task'.dev = None /\ task'.guest = g
                /\ Todo' = { Del("vips", {<<g[1], tab["vips"][g]>>}), Del("vips", {g}) }
<1>1. PICK r \in Requests : r = ById[id]
  BY RecordFacts
<1>2. "vips" \in Tables
  BY DEF Tables, Maps
<1>3. /\ Fits("vips", g, VipOf(g)) /\ Fits("vips", <<g[1], VipOf(g)>>, g[2])
  BY <1>1, RequestFacts DEF Fits, VipEntry
<1>4. /\ WriteFits(Put("vips", g, VipOf(g))) /\ WriteFits(Put("vips", <<g[1], VipOf(g)>>, g[2]))
      /\ WriteFits(Del("vips", {<<g[1], tab["vips"][g]>>})) /\ WriteFits(Del("vips", {g}))
  BY <1>2, <1>3, WritesFit
<1>5. ASSUME CreateVip(id)
      PROVE  /\ TaskFits' /\ ~Free' /\ task'.detach = FALSE /\ task'.dev = None /\ task'.guest = g
             /\ Todo' = { Put("vips", g, VipOf(g)), Put("vips", <<g[1], VipOf(g)>>, g[2]) }
  <2>1. PICK a, b : a = Put("vips", g, VipOf(g)) /\ b = Put("vips", <<g[1], VipOf(g)>>, g[2])
    OBVIOUS
  <2>2. task' = Task(<<a, b>>, g) /\ WriteFits(a) /\ WriteFits(b)
    BY <1>4, <1>5, <2>1 DEF CreateVip
  <2>3. /\ TaskFits' /\ ~Free' /\ task'.detach = FALSE /\ task'.dev = None /\ task'.guest = g
        /\ Todo' = {a, b}
    BY <2>2, TwoStarts
  <2> QED
    BY <2>1, <2>3
<1>6. ASSUME DeleteVip(id)
      PROVE  /\ TaskFits' /\ ~Free' /\ task'.detach = FALSE /\ task'.dev = None /\ task'.guest = g
             /\ Todo' = { Del("vips", {<<g[1], tab["vips"][g]>>}), Del("vips", {g}) }
  <2>1. PICK a, b : a = Del("vips", {<<g[1], tab["vips"][g]>>}) /\ b = Del("vips", {g})
    OBVIOUS
  <2>2. task' = Task(<<a, b>>, g) /\ WriteFits(a) /\ WriteFits(b)
    BY <1>4, <1>6, <2>1 DEF DeleteVip, VipWrites, VipKeys
  <2>3. /\ TaskFits' /\ ~Free' /\ task'.detach = FALSE /\ task'.dev = None /\ task'.guest = g
        /\ Todo' = {a, b}
    BY <2>2, TwoStarts
  <2> QED
    BY <2>1, <2>3
<1> QED
  BY <1>5, <1>6

\* What a step leaves alone stays of its kind.
LEMMA SameFits ==
    /\ TablesFit /\ UNCHANGED tab => TablesFit'
    /\ TaskFits /\ UNCHANGED task => TaskFits'
    /\ (DOMAIN cpu = Cpus /\ \A c \in Cpus : CpuFits(cpu[c])) /\ UNCHANGED cpu =>
          DOMAIN cpu' = Cpus /\ \A c \in Cpus : CpuFits(cpu[c])'
<1>1. TablesFit /\ UNCHANGED tab => TablesFit'
  BY FitsSame DEF TablesFit
<1>2. TaskFits /\ UNCHANGED task => TaskFits'
  BY FitsSame DEF TaskFits, Todo, Free
<1>3. (DOMAIN cpu = Cpus /\ \A c \in Cpus : CpuFits(cpu[c])) /\ UNCHANGED cpu =>
          DOMAIN cpu' = Cpus /\ \A c \in Cpus : CpuFits(cpu[c])'
  <2> SUFFICES ASSUME DOMAIN cpu = Cpus, \A c \in Cpus : CpuFits(cpu[c]), UNCHANGED cpu
               PROVE  DOMAIN cpu' = Cpus /\ \A c \in Cpus : CpuFits(cpu[c])'
    OBVIOUS
  <2>1. \A c \in Cpus : CpuFits(cpu[c])' <=> CpuFits(cpu[c])
    BY DEF CpuFits, NextHop, CpuState, Meta, IfaceValues,
       UnderlayValues, Underlays, Macs, UnderlayOf, IdleCpu
  <2> QED
    BY <2>1
<1> QED
  BY <1>1, <1>2, <1>3

\* A handler's second part is a call of its kind.
LEMMA ThenFits ==
    ASSUME TypeInv, NEW C, C \subseteq calls \cup task.then
    PROVE  \A x \in C : CallFits(x)
<1>1. \A x \in task.then : x.op = "dhcp"
  BY DEF TypeInv, TaskFits
<1> QED
  BY <1>1 DEF TypeInv, CallFits

\* An insert of the operation that holds the mutex.
LEMMA PutEffect ==
    ASSUME TypeInv, WritePut, NEW w, w = Head(task.ops)
    PROVE  /\ TypeInv'
           /\ w \in Todo /\ w.op = "put" /\ w.tab \in Tables /\ Fits(w.tab, w.key, w.val)
           /\ Todo = {w} \cup Todo'
           /\ DOMAIN tab'[w.tab] = DOMAIN tab[w.tab] \cup {w.key}
           /\ \A x \in DOMAIN tab[w.tab] \cup {w.key} :
                 tab'[w.tab][x] = IF x = w.key THEN w.val ELSE tab[w.tab][x]
           /\ \A s \in Tables \ {w.tab} : tab'[s] = tab[s]
           /\ task'.detach => task.detach
           /\ Todo' = {} \/ task'.guest = task.guest
<1>1. ~Free /\ TaskFits /\ TablesFit /\ Advance /\ UNCHANGED <<cpu, bounds, history>>
  BY DEF WritePut, TypeInv
<1>2. w \in Todo /\ WriteFits(w) /\ w.op = "put"
  BY <1>1, HeadFacts DEF WritePut
<1>3. w.tab \in Tables /\ Fits(w.tab, w.key, w.val)
  BY <1>2 DEF WriteFits
<1>4. Room(w.tab, w.key) /\ tab' = [tab EXCEPT ![w.tab] = Upsert(@, w.key, w.val)]
  BY DEF WritePut
<1>5. /\ TablesFit'
      /\ DOMAIN tab'[w.tab] = DOMAIN tab[w.tab] \cup {w.key}
      /\ \A x \in DOMAIN tab[w.tab] \cup {w.key} :
            tab'[w.tab][x] = IF x = w.key THEN w.val ELSE tab[w.tab][x]
      /\ \A s \in Tables \ {w.tab} : tab'[s] = tab[s]
  BY <1>1, <1>3, <1>4, PutFits
<1>6. TaskFits' /\ Todo = {w} \cup Todo' /\ calls' \subseteq calls \cup task.then
      /\ (task'.detach => task.detach) /\ (Todo' = {} \/ task'.guest = task.guest)
  BY <1>1, AdvanceFacts
<1>7. TypeInv'
  BY <1>1, <1>5, <1>6, SameFits, ThenFits, FitsSame DEF TypeInv, bounds
<1> QED
  BY <1>2, <1>3, <1>5, <1>6, <1>7

\* An insert that fails.
LEMMA FailEffect ==
    ASSUME TypeInv, WriteFails
    PROVE  TypeInv' /\ task' = FreeTask /\ Todo' = {} /\ Free'
<1>1. TaskFits'
  <2>1. << >> \in Seq({})
    OBVIOUS
  <2>2. Todo' = {} /\ Free'
    BY FreeFacts DEF WriteFails, Todo, Free
  <2> QED
    BY <2>1, <2>2 DEF TaskFits, Free, FreeTask
<1> QED
  BY <1>1, SameFits, FitsSame, FreeFacts DEF TypeInv, WriteFails, Todo, Free, bounds

\* A removal, or the end of removals.
LEMMA DelEffect ==
    ASSUME TypeInv, WriteDel
    PROVE  /\ TypeInv'
           /\ Head(task.ops) \in Todo /\ Head(task.ops).op = "del"
           /\ Todo' \subseteq Todo /\ Todo \subseteq {Head(task.ops)} \cup Todo'
           /\ \A s \in Tables : /\ DOMAIN tab'[s] \subseteq DOMAIN tab[s]
                                /\ \A x \in DOMAIN tab'[s] : tab'[s][x] = tab[s][x]
                                /\ \A x \in DOMAIN tab[s] : x \in DOMAIN tab'[s] \/ Dropping(s, x)
                                /\ \A x \in DOMAIN tab'[s] : Dropping(s, x) <=> Dropping(s, x)'
           /\ task'.detach => task.detach
           /\ Todo' = {} \/ (task'.dev = task.dev /\ task'.detach = task.detach)
<1>1. ~Free /\ TaskFits /\ TablesFit /\ UNCHANGED <<cpu, bounds, history>>
  BY DEF WriteDel, TypeInv
<1>2. PICK w : w = Head(task.ops)
  OBVIOUS
<1>3. w \in Todo /\ WriteFits(w) /\ w.op = "del" /\ w.tab \in Tables
  BY <1>1, <1>2, HeadFacts DEF WriteDel, WriteFits
<1>4. PICK K : K = w.keys \cap DOMAIN tab[w.tab]
  OBVIOUS
<1>5. ASSUME Advance
      PROVE  /\ TaskFits' /\ \A x \in calls' : CallFits(x)
             /\ Todo = {w} \cup Todo'
             /\ task'.detach => task.detach
             /\ Todo' = {} \/ (task'.dev = task.dev /\ task'.detach = task.detach)
  BY <1>1, <1>2, <1>5, AdvanceFacts, ThenFits
<1>6. CASE K = {} /\ Advance /\ UNCHANGED tab
  <2>1. TypeInv'
    BY <1>1, <1>5, <1>6, SameFits, FitsSame DEF TypeInv, bounds
  <2>2. ASSUME NEW s \in Tables, NEW x \in DOMAIN tab[s] PROVE Dropping(s, x) <=> Dropping(s, x)'
    BY <1>3, <1>4, <1>5, <1>6, <2>2 DEF Dropping
  <2> QED
    BY <1>2, <1>3, <1>5, <1>6, <2>1, <2>2
<1>7. CASE \E k \in K : /\ tab' = [tab EXCEPT ![w.tab] = Restrict(@, DOMAIN @ \ {k})]
                        /\ IF K = {k} THEN Advance ELSE UNCHANGED <<task, calls>>
  <2>1. PICK k \in K : /\ tab' = [tab EXCEPT ![w.tab] = Restrict(@, DOMAIN @ \ {k})]
                       /\ IF K = {k} THEN Advance ELSE UNCHANGED <<task, calls>>
    BY <1>7
  <2>2. /\ TablesFit'
        /\ DOMAIN tab'[w.tab] = DOMAIN tab[w.tab] \ {k}
        /\ \A x \in DOMAIN tab[w.tab] \ {k} : tab'[w.tab][x] = tab[w.tab][x]
        /\ \A s \in Tables \ {w.tab} : tab'[s] = tab[s]
    BY <1>1, <1>3, <2>1, DelFits
  <2>3. ASSUME UNCHANGED <<task, calls>>
        PROVE  TaskFits' /\ (\A x \in calls' : CallFits(x)) /\ Todo' = Todo
    BY <1>1, <2>3, SameFits DEF TypeInv, Todo
  <2>4. /\ TaskFits' /\ \A x \in calls' : CallFits(x)
        /\ Todo' \subseteq Todo /\ Todo \subseteq {w} \cup Todo'
        /\ task'.detach => task.detach
        /\ Todo' = {} \/ (task'.dev = task.dev /\ task'.detach = task.detach)
    BY <1>5, <2>1, <2>3
  <2>5. TypeInv'
    BY <1>1, <2>2, <2>4, SameFits, FitsSame DEF TypeInv, bounds
  <2>6. ASSUME NEW s \in Tables, NEW x \in DOMAIN tab'[s] PROVE Dropping(s, x) <=> Dropping(s, x)'
    <3>1. CASE Todo' = Todo
      BY <3>1 DEF Dropping
    <3>2. CASE Todo' # Todo
      <4>1. K = {k} /\ Todo = {w} \cup Todo'
        BY <1>5, <2>1, <2>3, <3>2
      <4>2. s = w.tab => x \notin w.keys
        BY <1>4, <2>2, <2>6, <4>1
      <4> QED
        BY <4>1, <4>2 DEF Dropping
    <3> QED
      BY <3>1, <3>2
  <2>7. ASSUME NEW s \in Tables, NEW x \in DOMAIN tab[s] PROVE x \in DOMAIN tab'[s] \/ Dropping(s, x)
    BY <1>3, <1>4, <2>1, <2>2, <2>7 DEF Dropping
  <2>8. ASSUME NEW s \in Tables
        PROVE  DOMAIN tab'[s] \subseteq DOMAIN tab[s] /\ \A x \in DOMAIN tab'[s] : tab'[s][x] = tab[s][x]
    BY <2>2, <2>8
  <2> QED
    BY <1>2, <1>3, <2>4, <2>5, <2>6, <2>7, <2>8
<1> QED
  BY <1>2, <1>4, <1>6, <1>7 DEF WriteDel

\* detach_interface keeps the MAC.
LEMMA SnapEffect ==
    ASSUME TypeInv, WriteSnap
    PROVE  /\ TypeInv' /\ Head(task.ops) \in Todo /\ Head(task.ops).op = "snap"
           /\ Todo = {Head(task.ops)} \cup Todo'
           /\ \A s \in Tables \ {"learned"} : tab'[s] = tab[s]
           /\ task'.detach => task.detach
           /\ Todo' = {} \/ (task'.dev = task.dev /\ task'.detach = task.detach)
<1>1. ~Free /\ TaskFits /\ TablesFit /\ Advance /\ UNCHANGED <<cpu, bounds, history>>
  BY DEF WriteSnap, TypeInv
<1>2. PICK u : u = Head(task.ops).ul
  OBVIOUS
<1>3. Head(task.ops) \in Todo /\ Head(task.ops).op = "snap" /\ u \in Underlays
  BY <1>1, <1>2, HeadFacts DEF WriteSnap, WriteFits
<1>4. TablesFit' /\ \A s \in Tables \ {"learned"} : tab'[s] = tab[s]
  <2>1. CASE u \in DOMAIN tab["underlay"]
    <3>1. PICK m : m = tab["underlay"][u].mac
      OBVIOUS
    <3>2. tab' = [tab EXCEPT !["learned"] = Upsert(@, u, m)]
      BY <1>2, <2>1, <3>1 DEF WriteSnap
    <3>3. Fits("underlay", u, tab["underlay"][u])
      BY <1>1, <2>1 DEF TablesFit, Tables, Maps
    <3>4. Fits("learned", u, m)
      BY <1>3, <3>1, <3>3 DEF Fits, UnderlayValues
    <3>5. Room("learned", u) /\ "learned" \in Tables
      BY DEF Room, Maps, Tables, Shadows
    <3> QED
      BY <1>1, <3>2, <3>4, <3>5, PutFits
  <2>2. CASE u \notin DOMAIN tab["underlay"]
    BY <1>1, <1>2, <2>2, SameFits DEF WriteSnap
  <2> QED
    BY <2>1, <2>2
<1>5. /\ TaskFits' /\ Todo = {Head(task.ops)} \cup Todo' /\ calls' \subseteq calls \cup task.then
      /\ (task'.detach => task.detach)
      /\ Todo' = {} \/ (task'.dev = task.dev /\ task'.detach = task.detach)
  BY <1>1, AdvanceFacts
<1>6. TypeInv'
  BY <1>1, <1>4, <1>5, SameFits, ThenFits, FitsSame DEF TypeInv, bounds
<1> QED
  BY <1>3, <1>4, <1>5, <1>6

\* A call that takes the mutex changes no table.
LEMMA CallType ==
    ASSUME TypeInv, Call
    PROVE  TypeInv' /\ UNCHANGED tab
<1>1. /\ TablesFit /\ TaskFits /\ DOMAIN cpu = Cpus /\ \A c \in Cpus : CpuFits(cpu[c])
      /\ ncalls \in 0 .. MaxCalls /\ npackets \in 0 .. MaxPackets
      /\ \A x \in calls : CallFits(x)
      /\ MaxCalls \in Nat
  BY OverlayAssumption DEF TypeInv
<1>2. ASSUME Called PROVE ncalls' \in 0 .. MaxCalls
  BY <1>1, <1>2 DEF Called
<1>3. ASSUME TaskFits', UNCHANGED <<tab, calls, cpu, npackets>>, Called
      PROVE  TypeInv' /\ UNCHANGED tab
  BY <1>1, <1>2, <1>3, SameFits, FitsSame DEF TypeInv
<1>4. ASSUME NEW r \in Requests, CreateInterface(r) PROVE TypeInv' /\ UNCHANGED tab
  <2>1. UNCHANGED <<tab, calls, cpu, npackets>> /\ Called
    BY <1>4 DEF CreateInterface
  <2>2. TaskFits'
    BY <1>4, CreateStarts
  <2> QED
    BY <1>3, <2>1, <2>2
<1>5. ASSUME NEW id \in Ids, DetachInterface(id) PROVE TypeInv' /\ UNCHANGED tab
  <2>0. UNCHANGED <<tab, calls, npackets>> /\ Called
    BY <1>5 DEF DetachInterface
  <2>1. TaskFits' /\ UNCHANGED <<tab, calls, npackets>> /\ Called
    BY <1>5, <2>0, DetachStarts
  <2>2. cpu' = [c \in Cpus |-> IF cpu[c].pc \in ForwardPcs THEN [cpu[c] EXCEPT !.stale = TRUE] ELSE cpu[c]]
    BY <1>5 DEF DetachInterface
  <2>3. ASSUME NEW c \in Cpus PROVE CpuFits(cpu'[c])
    <3>1. CASE cpu[c].pc \in ForwardPcs
      <4>1. PICK s : s = cpu[c]
        OBVIOUS
      <4>2. CpuFits(s) /\ s.pc \in ForwardPcs /\ cpu'[c] = [s EXCEPT !.stale = TRUE]
        BY <1>1, <2>2, <3>1, <4>1
      <4>3. [s EXCEPT !.stale = TRUE] \in CpuState
        BY <4>2 DEF CpuFits, CpuState, ForwardPcs, IdleCpu
      <4>4. ASSUME s.pc \in {"underlay", "local"}
            PROVE  [s EXCEPT !.stale = TRUE].meta = s.meta /\ [s EXCEPT !.stale = TRUE].nh = s.nh
        BY <4>2, <4>4 DEF CpuFits, CpuState, ForwardPcs, IdleCpu
      <4>5. [s EXCEPT !.stale = TRUE].pc = s.pc
        BY <4>2 DEF CpuFits, CpuState, ForwardPcs, IdleCpu
      <4>6. CpuFits([s EXCEPT !.stale = TRUE])
        BY <4>2, <4>3, <4>4, <4>5 DEF CpuFits
      <4> QED
        BY <4>2, <4>6
    <3>2. CASE cpu[c].pc \notin ForwardPcs
      BY <1>1, <2>2, <3>2
    <3> QED
      BY <3>1, <3>2
  <2>4. DOMAIN cpu' = Cpus
    BY <2>2
  <2> QED
    BY <1>1, <1>2, <2>1, <2>3, <2>4, SameFits, FitsSame DEF TypeInv
<1>6. ASSUME NEW id \in Ids, CreateVip(id) \/ DeleteVip(id) PROVE TypeInv' /\ UNCHANGED tab
  <2>1. id \in DOMAIN ById /\ UNCHANGED <<tab, calls, cpu, npackets>> /\ Called
    BY <1>6 DEF CreateVip, DeleteVip
  <2>2. TaskFits'
    BY <1>6, <2>1, VipStarts
  <2> QED
    BY <1>3, <2>1, <2>2
<1>7. ASSUME NEW v \in Vnis, NEW p \in Routes, NEW nh \in Remotes, CheckRoute(v, p, nh)
      PROVE  TypeInv' /\ UNCHANGED tab
  <2>1. PICK x : x = [op |-> "route", vni |-> v, pfx |-> p, nh |-> nh]
    OBVIOUS
  <2>2. CallFits(x) /\ calls' = calls \cup {x} /\ UNCHANGED <<tab, task, cpu, npackets>> /\ Called
    BY <1>7, <2>1 DEF CallFits, CheckRoute
  <2> QED
    BY <1>1, <1>2, <2>2, SameFits, FitsSame DEF TypeInv
<1>8. ASSUME NEW k \in Vnis \X Routes, DeleteRoute(k) PROVE TypeInv' /\ UNCHANGED tab
  BY <1>3, <1>8, UnrouteStarts DEF DeleteRoute
<1>9. ASSUME NEW v \in Vnis, NEW F, ListReset(v, F) PROVE TypeInv' /\ UNCHANGED tab
  <2>1. PICK K : K = {k \in RoutesOf(v) : k[2] \in F}
    OBVIOUS
  <2>2. K \subseteq Vnis \X Routes
    <3>1. \A k \in DOMAIN tab["routesShadow"] : Fits("routesShadow", k, tab["routesShadow"][k])
      BY <1>1 DEF TablesFit, Tables, Shadows
    <3> QED
      BY <2>1, <3>1 DEF Fits, RoutesOf
  <2>3. PICK x : x = [op |-> "reset", keys |-> K]
    OBVIOUS
  <2>4. CallFits(x)
    BY <2>2, <2>3 DEF CallFits
  <2>5. calls' = calls \cup {x} /\ UNCHANGED <<tab, task, cpu, npackets>> /\ Called
    BY <1>9, <2>1, <2>3 DEF ListReset
  <2> QED
    BY <1>1, <1>2, <2>4, <2>5, SameFits, FitsSame DEF TypeInv
<1>10. ASSUME NEW id \in Ids, NEW p \in Aliases,
              AddPrefix(id, p) \/ DelPrefix(id, p) \/ AddLbPrefix(id, p) \/ DelLbPrefix(id, p)
       PROVE  TypeInv' /\ UNCHANGED tab
  <2>1. id \in DOMAIN ById /\ UNCHANGED <<tab, calls, cpu, npackets>> /\ Called
    BY <1>10 DEF AddPrefix, DelPrefix, AddLbPrefix, DelLbPrefix
  <2>2. TaskFits'
    BY <1>10, <2>1, PrefixStarts
  <2> QED
    BY <1>3, <2>1, <2>2
<1> QED
  BY <1>4, <1>5, <1>6, <1>7, <1>8, <1>9, <1>10 DEF Call

\* So does one that takes it again.
LEMMA ResumeType ==
    ASSUME TypeInv, Resume
    PROVE  TypeInv' /\ UNCHANGED <<tab, cpu, history>>
<1>1. /\ TablesFit /\ TaskFits /\ DOMAIN cpu = Cpus /\ \A c \in Cpus : CpuFits(cpu[c])
      /\ ncalls \in 0 .. MaxCalls /\ npackets \in 0 .. MaxPackets
      /\ \A x \in calls : CallFits(x)
  BY DEF TypeInv
<1>2. ASSUME TaskFits', UNCHANGED <<tab, cpu, bounds>>, \A x \in calls' : CallFits(x)
      PROVE  TypeInv'
  BY <1>1, <1>2, SameFits, FitsSame DEF TypeInv, bounds
<1>3. ASSUME NEW x \in calls, SetDhcpMeta(x) PROVE TypeInv' /\ UNCHANGED <<tab, cpu, history>>
  <2>1. TaskFits'
    BY <1>1, <1>3, DhcpStarts, SameFits DEF SetDhcpMeta
  <2>2. UNCHANGED <<tab, cpu, bounds, history>> /\ calls' \subseteq calls
    BY <1>3 DEF SetDhcpMeta
  <2> QED
    BY <1>1, <1>2, <2>1, <2>2
<1>4. ASSUME NEW x \in calls, CreateRoute(x) PROVE TypeInv' /\ UNCHANGED <<tab, cpu, history>>
  <2>1. TaskFits'
    <3>1. CASE <<x.vni, x.pfx>> \in DOMAIN tab["routesShadow"]
      BY <1>1, <1>4, <3>1, SameFits DEF CreateRoute
    <3>2. CASE <<x.vni, x.pfx>> \notin DOMAIN tab["routesShadow"]
      BY <1>4, <3>2, RouteStarts
    <3> QED
      BY <3>1, <3>2
  <2>2. UNCHANGED <<tab, cpu, bounds, history>> /\ calls' \subseteq calls
    BY <1>4 DEF CreateRoute
  <2> QED
    BY <1>1, <1>2, <2>1, <2>2
<1>5. ASSUME NEW x \in calls, ResetOne(x) PROVE TypeInv' /\ UNCHANGED <<tab, cpu, history>>
  <2>1. PICK k \in x.keys :
          /\ calls' = (calls \ {x}) \cup (IF x.keys = {k} THEN {} ELSE {[x EXCEPT !.keys = @ \ {k}]})
          /\ task' = IF k \in DOMAIN tab["routesShadow"] THEN Task(RouteWrites(k), None) ELSE task
    BY <1>5 DEF ResetOne
  <2>2. TaskFits'
    BY <1>1, <2>1, UnrouteStarts, SameFits
  <2>3. x \in [op : {"reset"}, keys : SUBSET (Vnis \X Routes)]
    BY <1>1, <1>5 DEF CallFits, ResetOne
  <2>4. PICK y : y = [x EXCEPT !.keys = @ \ {k}]
    OBVIOUS
  <2>5. y \in [op : {"reset"}, keys : SUBSET (Vnis \X Routes)]
    BY <2>3, <2>4
  <2>6. CallFits(y)
    BY <2>5 DEF CallFits
  <2>7. UNCHANGED <<tab, cpu, bounds, history>> /\ calls' \subseteq calls \cup {y}
    BY <1>5, <2>1, <2>4 DEF ResetOne
  <2> QED
    BY <1>1, <1>2, <2>2, <2>6, <2>7
<1> QED
  BY <1>3, <1>4, <1>5 DEF Resume

\* What a CPU holds at each place.
LEMMA CpuKinds ==
    ASSUME NEW s \in CpuState
    PROVE  /\ s.pc \in {"idle"} \cup ForwardPcs \cup LearnPcs
           /\ s.pc \in {"vip", "route"} =>
                s \in [pc : {"vip", "route"}, dev : Devices, meta : Meta, addr : Addrs, stale : BOOLEAN]
           /\ s.pc = "underlay" =>
                s \in [pc : {"underlay"}, dev : Devices, meta : Meta, stale : BOOLEAN,
                       nh : Remotes \cup Underlays]
           /\ s.pc = "local" => s.to \in UnderlayValues
           /\ s.pc = "lport" => s \in [pc : {"lport"}, dev : Devices, meta : Meta, mac : Macs]
           /\ s.pc = "luget" => s \in [pc : {"luget"}, dev : Devices, meta : Meta, mac : Macs]
           /\ s.pc = "luput" => s \in [pc : {"luput"}, dev : Devices, meta : Meta, mac : Macs,
                                       val : UnderlayValues]
           /\ s.pc = "liput" => s \in [pc : {"liput"}, dev : Devices, meta : Meta, mac : Macs,
                                       val : IfaceValues]
           /\ s.pc \in LearnPcs => s.dev \in Devices /\ s.meta \in Meta /\ s.mac \in Macs
           /\ s.pc \in ForwardPcs => s.dev \in Devices /\ s.meta \in Meta /\ s.stale \in BOOLEAN
  BY DEF CpuState, IdleCpu, ForwardPcs, LearnPcs

\* A step of one CPU.
LEMMA CpuStep ==
    ASSUME TypeInv, NEW c \in Cpus, NEW s, CpuFits(s), cpu' = [cpu EXCEPT ![c] = s], TablesFit',
           UNCHANGED <<task, calls, ncalls>>, npackets' \in 0 .. MaxPackets
    PROVE  TypeInv' /\ cpu'[c] = s /\ \A d \in Cpus \ {c} : cpu'[d] = cpu[d]
<1>1. DOMAIN cpu' = Cpus /\ cpu'[c] = s /\ \A d \in Cpus \ {c} : cpu'[d] = cpu[d]
  BY DEF TypeInv
<1>2. \A d \in Cpus : CpuFits(cpu'[d])
  BY <1>1 DEF TypeInv
<1>3. TaskFits' /\ \A x \in calls' : CallFits(x)
  BY SameFits DEF TypeInv
<1> QED
  BY <1>1, <1>2, <1>3, FitsSame DEF TypeInv

\* A set of numbers that is not empty has a least one.
LEMMA LeastNumber ==
    ASSUME NEW S \in SUBSET Nat, S # {}
    PROVE  \E m \in S : \A n \in S : m <= n
<1> DEFINE Below == {y \in Nat \X Nat : y[1] < y[2]}
<1>1. OpToRel(<, Nat) = Below
  BY Zenon DEF OpToRel
<1>2. IsWellFoundedOn(Below, Nat)
  BY <1>1, NatLessThanWellFounded, Zenon
<1> HIDE DEF Below
<1>3. PICK m \in S : \A n \in S : ~(<<n, m>> \in Below)
  BY <1>2, WFMin
<1>4. ASSUME NEW n \in S PROVE m <= n
  <2>1. n < m => <<n, m>> \in Below
    BY DEF Below
  <2> QED
    BY <1>3, <2>1
<1> QED
  BY <1>4

\* The longest match of a lookup is a route of the table.
LEMMA LongestFacts ==
    ASSUME TypeInv, NEW v, NEW a, Matching(v, a) # {}
    PROVE  /\ Longest(Matching(v, a)) \in DOMAIN tab["routes"]
           /\ Longest(Matching(v, a))[1] = v
<1>1. PICK K : K = Matching(v, a)
  OBVIOUS
<1>2. \A k \in K : k \in Vnis \X Prefixes /\ k \in DOMAIN tab["routes"] /\ k[1] = v
  <2>1. \A k \in DOMAIN tab["routes"] : Fits("routes", k, tab["routes"][k])
    BY DEF TypeInv, TablesFit, Tables, Maps
  <2> QED
    BY <1>1, <2>1 DEF Matching, Fits
<1>3. \A p \in Prefixes : Cardinality(p) \in Nat
  <2> SUFFICES ASSUME NEW p \in Prefixes PROVE Cardinality(p) \in Nat
    OBVIOUS
  <2>1. p \in SUBSET Addrs /\ IsFiniteSet(Addrs)
    BY OverlayAssumption DEF Prefixes
  <2> QED
    BY <2>1, FS_Subset, FS_CardinalityType
<1>4. PICK N : N = {Cardinality(k[2]) : k \in K}
  OBVIOUS
<1>5. N \in SUBSET Nat /\ N # {}
  BY <1>1, <1>2, <1>3, <1>4
<1>6. PICK m \in N : \A n \in N : m <= n
  BY <1>5, LeastNumber
<1>7. PICK k \in K : m = Cardinality(k[2])
  BY <1>4, <1>6
<1>8. \A l \in K : Cardinality(k[2]) <= Cardinality(l[2])
  BY <1>4, <1>6, <1>7
<1>9. Longest(K) \in K
  BY <1>8 DEF Longest
<1> QED
  BY <1>1, <1>2, <1>9

\* The lookups of a guest packet.
LEMMA ForwardType ==
    ASSUME TypeInv, NEW c \in Cpus, NEW s, s = cpu[c]
    PROVE  /\ \A dev \in Devices, a \in Dests : GuestPacket(c, dev, a) =>
                /\ TypeInv' /\ cpu'[c].pc = "vip" /\ cpu'[c].stale = task.detach
                /\ \A d \in Cpus \ {c} : cpu'[d] = cpu[d]
           /\ VipLookup(c) =>
                /\ TypeInv' /\ cpu'[c].pc = "route" /\ cpu'[c].stale = s.stale
                /\ \A d \in Cpus \ {c} : cpu'[d] = cpu[d]
           /\ RouteLookup(c) =>
                /\ TypeInv' /\ (cpu'[c] = IdleCpu \/ (cpu'[c].pc = "underlay" /\ cpu'[c].stale = s.stale))
                /\ \A d \in Cpus \ {c} : cpu'[d] = cpu[d]
           /\ UnderlayLookup(c) =>
                /\ TypeInv' /\ \A d \in Cpus \ {c} : cpu'[d] = cpu[d]
                /\ \/ cpu'[c] = IdleCpu
                   \/ /\ s.nh \in DOMAIN tab["underlay"]
                      /\ cpu'[c].pc = "local" /\ cpu'[c].stale = s.stale /\ cpu'[c].meta = s.meta
                      /\ cpu'[c].nh = s.nh /\ cpu'[c].to = tab["underlay"][s.nh]
           /\ Deliver(c) =>
                TypeInv' /\ cpu'[c] = IdleCpu /\ \A d \in Cpus \ {c} : cpu'[d] = cpu[d]
<1>1. /\ TablesFit /\ npackets \in 0 .. MaxPackets /\ MaxPackets \in Nat /\ CpuFits(s) /\ s \in CpuState
      /\ DOMAIN cpu = Cpus
  BY OverlayAssumption DEF TypeInv, CpuFits
<1>2. CpuFits(IdleCpu)
  BY DEF CpuFits, CpuState, IdleCpu
<1>3. ASSUME NEW dev \in Devices, NEW a \in Dests, GuestPacket(c, dev, a)
      PROVE  /\ TypeInv' /\ cpu'[c].pc = "vip" /\ cpu'[c].stale = task.detach
             /\ \A d \in Cpus \ {c} : cpu'[d] = cpu[d]
  <2>1. PICK m : m = tab["ports"][dev]
    OBVIOUS
  <2>2. m \in Meta
    <3>1. Fits("ports", dev, m)
      BY <1>1, <1>3, <2>1 DEF TablesFit, Tables, Maps, GuestPacket
    <3> QED
      BY <3>1 DEF Fits
  <2>3. PICK y : y = [pc |-> "vip", dev |-> dev, meta |-> m, addr |-> a, stale |-> task.detach]
    OBVIOUS
  <2>4. task.detach \in BOOLEAN /\ a \in Addrs
    BY OverlayAssumption DEF TypeInv, TaskFits
  <2>5. y \in [pc : {"vip", "route"}, dev : Devices, meta : Meta, addr : Addrs, stale : BOOLEAN]
        /\ y.pc = "vip" /\ y.stale = task.detach
    BY <2>2, <2>3, <2>4
  <2>6. CpuFits(y)
    BY <2>5 DEF CpuFits, CpuState
  <2>7. cpu' = [cpu EXCEPT ![c] = y] /\ UNCHANGED <<tab, task, calls, ncalls>>
        /\ npackets' \in 0 .. MaxPackets
    BY <1>1, <1>3, <2>1, <2>3 DEF GuestPacket
  <2> QED
    BY <1>1, <2>5, <2>6, <2>7, CpuStep, SameFits
<1>4. ASSUME VipLookup(c)
      PROVE  /\ TypeInv' /\ cpu'[c].pc = "route" /\ cpu'[c].stale = s.stale
             /\ \A d \in Cpus \ {c} : cpu'[d] = cpu[d]
  <2>1. PICK k : k = <<s.meta.vni, s.addr>>
    OBVIOUS
  <2>2. PICK y : y = [s EXCEPT !.pc = "route",
                               !.addr = IF k \in DOMAIN tab["vips"] THEN tab["vips"][k] ELSE @]
    OBVIOUS
  <2>3. s \in [pc : {"vip", "route"}, dev : Devices, meta : Meta, addr : Addrs, stale : BOOLEAN]
    BY <1>1, <1>4, CpuKinds DEF VipLookup
  <2>4. ASSUME k \in DOMAIN tab["vips"] PROVE tab["vips"][k] \in Addrs
    <3>1. Fits("vips", k, tab["vips"][k])
      BY <1>1, <2>4 DEF TablesFit, Tables, Maps
    <3>2. VipEntry(k, tab["vips"][k])
      BY <3>1 DEF Fits
    <3> QED
      BY <3>2, RequestFacts DEF VipEntry
  <2>5. y \in [pc : {"vip", "route"}, dev : Devices, meta : Meta, addr : Addrs, stale : BOOLEAN]
        /\ y.pc = "route" /\ y.stale = s.stale
    BY <2>2, <2>3, <2>4
  <2>6. CpuFits(y)
    BY <2>5 DEF CpuFits, CpuState
  <2>7. cpu' = [cpu EXCEPT ![c] = y] /\ UNCHANGED <<tab, task, calls, ncalls, npackets>>
    BY <1>4, <2>1, <2>2 DEF VipLookup, bounds
  <2> QED
    BY <1>1, <2>5, <2>6, <2>7, CpuStep, SameFits
<1>5. ASSUME RouteLookup(c)
      PROVE  /\ TypeInv' /\ (cpu'[c] = IdleCpu \/ (cpu'[c].pc = "underlay" /\ cpu'[c].stale = s.stale))
             /\ \A d \in Cpus \ {c} : cpu'[d] = cpu[d]
  <2>1. PICK K : K = Matching(s.meta.vni, s.addr)
    OBVIOUS
  <2>2. UNCHANGED <<tab, task, calls, ncalls, npackets>>
    BY <1>5 DEF RouteLookup, bounds
  <2>3. CASE K = {}
    <3>1. cpu' = [cpu EXCEPT ![c] = IdleCpu]
      BY <1>5, <2>1, <2>3 DEF RouteLookup
    <3> QED
      BY <1>1, <1>2, <2>2, <3>1, CpuStep, SameFits
  <2>4. CASE K # {}
    <3>1. PICK u : u = tab["routes"][Longest(K)]
      OBVIOUS
    <3>2. NextHop(s.meta.vni, u)
      <4>1. Longest(K) \in DOMAIN tab["routes"] /\ Longest(K)[1] = s.meta.vni
        BY <2>1, <2>4, LongestFacts
      <4>2. Fits("routes", Longest(K), u)
        BY <1>1, <3>1, <4>1 DEF TablesFit, Tables, Maps
      <4> QED
        BY <4>1, <4>2 DEF Fits
    <3>3. u \in Remotes \cup Underlays
      BY <3>2, RequestFacts DEF NextHop
    <3>4. s \in [pc : {"vip", "route"}, dev : Devices, meta : Meta, addr : Addrs, stale : BOOLEAN]
      BY <1>1, <1>5, CpuKinds DEF RouteLookup
    <3>5. PICK y : y = [pc |-> "underlay", dev |-> s.dev, meta |-> s.meta, stale |-> s.stale, nh |-> u]
      OBVIOUS
    <3>6. y \in [pc : {"underlay"}, dev : Devices, meta : Meta, stale : BOOLEAN,
                 nh : Remotes \cup Underlays]
          /\ y.pc = "underlay" /\ y.stale = s.stale /\ y.meta = s.meta /\ y.nh = u
      BY <3>3, <3>4, <3>5
    <3>7. CpuFits(y)
      BY <3>2, <3>6 DEF CpuFits, CpuState
    <3>8. cpu' = [cpu EXCEPT ![c] = y]
      BY <1>5, <2>1, <2>4, <3>1, <3>5 DEF RouteLookup
    <3> QED
      BY <1>1, <2>2, <3>6, <3>7, <3>8, CpuStep, SameFits
  <2> QED
    BY <2>3, <2>4
<1>6. ASSUME UnderlayLookup(c)
      PROVE  /\ TypeInv' /\ \A d \in Cpus \ {c} : cpu'[d] = cpu[d]
             /\ \/ cpu'[c] = IdleCpu
                \/ /\ s.nh \in DOMAIN tab["underlay"]
                   /\ cpu'[c].pc = "local" /\ cpu'[c].stale = s.stale /\ cpu'[c].meta = s.meta
                   /\ cpu'[c].nh = s.nh /\ cpu'[c].to = tab["underlay"][s.nh]
  <2>1. PICK u : u = s.nh
    OBVIOUS
  <2>2. UNCHANGED <<tab, task, calls, ncalls, npackets>>
    BY <1>6 DEF UnderlayLookup, bounds
  <2>3. CASE u \notin DOMAIN tab["underlay"]
    <3>1. cpu' = [cpu EXCEPT ![c] = IdleCpu]
      BY <1>6, <2>1, <2>3 DEF UnderlayLookup
    <3> QED
      BY <1>1, <1>2, <2>2, <3>1, CpuStep, SameFits
  <2>4. CASE u \in DOMAIN tab["underlay"]
    <3>1. PICK m : m = tab["underlay"][u]
      OBVIOUS
    <3>2. m \in UnderlayValues
      <4>1. Fits("underlay", u, m)
        BY <1>1, <2>4, <3>1 DEF TablesFit, Tables, Maps
      <4> QED
        BY <4>1 DEF Fits
    <3>3. s \in [pc : {"underlay"}, dev : Devices, meta : Meta, stale : BOOLEAN,
                 nh : Remotes \cup Underlays]
      BY <1>1, <1>6, CpuKinds DEF UnderlayLookup
    <3>4. PICK y : y = [pc |-> "local", dev |-> s.dev, meta |-> s.meta, stale |-> s.stale, nh |-> u,
                        to |-> m]
      OBVIOUS
    <3>5. y \in [pc : {"local"}, dev : Devices, meta : Meta, stale : BOOLEAN,
                 nh : Remotes \cup Underlays, to : UnderlayValues]
          /\ y.pc = "local" /\ y.stale = s.stale /\ y.meta = s.meta /\ y.nh = u /\ y.to = m
      BY <2>1, <3>2, <3>3, <3>4
    <3>6. NextHop(s.meta.vni, u)
      BY <1>1, <1>6, <2>1 DEF CpuFits, UnderlayLookup
    <3>7. CpuFits(y)
      BY <3>5, <3>6 DEF CpuFits, CpuState
    <3>8. cpu' = [cpu EXCEPT ![c] = y]
      BY <1>6, <2>1, <2>4, <3>1, <3>4 DEF UnderlayLookup
    <3> QED
      BY <1>1, <2>1, <2>2, <2>4, <3>1, <3>5, <3>7, <3>8, CpuStep, SameFits
  <2> QED
    BY <2>3, <2>4
<1>7. ASSUME Deliver(c)
      PROVE  TypeInv' /\ cpu'[c] = IdleCpu /\ \A d \in Cpus \ {c} : cpu'[d] = cpu[d]
  <2>1. cpu' = [cpu EXCEPT ![c] = IdleCpu] /\ UNCHANGED <<tab, task, calls, ncalls, npackets>>
    BY <1>7 DEF Deliver, bounds
  <2> QED
    BY <1>1, <1>2, <2>1, CpuStep, SameFits
<1> QED
  BY <1>3, <1>4, <1>5, <1>6, <1>7

\* A MAC update of the datapath.
LEMMA LearnType ==
    ASSUME TypeInv, NEW c \in Cpus, NEW s, s = cpu[c]
    PROVE  /\ \A dev \in Devices, mac \in GuestMacs : DhcpPacket(c, dev, mac) =>
                /\ TypeInv' /\ UNCHANGED tab /\ \A d \in Cpus \ {c} : cpu'[d] = cpu[d]
                /\ cpu'[c].pc = "lport" /\ cpu'[c].dev = dev /\ cpu'[c].meta = tab["ports"][dev]
           /\ LearnPort(c) =>
                /\ TypeInv' /\ \A d \in Cpus \ {c} : cpu'[d] = cpu[d]
                /\ cpu'[c].pc = "luget" /\ cpu'[c].dev = s.dev /\ cpu'[c].meta = s.meta
                /\ \A t \in Tables \ {"ports"} : tab'[t] = tab[t]
                /\ DOMAIN tab'["ports"] \subseteq DOMAIN tab["ports"] \cup {s.dev}
                /\ \A d \in DOMAIN tab'["ports"] :
                      \/ d = s.dev /\ \A r : Owns(r, d, s.meta) => Owns(r, d, tab'["ports"][d])
                      \/ d \in DOMAIN tab["ports"] /\ tab'["ports"][d] = tab["ports"][d]
           /\ LearnUnderlayGet(c) =>
                /\ TypeInv' /\ UNCHANGED tab /\ \A d \in Cpus \ {c} : cpu'[d] = cpu[d]
                /\ cpu'[c].dev = s.dev /\ cpu'[c].meta = s.meta
                /\ \/ cpu'[c].pc = "liget"
                   \/ /\ cpu'[c].pc = "luput" /\ s.meta.ul \in DOMAIN tab["underlay"]
                      /\ cpu'[c].val = tab["underlay"][s.meta.ul]
           /\ LearnUnderlayPut(c) =>
                /\ TypeInv' /\ \A d \in Cpus \ {c} : cpu'[d] = cpu[d]
                /\ cpu'[c].pc = "liget" /\ cpu'[c].dev = s.dev /\ cpu'[c].meta = s.meta
                /\ \A t \in Tables \ {"underlay"} : tab'[t] = tab[t]
                /\ DOMAIN tab'["underlay"] \subseteq DOMAIN tab["underlay"] \cup {s.meta.ul}
                /\ \A u \in DOMAIN tab'["underlay"] :
                      IF u = s.meta.ul /\ Room("underlay", u)
                        THEN tab'["underlay"][u].dev = s.val.dev
                        ELSE u \in DOMAIN tab["underlay"] /\ tab'["underlay"][u] = tab["underlay"][u]
           /\ LearnIfaceGet(c) =>
                /\ TypeInv' /\ UNCHANGED tab /\ \A d \in Cpus \ {c} : cpu'[d] = cpu[d]
                /\ \/ cpu'[c] = IdleCpu
                   \/ cpu'[c].pc = "liput" /\ cpu'[c].dev = s.dev /\ cpu'[c].meta = s.meta
           /\ LearnIfacePut(c) =>
                /\ TypeInv' /\ \A d \in Cpus \ {c} : cpu'[d] = cpu[d]
                /\ cpu'[c] = IdleCpu
                /\ \A t \in Tables \ {"ifaces"} : tab'[t] = tab[t]
                /\ DOMAIN tab'["ifaces"] \subseteq DOMAIN tab["ifaces"] \cup {<<s.meta.vni, s.meta.ip>>}
<1>1. /\ TablesFit /\ npackets \in 0 .. MaxPackets /\ MaxPackets \in Nat /\ CpuFits(s) /\ s \in CpuState
      /\ DOMAIN cpu = Cpus
  BY OverlayAssumption DEF TypeInv, CpuFits
<1>2. CpuFits(IdleCpu)
  BY DEF CpuFits, CpuState, IdleCpu
<1>3. {"ports", "underlay", "ifaces"} \subseteq Tables
  BY DEF Tables, Maps
<1>4. ASSUME NEW t \in Tables, NEW k, NEW v, Fits(t, k, v), Learn(t, k, v)
      PROVE  /\ TablesFit' /\ \A x \in Tables \ {t} : tab'[x] = tab[x]
             /\ DOMAIN tab'[t] \subseteq DOMAIN tab[t] \cup {k}
             /\ \A x \in DOMAIN tab'[t] :
                   IF x = k /\ Room(t, k) THEN tab'[t][x] = v
                                          ELSE x \in DOMAIN tab[t] /\ tab'[t][x] = tab[t][x]
  <2>1. CASE Room(t, k)
    <3>1. tab' = [tab EXCEPT ![t] = Upsert(@, k, v)]
      BY <1>4, <2>1 DEF Learn
    <3>2. /\ TablesFit'
          /\ DOMAIN tab'[t] = DOMAIN tab[t] \cup {k}
          /\ \A x \in DOMAIN tab[t] \cup {k} : tab'[t][x] = IF x = k THEN v ELSE tab[t][x]
          /\ \A x \in Tables \ {t} : tab'[x] = tab[x]
      BY <1>1, <1>4, <2>1, <3>1, PutFits
    <3> QED
      BY <2>1, <3>2
  <2>2. CASE ~Room(t, k)
    BY <1>1, <1>4, <2>2, SameFits DEF Learn
  <2> QED
    BY <2>1, <2>2
<1>5. ASSUME NEW dev \in Devices, NEW mac \in GuestMacs, DhcpPacket(c, dev, mac)
      PROVE  /\ TypeInv' /\ UNCHANGED tab /\ \A d \in Cpus \ {c} : cpu'[d] = cpu[d]
             /\ cpu'[c].pc = "lport" /\ cpu'[c].dev = dev /\ cpu'[c].meta = tab["ports"][dev]
  <2>1. PICK m : m = tab["ports"][dev]
    OBVIOUS
  <2>2. m \in Meta /\ mac \in Macs
    <3>1. Fits("ports", dev, m)
      BY <1>1, <1>3, <1>5, <2>1 DEF TablesFit, DhcpPacket
    <3> QED
      BY <3>1 DEF Fits, Macs
  <2>3. PICK y : y = [pc |-> "lport", dev |-> dev, meta |-> m, mac |-> mac]
    OBVIOUS
  <2>4. y \in [pc : {"lport", "luget", "liget"}, dev : Devices, meta : Meta, mac : Macs]
        /\ y.pc = "lport" /\ y.dev = dev /\ y.meta = m
    BY <2>2, <2>3
  <2>5. CpuFits(y)
    BY <2>4 DEF CpuFits, CpuState
  <2>6. cpu' = [cpu EXCEPT ![c] = y] /\ UNCHANGED <<tab, task, calls, ncalls>>
        /\ npackets' \in 0 .. MaxPackets
    BY <1>1, <1>5, <2>1, <2>3 DEF DhcpPacket
  <2> QED
    BY <1>1, <2>1, <2>4, <2>5, <2>6, CpuStep, SameFits
<1>6. ASSUME LearnPort(c)
      PROVE  /\ TypeInv' /\ \A d \in Cpus \ {c} : cpu'[d] = cpu[d]
             /\ cpu'[c].pc = "luget" /\ cpu'[c].dev = s.dev /\ cpu'[c].meta = s.meta
             /\ \A t \in Tables \ {"ports"} : tab'[t] = tab[t]
             /\ DOMAIN tab'["ports"] \subseteq DOMAIN tab["ports"] \cup {s.dev}
             /\ \A d \in DOMAIN tab'["ports"] :
                   \/ d = s.dev /\ \A r : Owns(r, d, s.meta) => Owns(r, d, tab'["ports"][d])
                   \/ d \in DOMAIN tab["ports"] /\ tab'["ports"][d] = tab["ports"][d]
  <2>1. s \in [pc : {"lport"}, dev : Devices, meta : Meta, mac : Macs]
    BY <1>1, <1>6, CpuKinds DEF LearnPort
  <2>2. PICK m : m = [s.meta EXCEPT !.mac = s.mac]
    OBVIOUS
  <2>3. s.meta \in Meta /\ s.mac \in Macs /\ s.dev \in Devices
    BY <2>1
  <2>4. m \in Meta /\ m.vni = s.meta.vni /\ m.ip = s.meta.ip /\ m.ul = s.meta.ul
    BY <2>2, <2>3 DEF Meta
  <2>5. Fits("ports", s.dev, m) /\ Learn("ports", s.dev, m)
    BY <1>6, <2>2, <2>3, <2>4 DEF Fits, LearnPort
  <2>6. PICK y : y = [s EXCEPT !.pc = "luget"]
    OBVIOUS
  <2>7. y \in [pc : {"lport", "luget", "liget"}, dev : Devices, meta : Meta, mac : Macs]
        /\ y.pc = "luget" /\ y.dev = s.dev /\ y.meta = s.meta
    BY <2>1, <2>6
  <2>8. CpuFits(y)
    BY <2>7 DEF CpuFits, CpuState
  <2>9. cpu' = [cpu EXCEPT ![c] = y] /\ UNCHANGED <<task, calls, ncalls, npackets>>
    BY <1>6, <2>6 DEF LearnPort, bounds
  <2>10. /\ TablesFit' /\ \A x \in Tables \ {"ports"} : tab'[x] = tab[x]
         /\ DOMAIN tab'["ports"] \subseteq DOMAIN tab["ports"] \cup {s.dev}
         /\ \A x \in DOMAIN tab'["ports"] :
               IF x = s.dev /\ Room("ports", s.dev) THEN tab'["ports"][x] = m
                  ELSE x \in DOMAIN tab["ports"] /\ tab'["ports"][x] = tab["ports"][x]
    BY <1>3, <1>4, <2>5
  <2>11. \A r : Owns(r, s.dev, m) <=> Owns(r, s.dev, s.meta)
    BY <2>4 DEF Owns
  <2>12. TypeInv' /\ cpu'[c] = y /\ \A d \in Cpus \ {c} : cpu'[d] = cpu[d]
    BY <1>1, <2>8, <2>9, <2>10, CpuStep
  <2>13. ASSUME NEW d \in DOMAIN tab'["ports"]
         PROVE  \/ d = s.dev /\ \A r : Owns(r, d, s.meta) => Owns(r, d, tab'["ports"][d])
                \/ d \in DOMAIN tab["ports"] /\ tab'["ports"][d] = tab["ports"][d]
    BY <2>10, <2>11, <2>13
  <2> QED
    BY <2>7, <2>10, <2>12, <2>13
<1>7. ASSUME LearnUnderlayGet(c)
      PROVE  /\ TypeInv' /\ UNCHANGED tab /\ \A d \in Cpus \ {c} : cpu'[d] = cpu[d]
             /\ cpu'[c].dev = s.dev /\ cpu'[c].meta = s.meta
             /\ \/ cpu'[c].pc = "liget"
                \/ /\ cpu'[c].pc = "luput" /\ s.meta.ul \in DOMAIN tab["underlay"]
                   /\ cpu'[c].val = tab["underlay"][s.meta.ul]
  <2>1. s \in [pc : {"luget"}, dev : Devices, meta : Meta, mac : Macs]
    BY <1>1, <1>7, CpuKinds DEF LearnUnderlayGet, LearnGet
  <2>2. UNCHANGED <<tab, task, calls, ncalls, npackets>>
    BY <1>7 DEF LearnUnderlayGet, LearnGet, bounds
  <2>3. PICK u : u = s.meta.ul
    OBVIOUS
  <2>4. CASE u \in DOMAIN tab["underlay"]
    <3>1. PICK m : m = tab["underlay"][u]
      OBVIOUS
    <3>2. m \in UnderlayValues
      <4>1. Fits("underlay", u, m)
        BY <1>1, <1>3, <2>4, <3>1 DEF TablesFit
      <4> QED
        BY <4>1 DEF Fits
    <3>3. PICK y : y = [pc |-> "luput", dev |-> s.dev, meta |-> s.meta, mac |-> s.mac, val |-> m]
      OBVIOUS
    <3>4. y \in [pc : {"luput", "liget"}, dev : Devices, meta : Meta, mac : Macs, val : UnderlayValues]
          /\ y.pc = "luput" /\ y.dev = s.dev /\ y.meta = s.meta /\ y.val = m
      BY <2>1, <3>2, <3>3
    <3>5. CpuFits(y)
      BY <3>4 DEF CpuFits, CpuState
    <3>6. cpu' = [cpu EXCEPT ![c] = y]
      BY <1>7, <2>3, <2>4, <3>1, <3>3 DEF LearnUnderlayGet, LearnGet
    <3> QED
      BY <1>1, <2>2, <2>3, <2>4, <3>1, <3>4, <3>5, <3>6, CpuStep, SameFits
  <2>5. CASE u \notin DOMAIN tab["underlay"]
    <3>1. PICK y : y = [s EXCEPT !.pc = "liget"]
      OBVIOUS
    <3>2. y \in [pc : {"lport", "luget", "liget"}, dev : Devices, meta : Meta, mac : Macs]
          /\ y.pc = "liget" /\ y.dev = s.dev /\ y.meta = s.meta
      BY <2>1, <3>1
    <3>3. CpuFits(y)
      BY <3>2 DEF CpuFits, CpuState
    <3>4. cpu' = [cpu EXCEPT ![c] = y]
      BY <1>7, <2>3, <2>5, <3>1 DEF LearnUnderlayGet, LearnGet
    <3> QED
      BY <1>1, <2>2, <3>2, <3>3, <3>4, CpuStep, SameFits
  <2> QED
    BY <2>4, <2>5
<1>8. ASSUME LearnUnderlayPut(c)
      PROVE  /\ TypeInv' /\ \A d \in Cpus \ {c} : cpu'[d] = cpu[d]
             /\ cpu'[c].pc = "liget" /\ cpu'[c].dev = s.dev /\ cpu'[c].meta = s.meta
             /\ \A t \in Tables \ {"underlay"} : tab'[t] = tab[t]
             /\ DOMAIN tab'["underlay"] \subseteq DOMAIN tab["underlay"] \cup {s.meta.ul}
             /\ \A u \in DOMAIN tab'["underlay"] :
                   IF u = s.meta.ul /\ Room("underlay", u)
                     THEN tab'["underlay"][u].dev = s.val.dev
                     ELSE u \in DOMAIN tab["underlay"] /\ tab'["underlay"][u] = tab["underlay"][u]
  <2>1. s \in [pc : {"luput"}, dev : Devices, meta : Meta, mac : Macs, val : UnderlayValues]
    BY <1>1, <1>8, CpuKinds DEF LearnUnderlayPut
  <2>2. PICK m : m = [s.val EXCEPT !.mac = s.mac]
    OBVIOUS
  <2>3. s.meta \in Meta /\ s.mac \in Macs /\ s.val \in UnderlayValues
    BY <2>1
  <2>4. m \in UnderlayValues /\ m.dev = s.val.dev /\ s.meta.ul \in Underlays
    BY <2>2, <2>3 DEF Meta, UnderlayValues
  <2>5. Fits("underlay", s.meta.ul, m) /\ Learn("underlay", s.meta.ul, m)
    BY <1>8, <2>2, <2>4 DEF Fits, LearnUnderlayPut
  <2>6. PICK y : y = [s EXCEPT !.pc = "liget"]
    OBVIOUS
  <2>7. y \in [pc : {"luput", "liget"}, dev : Devices, meta : Meta, mac : Macs, val : UnderlayValues]
        /\ y.pc = "liget" /\ y.dev = s.dev /\ y.meta = s.meta
    BY <2>1, <2>6
  <2>8. CpuFits(y)
    BY <2>7 DEF CpuFits, CpuState
  <2>9. cpu' = [cpu EXCEPT ![c] = y] /\ UNCHANGED <<task, calls, ncalls, npackets>>
    BY <1>8, <2>6 DEF LearnUnderlayPut, bounds
  <2>10. /\ TablesFit' /\ \A x \in Tables \ {"underlay"} : tab'[x] = tab[x]
         /\ DOMAIN tab'["underlay"] \subseteq DOMAIN tab["underlay"] \cup {s.meta.ul}
         /\ \A x \in DOMAIN tab'["underlay"] :
               IF x = s.meta.ul /\ Room("underlay", s.meta.ul) THEN tab'["underlay"][x] = m
                  ELSE x \in DOMAIN tab["underlay"] /\ tab'["underlay"][x] = tab["underlay"][x]
    BY <1>3, <1>4, <2>5
  <2>11. TypeInv' /\ cpu'[c] = y /\ \A d \in Cpus \ {c} : cpu'[d] = cpu[d]
    BY <1>1, <2>8, <2>9, <2>10, CpuStep
  <2> QED
    BY <2>4, <2>7, <2>10, <2>11
<1>9. ASSUME LearnIfaceGet(c)
      PROVE  /\ TypeInv' /\ UNCHANGED tab /\ \A d \in Cpus \ {c} : cpu'[d] = cpu[d]
             /\ \/ cpu'[c] = IdleCpu
                \/ cpu'[c].pc = "liput" /\ cpu'[c].dev = s.dev /\ cpu'[c].meta = s.meta
  <2>1. UNCHANGED <<tab, task, calls, ncalls, npackets>> /\ s.pc \in LearnPcs
    BY <1>9 DEF LearnIfaceGet, LearnGet, bounds, LearnPcs
  <2>2. s.dev \in Devices /\ s.meta \in Meta /\ s.mac \in Macs
    BY <1>1, <2>1, CpuKinds
  <2>3. PICK g : g = <<s.meta.vni, s.meta.ip>>
    OBVIOUS
  <2>4. CASE g \in DOMAIN tab["ifaces"]
    <3>1. PICK m : m = tab["ifaces"][g]
      OBVIOUS
    <3>2. m \in IfaceValues
      <4>1. Fits("ifaces", g, m)
        BY <1>1, <1>3, <2>4, <3>1 DEF TablesFit
      <4> QED
        BY <4>1 DEF Fits
    <3>3. PICK y : y = [pc |-> "liput", dev |-> s.dev, meta |-> s.meta, mac |-> s.mac, val |-> m]
      OBVIOUS
    <3>4. y \in [pc : {"liput"}, dev : Devices, meta : Meta, mac : Macs, val : IfaceValues]
          /\ y.pc = "liput" /\ y.dev = s.dev /\ y.meta = s.meta
      BY <2>2, <3>2, <3>3
    <3>5. CpuFits(y)
      BY <3>4 DEF CpuFits, CpuState
    <3>6. cpu' = [cpu EXCEPT ![c] = y]
      BY <1>9, <2>3, <2>4, <3>1, <3>3 DEF LearnIfaceGet, LearnGet
    <3> QED
      BY <1>1, <2>1, <3>4, <3>5, <3>6, CpuStep, SameFits
  <2>5. CASE g \notin DOMAIN tab["ifaces"]
    <3>1. cpu' = [cpu EXCEPT ![c] = IdleCpu]
      BY <1>9, <2>3, <2>5 DEF LearnIfaceGet, LearnGet
    <3> QED
      BY <1>1, <1>2, <2>1, <3>1, CpuStep, SameFits
  <2> QED
    BY <2>4, <2>5
<1>10. ASSUME LearnIfacePut(c)
       PROVE  /\ TypeInv' /\ \A d \in Cpus \ {c} : cpu'[d] = cpu[d]
              /\ cpu'[c] = IdleCpu
              /\ \A t \in Tables \ {"ifaces"} : tab'[t] = tab[t]
              /\ DOMAIN tab'["ifaces"] \subseteq DOMAIN tab["ifaces"] \cup {<<s.meta.vni, s.meta.ip>>}
  <2>1. s \in [pc : {"liput"}, dev : Devices, meta : Meta, mac : Macs, val : IfaceValues]
    BY <1>1, <1>10, CpuKinds DEF LearnIfacePut
  <2>2. PICK m : m = [s.val EXCEPT !.mac = s.mac]
    OBVIOUS
  <2>3. s.meta \in Meta /\ s.mac \in Macs /\ s.val \in IfaceValues
    BY <2>1
  <2>4. PICK g : g = <<s.meta.vni, s.meta.ip>>
    OBVIOUS
  <2>5. m \in IfaceValues /\ g \in Vnis \X Addrs
    BY <2>2, <2>3, <2>4 DEF Meta, IfaceValues
  <2>6. Fits("ifaces", g, m) /\ Learn("ifaces", g, m)
    BY <1>10, <2>2, <2>4, <2>5 DEF Fits, LearnIfacePut
  <2>7. cpu' = [cpu EXCEPT ![c] = IdleCpu] /\ UNCHANGED <<task, calls, ncalls, npackets>>
    BY <1>10 DEF LearnIfacePut, bounds
  <2>8. /\ TablesFit' /\ \A x \in Tables \ {"ifaces"} : tab'[x] = tab[x]
        /\ DOMAIN tab'["ifaces"] \subseteq DOMAIN tab["ifaces"] \cup {g}
    BY <1>3, <1>4, <2>6
  <2>9. TypeInv' /\ cpu'[c] = IdleCpu /\ \A d \in Cpus \ {c} : cpu'[d] = cpu[d]
    BY <1>1, <1>2, <2>7, <2>8, CpuStep
  <2> QED
    BY <2>4, <2>8, <2>9
<1> QED
  BY <1>5, <1>6, <1>7, <1>8, <1>9, <1>10

\* TypeInv is inductive.
LEMMA TypeInductive ==
    /\ Init => TypeInv
    /\ TypeInv /\ [Next]_vars => TypeInv'
<1>1. ASSUME Init PROVE TypeInv
  <2>1. IsFiniteSet({}) /\ Cardinality({}) = 0
    BY FS_EmptySet
  <2>2. DOMAIN tab = Tables /\ \A t \in Tables : DOMAIN tab[t] = {}
    BY <1>1 DEF Init
  <2>3. TablesFit
    <3>1. \A t \in Maps : 0 <= Capacity(t) /\ t \in Tables
      BY OverlayAssumption DEF Tables
    <3> QED
      BY <2>1, <2>2, <3>1 DEF TablesFit
  <2>4. TaskFits
    <3>1. << >> \in Seq({})
      OBVIOUS
    <3>2. Todo = {} /\ task = FreeTask
      BY <1>1, FreeFacts DEF Init, Todo
    <3> QED
      BY <3>1, <3>2 DEF TaskFits, Free, FreeTask
  <2>5. CpuFits(IdleCpu)
    BY DEF CpuFits, CpuState, IdleCpu
  <2> QED
    BY <1>1, <2>3, <2>4, <2>5, OverlayAssumption DEF Init, TypeInv
<1>2. ASSUME TypeInv, [Next]_vars PROVE TypeInv'
  <2>1. CASE Write
    BY <1>2, <2>1, PutEffect, FailEffect, DelEffect, SnapEffect DEF Write
  <2>2. CASE Call
    BY <1>2, <2>2, CallType
  <2>3. CASE Resume
    BY <1>2, <2>3, ResumeType
  <2>4. ASSUME NEW c \in Cpus, Datapath(c) PROVE TypeInv'
    <3>1. ASSUME NEW dev \in Devices, NEW a \in Dests, GuestPacket(c, dev, a) PROVE TypeInv'
      BY <1>2, <3>1, ForwardType
    <3>2. ASSUME NEW dev \in Devices, NEW mac \in GuestMacs, DhcpPacket(c, dev, mac) PROVE TypeInv'
      BY <1>2, <3>2, LearnType
    <3>3. ASSUME VipLookup(c) \/ RouteLookup(c) \/ UnderlayLookup(c) \/ Deliver(c) PROVE TypeInv'
      BY <1>2, <3>3, ForwardType
    <3>4. ASSUME \/ LearnPort(c) \/ LearnUnderlayGet(c) \/ LearnUnderlayPut(c)
                 \/ LearnIfaceGet(c) \/ LearnIfacePut(c)
          PROVE  TypeInv'
      BY <1>2, <3>4, LearnType
    <3> QED
      BY <2>4, <3>1, <3>2, <3>3, <3>4 DEF Datapath
  <2>5. CASE UNCHANGED vars
    <3>1. UNCHANGED <<tab, task, calls, cpu, ncalls, npackets>>
      BY <2>5 DEF vars, bounds
    <3>2. \A x \in calls' : CallFits(x)'
      BY <1>2, <3>1, FitsSame DEF TypeInv
    <3>3. DOMAIN cpu' = Cpus /\ \A c \in Cpus : CpuFits(cpu[c])'
      BY <1>2, <3>1, SameFits DEF TypeInv
    <3> QED
      BY <1>2, <3>1, <3>2, <3>3, SameFits DEF TypeInv
  <2> QED
    BY <1>2, <2>1, <2>2, <2>3, <2>4, <2>5 DEF Next
<1> QED
  BY <1>1, <1>2

\* Every table has keys of its kind and no more of them than its map holds,
\* in every interleaving of the control plane's writes with the datapath.
THEOREM OverlayTypeCorrect == Spec => []TypeOK
<1>1. TypeInv => TypeOK
  <2> SUFFICES ASSUME TypeInv PROVE TypeOK
    OBVIOUS
  <2>1. TablesFit /\ \A t \in Tables : \A k \in DOMAIN tab[t] : Fits(t, k, tab[t][k])
    BY DEF TypeInv, TablesFit
  <2>2. /\ \A k \in DOMAIN tab["byId"] : k \in Ids /\ tab["byId"][k] \in Requests /\ tab["byId"][k].id = k
        /\ \A k \in DOMAIN tab["ports"] : k \in Devices
        /\ \A k \in DOMAIN tab["meter"] : k \in Devices
        /\ \A k \in DOMAIN tab["dhcpMeta"] : k \in Devices
        /\ \A k \in DOMAIN tab["ifaces"] : k \in Vnis \X Addrs
        /\ \A k \in DOMAIN tab["vips"] : k \in Vnis \X Addrs
    BY <2>1 DEF Fits, Tables, Maps, Shadows
  <2>3. /\ \A k \in DOMAIN tab["underlay"] : k \in Underlays
        /\ \A k \in DOMAIN tab["learned"] : k \in Underlays
        /\ \A k \in DOMAIN tab["routes"] : k \in Vnis \X Prefixes
        /\ \A k \in DOMAIN tab["routesShadow"] : k \in Vnis \X Prefixes
        /\ \A k \in DOMAIN tab["prefixes"] : k \in Ids \X Aliases
        /\ \A k \in DOMAIN tab["lbPrefixes"] : k \in Ids \X Aliases
    BY <2>1 DEF Fits, Tables, Maps, Shadows, Prefixes
  <2>4. \A c \in Cpus : cpu[c].pc \in {"idle"} \cup ForwardPcs \cup LearnPcs
    BY CpuKinds DEF TypeInv, CpuFits
  <2> QED
    BY <2>1, <2>2, <2>3, <2>4 DEF TypeOK, TypeInv, TablesFit, ById, Records
<1> QED
  BY <1>1, TypeInductive, PTL DEF Spec

(***************************************************************************)
(* Every entry of the maps belongs to an interface.                        *)
(***************************************************************************)

\* The maps of interfaces, whose keys are taps, guests and underlay addresses.
TapMaps == {"ports", "ifaces", "underlay", "meter", "dhcpMeta"}

\* Interfaces that stay keep what belongs to them.
LEMMA TapsStay ==
    ASSUME TapsKnown, Live \subseteq Live', late \subseteq late',
           \A t \in TapMaps : /\ DOMAIN tab'[t] \subseteq DOMAIN tab[t]
                              /\ \A k \in DOMAIN tab'[t] : /\ tab'[t][k] = tab[t][k]
                                                           /\ Dropping(t, k) => Dropping(t, k)'
    PROVE  TapsKnown'
<1>1. \A r : Known(r) => Known(r)'
  <2> SUFFICES ASSUME NEW r, Known(r) PROVE Known(r)'
    OBVIOUS
  <2> QED
    BY DEF Known, Marks, Guest, UnderlayOf
<1>2. ASSUME NEW d \in DOMAIN tab'["ports"]
      PROVE  \E r \in Requests : Owns(r, d, tab'["ports"][d]) /\ (Known(r)' \/ Dropping("ports", d)')
  <2>1. d \in DOMAIN tab["ports"] /\ tab'["ports"][d] = tab["ports"][d]
        /\ (Dropping("ports", d) => Dropping("ports", d)')
    BY <1>2 DEF TapMaps
  <2>2. PICK r \in Requests : Owns(r, d, tab["ports"][d]) /\ (Known(r) \/ Dropping("ports", d))
    BY <2>1 DEF TapsKnown
  <2> QED
    BY <1>1, <2>1, <2>2
<1>3. \A r, d, m : Owns(r, d, m)' <=> Owns(r, d, m)
  BY DEF Owns, UnderlayOf
<1>4. ASSUME NEW g \in DOMAIN tab'["ifaces"]
      PROVE  g \in late' \/ Dropping("ifaces", g)' \/ \E r \in Live' : Guest(r) = g
  <2>1. g \in DOMAIN tab["ifaces"] /\ (Dropping("ifaces", g) => Dropping("ifaces", g)')
    BY <1>4 DEF TapMaps
  <2>2. g \in late \/ Dropping("ifaces", g) \/ \E r \in Live : Guest(r) = g
    BY <2>1 DEF TapsKnown
  <2> QED
    BY <2>1, <2>2
<1>5. ASSUME NEW u \in DOMAIN tab'["underlay"]
      PROVE  \/ u \in late' \/ Dropping("underlay", u)'
             \/ \E r \in Live' : UnderlayOf(r) = u /\ r.dev = tab'["underlay"][u].dev
  <2>1. /\ u \in DOMAIN tab["underlay"] /\ tab'["underlay"][u] = tab["underlay"][u]
        /\ Dropping("underlay", u) => Dropping("underlay", u)'
    BY <1>5 DEF TapMaps
  <2>2. \/ u \in late \/ Dropping("underlay", u)
        \/ \E r \in Live : UnderlayOf(r) = u /\ r.dev = tab["underlay"][u].dev
    BY <2>1 DEF TapsKnown
  <2> QED
    BY <2>1, <2>2
<1>6. ASSUME NEW t \in {"meter", "dhcpMeta"}, NEW d \in DOMAIN tab'[t]
      PROVE  Dropping(t, d)' \/ \E r \in Live' : r.dev = d
  <2>1. d \in DOMAIN tab[t] /\ (Dropping(t, d) => Dropping(t, d)')
    BY <1>6 DEF TapMaps
  <2>2. Dropping(t, d) \/ \E r \in Live : r.dev = d
    BY <2>1 DEF TapsKnown
  <2> QED
    BY <2>1, <2>2
<1>7. \A r : Guest(r)' = Guest(r) /\ UnderlayOf(r)' = UnderlayOf(r)
  BY DEF Guest, UnderlayOf
<1> QED
  BY <1>2, <1>3, <1>4, <1>5, <1>6, <1>7 DEF TapsKnown

\* So do the copies that CPUs have.
LEMMA CpuStays ==
    ASSUME Live \subseteq Live', late \subseteq late', task'.detach => task.detach
    PROVE  \A s : CpuKnown(s) => CpuKnown(s)'
<1> SUFFICES ASSUME NEW s, CpuKnown(s) PROVE CpuKnown(s)'
  OBVIOUS
<1>1. \A r : Known(r) => Known(r)'
  <2> SUFFICES ASSUME NEW r, Known(r) PROVE Known(r)'
    OBVIOUS
  <2> QED
    BY DEF Known, Marks, Guest, UnderlayOf
<1>2. /\ \A r, d, m : Owns(r, d, m)' <=> Owns(r, d, m)
      /\ \A r : UnderlayOf(r)' = UnderlayOf(r)
      /\ ForwardPcs' = ForwardPcs /\ LearnPcs' = LearnPcs
  BY DEF Owns, UnderlayOf, ForwardPcs, LearnPcs
<1> QED
  BY <1>1, <1>2 DEF CpuKnown

\* The copies of all CPUs, when one of them moves.
LEMMA CpusKnown ==
    ASSUME \A c \in Cpus : CpuKnown(cpu[c]),
           Live \subseteq Live', late \subseteq late', task'.detach => task.detach,
           NEW c \in Cpus, NEW s, cpu'[c] = s, CpuKnown(s)', \A d \in Cpus \ {c} : cpu'[d] = cpu[d]
    PROVE  \A d \in Cpus : CpuKnown(cpu[d])'
<1> SUFFICES ASSUME NEW d \in Cpus PROVE CpuKnown(cpu[d])'
  OBVIOUS
<1>1. PICK z : z = cpu'[d]
  OBVIOUS
<1>2. CpuKnown(z)'
  BY <1>1, CpuStays
<1> QED
  BY <1>1, <1>2 DEF CpuKnown

\* The copies of all CPUs, when none moves.
LEMMA CpusStay ==
    ASSUME \A c \in Cpus : CpuKnown(cpu[c]), UNCHANGED cpu,
           Live \subseteq Live', late \subseteq late', task'.detach => task.detach
    PROVE  \A d \in Cpus : CpuKnown(cpu[d])'
<1> SUFFICES ASSUME NEW d \in Cpus PROVE CpuKnown(cpu[d])'
  OBVIOUS
<1>1. PICK z : z = cpu[d]
  OBVIOUS
<1>2. CpuKnown(z)'
  BY <1>1, CpuStays
<1> QED
  BY <1>1, <1>2 DEF CpuKnown

\* What is written for an interface stays true of it.
LEMMA PutStays ==
    ASSUME Live \cup Coming \subseteq Live' \cup Coming'
    PROVE  \A w : PutKnown(w) /\ w.tab # "byId" => PutKnown(w)'
<1> SUFFICES ASSUME NEW w, PutKnown(w), w.tab # "byId" PROVE PutKnown(w)'
  OBVIOUS
<1>1. /\ \A r, d, m : Owns(r, d, m)' <=> Owns(r, d, m)
      /\ \A r : UnderlayOf(r)' = UnderlayOf(r) /\ Guest(r)' = Guest(r)
  BY DEF Owns, UnderlayOf, Guest
<1> QED
  BY <1>1 DEF PutKnown

\* An insert comes before no removal, and the record of an interface before
\* every other insert for it.
LEMMA PutLive ==
    ASSUME TypeInv, TapInv, WritePut
    PROVE  /\ RecordFirst' /\ Coming' = {} /\ ~task.detach /\ PutKnown(Head(task.ops))
           /\ \A x \in Todo' : ~(x.op = "put" /\ x.tab = "byId")
           /\ \A t \in TapMaps \cup {"byId"} : \A k : ~Dropping(t, k) /\ ~Dropping(t, k)'
           /\ \A t, k : Dropping(t, k) => Dropping(t, k)'
           /\ Live \cup Coming \subseteq Live'
<1>1. PICK w : w = Head(task.ops)
  OBVIOUS
<1>2. /\ TypeInv' /\ w \in Todo /\ w.op = "put" /\ w.tab \in Tables /\ Fits(w.tab, w.key, w.val)
      /\ Todo = {w} \cup Todo'
      /\ DOMAIN tab'[w.tab] = DOMAIN tab[w.tab] \cup {w.key}
      /\ \A x \in DOMAIN tab[w.tab] \cup {w.key} :
            tab'[w.tab][x] = IF x = w.key THEN w.val ELSE tab[w.tab][x]
      /\ \A s \in Tables \ {w.tab} : tab'[s] = tab[s]
      /\ task'.detach => task.detach
  BY <1>1, PutEffect
<1>3. /\ Todo' \subseteq Range(Tail(task.ops))
      /\ task'.ops # << >> => Range(Tail(task'.ops)) \subseteq Range(Tail(task.ops))
      /\ task.ops # << >> /\ ~Free
  BY AdvanceTail, HeadFacts DEF WritePut, TypeInv
<1>4. RecordFirst' /\ Coming' = {}
  BY <1>3 DEF TapInv, TodoKnown, RecordFirst, Coming
<1>5. ~task.detach /\ PutKnown(w)
  BY <1>2 DEF TapInv, TodoKnown
<1>6. /\ \A t \in TapMaps \cup {"byId"} : \A k : ~Dropping(t, k) /\ ~Dropping(t, k)'
      /\ \A t, k : Dropping(t, k) => Dropping(t, k)'
  BY <1>2, <1>5 DEF TapInv, TodoKnown, Dropping, TapMaps
<1>7. Live \cup Coming \subseteq Live'
  <2>1. /\ Live = {ById[id] : id \in DOMAIN ById}
        /\ Live' = {ById'[id] : id \in DOMAIN ById'}
    BY <1>6 DEF Live
  <2>2. CASE w.tab = "byId"
    <3>1. /\ w.key \notin DOMAIN ById
          /\ DOMAIN ById' = DOMAIN ById \cup {w.key} /\ ById'[w.key] = w.val
          /\ \A x \in DOMAIN ById : ById'[x] = ById[x]
      BY <1>2, <1>5, <2>2 DEF PutKnown, ById
    <3>2. Live \subseteq Live' /\ w.val \in Live'
      BY <2>1, <3>1
    <3>3. Coming \subseteq {w.val}
      <4>1. \A x \in Todo' : ~(x.op = "put" /\ x.tab = "byId")
        BY <1>3 DEF TapInv, TodoKnown, RecordFirst
      <4> QED
        BY <1>2, <4>1 DEF Coming
    <3> QED
      BY <3>2, <3>3
  <2>3. CASE w.tab # "byId"
    <3>1. ById' = ById
      BY <1>2, <2>3 DEF ById, Tables, Shadows
    <3>2. Coming = {}
      <4>1. \A x \in Todo' : ~(x.op = "put" /\ x.tab = "byId")
        BY <1>3 DEF TapInv, TodoKnown, RecordFirst
      <4> QED
        BY <1>2, <2>3, <4>1 DEF Coming
    <3> QED
      BY <2>1, <3>1, <3>2
  <2> QED
    BY <2>2, <2>3
<1>8. \A x \in Todo' : ~(x.op = "put" /\ x.tab = "byId")
  BY <1>3 DEF TapInv, TodoKnown, RecordFirst
<1> QED
  BY <1>1, <1>4, <1>5, <1>6, <1>7, <1>8

\* An insert.
LEMMA PutTaps ==
    ASSUME TypeInv, TapInv, WritePut
    PROVE  TapInv'
<1>1. PICK w : w = Head(task.ops)
  OBVIOUS
<1>2. /\ TypeInv' /\ w \in Todo /\ w.op = "put" /\ w.tab \in Tables /\ Fits(w.tab, w.key, w.val)
      /\ Todo = {w} \cup Todo'
      /\ DOMAIN tab'[w.tab] = DOMAIN tab[w.tab] \cup {w.key}
      /\ \A x \in DOMAIN tab[w.tab] \cup {w.key} :
            tab'[w.tab][x] = IF x = w.key THEN w.val ELSE tab[w.tab][x]
      /\ \A s \in Tables \ {w.tab} : tab'[s] = tab[s]
      /\ task'.detach => task.detach
  BY <1>1, PutEffect
<1>3. \A x \in Todo' : ~(x.op = "put" /\ x.tab = "byId")
  BY PutLive
<1>4. RecordFirst' /\ Coming' = {}
  BY PutLive
<1>5. ~task.detach /\ PutKnown(w)
  BY <1>1, PutLive
<1>6. /\ \A t \in TapMaps \cup {"byId"} : \A k : ~Dropping(t, k) /\ ~Dropping(t, k)'
      /\ \A t, k : Dropping(t, k) => Dropping(t, k)'
  BY PutLive
<1>7. Live \cup Coming \subseteq Live'
  BY PutLive
<1>8. TodoKnown'
  <2>1. ASSUME NEW x \in Todo', x.op = "put" PROVE ~task'.detach /\ PutKnown(x)'
    <3>1. PutKnown(x) /\ x.tab # "byId" /\ x \in Todo
      BY <1>2, <1>3, <2>1 DEF TapInv, TodoKnown
    <3> QED
      BY <1>2, <1>5, <1>7, <3>1, PutStays
  <2>2. ASSUME NEW x \in Todo', x.op = "del" PROVE x.tab \notin TapMaps \cup {"byId"}
    BY <1>2, <1>5, <2>2 DEF TapInv, TodoKnown, TapMaps
  <2>3. \A r \in Live' : ~Dropping("underlay", UnderlayOf(r))'
    BY <1>6 DEF TapMaps, Dropping
  <2> QED
    BY <1>4, <2>1, <2>2, <2>3 DEF TodoKnown, TapMaps
<1>9. GuestsDiffer'
  <2>1. CASE w.tab = "byId"
    <3>1. /\ w.key \notin DOMAIN ById
          /\ \A id \in DOMAIN ById : Guest(ById[id]) # Guest(w.val)
          /\ DOMAIN ById' = DOMAIN ById \cup {w.key} /\ ById'[w.key] = w.val
          /\ \A x \in DOMAIN ById : ById'[x] = ById[x]
      BY <1>2, <1>5, <2>1 DEF PutKnown, ById
    <3> QED
      BY <3>1 DEF TapInv, GuestsDiffer, Guest
  <2>2. CASE w.tab # "byId"
    <3>1. ById' = ById
      BY <1>2, <2>2 DEF ById, Tables, Shadows
    <3> QED
      BY <3>1 DEF TapInv, GuestsDiffer, Guest
  <2> QED
    BY <2>1, <2>2
<1>10. late' = late /\ cpu' = cpu
  BY DEF WritePut, history
<1>11. TapsKnown'
  <2>1. \A r : Known(r) => Known(r)'
    <3> SUFFICES ASSUME NEW r, Known(r) PROVE Known(r)'
      OBVIOUS
    <3> QED
      BY <1>7, <1>10 DEF Known, Marks, Guest, UnderlayOf
  <2>2. ASSUME NEW t \in TapMaps, NEW k \in DOMAIN tab'[t]
        PROVE  \/ w.tab = t /\ k = w.key /\ tab'[t][k] = w.val
               \/ k \in DOMAIN tab[t] /\ tab'[t][k] = tab[t][k]
    BY <1>2, <2>2 DEF TapMaps, Tables, Maps
  <2>3. /\ \A r, d, m : Owns(r, d, m)' <=> Owns(r, d, m)
        /\ \A r : UnderlayOf(r)' = UnderlayOf(r) /\ Guest(r)' = Guest(r)
    BY DEF Owns, UnderlayOf, Guest
  <2>4. \A r \in Live' : r \in Requests
    <3>1. \A id \in DOMAIN tab'["byId"] : Fits("byId", id, tab'["byId"][id])
      BY <1>2, FitsSame DEF TypeInv, TablesFit, Tables, Shadows
    <3> QED
      BY <3>1 DEF Live, Fits, ById
  <2>5. ASSUME NEW d \in DOMAIN tab'["ports"]
        PROVE  \E r \in Requests : Owns(r, d, tab'["ports"][d]) /\ (Known(r)' \/ Dropping("ports", d)')
    <3>1. CASE w.tab = "ports" /\ d = w.key /\ tab'["ports"][d] = w.val
      <4>1. PICK r \in Live' : Owns(r, w.key, w.val)
        BY <1>5, <1>7, <3>1 DEF PutKnown
      <4>2. Known(r)'
        BY DEF Known
      <4> QED
        BY <2>4, <3>1, <4>1, <4>2
    <3>2. CASE d \in DOMAIN tab["ports"] /\ tab'["ports"][d] = tab["ports"][d]
      <4>1. PICK r \in Requests : Owns(r, d, tab["ports"][d]) /\ (Known(r) \/ Dropping("ports", d))
        BY <3>2 DEF TapInv, TapsKnown
      <4> QED
        BY <1>6, <2>1, <3>2, <4>1
    <3> QED
      BY <2>2, <2>5, <3>1, <3>2 DEF TapMaps
  <2>6. ASSUME NEW g \in DOMAIN tab'["ifaces"]
        PROVE  g \in late' \/ Dropping("ifaces", g)' \/ \E r \in Live' : Guest(r) = g
    <3>1. CASE w.tab = "ifaces" /\ g = w.key
      BY <1>5, <1>7, <3>1 DEF PutKnown
    <3>2. CASE g \in DOMAIN tab["ifaces"]
      <4>1. g \in late \/ Dropping("ifaces", g) \/ \E r \in Live : Guest(r) = g
        BY <3>2 DEF TapInv, TapsKnown
      <4> QED
        BY <1>6, <1>7, <1>10, <4>1
    <3> QED
      BY <2>2, <2>6, <3>1, <3>2 DEF TapMaps
  <2>7. ASSUME NEW u \in DOMAIN tab'["underlay"]
        PROVE  \/ u \in late' \/ Dropping("underlay", u)'
               \/ \E r \in Live' : UnderlayOf(r) = u /\ r.dev = tab'["underlay"][u].dev
    <3>1. CASE w.tab = "underlay" /\ u = w.key /\ tab'["underlay"][u] = w.val
      BY <1>5, <1>7, <3>1 DEF PutKnown
    <3>2. CASE u \in DOMAIN tab["underlay"] /\ tab'["underlay"][u] = tab["underlay"][u]
      <4>1. \/ u \in late \/ Dropping("underlay", u)
            \/ \E r \in Live : UnderlayOf(r) = u /\ r.dev = tab["underlay"][u].dev
        BY <3>2 DEF TapInv, TapsKnown
      <4> QED
        BY <1>6, <1>7, <1>10, <3>2, <4>1
    <3> QED
      BY <2>2, <2>7, <3>1, <3>2 DEF TapMaps
  <2>8. ASSUME NEW t \in {"meter", "dhcpMeta"}, NEW d \in DOMAIN tab'[t]
        PROVE  Dropping(t, d)' \/ \E r \in Live' : r.dev = d
    <3>1. CASE w.tab = t /\ d = w.key
      BY <1>5, <1>7, <2>8, <3>1 DEF PutKnown
    <3>2. CASE d \in DOMAIN tab[t]
      <4>1. Dropping(t, d) \/ \E r \in Live : r.dev = d
        BY <2>8, <3>2 DEF TapInv, TapsKnown
      <4> QED
        BY <1>6, <1>7, <4>1
    <3> QED
      BY <2>2, <2>8, <3>1, <3>2 DEF TapMaps
  <2> QED
    BY <2>3, <2>5, <2>6, <2>7, <2>8 DEF TapsKnown
<1>12. \A c \in Cpus : CpuKnown(cpu[c])'
  BY <1>2, <1>7, <1>10, CpusStay DEF TapInv
<1> QED
  BY <1>8, <1>9, <1>11, <1>12 DEF TapInv

\* An insert that fails, a removal, the kept MAC.
LEMMA OtherWriteTaps ==
    ASSUME TypeInv, TapInv, WriteFails \/ WriteDel \/ WriteSnap
    PROVE  TapInv' /\ Live \subseteq Live'
<1>1. late' = late /\ cpu' = cpu
  BY DEF WriteFails, WriteDel, WriteSnap, history
<1>2. TapMaps \cup {"byId"} \subseteq Tables /\ "learned" \notin TapMaps \cup {"byId"}
  BY DEF TapMaps, Tables, Maps, Shadows
<1>3. CASE WriteFails
  <2>1. Todo' = {} /\ tab' = tab /\ task' = FreeTask
    BY <1>3, FailEffect DEF WriteFails
  <2>2. ~task.detach
    <3>1. Head(task.ops) \in Todo /\ Head(task.ops).op = "put"
      BY <1>3, HeadFacts DEF WriteFails, TypeInv
    <3> QED
      BY <3>1 DEF TapInv, TodoKnown
  <2>3. \A t \in TapMaps \cup {"byId"} : \A k : ~Dropping(t, k)
    BY <2>2 DEF TapInv, TodoKnown, Dropping, TapMaps
  <2>4. Live \subseteq Live' /\ \A t, k : ~Dropping(t, k)'
    BY <2>1 DEF Live, ById, Dropping
  <2>5. TapsKnown'
    BY <1>1, <2>1, <2>3, <2>4, TapsStay DEF TapInv
  <2>6. task'.detach = FALSE /\ task'.ops = << >>
    BY <2>1, FreeFacts
  <2>7. TodoKnown'
    BY <2>1, <2>4, <2>6 DEF TodoKnown, RecordFirst
  <2>8. GuestsDiffer'
    BY <2>1 DEF TapInv, GuestsDiffer, ById, Guest
  <2>9. \A c \in Cpus : CpuKnown(cpu[c])'
    BY <1>1, <2>4, <2>6, CpusStay DEF TapInv
  <2> QED
    BY <2>4, <2>5, <2>7, <2>8, <2>9 DEF TapInv
<1>4. CASE WriteDel \/ WriteSnap
  <2>1. /\ Todo' \subseteq Todo /\ Todo \subseteq {Head(task.ops)} \cup Todo'
        /\ Head(task.ops).op # "put"
        /\ \A s \in TapMaps \cup {"byId"} :
             /\ DOMAIN tab'[s] \subseteq DOMAIN tab[s]
             /\ \A x \in DOMAIN tab'[s] : tab'[s][x] = tab[s][x]
             /\ \A x \in DOMAIN tab[s] : x \in DOMAIN tab'[s] \/ Dropping(s, x)
             /\ \A x \in DOMAIN tab'[s] : Dropping(s, x) <=> Dropping(s, x)'
        /\ task'.detach => task.detach
        /\ Todo' = {} \/ (task'.dev = task.dev /\ task'.detach = task.detach)
    <3>1. CASE WriteDel
      BY <1>2, <3>1, DelEffect
    <3>2. CASE WriteSnap
      <4>1. /\ Head(task.ops).op = "snap" /\ Todo = {Head(task.ops)} \cup Todo'
            /\ \A s \in TapMaps \cup {"byId"} : tab'[s] = tab[s]
            /\ task'.detach => task.detach
            /\ Todo' = {} \/ (task'.dev = task.dev /\ task'.detach = task.detach)
        BY <1>2, <3>2, SnapEffect
      <4>2. \A s, x : Dropping(s, x) <=> Dropping(s, x)'
        BY <4>1 DEF Dropping
      <4> QED
        BY <4>1, <4>2
    <3> QED
      BY <1>4, <3>1, <3>2
  <2>2. Live' = Live /\ Coming' = Coming
    <3>1. /\ DOMAIN ById' \subseteq DOMAIN ById
          /\ \A x \in DOMAIN ById' : ById'[x] = ById[x]
          /\ \A x \in DOMAIN ById : x \in DOMAIN ById' \/ Dropping("byId", x)
          /\ \A x \in DOMAIN ById' : Dropping("byId", x) <=> Dropping("byId", x)'
      BY <2>1 DEF ById
    <3>2. Live' \subseteq Live
      BY <3>1 DEF Live
    <3>3. Live \subseteq Live'
      BY <3>1 DEF Live
    <3>4. Coming' = Coming
      BY <2>1 DEF Coming
    <3> QED
      BY <3>2, <3>3, <3>4
  <2>3. RecordFirst'
    <3>1. ~Free /\ TaskFits /\ (Advance \/ UNCHANGED task)
      <4>1. ASSUME WriteDel PROVE ~Free /\ (Advance \/ UNCHANGED task)
        BY <4>1, Zenon DEF WriteDel
      <4>2. ASSUME WriteSnap PROVE ~Free /\ Advance
        BY <4>2, Zenon DEF WriteSnap
      <4> QED
        BY <1>4, <4>1, <4>2 DEF TypeInv
    <3>2. ASSUME Advance PROVE RecordFirst'
      <4>1. /\ task'.ops # << >> => Range(Tail(task'.ops)) \subseteq Range(Tail(task.ops))
            /\ task.ops # << >>
        BY <3>1, <3>2, AdvanceTail, HeadFacts
      <4> QED
        BY <4>1 DEF TapInv, TodoKnown, RecordFirst
    <3>3. ASSUME UNCHANGED task PROVE RecordFirst'
      BY <3>3 DEF TapInv, TodoKnown, RecordFirst
    <3> QED
      BY <3>1, <3>2, <3>3
  <2>4. TapsKnown'
    BY <1>1, <2>1, <2>2, TapsStay DEF TapInv
  <2>5. TodoKnown'
    <3>1. ASSUME NEW x \in Todo', x.op = "put" PROVE ~task'.detach /\ PutKnown(x)'
      <4>1. ~task.detach /\ PutKnown(x)
        BY <2>1, <3>1 DEF TapInv, TodoKnown
      <4>2. ASSUME x.tab = "byId"
            PROVE  x.key \notin DOMAIN ById' /\ \A id \in DOMAIN ById' : Guest(ById'[id]) # Guest(x.val)
        BY <2>1, <4>1, <4>2 DEF PutKnown, ById
      <4>3. /\ \A r, d, m : Owns(r, d, m)' <=> Owns(r, d, m)
            /\ \A r : UnderlayOf(r)' = UnderlayOf(r)
        BY DEF Owns, UnderlayOf
      <4>4. PutKnown(x)'
        BY <2>2, <4>1, <4>2, <4>3 DEF PutKnown, Guest
      <4> QED
        BY <2>1, <4>1, <4>4
    <3>2. ASSUME NEW x \in Todo', x.op = "del"
          PROVE  /\ x.tab \in TapMaps \cup {"byId"} => task'.detach
                 /\ x.tab = "ports" => x.keys = {task'.dev}
      BY <2>1, <3>2 DEF TapInv, TodoKnown, TapMaps
    <3>3. \A r \in Live' : ~Dropping("underlay", UnderlayOf(r))'
      BY <2>1, <2>2 DEF TapInv, TodoKnown, Dropping, UnderlayOf
    <3> QED
      BY <2>3, <3>1, <3>2, <3>3 DEF TodoKnown, TapMaps
  <2>6. GuestsDiffer'
    BY <2>1 DEF TapInv, GuestsDiffer, ById, Guest
  <2>7. \A c \in Cpus : CpuKnown(cpu[c])'
    BY <1>1, <2>1, <2>2, CpusStay DEF TapInv
  <2> QED
    BY <2>2, <2>4, <2>5, <2>6, <2>7 DEF TapInv
<1> QED
  BY <1>3, <1>4

\* When no operation is under way, every record is an interface.
LEMMA FreeLive ==
    ASSUME Free
    PROVE  Live = Records /\ Todo = {} /\ ~task.detach /\ \A t, k : ~Dropping(t, k)
<1>1. Todo = {} /\ ~task.detach
  BY FreeFacts
<1>2. \A t, k : ~Dropping(t, k)
  BY <1>1 DEF Dropping
<1> QED
  BY <1>1, <1>2 DEF Live, Records

\* A call that writes none of the maps of interfaces, or nothing at all.
LEMMA QuietTaps ==
    ASSUME TypeInv, TapInv, TaskFits', Free, UNCHANGED <<tab, cpu, late>>,
           \/ UNCHANGED task
           \/ /\ task'.detach = FALSE /\ ~Free'
              /\ \A w \in Todo' : /\ w.tab \notin TapMaps \ {"dhcpMeta"} /\ w.tab # "byId"
                                  /\ w.tab = "dhcpMeta" =>
                                        w.op = "put" /\ \E r \in Records : r.dev = w.key
    PROVE  TapInv'
<1>1. Live = Records /\ Todo = {} /\ ~task.detach /\ \A t, k : ~Dropping(t, k)
  BY FreeLive
<1>2. Live' = Live /\ ~task'.detach /\ RecordFirst' /\ \A r \in Live' : ~Dropping("underlay", UnderlayOf(r))'
  <2>1. CASE UNCHANGED task
    <3>1. Todo' = {} /\ RecordFirst'
      BY <1>1, <2>1 DEF Todo, RecordFirst, TapInv, TodoKnown
    <3>2. \A t, k : ~Dropping(t, k)'
      BY <3>1 DEF Dropping
    <3> QED
      BY <1>1, <2>1, <3>1, <3>2 DEF Live, Records, ById
  <2>2. CASE task'.detach = FALSE /\ ~Free' /\ \A w \in Todo' : w.tab \notin TapMaps \ {"dhcpMeta"} /\ w.tab # "byId"
    <3>1. \A k : ~Dropping("byId", k)' /\ ~Dropping("underlay", k)'
      BY <2>2 DEF Dropping, TapMaps
    <3>2. Live' = Records
      BY <3>1 DEF Live, Records, ById
    <3>3. RecordFirst'
      <4>1. PICK q : q = task'.ops
        OBVIOUS
      <4>2. q \in Seq(Todo') /\ Range(q) = Todo'
        BY <4>1 DEF TaskFits, Todo
      <4>3. q # << >> => Range(Tail(q)) \subseteq Range(q)
        <5>1. CASE q # << >> /\ Len(q) # 1
          BY <4>2, <5>1, TailRange
        <5>2. CASE q # << >> /\ Len(q) = 1
          <6>1. Tail(q) \in Seq(Todo') /\ Len(Tail(q)) = 0
            BY <4>2, <5>2, HeadTailProperties
          <6>2. Tail(q) = << >>
            BY <6>1, EmptySeq
          <6> QED
            BY <6>2, FreeFacts
        <5> QED
          BY <5>1, <5>2
      <4> QED
        BY <2>2, <4>1, <4>2, <4>3 DEF RecordFirst
    <3> QED
      BY <1>1, <2>2, <3>1, <3>2, <3>3
  <2> QED
    BY <2>1, <2>2
<1>3. TapsKnown'
  BY <1>1, <1>2, TapsStay DEF TapInv
<1>4. TodoKnown'
  <2>1. CASE UNCHANGED task
    <3>1. Todo' = {}
      BY <1>1, <2>1 DEF Todo
    <3> QED
      BY <1>2, <3>1 DEF TodoKnown
  <2>2. CASE \A w \in Todo' : /\ w.tab \notin TapMaps \ {"dhcpMeta"} /\ w.tab # "byId"
                              /\ w.tab = "dhcpMeta" =>
                                        w.op = "put" /\ \E r \in Records : r.dev = w.key
    <3>1. ASSUME NEW x \in Todo' PROVE PutKnown(x)'
      BY <1>1, <1>2, <2>2, <3>1 DEF PutKnown, TapMaps
    <3>2. ASSUME NEW x \in Todo', x.op = "del"
          PROVE  x.tab \notin {"byId", "ports", "ifaces", "underlay", "meter", "dhcpMeta"}
      BY <2>2, <3>2 DEF TapMaps
    <3> QED
      BY <1>2, <3>1, <3>2 DEF TodoKnown
  <2> QED
    BY <2>1, <2>2
<1>5. GuestsDiffer'
  BY DEF TapInv, GuestsDiffer, ById, Guest
<1>6. \A c \in Cpus : CpuKnown(cpu[c])'
  BY <1>1, <1>2, CpusStay DEF TapInv
<1> QED
  BY <1>3, <1>4, <1>5, <1>6 DEF TapInv

\* create_interface.
LEMMA CreateTaps ==
    ASSUME TypeInv, TapInv, NEW r \in Requests, CreateInterface(r)
    PROVE  TapInv'
<1>1. Free /\ r.id \notin DOMAIN ById /\ ~InUse(r) /\ tab' = tab /\ cpu' = cpu /\ late' = Overlapped(r)
  BY DEF CreateInterface
<1>2. PICK mac \in Macs : /\ task'.detach = FALSE /\ RecordFirst'
                          /\ Todo' = CreateTodo(r, mac)
  BY CreateStarts
<1>3. Live = Records /\ Todo = {} /\ ~task.detach /\ \A t, k : ~Dropping(t, k)
  BY <1>1, FreeLive
<1>4. late \subseteq late'
  BY <1>1 DEF Overlapped
<1>5. \A w \in Todo' : w.op = "put"
  BY <1>2 DEF CreateTodo, Put
<1>6. Live' = Live /\ \A t, k : ~Dropping(t, k)'
  <2>1. \A t, k : ~Dropping(t, k)'
    BY <1>5 DEF Dropping
  <2> QED
    BY <1>1, <1>3, <2>1 DEF Live, Records, ById
<1>7. r \in Coming'
  <2>1. PICK w : w = Put("byId", r.id, r)
    OBVIOUS
  <2>2. w \in Todo' /\ w.op = "put" /\ w.tab = "byId" /\ w.val = r
    BY <1>2, <2>1 DEF CreateTodo, Put
  <2> QED
    BY <2>2 DEF Coming
<1>8. TapsKnown'
  BY <1>1, <1>3, <1>4, <1>6, TapsStay DEF TapInv
<1>9. TodoKnown'
  <2>1. ASSUME NEW w \in Todo' PROVE PutKnown(w)'
    <3>1. \/ w = Put("byId", r.id, r)
          \/ w = Put("ports", r.dev, PortMeta(r, mac))
          \/ w = Put("ifaces", Guest(r), IfaceValue(r, mac))
          \/ w = Put("underlay", UnderlayOf(r), UnderlayValue(r, mac))
          \/ w = Put("routes", <<r.vni, {r.ip}>>, UnderlayOf(r))
          \/ w = Put("routes", <<r.vni, {r.ip6}>>, UnderlayOf(r))
          \/ w = Put("meter", r.dev, TRUE)
      BY <1>2, <2>1, Zenon DEF CreateTodo
    <3>2. /\ Owns(r, r.dev, PortMeta(r, mac)) /\ UnderlayValue(r, mac).dev = r.dev
      BY ValueFacts
    <3>3. /\ w.tab = "ports" => Owns(r, w.key, w.val)
          /\ w.tab = "ifaces" => Guest(r) = w.key
          /\ w.tab = "underlay" => UnderlayOf(r) = w.key /\ r.dev = w.val.dev
          /\ w.tab \in {"meter", "dhcpMeta"} => r.dev = w.key
          /\ w.tab = "byId" => w.key = r.id /\ w.val = r
      BY <3>1, <3>2 DEF Put
    <3>4. \A id \in DOMAIN ById : Guest(ById[id]) # Guest(r)
      BY <1>1 DEF InUse, Guest
    <3>5. ById' = ById
      BY <1>1 DEF ById
    <3>6. /\ \A q, d, m : Owns(q, d, m)' <=> Owns(q, d, m)
          /\ \A q : UnderlayOf(q)' = UnderlayOf(q) /\ Guest(q)' = Guest(q)
      BY DEF Owns, UnderlayOf, Guest
    <3>7. w.tab = "byId" =>
             w.key \notin DOMAIN ById' /\ \A id \in DOMAIN ById' : Guest(ById'[id]) # Guest(w.val)
      BY <1>1, <3>3, <3>4, <3>5
    <3>8. w.tab = "byId" =>
             w.key \notin DOMAIN ById' /\ \A id \in DOMAIN ById' : Guest(ById[id])' # Guest(w.val)
      BY <3>7 DEF Guest
    <3> QED
      BY <1>7, <3>3, <3>6, <3>8 DEF PutKnown
  <2> QED
    BY <1>2, <1>5, <1>6, <2>1 DEF TodoKnown
<1>10. GuestsDiffer'
  BY <1>1 DEF TapInv, GuestsDiffer, ById, Guest
<1>11. \A c \in Cpus : CpuKnown(cpu[c])'
  BY <1>1, <1>2, <1>4, <1>6, CpusStay DEF TapInv
<1> QED
  BY <1>8, <1>9, <1>10, <1>11 DEF TapInv

\* One interface has an underlay address.
LEMMA OneOwner ==
    ASSUME TypeInv, GuestsDiffer, NEW i \in DOMAIN ById, NEW j \in DOMAIN ById,
           UnderlayOf(ById[i]) = UnderlayOf(ById[j]) \/ Guest(ById[i]) = Guest(ById[j])
    PROVE  i = j
<1>1. ById[i] \in Requests /\ ById[j] \in Requests
  BY RecordFacts
<1>2. Guest(ById[i]) = Guest(ById[j])
  BY <1>1, OperatorAssumption
<1> QED
  BY <1>2 DEF GuestsDiffer

\* detach_interface: what belongs to the interface goes with it, and a MAC
\* update that is under way for it is known to be late.
LEMMA DetachTaps ==
    ASSUME TypeInv, TapInv, NEW id \in Ids, DetachInterface(id)
    PROVE  TapInv'
<1>1. PICK r : r = ById[id]
  OBVIOUS
<1>2. /\ id \in DOMAIN ById /\ r \in Requests
      /\ task'.dev = r.dev /\ task'.detach = TRUE /\ TaskFits' /\ ~Free'
      /\ Todo' = DetachTodo(id, r)
  BY <1>1, DetachStarts
<1>3. Free /\ tab' = tab /\ late' = Overlapped(r)
      /\ cpu' = [c \in Cpus |-> IF cpu[c].pc \in ForwardPcs THEN [cpu[c] EXCEPT !.stale = TRUE] ELSE cpu[c]]
  BY <1>1 DEF DetachInterface
<1>4. Live = Records /\ Todo = {} /\ ~task.detach /\ \A t, k : ~Dropping(t, k)
  BY <1>3, FreeLive
<1>5. late \subseteq late' /\ (Learning(r.dev) => Marks(r) \subseteq late')
  BY <1>3 DEF Overlapped
<1>6. ById' = ById
  BY <1>3 DEF ById
<1>7. /\ Dropping("byId", id)' /\ Dropping("ports", r.dev)' /\ Dropping("ifaces", Guest(r))'
      /\ Dropping("underlay", UnderlayOf(r))' /\ Dropping("meter", r.dev)' /\ Dropping("dhcpMeta", r.dev)'
  <2>1. \A t, K : \A k \in K : Del(t, K) \in Todo' => Dropping(t, k)'
    BY DEF Dropping, Del
  <2>2. {Del("byId", {id}), Del("ports", {r.dev}), Del("ifaces", {Guest(r)}),
         Del("underlay", {UnderlayOf(r)}), Del("meter", {r.dev}), Del("dhcpMeta", {r.dev})} \subseteq Todo'
    BY <1>2 DEF DetachTodo
  <2>3. Dropping("byId", id)' /\ Dropping("ports", r.dev)' /\ Dropping("meter", r.dev)'
        /\ Dropping("dhcpMeta", r.dev)'
    BY <2>1, <2>2
  <2>4. PICK g, u : g = Guest(r) /\ u = UnderlayOf(r)
    OBVIOUS
  <2>5. Dropping("ifaces", g)' /\ Dropping("underlay", u)'
    BY <2>1, <2>2, <2>4
  <2>6. Dropping("ifaces", Guest(r))' /\ Dropping("underlay", UnderlayOf(r))'
    BY <2>4, <2>5 DEF Dropping, Guest, UnderlayOf
  <2> QED
    BY <2>3, <2>6
<1>8. ASSUME NEW w \in Todo', w.op # "snap"
      PROVE  /\ w.op = "del"
             /\ w.tab = "byId" => w.keys = {id}
             /\ w.tab = "ports" => w.keys = {r.dev}
             /\ w.tab = "underlay" => w.keys = {UnderlayOf(r)}
  BY <1>2, <1>8 DEF DetachTodo, PurgeTodo, Del, Snap
<1>9. \A k : /\ Dropping("byId", k)' => k = id
             /\ Dropping("underlay", k)' => k = UnderlayOf(r)
  BY <1>8 DEF Dropping
<1>10. Live' = {ById[j] : j \in DOMAIN ById \ {id}}
  BY <1>6, <1>7, <1>9 DEF Live
<1>11. \A x \in Live : x = r \/ x \in Live'
  BY <1>1, <1>4, <1>10 DEF Records
<1>12. \A x \in Live' : x \in Requests /\ UnderlayOf(x) # UnderlayOf(r)
  <2> SUFFICES ASSUME NEW j \in DOMAIN ById \ {id}
               PROVE  ById[j] \in Requests /\ UnderlayOf(ById[j]) # UnderlayOf(r)
    BY <1>10
  <2>1. ById[j] \in Requests
    BY RecordFacts
  <2>2. UnderlayOf(ById[j]) # UnderlayOf(r)
    BY <1>1, <1>2, OneOwner DEF TapInv
  <2> QED
    BY <2>1, <2>2
<1>13. /\ \A q, d, m : Owns(q, d, m)' <=> Owns(q, d, m)
       /\ \A q : UnderlayOf(q)' = UnderlayOf(q) /\ Guest(q)' = Guest(q)
  BY DEF Owns, UnderlayOf, Guest
<1>14. \A x : Known(x) => x = r \/ Known(x)'
  <2> SUFFICES ASSUME NEW x, Known(x), x # r PROVE Known(x)'
    OBVIOUS
  <2> QED
    BY <1>5, <1>11 DEF Known, Marks, Guest, UnderlayOf
<1>15. TapsKnown'
  <2>1. ASSUME NEW d \in DOMAIN tab["ports"]
        PROVE  \E x \in Requests : Owns(x, d, tab["ports"][d]) /\ (Known(x)' \/ Dropping("ports", d)')
    <3>1. PICK x \in Requests : Owns(x, d, tab["ports"][d]) /\ Known(x)
      BY <1>4, <2>1 DEF TapInv, TapsKnown
    <3>2. x = r => d = r.dev
      BY <3>1 DEF Owns
    <3>3. x = r => Dropping("ports", d)'
      <4>1. ASSUME d = r.dev PROVE Dropping("ports", d)'
        BY <1>7, <4>1
      <4> QED
        BY <3>2, <4>1
    <3> QED
      BY <1>14, <3>1, <3>3
  <2>2. ASSUME NEW g \in DOMAIN tab["ifaces"]
        PROVE  g \in late' \/ Dropping("ifaces", g)' \/ \E x \in Live' : Guest(x) = g
    <3>1. g \in late \/ \E x \in Live : Guest(x) = g
      BY <1>4, <2>2 DEF TapInv, TapsKnown
    <3>2. ASSUME g = Guest(r) PROVE Dropping("ifaces", g)'
      BY <1>7, <3>2 DEF Dropping, Guest
    <3> QED
      BY <1>5, <1>11, <3>1, <3>2
  <2>3. ASSUME NEW u \in DOMAIN tab["underlay"]
        PROVE  \/ u \in late' \/ Dropping("underlay", u)'
               \/ \E x \in Live' : UnderlayOf(x) = u /\ x.dev = tab["underlay"][u].dev
    <3>1. \/ u \in late
          \/ \E x \in Live : UnderlayOf(x) = u /\ x.dev = tab["underlay"][u].dev
      BY <1>4, <2>3 DEF TapInv, TapsKnown
    <3>2. ASSUME u = UnderlayOf(r) PROVE Dropping("underlay", u)'
      BY <1>7, <3>2 DEF Dropping, UnderlayOf
    <3> QED
      BY <1>5, <1>11, <3>1, <3>2
  <2>4. ASSUME NEW t \in {"meter", "dhcpMeta"}, NEW d \in DOMAIN tab[t]
        PROVE  Dropping(t, d)' \/ \E x \in Live' : x.dev = d
    <3>1. \E x \in Live : x.dev = d
      BY <1>4, <2>4 DEF TapInv, TapsKnown
    <3>2. ASSUME d = r.dev PROVE Dropping(t, d)'
      BY <1>7, <2>4, <3>2
    <3> QED
      BY <1>11, <3>1, <3>2
  <2> QED
    BY <1>3, <1>13, <2>1, <2>2, <2>3, <2>4 DEF TapsKnown
<1>16. TodoKnown'
  <2>1. RecordFirst'
    <3>1. PICK q : q = task'.ops
      OBVIOUS
    <3>2. q \in Seq(Todo')
      BY <1>2, <3>1 DEF TaskFits
    <3>3. ASSUME q # << >>, NEW w \in Range(Tail(q)) PROVE w.op # "put"
      <4>1. Tail(q) \in Seq(Todo')
        BY <3>2, <3>3, HeadTailProperties
      <4>2. w \in Todo'
        BY <3>3, <4>1, RangeOfSeq
      <4> QED
        BY <1>8, <4>2
    <3> QED
      BY <3>1, <3>3 DEF RecordFirst
  <2>2. ASSUME NEW x \in Live' PROVE ~Dropping("underlay", UnderlayOf(x))'
    <3>1. PICK u : u = UnderlayOf(x) /\ u # UnderlayOf(r)
      BY <1>12, <2>2
    <3>2. ~Dropping("underlay", u)'
      BY <1>9, <3>1
    <3> QED
      BY <3>1, <3>2 DEF Dropping, UnderlayOf
  <2> QED
    BY <1>2, <1>8, <2>1, <2>2 DEF TodoKnown
<1>17. GuestsDiffer'
  BY <1>6 DEF TapInv, GuestsDiffer, Guest
<1>18. ASSUME NEW c \in Cpus PROVE CpuKnown(cpu[c])'
  <2>1. PICK s : s = cpu[c]
    OBVIOUS
  <2>2. CpuKnown(s) /\ s \in CpuState
    BY <2>1 DEF TapInv, TypeInv, CpuFits
  <2>3. CASE s.pc \in ForwardPcs
    <3>1. cpu'[c].pc = s.pc /\ cpu'[c].stale = TRUE
      BY <1>3, <2>1, <2>2, <2>3 DEF CpuState, ForwardPcs, IdleCpu
    <3> QED
      BY <2>3, <3>1 DEF CpuKnown, ForwardPcs, LearnPcs
  <2>4. CASE s.pc \notin ForwardPcs
    <3>1. cpu'[c] = s
      BY <1>3, <2>1, <2>4
    <3>2. ASSUME s.pc \in LearnPcs
          PROVE  /\ \E x \in Requests : Owns(x, s.dev, s.meta) /\ Known(x)'
                 /\ s.pc = "luput" => \/ s.meta.ul \in late'
                                      \/ \E x \in Live' : UnderlayOf(x) = s.meta.ul /\ x.dev = s.val.dev
      <4>1. PICK x \in Requests : Owns(x, s.dev, s.meta) /\ Known(x)
        BY <2>2, <3>2 DEF CpuKnown
      <4>2. x = r => Marks(r) \subseteq late'
        <5>1. ASSUME x = r PROVE Learning(r.dev)
          BY <2>1, <3>2, <4>1, <5>1 DEF Learning, Owns
        <5> QED
          BY <1>5, <5>1
      <4>3. Known(x)'
        <5>1. ASSUME x = r PROVE Known(x)'
          BY <4>2, <5>1 DEF Known, Marks, Guest, UnderlayOf
        <5> QED
          BY <1>14, <4>1, <5>1
      <4>4. ASSUME s.pc = "luput", s.meta.ul \notin late'
            PROVE  \E y \in Live' : UnderlayOf(y) = s.meta.ul /\ y.dev = s.val.dev
        <5>1. PICK y \in Live : UnderlayOf(y) = s.meta.ul /\ y.dev = s.val.dev
          BY <1>5, <2>2, <4>4 DEF CpuKnown
        <5>2. x \in Live /\ x # r
          BY <1>5, <4>1, <4>2, <4>4 DEF Known, Owns, Marks
        <5>3. y # r
          BY <1>11, <1>12, <4>1, <5>1, <5>2 DEF Owns
        <5> QED
          BY <1>11, <5>1, <5>3
      <4> QED
        BY <4>1, <4>3, <4>4
    <3> QED
      BY <1>13, <2>4, <3>1, <3>2 DEF CpuKnown, LearnPcs, ForwardPcs
  <2> QED
    BY <2>3, <2>4
<1> QED
  BY <1>15, <1>16, <1>17, <1>18 DEF TapInv

\* The calls that take the mutex, for the first time or again.
LEMMA CallTaps ==
    ASSUME TypeInv, TapInv, Call \/ Resume
    PROVE  TapInv'
<1>1. TypeInv' /\ TaskFits'
  BY CallType, ResumeType DEF TypeInv
<1>4. \A t \in {"vips", "routes", "routesShadow", "prefixes", "lbPrefixes"} :
         t \notin TapMaps /\ t # "byId" /\ t # "dhcpMeta"
  BY DEF TapMaps
<1>5. ASSUME NEW id \in Ids, CreateVip(id) \/ DeleteVip(id) PROVE TapInv'
  <2>1. id \in DOMAIN ById /\ Free /\ UNCHANGED <<tab, cpu, late>>
    BY <1>5 DEF CreateVip, DeleteVip, history
  <2>2. PICK g : g = Guest(ById[id])
    OBVIOUS
  <2>3. /\ task'.detach = FALSE /\ ~Free'
        /\ \/ Todo' = { Put("vips", g, VipOf(g)), Put("vips", <<g[1], VipOf(g)>>, g[2]) }
           \/ Todo' = { Del("vips", {<<g[1], tab["vips"][g]>>}), Del("vips", {g}) }
    BY <1>5, <2>1, <2>2, VipStarts
  <2>4. \A w \in Todo' : w.tab = "vips"
    BY <2>3 DEF Put, Del
  <2> QED
    BY <1>1, <1>4, <2>1, <2>3, <2>4, QuietTaps
<1>6. ASSUME NEW v \in Vnis, NEW p \in Routes, NEW nh \in Remotes, CheckRoute(v, p, nh) PROVE TapInv'
  BY <1>1, <1>6, QuietTaps DEF CheckRoute, history
<1>7. ASSUME NEW k \in Vnis \X Routes, DeleteRoute(k) PROVE TapInv'
  <2>1. Free /\ UNCHANGED <<tab, cpu, late>> /\ task' = Task(RouteWrites(k), None)
    BY <1>7 DEF DeleteRoute, history
  <2>2. /\ task'.detach = FALSE /\ ~Free'
        /\ Todo' = { Del("routesShadow", {k}), Del("routes", {k}) }
    BY <2>1, UnrouteStarts
  <2>3. \A w \in Todo' : w.tab \in {"routes", "routesShadow"}
    BY <2>2 DEF Del
  <2> QED
    BY <1>1, <1>4, <2>1, <2>2, <2>3, QuietTaps
<1>8. ASSUME NEW v, NEW F, ListReset(v, F) PROVE TapInv'
  BY <1>1, <1>8, QuietTaps DEF ListReset, history
<1>9. ASSUME NEW id \in Ids, NEW p \in Aliases,
             AddPrefix(id, p) \/ DelPrefix(id, p) \/ AddLbPrefix(id, p) \/ DelLbPrefix(id, p)
      PROVE  TapInv'
  <2>1. id \in DOMAIN ById /\ Free /\ UNCHANGED <<tab, cpu, late>>
    BY <1>9 DEF AddPrefix, DelPrefix, AddLbPrefix, DelLbPrefix, history
  <2>2. PICK v, u : v = ById[id].vni /\ u = UnderlayOf(ById[id])
    OBVIOUS
  <2>3. /\ task'.detach = FALSE /\ ~Free'
        /\ \/ Todo' = { Put("routes", <<v, p>>, u), Put("prefixes", <<id, p>>, u) }
           \/ Todo' = { Del("prefixes", {<<id, p>>}), Del("routes", {<<v, p>>}) }
           \/ Todo' = { Put("lbPrefixes", <<id, p>>, u) }
           \/ Todo' = { Del("lbPrefixes", {<<id, p>>}) }
    BY <1>9, <2>1, <2>2, PrefixStarts
  <2>4. \A w \in Todo' : w.tab \in {"routes", "prefixes", "lbPrefixes"}
    BY <2>3 DEF Put, Del
  <2> QED
    BY <1>1, <1>4, <2>1, <2>3, <2>4, QuietTaps
<1>10. ASSUME NEW x \in calls, SetDhcpMeta(x) PROVE TapInv'
  <2>1. Free /\ UNCHANGED <<tab, cpu, late>>
    BY <1>10 DEF SetDhcpMeta, history
  <2>2. CASE x.id \in DOMAIN ById
    <3>1. task'.detach = FALSE /\ ~Free' /\ Todo' = {Put("dhcpMeta", ById[x.id].dev, x.id)}
      BY <1>10, <2>2, DhcpStarts
    <3>2. \E r \in Records : r.dev = ById[x.id].dev
      BY <2>2 DEF Records
    <3>3. \A w \in Todo' : w.tab = "dhcpMeta" /\ w.op = "put" /\ \E r \in Records : r.dev = w.key
      BY <3>1, <3>2 DEF Put
    <3>4. \A w \in Todo' : w.tab \notin TapMaps \ {"dhcpMeta"} /\ w.tab # "byId"
      BY <3>3
    <3> QED
      BY <1>1, <2>1, <3>1, <3>3, <3>4, QuietTaps
  <2>3. CASE x.id \notin DOMAIN ById
    <3>1. UNCHANGED task
      BY <1>10, <2>3 DEF SetDhcpMeta
    <3> QED
      BY <1>1, <2>1, <3>1, QuietTaps
  <2> QED
    BY <2>2, <2>3
<1>11. ASSUME NEW x \in calls, CreateRoute(x) PROVE TapInv'
  <2>1. Free /\ UNCHANGED <<tab, cpu, late>>
    BY <1>11 DEF CreateRoute, history
  <2>2. CASE <<x.vni, x.pfx>> \notin DOMAIN tab["routesShadow"]
    <3>1. /\ task'.detach = FALSE /\ ~Free'
          /\ Todo' = { Put("routes", <<x.vni, x.pfx>>, x.nh), Put("routesShadow", <<x.vni, x.pfx>>, x.nh) }
      BY <1>11, <2>2, RouteStarts
    <3>2. \A w \in Todo' : w.tab \in {"routes", "routesShadow"}
      BY <3>1 DEF Put
    <3> QED
      BY <1>1, <1>4, <2>1, <3>1, <3>2, QuietTaps
  <2>3. CASE <<x.vni, x.pfx>> \in DOMAIN tab["routesShadow"]
    <3>1. UNCHANGED task
      BY <1>11, <2>3 DEF CreateRoute
    <3> QED
      BY <1>1, <2>1, <3>1, QuietTaps
  <2> QED
    BY <2>2, <2>3
<1>12. ASSUME NEW x \in calls, ResetOne(x) PROVE TapInv'
  <2>1. Free /\ UNCHANGED <<tab, cpu, late>>
    BY <1>12 DEF ResetOne, history
  <2>2. PICK k \in x.keys : task' = IF k \in DOMAIN tab["routesShadow"] THEN Task(RouteWrites(k), None) ELSE task
    BY <1>12 DEF ResetOne
  <2>3. CASE task' = Task(RouteWrites(k), None)
    <3>1. /\ task'.detach = FALSE /\ ~Free'
          /\ Todo' = { Del("routesShadow", {k}), Del("routes", {k}) }
      BY <2>3, UnrouteStarts
    <3>2. \A w \in Todo' : w.tab \in {"routes", "routesShadow"}
      BY <3>1 DEF Del
    <3> QED
      BY <1>1, <1>4, <2>1, <3>1, <3>2, QuietTaps
  <2>4. CASE UNCHANGED task
    BY <1>1, <2>1, <2>4, QuietTaps
  <2> QED
    BY <2>2, <2>3, <2>4
<1>13. CASE Call
  BY <1>5, <1>6, <1>7, <1>8, <1>9, <1>13, CreateTaps, DetachTaps DEF Call
<1>14. CASE Resume
  BY <1>10, <1>11, <1>12, <1>14 DEF Resume
<1> QED
  BY <1>13, <1>14

\* A step of the datapath that leaves the maps alone, or writes to one of
\* them what an interface has.
LEMMA DatapathTaps ==
    ASSUME TypeInv, TapInv, NEW c \in Cpus, Datapath(c)
    PROVE  TapInv'
<1>1. PICK s : s = cpu[c]
  OBVIOUS
<1>2. CpuKnown(s) /\ CpuFits(s) /\ s \in CpuState
  BY <1>1 DEF TapInv, TypeInv, CpuFits
<1>3. task' = task /\ late \subseteq late'
  BY DEF Datapath, GuestPacket, DhcpPacket, VipLookup, RouteLookup, UnderlayLookup, Deliver, LearnPort,
     LearnUnderlayGet, LearnUnderlayPut, LearnIfaceGet, LearnIfacePut, LearnGet, history
<1>4. ASSUME tab'["byId"] = tab["byId"]
      PROVE  /\ Live' = Live /\ Coming' = Coming /\ Todo' = Todo /\ TodoKnown' /\ GuestsDiffer'
             /\ \A t, k : Dropping(t, k)' <=> Dropping(t, k)
  <2>1. Todo' = Todo /\ Coming' = Coming /\ ById' = ById
    BY <1>3, <1>4 DEF Todo, Coming, ById
  <2>2. \A t, k : Dropping(t, k)' <=> Dropping(t, k)
    BY <2>1 DEF Dropping
  <2>3. Live' = Live
    BY <2>1, <2>2 DEF Live
  <2>4. RecordFirst' /\ GuestsDiffer'
    BY <1>3, <2>1 DEF TapInv, TodoKnown, RecordFirst, GuestsDiffer, Guest
  <2>5. ASSUME NEW w, PutKnown(w) PROVE PutKnown(w)'
    <3>1. /\ \A r, d, m : Owns(r, d, m)' <=> Owns(r, d, m)
          /\ \A r : UnderlayOf(r)' = UnderlayOf(r)
      BY DEF Owns, UnderlayOf
    <3> QED
      BY <2>1, <2>3, <2>5, <3>1 DEF PutKnown, Guest
  <2>6. \A r \in Live' : ~Dropping("underlay", UnderlayOf(r))'
    BY <2>1, <2>3 DEF TapInv, TodoKnown, Dropping, UnderlayOf
  <2>7. TodoKnown'
    BY <1>3, <2>1, <2>4, <2>5, <2>6 DEF TapInv, TodoKnown
  <2> QED
    BY <2>1, <2>2, <2>3, <2>4, <2>7
<1>5. ASSUME tab' = tab, NEW y, cpu'[c] = y, CpuKnown(y)', \A d \in Cpus \ {c} : cpu'[d] = cpu[d]
      PROVE  TapInv'
  <2>1. Live' = Live /\ TodoKnown' /\ GuestsDiffer' /\ \A t, k : Dropping(t, k)' <=> Dropping(t, k)
    BY <1>4, <1>5
  <2>2. TapsKnown'
    BY <1>3, <1>5, <2>1, TapsStay DEF TapInv
  <2>3. \A d \in Cpus : CpuKnown(cpu[d])'
    BY <1>3, <1>5, <2>1, CpusKnown DEF TapInv
  <2> QED
    BY <2>1, <2>2, <2>3 DEF TapInv
<1>6. \A y : y.pc \in {"idle"} => CpuKnown(y)'
  BY DEF CpuKnown, ForwardPcs, LearnPcs
<1>7. IdleCpu.pc = "idle"
  BY DEF IdleCpu
<1>8. \A y : y.pc \in {"vip", "route", "underlay"} /\ (y.stale \/ ~task'.detach) => CpuKnown(y)'
  BY DEF CpuKnown, ForwardPcs, LearnPcs
<1>9. s.pc \in ForwardPcs => s.stale \/ ~task'.detach
  BY <1>2, <1>3 DEF CpuKnown
<1>10. ASSUME NEW dev \in Devices, NEW a \in Dests, GuestPacket(c, dev, a) PROVE TapInv'
  <2>1. /\ cpu'[c].pc = "vip" /\ cpu'[c].stale = task.detach /\ \A d \in Cpus \ {c} : cpu'[d] = cpu[d]
        /\ tab' = tab
    BY <1>10, ForwardType DEF GuestPacket
  <2>2. PICK y : y = cpu'[c]
    OBVIOUS
  <2>3. CpuKnown(y)'
    BY <1>3, <1>8, <2>1, <2>2
  <2> QED
    BY <1>5, <2>1, <2>2, <2>3
<1>11. ASSUME VipLookup(c) \/ RouteLookup(c) \/ Deliver(c) PROVE TapInv'
  <2>1. /\ cpu'[c] = IdleCpu \/ (cpu'[c].pc \in {"route", "underlay"} /\ cpu'[c].stale = s.stale
                                 /\ s.pc \in ForwardPcs)
        /\ \A d \in Cpus \ {c} : cpu'[d] = cpu[d]
        /\ tab' = tab
    <3>1. ASSUME VipLookup(c) PROVE cpu'[c].pc = "route" /\ cpu'[c].stale = s.stale /\ s.pc \in ForwardPcs
            /\ (\A d \in Cpus \ {c} : cpu'[d] = cpu[d]) /\ tab' = tab
      BY <1>1, <3>1, ForwardType DEF VipLookup, ForwardPcs
    <3>2. ASSUME RouteLookup(c)
          PROVE  /\ cpu'[c] = IdleCpu \/ (cpu'[c].pc = "underlay" /\ cpu'[c].stale = s.stale)
                 /\ s.pc \in ForwardPcs
                 /\ (\A d \in Cpus \ {c} : cpu'[d] = cpu[d]) /\ tab' = tab
      <4>1. s.pc \in ForwardPcs /\ tab' = tab
        BY <1>1, <3>2 DEF RouteLookup, ForwardPcs
      <4> QED
        BY <1>1, <3>2, <4>1, ForwardType
    <3>3. ASSUME Deliver(c)
          PROVE  cpu'[c] = IdleCpu /\ (\A d \in Cpus \ {c} : cpu'[d] = cpu[d]) /\ tab' = tab
      BY <3>3, ForwardType DEF Deliver
    <3> QED
      BY <1>11, <3>1, <3>2, <3>3
  <2>2. PICK y : y = cpu'[c]
    OBVIOUS
  <2>3. CpuKnown(y)'
    BY <1>6, <1>7, <1>8, <1>9, <2>1, <2>2
  <2> QED
    BY <1>5, <2>1, <2>2, <2>3
<1>12. ASSUME UnderlayLookup(c) PROVE TapInv'
  <2>1. /\ \A d \in Cpus \ {c} : cpu'[d] = cpu[d]
        /\ \/ cpu'[c] = IdleCpu
           \/ /\ s.nh \in DOMAIN tab["underlay"]
              /\ cpu'[c].pc = "local" /\ cpu'[c].stale = s.stale /\ cpu'[c].meta = s.meta
              /\ cpu'[c].nh = s.nh /\ cpu'[c].to = tab["underlay"][s.nh]
    BY <1>1, <1>12, ForwardType
  <2>2. tab' = tab /\ s.pc = "underlay" /\ late' = late
    BY <1>1, <1>12 DEF UnderlayLookup, history
  <2>3. PICK y : y = cpu'[c]
    OBVIOUS
  <2>4. CASE y = IdleCpu
    BY <1>5, <1>6, <1>7, <2>1, <2>2, <2>3, <2>4
  <2>5. CASE /\ s.nh \in DOMAIN tab["underlay"]
             /\ y.pc = "local" /\ y.stale = s.stale /\ y.meta = s.meta
             /\ y.nh = s.nh /\ y.to = tab["underlay"][s.nh]
    <3>1. ASSUME ~s.stale, s.nh \notin late
          PROVE  \E r \in Live : r.vni = s.meta.vni /\ UnderlayOf(r) = s.nh /\ r.dev = y.to.dev
      <4>1. ~task.detach
        BY <1>2, <2>2, <3>1 DEF CpuKnown, ForwardPcs
      <4>2. ~Dropping("underlay", s.nh)
        BY <4>1 DEF TapInv, TodoKnown, Dropping
      <4>3. PICK r \in Live : UnderlayOf(r) = s.nh /\ r.dev = tab["underlay"][s.nh].dev
        BY <2>5, <3>1, <4>2 DEF TapInv, TapsKnown
      <4>4. r \in Requests
        BY <4>3, RecordFacts DEF Live
      <4>5. NextHop(s.meta.vni, s.nh)
        BY <1>2, <2>2 DEF CpuFits
      <4>6. s.nh \notin Remotes
        BY <4>3, <4>4, RequestFacts, OperatorAssumption
      <4>7. PICK q \in Requests : q.vni = s.meta.vni /\ UnderlayOf(q) = s.nh
        BY <4>5, <4>6 DEF NextHop
      <4>8. Guest(q) = Guest(r)
        BY <4>3, <4>4, <4>7, OperatorAssumption
      <4>9. q.vni = r.vni
        BY <4>4, <4>7, <4>8, RequestFacts
      <4> QED
        BY <2>5, <4>3, <4>7, <4>9
    <3>2. Live' = Live
      BY <1>4, <2>2
    <3>3. CpuKnown(y)'
      <4>1. y.pc = "local" /\ y.stale = s.stale /\ y.meta = s.meta /\ y.nh = s.nh
        BY <2>5
      <4>2. s.stale \/ ~task'.detach
        BY <1>9, <2>2 DEF ForwardPcs
      <4>3. "local" \notin LearnPcs /\ "local" # "luput"
        BY DEF LearnPcs
      <4> QED
        BY <2>2, <3>1, <3>2, <4>1, <4>2, <4>3 DEF CpuKnown, UnderlayOf
    <3> QED
      BY <1>5, <2>1, <2>2, <2>3, <3>3
  <2> QED
    BY <2>1, <2>3, <2>4, <2>5
<1>13. \A y : /\ y.pc \in LearnPcs \ {"luput"} /\ y.dev = s.dev /\ y.meta = s.meta /\ s.pc \in LearnPcs
              /\ Live' = Live
              => CpuKnown(y)'
  <2> SUFFICES ASSUME NEW y, y.pc \in LearnPcs \ {"luput"}, y.dev = s.dev, y.meta = s.meta,
                      s.pc \in LearnPcs, Live' = Live
               PROVE  CpuKnown(y)'
    OBVIOUS
  <2>1. PICK r \in Requests : Owns(r, s.dev, s.meta) /\ Known(r)
    BY <1>2 DEF CpuKnown
  <2>2. Known(r)' /\ Owns(r, y.dev, y.meta)
    BY <1>3, <2>1 DEF Known, Marks, Guest, UnderlayOf
  <2>3. \A q, d, m : Owns(q, d, m)' <=> Owns(q, d, m)
    BY DEF Owns, UnderlayOf
  <2> QED
    BY <2>2, <2>3 DEF CpuKnown, LearnPcs, ForwardPcs
<1>14. ASSUME s.pc \in LearnPcs
       PROVE  \E r \in Requests : Owns(r, s.dev, s.meta) /\ Known(r)
  BY <1>2, <1>14 DEF CpuKnown
<1>15. ASSUME NEW dev \in Devices, NEW mac \in GuestMacs, DhcpPacket(c, dev, mac) PROVE TapInv'
  <2>1. /\ tab' = tab /\ \A d \in Cpus \ {c} : cpu'[d] = cpu[d]
        /\ cpu'[c].pc = "lport" /\ cpu'[c].dev = dev /\ cpu'[c].meta = tab["ports"][dev]
    BY <1>15, LearnType
  <2>2. PICK m : m = tab["ports"][dev]
    OBVIOUS
  <2>3. /\ dev \in DOMAIN tab["ports"]
        /\ task.dev = dev => {dev, m.ul, <<m.vni, m.ip>>} \subseteq late'
    BY <1>15, <2>2 DEF DhcpPacket
  <2>4. PICK r \in Requests : Owns(r, dev, m) /\ (Known(r) \/ Dropping("ports", dev))
    BY <2>2, <2>3 DEF TapInv, TapsKnown
  <2>5. Marks(r) = {dev, m.ul, <<m.vni, m.ip>>}
    BY <2>4 DEF Owns, Marks, Guest
  <2>6. Dropping("ports", dev) => task.dev = dev
    BY DEF TapInv, TodoKnown, Dropping
  <2>7. Live' = Live
    BY <1>4, <2>1
  <2>8. Known(r)'
    <3>1. CASE Known(r)
      BY <1>3, <2>7, <3>1 DEF Known, Marks, Guest, UnderlayOf
    <3>2. CASE Dropping("ports", dev)
      <4>1. Marks(r) \subseteq late'
        BY <2>3, <2>5, <2>6, <3>2
      <4> QED
        BY <4>1 DEF Known, Marks, Guest, UnderlayOf
    <3> QED
      BY <2>4, <3>1, <3>2
  <2>9. PICK y : y = cpu'[c]
    OBVIOUS
  <2>10. CpuKnown(y)'
    <3>1. y.pc = "lport" /\ y.dev = dev /\ y.meta = m
      BY <2>1, <2>2, <2>9
    <3>2. \A q, d, x : Owns(q, d, x)' <=> Owns(q, d, x)
      BY DEF Owns, UnderlayOf
    <3> QED
      BY <2>4, <2>8, <3>1, <3>2 DEF CpuKnown, ForwardPcs
  <2> QED
    BY <1>5, <2>1, <2>9, <2>10
<1>16. ASSUME LearnPort(c) PROVE TapInv'
  <2>1. /\ \A d \in Cpus \ {c} : cpu'[d] = cpu[d]
        /\ cpu'[c].pc = "luget" /\ cpu'[c].dev = s.dev /\ cpu'[c].meta = s.meta
        /\ \A t \in Tables \ {"ports"} : tab'[t] = tab[t]
        /\ \A d \in DOMAIN tab'["ports"] :
              \/ d = s.dev /\ \A r : Owns(r, d, s.meta) => Owns(r, d, tab'["ports"][d])
              \/ d \in DOMAIN tab["ports"] /\ tab'["ports"][d] = tab["ports"][d]
    BY <1>1, <1>16, LearnType
  <2>2. s.pc \in LearnPcs /\ late' = late
    BY <1>1, <1>16 DEF LearnPort, LearnPcs, history
  <2>3. /\ tab'["byId"] = tab["byId"] /\ tab'["ifaces"] = tab["ifaces"]
        /\ tab'["underlay"] = tab["underlay"] /\ tab'["meter"] = tab["meter"]
        /\ tab'["dhcpMeta"] = tab["dhcpMeta"]
    BY <2>1 DEF Tables, Maps, Shadows
  <2>4. Live' = Live /\ TodoKnown' /\ GuestsDiffer' /\ \A t, k : Dropping(t, k)' <=> Dropping(t, k)
    BY <1>4, <2>3
  <2>5. PICK y : y = cpu'[c]
    OBVIOUS
  <2>6. CpuKnown(y)'
    BY <1>13, <2>1, <2>2, <2>4, <2>5 DEF LearnPcs
  <2>7. \A d \in Cpus : CpuKnown(cpu[d])'
    BY <1>3, <2>1, <2>4, <2>5, <2>6, CpusKnown DEF TapInv
  <2>8. \A r : Known(r) => Known(r)'
    <3> SUFFICES ASSUME NEW r, Known(r) PROVE Known(r)'
      OBVIOUS
    <3> QED
      BY <1>3, <2>4 DEF Known, Marks, Guest, UnderlayOf
  <2>9. ASSUME NEW d \in DOMAIN tab'["ports"]
        PROVE  \E r \in Requests : Owns(r, d, tab'["ports"][d]) /\ (Known(r)' \/ Dropping("ports", d)')
    <3>1. CASE d = s.dev /\ \A r : Owns(r, d, s.meta) => Owns(r, d, tab'["ports"][d])
      BY <1>14, <2>2, <2>8, <3>1
    <3>2. CASE d \in DOMAIN tab["ports"] /\ tab'["ports"][d] = tab["ports"][d]
      <4>1. PICK r \in Requests : Owns(r, d, tab["ports"][d]) /\ (Known(r) \/ Dropping("ports", d))
        BY <3>2 DEF TapInv, TapsKnown
      <4> QED
        BY <2>4, <2>8, <3>2, <4>1
    <3> QED
      BY <2>1, <2>9, <3>1, <3>2
  <2>10. TapsKnown'
    <3>1. /\ \A r, d, m : Owns(r, d, m)' <=> Owns(r, d, m)
          /\ \A r : UnderlayOf(r)' = UnderlayOf(r) /\ Guest(r)' = Guest(r)
      BY DEF Owns, UnderlayOf, Guest
    <3>2. /\ \A g \in DOMAIN tab'["ifaces"] :
                g \in late' \/ Dropping("ifaces", g)' \/ \E r \in Live' : Guest(r) = g
          /\ \A u \in DOMAIN tab'["underlay"] :
                \/ u \in late' \/ Dropping("underlay", u)'
                \/ \E r \in Live' : UnderlayOf(r) = u /\ r.dev = tab'["underlay"][u].dev
          /\ \A t \in {"meter", "dhcpMeta"} : \A d \in DOMAIN tab'[t] :
                Dropping(t, d)' \/ \E r \in Live' : r.dev = d
      BY <2>2, <2>3, <2>4 DEF TapInv, TapsKnown
    <3> QED
      BY <2>9, <3>1, <3>2 DEF TapsKnown
  <2> QED
    BY <2>4, <2>7, <2>10 DEF TapInv
<1>17. ASSUME LearnUnderlayGet(c) PROVE TapInv'
  <2>1. /\ tab' = tab /\ \A d \in Cpus \ {c} : cpu'[d] = cpu[d]
        /\ cpu'[c].dev = s.dev /\ cpu'[c].meta = s.meta
        /\ \/ cpu'[c].pc = "liget"
           \/ /\ cpu'[c].pc = "luput" /\ s.meta.ul \in DOMAIN tab["underlay"]
              /\ cpu'[c].val = tab["underlay"][s.meta.ul]
    BY <1>1, <1>17, LearnType
  <2>2. s.pc \in LearnPcs /\ late' = late
    BY <1>1, <1>17 DEF LearnUnderlayGet, LearnGet, LearnPcs, history
  <2>3. Live' = Live
    BY <1>4, <2>1
  <2>4. PICK y : y = cpu'[c]
    OBVIOUS
  <2>5. CASE y.pc = "liget"
    <3>1. CpuKnown(y)'
      BY <1>13, <2>1, <2>2, <2>3, <2>4, <2>5 DEF LearnPcs
    <3> QED
      BY <1>5, <2>1, <2>4, <3>1
  <2>6. CASE /\ y.pc = "luput" /\ s.meta.ul \in DOMAIN tab["underlay"]
             /\ y.val = tab["underlay"][s.meta.ul]
    <3>1. PICK r \in Requests : Owns(r, s.dev, s.meta) /\ Known(r)
      BY <1>14, <2>2
    <3>2. Dropping("underlay", s.meta.ul) => s.meta.ul \in late
      <4>1. UnderlayOf(r) = s.meta.ul /\ s.meta.ul \in Marks(r)
        BY <3>1 DEF Owns, Marks
      <4> QED
        BY <3>1, <4>1 DEF Known, TapInv, TodoKnown
    <3>3. \/ s.meta.ul \in late
          \/ \E x \in Live : UnderlayOf(x) = s.meta.ul /\ x.dev = y.val.dev
      BY <2>6, <3>2 DEF TapInv, TapsKnown
    <3>4. Known(r)'
      BY <1>3, <2>3, <3>1 DEF Known, Marks, Guest, UnderlayOf
    <3>5. CpuKnown(y)'
      <4>1. y.pc = "luput" /\ y.dev = s.dev /\ y.meta = s.meta
        BY <2>1, <2>4, <2>6
      <4>2. /\ \A q, d, m : Owns(q, d, m)' <=> Owns(q, d, m)
            /\ \A q : UnderlayOf(q)' = UnderlayOf(q)
        BY DEF Owns, UnderlayOf
      <4> QED
        BY <2>2, <2>3, <3>1, <3>3, <3>4, <4>1, <4>2 DEF CpuKnown, ForwardPcs
    <3> QED
      BY <1>5, <2>1, <2>4, <3>5
  <2> QED
    BY <2>1, <2>4, <2>5, <2>6
<1>18. ASSUME LearnUnderlayPut(c) PROVE TapInv'
  <2>1. /\ \A d \in Cpus \ {c} : cpu'[d] = cpu[d]
        /\ cpu'[c].pc = "liget" /\ cpu'[c].dev = s.dev /\ cpu'[c].meta = s.meta
        /\ \A t \in Tables \ {"underlay"} : tab'[t] = tab[t]
        /\ \A u \in DOMAIN tab'["underlay"] :
              IF u = s.meta.ul /\ Room("underlay", u)
                THEN tab'["underlay"][u].dev = s.val.dev
                ELSE u \in DOMAIN tab["underlay"] /\ tab'["underlay"][u] = tab["underlay"][u]
    BY <1>1, <1>18, LearnType
  <2>2. s.pc = "luput" /\ s.pc \in LearnPcs /\ late' = late
    BY <1>1, <1>18 DEF LearnUnderlayPut, LearnPcs
  <2>3. /\ tab'["byId"] = tab["byId"] /\ tab'["ifaces"] = tab["ifaces"]
        /\ tab'["ports"] = tab["ports"] /\ tab'["meter"] = tab["meter"]
        /\ tab'["dhcpMeta"] = tab["dhcpMeta"]
    BY <2>1 DEF Tables, Maps, Shadows
  <2>4. Live' = Live /\ TodoKnown' /\ GuestsDiffer' /\ \A t, k : Dropping(t, k)' <=> Dropping(t, k)
    BY <1>4, <2>3
  <2>5. PICK y : y = cpu'[c]
    OBVIOUS
  <2>6. CpuKnown(y)'
    BY <1>13, <2>1, <2>2, <2>4, <2>5 DEF LearnPcs
  <2>7. \A d \in Cpus : CpuKnown(cpu[d])'
    BY <1>3, <2>1, <2>4, <2>5, <2>6, CpusKnown DEF TapInv
  <2>8. ASSUME NEW u \in DOMAIN tab'["underlay"]
        PROVE  \/ u \in late' \/ Dropping("underlay", u)'
               \/ \E r \in Live' : UnderlayOf(r) = u /\ r.dev = tab'["underlay"][u].dev
    <3>1. CASE u = s.meta.ul /\ tab'["underlay"][u].dev = s.val.dev
      <4>1. \/ s.meta.ul \in late
            \/ \E r \in Live : UnderlayOf(r) = s.meta.ul /\ r.dev = s.val.dev
        BY <1>2, <2>2 DEF CpuKnown
      <4> QED
        BY <2>2, <2>4, <3>1, <4>1
    <3>2. CASE u \in DOMAIN tab["underlay"] /\ tab'["underlay"][u] = tab["underlay"][u]
      <4>1. \/ u \in late \/ Dropping("underlay", u)
            \/ \E r \in Live : UnderlayOf(r) = u /\ r.dev = tab["underlay"][u].dev
        BY <3>2 DEF TapInv, TapsKnown
      <4> QED
        BY <2>2, <2>4, <3>2, <4>1
    <3> QED
      BY <2>1, <2>8, <3>1, <3>2
  <2>9. TapsKnown'
    <3>1. /\ \A r, d, m : Owns(r, d, m)' <=> Owns(r, d, m)
          /\ \A r : UnderlayOf(r)' = UnderlayOf(r) /\ Guest(r)' = Guest(r)
          /\ \A r : Known(r)' <=> Known(r)
      BY <2>2, <2>4 DEF Owns, UnderlayOf, Guest, Known, Marks
    <3>2. /\ \A d \in DOMAIN tab'["ports"] :
                \E r \in Requests : Owns(r, d, tab'["ports"][d]) /\ (Known(r)' \/ Dropping("ports", d)')
          /\ \A g \in DOMAIN tab'["ifaces"] :
                g \in late' \/ Dropping("ifaces", g)' \/ \E r \in Live' : Guest(r) = g
          /\ \A t \in {"meter", "dhcpMeta"} : \A d \in DOMAIN tab'[t] :
                Dropping(t, d)' \/ \E r \in Live' : r.dev = d
      BY <2>2, <2>3, <2>4, <3>1 DEF TapInv, TapsKnown
    <3> QED
      BY <2>8, <3>1, <3>2 DEF TapsKnown
  <2> QED
    BY <2>4, <2>7, <2>9 DEF TapInv
<1>19. ASSUME LearnIfaceGet(c) PROVE TapInv'
  <2>1. /\ tab' = tab /\ \A d \in Cpus \ {c} : cpu'[d] = cpu[d]
        /\ \/ cpu'[c] = IdleCpu
           \/ cpu'[c].pc = "liput" /\ cpu'[c].dev = s.dev /\ cpu'[c].meta = s.meta
    BY <1>1, <1>19, LearnType
  <2>2. s.pc \in LearnPcs
    BY <1>1, <1>19 DEF LearnIfaceGet, LearnGet, LearnPcs
  <2>3. Live' = Live
    BY <1>4, <2>1
  <2>4. PICK y : y = cpu'[c]
    OBVIOUS
  <2>5. CpuKnown(y)'
    BY <1>6, <1>7, <1>13, <2>1, <2>2, <2>3, <2>4 DEF LearnPcs
  <2> QED
    BY <1>5, <2>1, <2>4, <2>5
<1>20. ASSUME LearnIfacePut(c) PROVE TapInv'
  <2>1. /\ \A d \in Cpus \ {c} : cpu'[d] = cpu[d]
        /\ cpu'[c] = IdleCpu
        /\ \A t \in Tables \ {"ifaces"} : tab'[t] = tab[t]
        /\ DOMAIN tab'["ifaces"] \subseteq DOMAIN tab["ifaces"] \cup {<<s.meta.vni, s.meta.ip>>}
    BY <1>1, <1>20, LearnType
  <2>2. s.pc \in LearnPcs /\ late' = late
    BY <1>1, <1>20 DEF LearnIfacePut, LearnPcs, history
  <2>3. /\ tab'["byId"] = tab["byId"] /\ tab'["underlay"] = tab["underlay"]
        /\ tab'["ports"] = tab["ports"] /\ tab'["meter"] = tab["meter"]
        /\ tab'["dhcpMeta"] = tab["dhcpMeta"]
    BY <2>1 DEF Tables, Maps, Shadows
  <2>4. Live' = Live /\ TodoKnown' /\ GuestsDiffer' /\ \A t, k : Dropping(t, k)' <=> Dropping(t, k)
    BY <1>4, <2>3
  <2>5. PICK y : y = cpu'[c]
    OBVIOUS
  <2>6. CpuKnown(y)'
    BY <1>6, <1>7, <2>1, <2>5
  <2>7. \A d \in Cpus : CpuKnown(cpu[d])'
    BY <1>3, <2>1, <2>4, <2>5, <2>6, CpusKnown DEF TapInv
  <2>8. ASSUME NEW g \in DOMAIN tab'["ifaces"]
        PROVE  g \in late' \/ Dropping("ifaces", g)' \/ \E r \in Live' : Guest(r) = g
    <3>1. CASE g = <<s.meta.vni, s.meta.ip>>
      <4>1. PICK r \in Requests : Owns(r, s.dev, s.meta) /\ Known(r)
        BY <1>14, <2>2
      <4>2. g = Guest(r) /\ g \in Marks(r)
        BY <3>1, <4>1 DEF Owns, Guest, Marks
      <4> QED
        BY <2>2, <2>4, <4>1, <4>2 DEF Known
    <3>2. CASE g \in DOMAIN tab["ifaces"]
      <4>1. g \in late \/ Dropping("ifaces", g) \/ \E r \in Live : Guest(r) = g
        BY <3>2 DEF TapInv, TapsKnown
      <4> QED
        BY <2>2, <2>4, <4>1
    <3> QED
      BY <2>1, <2>8, <3>1, <3>2
  <2>9. TapsKnown'
    <3>1. /\ \A r, d, m : Owns(r, d, m)' <=> Owns(r, d, m)
          /\ \A r : UnderlayOf(r)' = UnderlayOf(r) /\ Guest(r)' = Guest(r)
          /\ \A r : Known(r)' <=> Known(r)
      BY <2>2, <2>4 DEF Owns, UnderlayOf, Guest, Known, Marks
    <3>2. /\ \A d \in DOMAIN tab'["ports"] :
                \E r \in Requests : Owns(r, d, tab'["ports"][d]) /\ (Known(r)' \/ Dropping("ports", d)')
          /\ \A u \in DOMAIN tab'["underlay"] :
                \/ u \in late' \/ Dropping("underlay", u)'
                \/ \E r \in Live' : UnderlayOf(r) = u /\ r.dev = tab'["underlay"][u].dev
          /\ \A t \in {"meter", "dhcpMeta"} : \A d \in DOMAIN tab'[t] :
                Dropping(t, d)' \/ \E r \in Live' : r.dev = d
      BY <2>2, <2>3, <2>4, <3>1 DEF TapInv, TapsKnown
    <3> QED
      BY <2>8, <3>1, <3>2 DEF TapsKnown
  <2> QED
    BY <2>4, <2>7, <2>9 DEF TapInv
<1> QED
  BY <1>10, <1>11, <1>12, <1>15, <1>16, <1>17, <1>18, <1>19, <1>20 DEF Datapath

\* TapInv is inductive.
LEMMA TapInductive ==
    /\ Init => TapInv
    /\ TypeInv /\ TapInv /\ [Next]_vars => TapInv'
<1>1. ASSUME Init PROVE TapInv
  <2>1. \A t \in Tables : DOMAIN tab[t] = {}
    BY <1>1 DEF Init
  <2>2. TapMaps \cup {"byId"} \subseteq Tables
    BY DEF TapMaps, Tables, Maps, Shadows
  <2>3. Free /\ \A c \in Cpus : cpu[c] = IdleCpu
    BY <1>1 DEF Init, Free
  <2>4. Live = Records /\ Todo = {} /\ ~task.detach
    BY <2>3, FreeLive
  <2>5. TapsKnown
    BY <2>1, <2>2 DEF TapsKnown, TapMaps
  <2>6. task.ops = << >>
    BY <2>3, FreeFacts DEF Free
  <2>7. TodoKnown
    BY <2>4, <2>6 DEF TodoKnown, RecordFirst, Dropping
  <2>8. GuestsDiffer
    BY <2>1, <2>2 DEF GuestsDiffer, ById
  <2>9. \A c \in Cpus : CpuKnown(cpu[c])
    BY <2>3 DEF CpuKnown, IdleCpu, LearnPcs, ForwardPcs
  <2> QED
    BY <2>5, <2>7, <2>8, <2>9 DEF TapInv
<1>2. ASSUME TypeInv, TapInv, [Next]_vars PROVE TapInv'
  <2>1. CASE Write
    BY <1>2, <2>1, PutTaps, OtherWriteTaps DEF Write
  <2>2. CASE Call \/ Resume
    BY <1>2, <2>2, CallTaps
  <2>3. ASSUME NEW c \in Cpus, Datapath(c) PROVE TapInv'
    BY <1>2, <2>3, DatapathTaps
  <2>4. CASE UNCHANGED vars
    <3>1. tab' = tab /\ task' = task /\ cpu' = cpu /\ late' = late
      BY <2>4 DEF vars, history
    <3>2. Todo' = Todo /\ ById' = ById
      BY <3>1 DEF Todo, ById
    <3>3. \A t, k : Dropping(t, k)' <=> Dropping(t, k)
      BY <3>2 DEF Dropping
    <3>4. Live' = Live /\ Coming' = Coming
      BY <3>2, <3>3 DEF Live, Coming
    <3>5. TapsKnown'
      BY <1>2, <3>1, <3>3, <3>4, TapsStay DEF TapInv
    <3>6. \A c \in Cpus : CpuKnown(cpu[c])'
      BY <1>2, <3>1, <3>4, CpusStay DEF TapInv
    <3>7. GuestsDiffer' /\ RecordFirst'
      BY <1>2, <3>1, <3>2 DEF TapInv, TodoKnown, GuestsDiffer, RecordFirst, Guest
    <3>8. TodoKnown'
      <4>1. ASSUME NEW w, PutKnown(w) PROVE PutKnown(w)'
        BY <3>2, <3>4, <4>1 DEF PutKnown, Owns, Guest, UnderlayOf
      <4>2. \A r \in Live' : ~Dropping("underlay", UnderlayOf(r))'
        BY <1>2, <3>2, <3>4 DEF TapInv, TodoKnown, Dropping, UnderlayOf
      <4> QED
        BY <1>2, <3>1, <3>2, <3>7, <4>1, <4>2 DEF TapInv, TodoKnown
    <3> QED
      BY <3>5, <3>6, <3>7, <3>8 DEF TapInv
  <2> QED
    BY <1>2, <2>1, <2>2, <2>3, <2>4 DEF Next
<1> QED
  BY <1>1, <1>2

\* Tenant isolation of the local fast path, whatever writes of the control
\* plane and of other CPUs come between a packet's lookups.
THEOREM DeliverSoundHolds == Spec => []DeliverSound
<1>1. TypeInv /\ TapInv => DeliverSound
  BY DEF TapInv, CpuKnown, DeliverSound, Live, Records
<1> QED
  BY <1>1, TypeInductive, TapInductive, PTL DEF Spec

\* Between operations the maps hold nothing of an interface that is gone,
\* raced MAC updates excepted.
THEOREM NoLeftoversHolds == Spec => []NoLeftovers
<1>1. TypeInv /\ TapInv => NoLeftovers
  <2> SUFFICES ASSUME TapInv, Free PROVE NoLeftovers
    BY DEF NoLeftovers
  <2>1. Live = Records /\ \A t, k : ~Dropping(t, k)
    BY FreeLive
  <2>2. ASSUME NEW d \in DOMAIN tab["ports"] PROVE d \in {r.dev : r \in Records} \cup late
    <3>1. PICK r \in Requests : Owns(r, d, tab["ports"][d]) /\ Known(r)
      BY <2>1, <2>2 DEF TapInv, TapsKnown
    <3> QED
      BY <2>1, <3>1 DEF Known, Owns, Marks
  <2>3. /\ \A g \in DOMAIN tab["ifaces"] : g \in late \/ \E r \in Records : Guest(r) = g
        /\ \A u \in DOMAIN tab["underlay"] : u \in late \/ \E r \in Records : UnderlayOf(r) = u
        /\ \A d \in DOMAIN tab["meter"] : \E r \in Records : r.dev = d
        /\ \A d \in DOMAIN tab["dhcpMeta"] : \E r \in Records : r.dev = d
    BY <2>1 DEF TapInv, TapsKnown
  <2> QED
    BY <2>2, <2>3 DEF NoLeftovers
<1> QED
  BY <1>1, TypeInductive, TapInductive, PTL DEF Spec

(***************************************************************************)
(* Routes, prefixes and VIPs: the steps that concern them.                 *)
(***************************************************************************)

\* The tables of the control plane that the datapath does not write.
ControlTabs == {"byId", "vips", "routes", "routesShadow", "prefixes"}

\* A step of the datapath concerns neither those tables nor the operation
\* that holds the mutex.
LEMMA DatapathQuiet ==
    ASSUME TypeInv, (\E c \in Cpus : Datapath(c)) \/ UNCHANGED vars
    PROVE  /\ UNCHANGED <<task, calls, broken, orphans, lateVnis>>
           /\ \A t \in ControlTabs : tab'[t] = tab[t]
<1>1. DOMAIN tab = Tables /\ ControlTabs \subseteq Tables
      /\ ControlTabs \cap {"ports", "underlay", "ifaces"} = {}
  BY DEF TypeInv, TablesFit, ControlTabs, Tables, Maps, Shadows
<1>2. ASSUME NEW t \in {"ports", "underlay", "ifaces"}, NEW k, NEW v, Learn(t, k, v)
      PROVE  \A x \in ControlTabs : tab'[x] = tab[x]
  BY <1>1, <1>2 DEF Learn
<1>3. CASE UNCHANGED vars
  BY <1>3 DEF vars, history
<1>4. ASSUME NEW c \in Cpus, Datapath(c)
      PROVE  /\ UNCHANGED <<task, calls, broken, orphans, lateVnis>>
             /\ \A t \in ControlTabs : tab'[t] = tab[t]
  <2>1. ASSUME NEW dev, NEW a, GuestPacket(c, dev, a)
        PROVE  UNCHANGED <<tab, task, calls, broken, orphans, lateVnis>>
    BY <2>1 DEF GuestPacket, history
  <2>2. ASSUME NEW dev, NEW mac, DhcpPacket(c, dev, mac)
        PROVE  UNCHANGED <<tab, task, calls, broken, orphans, lateVnis>>
    BY <2>2 DEF DhcpPacket
  <2>3. ASSUME VipLookup(c) \/ RouteLookup(c) \/ UnderlayLookup(c) \/ Deliver(c)
        PROVE  UNCHANGED <<tab, task, calls, broken, orphans, lateVnis>>
    BY <2>3 DEF VipLookup, RouteLookup, UnderlayLookup, Deliver, history
  <2>4. ASSUME LearnUnderlayGet(c) \/ LearnIfaceGet(c)
        PROVE  UNCHANGED <<tab, task, calls, broken, orphans, lateVnis>>
    BY <2>4 DEF LearnUnderlayGet, LearnIfaceGet, LearnGet, history
  <2>5. ASSUME LearnPort(c) \/ LearnUnderlayPut(c) \/ LearnIfacePut(c)
        PROVE  /\ UNCHANGED <<task, calls, broken, orphans, lateVnis>>
               /\ \E t \in {"ports", "underlay", "ifaces"} : \E k, v : Learn(t, k, v)
    <3>1. ASSUME LearnPort(c)
          PROVE  UNCHANGED <<task, calls, broken, orphans, lateVnis>> /\ \E k, v : Learn("ports", k, v)
      BY <3>1, Zenon DEF LearnPort, history
    <3>2. ASSUME LearnUnderlayPut(c)
          PROVE  UNCHANGED <<task, calls, broken, orphans, lateVnis>> /\ \E k, v : Learn("underlay", k, v)
      BY <3>2, Zenon DEF LearnUnderlayPut
    <3>3. ASSUME LearnIfacePut(c)
          PROVE  UNCHANGED <<task, calls, broken, orphans, lateVnis>> /\ \E k, v : Learn("ifaces", k, v)
      BY <3>3, Zenon DEF LearnIfacePut, history
    <3> QED
      BY <2>5, <3>1, <3>2, <3>3
  <2> QED
    BY <1>2, <1>4, <2>1, <2>2, <2>3, <2>4, <2>5 DEF Datapath
<1> QED
  BY <1>3, <1>4

\* So what is said of them stays.
LEMMA QuietFacts ==
    ASSUME TypeInv, (\E c \in Cpus : Datapath(c)) \/ UNCHANGED vars
    PROVE  /\ Todo' = Todo /\ ById' = ById /\ Live' = Live /\ Coming' = Coming
           /\ \A t, k : Dropping(t, k)' <=> Dropping(t, k)
<1>1. task' = task /\ \A t \in ControlTabs : tab'[t] = tab[t]
  BY DatapathQuiet
<1>2. Todo' = Todo /\ ById' = ById
  BY <1>1 DEF Todo, ById, ControlTabs
<1>3. \A t, k : Dropping(t, k)' <=> Dropping(t, k)
  BY <1>2 DEF Dropping
<1> QED
  BY <1>2, <1>3 DEF Live, Coming

\* What the calls that take the mutex are about to write.
StartsCreate ==
    \E r \in Requests, mac \in Macs : CreateInterface(r) /\ Todo' = CreateTodo(r, mac)
StartsDetach ==
    \E id \in DOMAIN ById : DetachInterface(id) /\ Todo' = DetachTodo(id, ById[id])
StartsVip ==
    \E id \in DOMAIN ById : \E g :
        /\ g = Guest(ById[id]) /\ g \notin DOMAIN tab["vips"] /\ task'.guest = g
        /\ Todo' = { Put("vips", g, VipOf(g)), Put("vips", <<g[1], VipOf(g)>>, g[2]) }
StartsUnvip ==
    \E g \in DOMAIN tab["vips"] :
        Todo' = { Del("vips", {<<g[1], tab["vips"][g]>>}), Del("vips", {g}) }
StartsRoute ==
    \E x \in calls : \E k :
        /\ x.op = "route" /\ k = <<x.vni, x.pfx>> /\ k \in Vnis \X Routes /\ x.nh \in Remotes
        /\ k \notin DOMAIN tab["routesShadow"]
        /\ Todo' = { Put("routes", k, x.nh), Put("routesShadow", k, x.nh) }
        /\ task'.ops = << Put("routes", k, x.nh), Put("routesShadow", k, x.nh) >>
StartsUnroute ==
    \E k \in DOMAIN tab["routesShadow"] :
        Todo' = { Del("routesShadow", {k}), Del("routes", {k}) }
StartsPrefix ==
    \E id \in DOMAIN ById, p \in Aliases : \E u :
        /\ AddPrefix(id, p)
        /\ Todo' = { Put("routes", <<ById[id].vni, p>>, u), Put("prefixes", <<id, p>>, u) }
        /\ task'.ops = << Put("routes", <<ById[id].vni, p>>, u), Put("prefixes", <<id, p>>, u) >>
StartsUnprefix ==
    \E id \in DOMAIN ById, p \in Aliases :
        /\ <<id, p>> \in DOMAIN tab["prefixes"]
        /\ Todo' = { Del("prefixes", {<<id, p>>}), Del("routes", {<<ById[id].vni, p>>}) }
StartsOther == \E w : Todo' = {w} /\ w.op # "snap" /\ w.tab \in {"lbPrefixes", "dhcpMeta"}

\* A call takes the mutex for one of these or for nothing.
LEMMA CallKinds ==
    ASSUME TypeInv, Call \/ Resume
    PROVE  /\ Free /\ tab' = tab /\ broken' = broken
           /\ (\E id \in DOMAIN ById : DetachInterface(id)) \/ UNCHANGED <<orphans, lateVnis>>
           /\ \/ Todo' = {} \/ StartsCreate \/ StartsDetach \/ StartsVip \/ StartsUnvip \/ StartsRoute
              \/ StartsUnroute \/ StartsPrefix \/ StartsUnprefix \/ StartsOther
<1>1. ASSUME NEW r \in Requests, CreateInterface(r)
      PROVE  /\ Free /\ UNCHANGED <<tab, broken, orphans, lateVnis>>
             /\ \E mac \in Macs : Todo' = CreateTodo(r, mac)
  <2>1. Free /\ UNCHANGED <<tab, broken, orphans, lateVnis>>
    BY <1>1 DEF CreateInterface
  <2> QED
    BY <1>1, <2>1, CreateStarts
<1>2. ASSUME NEW id \in Ids, DetachInterface(id)
      PROVE  /\ Free /\ UNCHANGED <<tab, broken>>
             /\ id \in DOMAIN ById /\ Todo' = DetachTodo(id, ById[id])
  <2>1. Free /\ UNCHANGED <<tab, broken>>
    BY <1>2 DEF DetachInterface
  <2> QED
    BY <1>2, <2>1, DetachStarts
<1>3. ASSUME NEW id \in Ids, CreateVip(id)
      PROVE  /\ Free /\ UNCHANGED <<tab, broken, orphans, lateVnis>>
             /\ id \in DOMAIN ById
             /\ \E g : /\ g = Guest(ById[id]) /\ g \notin DOMAIN tab["vips"] /\ task'.guest = g
                       /\ Todo' = { Put("vips", g, VipOf(g)), Put("vips", <<g[1], VipOf(g)>>, g[2]) }
  <2>1. /\ Free /\ UNCHANGED <<tab, broken, orphans, lateVnis>>
        /\ id \in DOMAIN ById /\ Guest(ById[id]) \notin DOMAIN tab["vips"]
    BY <1>3 DEF CreateVip, history
  <2>2. PICK g : g = Guest(ById[id])
    OBVIOUS
  <2>3. /\ task'.guest = g
        /\ Todo' = { Put("vips", g, VipOf(g)), Put("vips", <<g[1], VipOf(g)>>, g[2]) }
    BY <1>3, <2>1, <2>2, VipStarts
  <2> QED
    BY <2>1, <2>2, <2>3
<1>4. ASSUME NEW id \in Ids, DeleteVip(id)
      PROVE  /\ Free /\ UNCHANGED <<tab, broken, orphans, lateVnis>>
             /\ \E g \in DOMAIN tab["vips"] :
                   Todo' = { Del("vips", {<<g[1], tab["vips"][g]>>}), Del("vips", {g}) }
  <2>1. /\ Free /\ UNCHANGED <<tab, broken, orphans, lateVnis>>
        /\ id \in DOMAIN ById /\ Guest(ById[id]) \in DOMAIN tab["vips"]
    BY <1>4 DEF DeleteVip, history
  <2>2. PICK g : g = Guest(ById[id])
    OBVIOUS
  <2>3. Todo' = { Del("vips", {<<g[1], tab["vips"][g]>>}), Del("vips", {g}) }
    BY <1>4, <2>1, <2>2, VipStarts
  <2> QED
    BY <2>1, <2>2, <2>3
<1>5. ASSUME UNCHANGED task, Free PROVE Todo' = {}
  BY <1>5, FreeFacts DEF Todo
<1>6. ASSUME NEW v, NEW p, NEW nh, NEW F, CheckRoute(v, p, nh) \/ ListReset(v, F)
      PROVE  Free /\ UNCHANGED <<tab, broken, orphans, lateVnis>> /\ Todo' = {}
  <2>1. Free /\ UNCHANGED <<tab, task, broken, orphans, lateVnis>>
    BY <1>6 DEF CheckRoute, ListReset, history
  <2> QED
    BY <1>5, <2>1
<1>7. ASSUME NEW k \in Vnis \X Routes, DeleteRoute(k)
      PROVE  /\ Free /\ UNCHANGED <<tab, broken, orphans, lateVnis>>
             /\ k \in DOMAIN tab["routesShadow"]
             /\ Todo' = { Del("routesShadow", {k}), Del("routes", {k}) }
  <2>1. /\ Free /\ UNCHANGED <<tab, broken, orphans, lateVnis>>
        /\ k \in DOMAIN tab["routesShadow"] /\ task' = Task(RouteWrites(k), None)
    BY <1>7 DEF DeleteRoute, history
  <2> QED
    BY <2>1, UnrouteStarts
<1>8. ASSUME NEW id \in Ids, NEW p \in Aliases, AddPrefix(id, p)
      PROVE  /\ Free /\ UNCHANGED <<tab, broken, orphans, lateVnis>> /\ id \in DOMAIN ById
             /\ \E u :
                   /\ Todo' = { Put("routes", <<ById[id].vni, p>>, u), Put("prefixes", <<id, p>>, u) }
                   /\ task'.ops = << Put("routes", <<ById[id].vni, p>>, u), Put("prefixes", <<id, p>>, u) >>
  <2>1. Free /\ UNCHANGED <<tab, broken, orphans, lateVnis>> /\ id \in DOMAIN ById
    BY <1>8 DEF AddPrefix, history
  <2> QED
    BY <1>8, <2>1, PrefixStarts
<1>9. ASSUME NEW id \in Ids, NEW p \in Aliases, DelPrefix(id, p)
      PROVE  /\ Free /\ UNCHANGED <<tab, broken, orphans, lateVnis>> /\ id \in DOMAIN ById
             /\ <<id, p>> \in DOMAIN tab["prefixes"]
             /\ Todo' = { Del("prefixes", {<<id, p>>}), Del("routes", {<<ById[id].vni, p>>}) }
  <2>1. /\ Free /\ UNCHANGED <<tab, broken, orphans, lateVnis>> /\ id \in DOMAIN ById
        /\ <<id, p>> \in DOMAIN tab["prefixes"]
    BY <1>9 DEF DelPrefix, history
  <2> QED
    BY <1>9, <2>1, PrefixStarts
<1>10. ASSUME NEW id \in Ids, NEW p \in Aliases, AddLbPrefix(id, p) \/ DelLbPrefix(id, p)
       PROVE  /\ Free /\ UNCHANGED <<tab, broken, orphans, lateVnis>>
              /\ \E w : Todo' = {w} /\ w.op # "snap" /\ w.tab \in {"lbPrefixes", "dhcpMeta"}
  <2>1. Free /\ UNCHANGED <<tab, broken, orphans, lateVnis>> /\ id \in DOMAIN ById
    BY <1>10 DEF AddLbPrefix, DelLbPrefix, history
  <2>2. PICK a, b : a = Put("lbPrefixes", <<id, p>>, UnderlayOf(ById[id])) /\ b = Del("lbPrefixes", {<<id, p>>})
    OBVIOUS
  <2>3. Todo' = {a} \/ Todo' = {b}
    BY <1>10, <2>1, <2>2, PrefixStarts
  <2>4. a.tab = "lbPrefixes" /\ b.tab = "lbPrefixes" /\ a.op # "snap" /\ b.op # "snap"
    BY <2>2 DEF Put, Del
  <2> QED
    BY <2>1, <2>3, <2>4
<1>11. ASSUME NEW x \in calls, SetDhcpMeta(x)
       PROVE  /\ Free /\ UNCHANGED <<tab, broken, orphans, lateVnis>>
              /\ Todo' = {} \/ \E w : Todo' = {w} /\ w.op # "snap" /\ w.tab \in {"lbPrefixes", "dhcpMeta"}
  <2>1. Free /\ UNCHANGED <<tab, broken, orphans, lateVnis>> /\ (x.id \in DOMAIN ById \/ UNCHANGED task)
    BY <1>11 DEF SetDhcpMeta, history
  <2>2. PICK a : a = Put("dhcpMeta", ById[x.id].dev, x.id)
    OBVIOUS
  <2>3. x.id \in DOMAIN ById => Todo' = {a}
    BY <1>11, <2>2, DhcpStarts
  <2>4. a.tab = "dhcpMeta" /\ a.op # "snap"
    BY <2>2 DEF Put
  <2> QED
    BY <1>5, <2>1, <2>3, <2>4
<1>12. ASSUME NEW x \in calls, CreateRoute(x)
       PROVE  /\ Free /\ UNCHANGED <<tab, broken, orphans, lateVnis>>
              /\ \/ Todo' = {}
                 \/ \E k :
                    /\ x.op = "route" /\ k = <<x.vni, x.pfx>> /\ k \in Vnis \X Routes /\ x.nh \in Remotes
                    /\ k \notin DOMAIN tab["routesShadow"]
                    /\ Todo' = { Put("routes", k, x.nh), Put("routesShadow", k, x.nh) }
                    /\ task'.ops = << Put("routes", k, x.nh), Put("routesShadow", k, x.nh) >>
  <2>1. /\ Free /\ UNCHANGED <<tab, broken, orphans, lateVnis>> /\ x.op = "route"
        /\ (<<x.vni, x.pfx>> \notin DOMAIN tab["routesShadow"] \/ UNCHANGED task)
    BY <1>12 DEF CreateRoute, history
  <2>2. PICK k : k = <<x.vni, x.pfx>>
    OBVIOUS
  <2>3. CASE k \notin DOMAIN tab["routesShadow"]
    <3>1. /\ x.vni \in Vnis /\ x.pfx \in Routes /\ x.nh \in Remotes
          /\ Todo' = { Put("routes", k, x.nh), Put("routesShadow", k, x.nh) }
          /\ task'.ops = << Put("routes", k, x.nh), Put("routesShadow", k, x.nh) >>
      BY <1>12, <2>2, <2>3, RouteStarts
    <3> QED
      BY <2>1, <2>2, <2>3, <3>1
  <2>4. CASE UNCHANGED task
    BY <1>5, <2>1, <2>4
  <2> QED
    BY <2>1, <2>2, <2>3, <2>4
<1>13. ASSUME NEW x \in calls, ResetOne(x)
       PROVE  /\ Free /\ UNCHANGED <<tab, broken, orphans, lateVnis>>
              /\ \/ Todo' = {}
                 \/ \E k \in DOMAIN tab["routesShadow"] :
                       Todo' = { Del("routesShadow", {k}), Del("routes", {k}) }
  <2>1. /\ Free /\ UNCHANGED <<tab, broken, orphans, lateVnis>>
        /\ \E k : task' = IF k \in DOMAIN tab["routesShadow"] THEN Task(RouteWrites(k), None) ELSE task
    BY <1>13 DEF ResetOne, history
  <2>2. PICK k : task' = IF k \in DOMAIN tab["routesShadow"] THEN Task(RouteWrites(k), None) ELSE task
    BY <2>1
  <2>3. CASE k \in DOMAIN tab["routesShadow"]
    BY <2>1, <2>2, <2>3, UnrouteStarts
  <2>4. CASE k \notin DOMAIN tab["routesShadow"]
    BY <1>5, <2>1, <2>2, <2>4
  <2> QED
    BY <2>3, <2>4
<1>14. CASE Call
  <2>1. CASE \E r \in Requests : CreateInterface(r)
    BY <1>1, <2>1 DEF StartsCreate
  <2>2. CASE \E id \in Ids : DetachInterface(id)
    BY <1>2, <2>2 DEF StartsDetach
  <2>3. CASE \E id \in Ids : CreateVip(id)
    BY <1>3, <2>3 DEF StartsVip
  <2>4. CASE \E id \in Ids : DeleteVip(id)
    BY <1>4, <2>4 DEF StartsUnvip
  <2>5. CASE \/ \E v \in Vnis, p \in Routes, nh \in Remotes : CheckRoute(v, p, nh)
             \/ \E v \in Vnis : ListReset(v, Prefixes6) \/ ListReset(v, Prefixes \ Prefixes6)
    BY <1>6, <2>5
  <2>6. CASE \E k \in Vnis \X Routes : DeleteRoute(k)
    BY <1>7, <2>6 DEF StartsUnroute
  <2>7. CASE \E id \in Ids, p \in Aliases : AddPrefix(id, p)
    <3>1. PICK id \in Ids, p \in Aliases : AddPrefix(id, p)
      BY <2>7
    <3>2. PICK u : /\ Todo' = { Put("routes", <<ById[id].vni, p>>, u), Put("prefixes", <<id, p>>, u) }
                   /\ task'.ops = << Put("routes", <<ById[id].vni, p>>, u), Put("prefixes", <<id, p>>, u) >>
      BY <1>8, <3>1
    <3>3. Free /\ UNCHANGED <<tab, broken, orphans, lateVnis>> /\ id \in DOMAIN ById
      BY <1>8, <3>1
    <3> QED
      BY <3>1, <3>2, <3>3 DEF StartsPrefix
  <2>8. CASE \E id \in Ids, p \in Aliases : DelPrefix(id, p)
    BY <1>9, <2>8 DEF StartsUnprefix
  <2>9. CASE \E id \in Ids, p \in Aliases : AddLbPrefix(id, p) \/ DelLbPrefix(id, p)
    BY <1>10, <2>9 DEF StartsOther
  <2> QED
    BY <1>14, <2>1, <2>2, <2>3, <2>4, <2>5, <2>6, <2>7, <2>8, <2>9, Zenon DEF Call
<1>15. CASE Resume
  BY <1>11, <1>12, <1>13, <1>15 DEF Resume, StartsOther, StartsRoute, StartsUnroute
<1> QED
  BY <1>14, <1>15

\* An operation inserts or removes, never both.
LEMMA KindInductive ==
    /\ Init => OneKind
    /\ TypeInv /\ OneKind /\ [Next]_vars => OneKind'
<1>1. ASSUME Init PROVE OneKind
  BY <1>1, FreeFacts DEF Init, OneKind, Free
<1>2. ASSUME TypeInv, OneKind, [Next]_vars PROVE OneKind'
  <2>1. ASSUME Todo' \subseteq Todo PROVE OneKind'
    BY <1>2, <2>1 DEF OneKind
  <2>2. CASE Write
    BY <1>2, <2>1, <2>2, PutEffect, FailEffect, DelEffect, SnapEffect DEF Write
  <2>3. CASE Call \/ Resume
    <3>1. ASSUME NEW r, NEW mac, Todo' = CreateTodo(r, mac) PROVE \A w \in Todo' : w.op = "put"
      BY <3>1 DEF CreateTodo, Put
    <3>2. ASSUME NEW id, NEW r, Todo' = DetachTodo(id, r) PROVE \A w \in Todo' : w.op # "put"
      BY <3>2 DEF DetachTodo, PurgeTodo, Del, Snap
    <3>3. \A t, k, v : Put(t, k, v).op = "put"
      BY DEF Put
    <3>4. \A t, K : Del(t, K).op # "put"
      BY DEF Del
    <3>5. CASE StartsCreate \/ StartsDetach
      BY <3>1, <3>2, <3>5 DEF StartsCreate, StartsDetach, OneKind
    <3>6. ASSUME StartsVip \/ StartsRoute \/ StartsPrefix PROVE \A w \in Todo' : w.op = "put"
      <4>1. CASE StartsVip
        BY <3>3, <4>1 DEF StartsVip
      <4>2. CASE StartsRoute
        BY <3>3, <4>2 DEF StartsRoute
      <4>3. CASE StartsPrefix
        BY <3>3, <4>3 DEF StartsPrefix
      <4> QED
        BY <3>6, <4>1, <4>2, <4>3
    <3>7. ASSUME StartsUnvip \/ StartsUnroute \/ StartsUnprefix PROVE \A w \in Todo' : w.op # "put"
      <4>1. CASE StartsUnvip
        BY <3>4, <4>1 DEF StartsUnvip
      <4>2. CASE StartsUnroute
        BY <3>4, <4>2 DEF StartsUnroute
      <4>3. CASE StartsUnprefix
        BY <3>4, <4>3 DEF StartsUnprefix
      <4> QED
        BY <3>7, <4>1, <4>2, <4>3
    <3>8. CASE Todo' = {} \/ StartsOther
      BY <3>8 DEF StartsOther, OneKind
    <3> QED
      BY <1>2, <2>3, <3>5, <3>6, <3>7, <3>8, CallKinds DEF OneKind
  <2>4. CASE (\E c \in Cpus : Datapath(c)) \/ UNCHANGED vars
    BY <1>2, <2>1, <2>4, QuietFacts
  <2> QED
    BY <1>2, <2>2, <2>3, <2>4 DEF Next
<1> QED
  BY <1>1, <1>2

\* While an operation inserts, it removes nothing.
LEMMA PutKind ==
    ASSUME TypeInv, OneKind, WritePut \/ WriteFails
    PROVE  \A t, k : ~Dropping(t, k) /\ ~Dropping(t, k)'
<1>1. Head(task.ops) \in Todo /\ Head(task.ops).op = "put"
  BY HeadFacts DEF WritePut, WriteFails, TypeInv
<1>2. Todo' \subseteq Todo
  BY PutEffect, FailEffect
<1> QED
  BY <1>1, <1>2 DEF OneKind, Dropping

\* While it removes, it inserts nothing.
LEMMA DelKind ==
    ASSUME TypeInv, OneKind, WriteDel \/ WriteSnap
    PROVE  Todo' \subseteq Todo /\ \A w \in Todo : w.op # "put"
<1>1. Head(task.ops) \in Todo /\ Head(task.ops).op # "put" /\ Todo' \subseteq Todo
  BY DelEffect, SnapEffect
<1> QED
  BY <1>1 DEF OneKind

\* What a removal, or the kept MAC, leaves of the tables.
LEMMA DelTabs ==
    ASSUME TypeInv, WriteDel \/ WriteSnap
    PROVE  \A t \in ControlTabs :
              /\ DOMAIN tab'[t] \subseteq DOMAIN tab[t]
              /\ \A k \in DOMAIN tab'[t] : tab'[t][k] = tab[t][k]
              /\ \A k \in DOMAIN tab[t] : k \in DOMAIN tab'[t] \/ Dropping(t, k)
              /\ \A k \in DOMAIN tab'[t] : Dropping(t, k)' <=> Dropping(t, k)
<1>1. ControlTabs \subseteq Tables \ {"learned"}
  BY DEF ControlTabs, Tables, Maps, Shadows
<1>2. CASE WriteDel
  BY <1>1, <1>2, DelEffect
<1>3. CASE WriteSnap
  <2>1. /\ Head(task.ops).op = "snap" /\ Todo = {Head(task.ops)} \cup Todo'
        /\ \A t \in ControlTabs : tab'[t] = tab[t]
    BY <1>1, <1>3, SnapEffect
  <2>2. \A t, k : Dropping(t, k)' <=> Dropping(t, k)
    BY <2>1 DEF Dropping
  <2> QED
    BY <2>1, <2>2
<1> QED
  BY <1>2, <1>3

(***************************************************************************)
(* A VNI without interfaces has no routes.                                 *)
(***************************************************************************)

\* Writes leave the interfaces that are not being detached.
LEMMA WriteLive ==
    ASSUME TypeInv, TapInv, Write
    PROVE  /\ Live \subseteq Live' /\ UNCHANGED <<orphans, lateVnis>>
           /\ \A x \in calls' : x.op = "route" => x \in calls
<1>1. Live \subseteq Live'
  BY PutLive, OtherWriteTaps DEF Write
<1>2. UNCHANGED <<orphans, lateVnis>>
  BY DEF Write, WritePut, WriteFails, WriteDel, WriteSnap, history
<1>3. ~Free /\ TaskFits /\ (calls' = calls \/ Advance)
  BY DEF Write, WritePut, WriteFails, WriteDel, WriteSnap, TypeInv
<1>4. \A x \in task.then : x.op = "dhcp"
  BY <1>3 DEF TaskFits
<1>5. calls' \subseteq calls \cup task.then
  BY <1>3, AdvanceFacts
<1> QED
  BY <1>1, <1>2, <1>4, <1>5

\* Writes preserve VniInv.
LEMMA WriteVni ==
    ASSUME TypeInv, TapInv, OneKind, VniInv, Write
    PROVE  VniInv'
<1>1. /\ Live \subseteq Live' /\ lateVnis' = lateVnis
      /\ \A x \in calls' : x.op = "route" => x \in calls
  BY WriteLive
<1>2. \A v : VniHeld(v) => VniHeld(v)'
  BY <1>1 DEF VniHeld
<1>3. Todo' \subseteq Todo
  BY PutEffect, FailEffect, DelEffect, SnapEffect DEF Write
<1>4. ASSUME NEW v \in Vnis \ lateVnis, \A r \in Live : r.vni # v,
             NEW k \in DOMAIN tab'["routesShadow"], k[1] = v
      PROVE  Dropping("routesShadow", k)'
  <2>1. k \in DOMAIN tab["routesShadow"] => Dropping("routesShadow", k)
    BY <1>4 DEF VniInv
  <2>2. CASE WriteDel \/ WriteSnap
    <3>1. /\ k \in DOMAIN tab["routesShadow"]
          /\ Dropping("routesShadow", k)' <=> Dropping("routesShadow", k)
      BY <1>4, <2>2, DelTabs DEF ControlTabs
    <3> QED
      BY <2>1, <3>1
  <2>3. CASE WriteFails
    <3>1. k \in DOMAIN tab["routesShadow"]
      BY <1>4, <2>3 DEF WriteFails
    <3> QED
      BY <2>1, <2>3, <3>1, PutKind
  <2>4. CASE WritePut
    <3>1. PICK w : w = Head(task.ops)
      OBVIOUS
    <3>2. /\ w \in Todo /\ w.op = "put" /\ w.tab \in Tables
          /\ DOMAIN tab'[w.tab] = DOMAIN tab[w.tab] \cup {w.key}
          /\ \A s \in Tables \ {w.tab} : tab'[s] = tab[s]
      BY <2>4, <3>1, PutEffect
    <3>3. "routesShadow" \in Tables
      BY DEF Tables, Shadows
    <3>4. w.tab = "routesShadow" /\ k = w.key
      BY <1>4, <2>1, <2>4, <3>2, <3>3, PutKind
    <3>5. VniHeld(v)
      BY <1>4, <3>2, <3>4 DEF VniInv
    <3> QED
      BY <1>4, <3>5 DEF VniHeld
  <2> QED
    BY <2>2, <2>3, <2>4 DEF Write
<1>5. \A v \in Vnis \ lateVnis' :
          \/ \E r \in Live' : r.vni = v
          \/ \A k \in DOMAIN tab'["routesShadow"] : k[1] = v => Dropping("routesShadow", k)'
  BY <1>1, <1>4
<1>6. \A x \in calls' : x.op = "route" => VniHeld(x.vni)'
  BY <1>1, <1>2 DEF VniInv
<1>7. \A w \in Todo' : w.op = "put" /\ w.tab = "routesShadow" => VniHeld(w.key[1])'
  BY <1>2, <1>3 DEF VniInv
<1>8. \A v : VniHeld(v)' <=> (v \in lateVnis' \/ \E r \in Live' : r.vni = v)
  BY DEF VniHeld
<1> QED
  BY <1>5, <1>6, <1>7, <1>8 DEF VniInv, VniHeld

\* Calls other than detach_interface take no interface away.
LEMMA CallLive ==
    ASSUME TypeInv, Call \/ Resume, ~StartsDetach
    PROVE  Live' = Live /\ \A k : ~Dropping("byId", k)'
<1>1. /\ Free /\ tab' = tab
      /\ \/ Todo' = {} \/ StartsCreate \/ StartsDetach \/ StartsVip \/ StartsUnvip \/ StartsRoute
         \/ StartsUnroute \/ StartsPrefix \/ StartsUnprefix \/ StartsOther
  BY CallKinds
<1>2. \A w \in Todo' : w.op = "put" \/ w.tab # "byId"
  <2>1. \A t, k, v : Put(t, k, v).op = "put"
    BY DEF Put
  <2>2. \A t, K : Del(t, K).tab = t
    BY DEF Del
  <2>3. CASE StartsCreate
    BY <2>3 DEF StartsCreate, CreateTodo, Put
  <2>4. CASE StartsVip
    BY <2>1, <2>4 DEF StartsVip
  <2>5. CASE StartsUnvip
    BY <2>2, <2>5 DEF StartsUnvip
  <2>6. CASE StartsRoute
    BY <2>1, <2>6 DEF StartsRoute
  <2>7. CASE StartsUnroute
    BY <2>2, <2>7 DEF StartsUnroute
  <2>8. CASE StartsPrefix
    BY <2>1, <2>8 DEF StartsPrefix
  <2>9. CASE StartsUnprefix
    BY <2>2, <2>9 DEF StartsUnprefix
  <2>10. CASE Todo' = {} \/ StartsOther
    BY <2>10 DEF StartsOther
  <2> QED
    BY <1>1, <2>3, <2>4, <2>5, <2>6, <2>7, <2>8, <2>9, <2>10
<1>3. \A k : ~Dropping("byId", k)'
  BY <1>2 DEF Dropping
<1>4. Live = Records
  BY <1>1, FreeLive
<1> QED
  BY <1>1, <1>3, <1>4 DEF Live, Records, ById

\* A create_route between its parts has had its VNI checked.
LEMMA CallRoutes ==
    ASSUME TypeInv, Call \/ Resume
    PROVE  \A x \in calls' : x.op = "route" => x \in calls \/ VniInUse(x.vni)
<1>1. ASSUME NEW v, NEW p, NEW nh, CheckRoute(v, p, nh)
      PROVE  \A x \in calls' : x.op = "route" => x \in calls \/ VniInUse(x.vni)
  BY <1>1 DEF CheckRoute
<1>2. ASSUME NEW v, NEW F, ListReset(v, F)
      PROVE  \A x \in calls' : x.op = "route" => x \in calls \/ VniInUse(x.vni)
  BY <1>2 DEF ListReset
<1>3. ASSUME NEW x \in calls, ResetOne(x)
      PROVE  \A y \in calls' : y.op = "route" => y \in calls
  <2>1. x \in [op : {"reset"}, keys : SUBSET (Vnis \X Routes)]
    BY <1>3 DEF TypeInv, CallFits, ResetOne
  <2>2. PICK k : calls' = (calls \ {x}) \cup (IF x.keys = {k} THEN {} ELSE {[x EXCEPT !.keys = @ \ {k}]})
    BY <1>3 DEF ResetOne
  <2>3. PICK y : y = [x EXCEPT !.keys = @ \ {k}]
    OBVIOUS
  <2>4. y.op = "reset"
    BY <2>1, <2>3
  <2> QED
    BY <2>2, <2>3, <2>4
<1>4. ASSUME NEW x, SetDhcpMeta(x) \/ CreateRoute(x) PROVE calls' \subseteq calls
  BY <1>4 DEF SetDhcpMeta, CreateRoute
<1>5. ASSUME NEW r, CreateInterface(r) PROVE calls' = calls
  BY <1>5 DEF CreateInterface
<1>6. ASSUME NEW id, DetachInterface(id) \/ CreateVip(id) \/ DeleteVip(id) PROVE calls' = calls
  BY <1>6 DEF DetachInterface, CreateVip, DeleteVip
<1>7. ASSUME NEW k, DeleteRoute(k) PROVE calls' = calls
  BY <1>7 DEF DeleteRoute
<1>8. ASSUME NEW id, NEW p, AddPrefix(id, p) \/ DelPrefix(id, p) \/ AddLbPrefix(id, p) \/ DelLbPrefix(id, p)
      PROVE  calls' = calls
  BY <1>8 DEF AddPrefix, DelPrefix, AddLbPrefix, DelLbPrefix
<1>9. CASE Resume
  BY <1>3, <1>4, <1>9 DEF Resume
<1>10. CASE Call
  BY <1>1, <1>2, <1>5, <1>6, <1>7, <1>8, <1>10 DEF Call
<1> QED
  BY <1>9, <1>10

\* Calls preserve VniInv.
LEMMA CallVni ==
    ASSUME TypeInv, VniInv, Call \/ Resume
    PROVE  VniInv'
<1>1. /\ Free /\ tab' = tab
      /\ (\E id \in DOMAIN ById : DetachInterface(id)) \/ UNCHANGED <<orphans, lateVnis>>
      /\ \/ Todo' = {} \/ StartsCreate \/ StartsDetach \/ StartsVip \/ StartsUnvip \/ StartsRoute
         \/ StartsUnroute \/ StartsPrefix \/ StartsUnprefix \/ StartsOther
  BY CallKinds
<1>2. Live = Records /\ Todo = {} /\ \A t, k : ~Dropping(t, k)
  BY <1>1, FreeLive
<1>3. \A v \in Vnis \ lateVnis : VniHeld(v) \/ \A k \in DOMAIN tab["routesShadow"] : k[1] # v
  BY <1>2 DEF VniInv, VniHeld
<1>4. \A x \in calls' : x.op = "route" => VniHeld(x.vni)
  <2>1. ASSUME NEW v \in Vnis, VniInUse(v) PROVE VniHeld(v)
    BY <1>2, <1>3, <2>1 DEF VniInUse, RoutesOf, VniHeld, Records
  <2>2. \A x \in calls' : CallFits(x)
    BY CallType, ResumeType, FitsSame DEF TypeInv
  <2> QED
    BY <2>1, <2>2, CallRoutes DEF VniInv, CallFits
<1>5. CASE ~StartsDetach
  <2>1. Live' = Live
    BY <1>5, CallLive
  <2>2. UNCHANGED lateVnis
    <3>1. ASSUME NEW id \in DOMAIN ById, DetachInterface(id) PROVE FALSE
      <4>1. id \in Ids
        BY <3>1, RecordFacts
      <4> QED
        BY <1>5, <3>1, <4>1, DetachStarts DEF StartsDetach
    <3> QED
      BY <1>1, <3>1
  <2>3. \A v : VniHeld(v)' <=> VniHeld(v)
    BY <2>1, <2>2 DEF VniHeld
  <2>4. \A w \in Todo' : w.op = "put" /\ w.tab = "routesShadow" => VniHeld(w.key[1])
    <3>1. \A t, k, v : Put(t, k, v).tab = t /\ Put(t, k, v).key = k
      BY DEF Put
    <3>2. \A t, K : Del(t, K).op # "put"
      BY DEF Del
    <3>3. CASE StartsCreate
      BY <3>3 DEF StartsCreate, CreateTodo, Put
    <3>4. CASE StartsVip
      BY <3>1, <3>4 DEF StartsVip
    <3>5. CASE StartsUnvip
      BY <3>2, <3>5 DEF StartsUnvip
    <3>6. CASE StartsRoute
      <4>1. PICK x, k : /\ x \in calls /\ x.op = "route" /\ k = <<x.vni, x.pfx>>
                        /\ Todo' = { Put("routes", k, x.nh), Put("routesShadow", k, x.nh) }
        BY <3>6 DEF StartsRoute
      <4>2. VniHeld(x.vni) /\ k[1] = x.vni
        BY <4>1 DEF VniInv
      <4> QED
        BY <3>1, <4>1, <4>2
    <3>7. CASE StartsUnroute
      BY <3>2, <3>7 DEF StartsUnroute
    <3>8. CASE StartsPrefix
      BY <3>1, <3>8 DEF StartsPrefix
    <3>9. CASE StartsUnprefix
      BY <3>2, <3>9 DEF StartsUnprefix
    <3>10. CASE Todo' = {} \/ StartsOther
      BY <3>10 DEF StartsOther
    <3> QED
      BY <1>1, <1>5, <3>3, <3>4, <3>5, <3>6, <3>7, <3>8, <3>9, <3>10
  <2>5. \A v \in Vnis \ lateVnis :
          \/ \E r \in Live : r.vni = v
          \/ \A k \in DOMAIN tab["routesShadow"] : k[1] = v => Dropping("routesShadow", k)'
    BY <1>3 DEF VniHeld
  <2> QED
    BY <1>1, <1>4, <2>1, <2>2, <2>3, <2>4, <2>5 DEF VniInv
<1>6. CASE StartsDetach
  <2>1. PICK id \in DOMAIN ById : DetachInterface(id) /\ Todo' = DetachTodo(id, ById[id])
    BY <1>6 DEF StartsDetach
  <2>2. PICK r : r = ById[id]
    OBVIOUS
  <2>3. /\ lateVnis' = IF LastOfVni(id) /\ \E x \in calls : x.op = "route" /\ x.vni = r.vni
                         THEN lateVnis \cup {r.vni} ELSE lateVnis
        /\ calls' = calls
    BY <2>1, <2>2 DEF DetachInterface
  <2>4. /\ \A w \in Todo' : w.op # "put"
        /\ \A x : Dropping("byId", x)' => x = id
        /\ LastOfVni(id) => \A k \in RoutesOf(r.vni) : Dropping("routesShadow", k)'
    <3>1. \A w \in Todo' : w.op # "put"
      BY <2>1 DEF DetachTodo, PurgeTodo, Del, Snap
    <3>2. \A w \in Todo' : w.op = "del" /\ w.tab = "byId" => w.keys = {id}
      BY <2>1 DEF DetachTodo, PurgeTodo, Del, Snap
    <3>3. ASSUME LastOfVni(id) PROVE \A k \in RoutesOf(r.vni) : Dropping("routesShadow", k)'
      <4>1. PICK w : w = Del("routesShadow", RoutesOf(r.vni))
        OBVIOUS
      <4>2. w \in Todo'
        BY <2>1, <2>2, <3>3, <4>1 DEF DetachTodo, PurgeTodo
      <4>3. w.op = "del" /\ w.tab = "routesShadow" /\ w.keys = RoutesOf(r.vni)
        BY <4>1 DEF Del
      <4> QED
        BY <4>2, <4>3 DEF Dropping
    <3> QED
      BY <3>1, <3>2, <3>3 DEF Dropping
  <2>5. \A x \in DOMAIN ById \ {id} : ById[x] \in Live'
    BY <1>1, <2>4 DEF Live, ById
  <2>6. ASSUME NEW v, \E s \in Live : s.vni = v
        PROVE  (\E s \in Live' : s.vni = v) \/ (v = r.vni /\ LastOfVni(id))
    <3>1. PICK y \in DOMAIN ById : ById[y].vni = v
      BY <2>6 DEF Live
    <3>2. CASE y # id
      BY <2>5, <3>1, <3>2
    <3>3. CASE y = id
      BY <2>2, <2>5, <3>1, <3>3 DEF LastOfVni
    <3> QED
      BY <3>2, <3>3
  <2>7. ASSUME NEW x \in calls', x.op = "route" PROVE VniHeld(x.vni)'
    BY <1>4, <2>3, <2>6, <2>7 DEF VniHeld
  <2>8. ASSUME NEW v \in Vnis \ lateVnis', \A s \in Live' : s.vni # v, NEW k \in DOMAIN tab["routesShadow"], k[1] = v
        PROVE  Dropping("routesShadow", k)'
    <3>1. \E s \in Live : s.vni = v
      BY <1>3, <2>3, <2>8 DEF VniHeld
    <3>2. v = r.vni /\ LastOfVni(id)
      BY <2>6, <2>8, <3>1
    <3> QED
      BY <2>4, <2>8, <3>2 DEF RoutesOf
  <2> QED
    BY <1>1, <2>4, <2>7, <2>8 DEF VniInv
<1> QED
  BY <1>5, <1>6

\* VniInv is inductive.
LEMMA VniInductive ==
    /\ Init => VniInv
    /\ TypeInv /\ TapInv /\ OneKind /\ VniInv /\ [Next]_vars => VniInv'
<1>1. ASSUME Init PROVE VniInv
  <2>1. Todo = {} /\ calls = {} /\ tab["routesShadow"] = << >>
    BY <1>1, FreeFacts DEF Init, Free, Tables, Shadows
  <2> QED
    BY <2>1 DEF VniInv
<1>2. ASSUME TypeInv, TapInv, OneKind, VniInv, [Next]_vars PROVE VniInv'
  <2>1. CASE Write
    BY <1>2, <2>1, WriteVni
  <2>2. CASE Call \/ Resume
    BY <1>2, <2>2, CallVni
  <2>3. CASE (\E c \in Cpus : Datapath(c)) \/ UNCHANGED vars
    <3>1. /\ UNCHANGED <<calls, lateVnis>> /\ tab'["routesShadow"] = tab["routesShadow"]
          /\ Todo' = Todo /\ Live' = Live /\ \A t, k : Dropping(t, k)' <=> Dropping(t, k)
      BY <1>2, <2>3, DatapathQuiet, QuietFacts DEF ControlTabs
    <3>2. \A v : VniHeld(v)' <=> VniHeld(v)
      BY <3>1 DEF VniHeld
    <3> QED
      BY <1>2, <3>1, <3>2 DEF VniInv
  <2> QED
    BY <1>2, <2>1, <2>2, <2>3 DEF Next
<1> QED
  BY <1>1, <1>2

\* Between operations a VNI without interfaces has no routes, unless a
\* create_route had passed its check when the last interface left.
THEOREM VniPurgedHolds == Spec => []VniPurged
<1>1. VniInv => VniPurged
  <2> SUFFICES ASSUME VniInv, Free, NEW v \in Vnis \ lateVnis, \A r \in Records : r.vni # v
               PROVE  RoutesOf(v) = {}
    BY DEF VniPurged
  <2>1. Live = Records /\ \A t, k : ~Dropping(t, k)
    BY FreeLive
  <2> QED
    BY <2>1 DEF VniInv, RoutesOf
<1> QED
  BY <1>1, TypeInductive, TapInductive, KindInductive, VniInductive, PTL DEF Spec

(***************************************************************************)
(* The two directions of a VIP agree.                                      *)
(***************************************************************************)

\* A key of VIPS determines its value, and the entry of the other direction.
LEMMA VipFacts ==
    ASSUME NEW k \in Vnis \X Addrs, NEW a, VipEntry(k, a)
    PROVE  /\ VipEntry(Pair(k, a), k[2])
           /\ Pair(Pair(k, a), k[2]) = k
           /\ \A b : VipEntry(k, b) => b = a
<1>1. PICK r \in Requests : \/ k = Guest(r) /\ a = VipOf(Guest(r))
                            \/ k = <<r.vni, VipOf(Guest(r))>> /\ a = r.ip
  BY DEF VipEntry
<1>2. Guest(r) = <<r.vni, r.ip>>
  BY DEF Guest
<1>3. VipEntry(Pair(k, a), k[2])
  <2>1. CASE k = Guest(r) /\ a = VipOf(Guest(r))
    <3>1. Pair(k, a) = <<r.vni, VipOf(Guest(r))>> /\ k[2] = r.ip
      BY <1>2, <2>1 DEF Pair
    <3> QED
      BY <3>1 DEF VipEntry
  <2>2. CASE k = <<r.vni, VipOf(Guest(r))>> /\ a = r.ip
    <3>1. Pair(k, a) = Guest(r) /\ k[2] = VipOf(Guest(r))
      BY <1>2, <2>2 DEF Pair
    <3> QED
      BY <3>1 DEF VipEntry
  <2> QED
    BY <1>1, <2>1, <2>2
<1>4. Pair(Pair(k, a), k[2]) = k
  BY DEF Pair
<1>5. ASSUME NEW b, VipEntry(k, b) PROVE b = a
  <2>1. PICK s \in Requests : \/ k = Guest(s) /\ b = VipOf(Guest(s))
                              \/ k = <<s.vni, VipOf(Guest(s))>> /\ b = s.ip
    BY <1>5 DEF VipEntry
  <2>2. Guest(s) = <<s.vni, s.ip>>
    BY DEF Guest
  <2>3. /\ r.vni = s.vni /\ VipOf(Guest(r)) = VipOf(Guest(s)) => r.ip = s.ip
        /\ r.vni = s.vni => VipOf(Guest(r)) # s.ip
        /\ s.vni = r.vni => VipOf(Guest(s)) # r.ip
    BY OperatorAssumption
  <2>4. r.vni = s.vni
    BY <1>1, <1>2, <2>1, <2>2
  <2>5. CASE k = Guest(r) /\ a = VipOf(Guest(r))
    <3>1. k[2] = r.ip
      BY <1>2, <2>5
    <3>2. k = Guest(s) /\ b = VipOf(Guest(s))
      <4>1. k # <<s.vni, VipOf(Guest(s))>>
        BY <2>3, <2>4, <3>1
      <4> QED
        BY <2>1, <4>1
    <3> QED
      BY <2>5, <3>2
  <2>6. CASE k = <<r.vni, VipOf(Guest(r))>> /\ a = r.ip
    <3>1. k[2] = VipOf(Guest(r))
      BY <2>6
    <3>2. k = <<s.vni, VipOf(Guest(s))>> /\ b = s.ip
      <4>1. k # Guest(s)
        BY <2>2, <2>3, <2>4, <3>1
      <4> QED
        BY <2>1, <4>1
    <3>3. VipOf(Guest(r)) = VipOf(Guest(s))
      BY <3>1, <3>2
    <3> QED
      BY <2>3, <2>4, <2>6, <3>2, <3>3
  <2> QED
    BY <1>1, <2>5, <2>6
<1> QED
  BY <1>3, <1>4, <1>5

\* The entry of the other direction, when it is there, leads back.
LEMMA PairFacts ==
    ASSUME TypeInv, NEW k \in DOMAIN tab["vips"], NEW p, p = Pair(k, tab["vips"][k])
    PROVE  /\ k \in Vnis \X Addrs /\ VipEntry(k, tab["vips"][k]) /\ VipEntry(p, k[2]) /\ Pair(p, k[2]) = k
           /\ p \in DOMAIN tab["vips"] => tab["vips"][p] = k[2]
<1>1. \A x \in DOMAIN tab["vips"] : x \in Vnis \X Addrs /\ VipEntry(x, tab["vips"][x])
  BY DEF TypeInv, TablesFit, Fits, Tables, Maps
<1>2. VipEntry(p, k[2]) /\ Pair(p, k[2]) = k
  BY <1>1, VipFacts
<1>3. ASSUME p \in DOMAIN tab["vips"] PROVE tab["vips"][p] = k[2]
  BY <1>1, <1>2, <1>3, VipFacts
<1> QED
  BY <1>1, <1>2, <1>3

\* Writes preserve VipInv.
LEMMA WriteVip ==
    ASSUME TypeInv, OneKind, VipInv, Write
    PROVE  VipInv'
<1>1. "vips" \in Tables /\ "vips" \in ControlTabs
  BY DEF Tables, Maps, ControlTabs
<1>2. PICK V : V = tab["vips"]
  OBVIOUS
<1>3. PICK W : W = tab'["vips"]
  OBVIOUS
<1>4. ASSUME \A k \in DOMAIN W :
                /\ \/ k \in broken' \/ Pair(k, W[k]) \in broken' \/ Dropping("vips", k)'
                   \/ PairComes(Pair(k, W[k]))'
                /\ Dropping("vips", k)' => Pair(k, W[k]) \notin DOMAIN W \/ Dropping("vips", Pair(k, W[k]))',
             \A w \in Todo' : w.op = "put" /\ w.tab = "vips" =>
                /\ task'.guest \in {w.key, Pair(w.key, w.val)}
                /\ PairComes(Pair(w.key, w.val))'
      PROVE  VipInv'
  <2>1. \A k, a : Pair(k, a)' = Pair(k, a)
    BY DEF Pair
  <2> QED
    BY <1>3, <1>4, <2>1 DEF VipInv, PairComes, Pair
<1>5. CASE WritePut
  <2>1. PICK w : w = Head(task.ops)
    OBVIOUS
  <2>2. /\ w \in Todo /\ w.op = "put" /\ w.tab \in Tables /\ Fits(w.tab, w.key, w.val)
        /\ Todo = {w} \cup Todo'
        /\ DOMAIN tab'[w.tab] = DOMAIN tab[w.tab] \cup {w.key}
        /\ \A x \in DOMAIN tab[w.tab] \cup {w.key} :
              tab'[w.tab][x] = IF x = w.key THEN w.val ELSE tab[w.tab][x]
        /\ \A s \in Tables \ {w.tab} : tab'[s] = tab[s]
        /\ Todo' = {} \/ task'.guest = task.guest
    BY <1>5, <2>1, PutEffect
  <2>3. broken' = broken /\ \A t, k : ~Dropping(t, k) /\ ~Dropping(t, k)'
    BY <1>5, PutKind DEF WritePut, history
  <2>4. /\ DOMAIN V \subseteq DOMAIN W
        /\ \A k \in DOMAIN W : \/ k \in DOMAIN V /\ W[k] = V[k]
                               \/ w.tab = "vips" /\ k = w.key /\ W[k] = w.val
        /\ w.tab = "vips" => w.key \in DOMAIN W
    BY <1>1, <1>2, <1>3, <2>2
  <2>5. ASSUME NEW p, PairComes(p) PROVE PairComes(p)'
    <3>1. p \in DOMAIN W \/ \E x \in Todo' : x.op = "put" /\ x.tab = "vips" /\ x.key = p
      BY <1>2, <2>2, <2>4, <2>5 DEF PairComes
    <3> QED
      BY <1>3, <3>1 DEF PairComes
  <2>6. ASSUME NEW k \in DOMAIN W
        PROVE  k \in broken' \/ Pair(k, W[k]) \in broken' \/ PairComes(Pair(k, W[k]))'
    <3>1. CASE k \in DOMAIN V /\ W[k] = V[k]
      <4>1. k \in broken \/ Pair(k, V[k]) \in broken \/ PairComes(Pair(k, V[k]))
        BY <1>2, <2>3, <3>1 DEF VipInv
      <4>2. PICK p : p = Pair(k, V[k])
        OBVIOUS
      <4>3. PairComes(p) => PairComes(p)'
        BY <2>5
      <4>4. PairComes(p)' => PairComes(Pair(k, W[k]))'
        BY <1>2, <1>3, <3>1, <4>2 DEF PairComes, Pair
      <4> QED
        BY <2>3, <3>1, <4>1, <4>2, <4>3, <4>4
    <3>2. CASE w.tab = "vips" /\ k = w.key /\ W[k] = w.val
      <4>1. PICK p : p = Pair(w.key, w.val)
        OBVIOUS
      <4>2. PairComes(p)
        BY <2>2, <3>2, <4>1 DEF VipInv
      <4>3. PairComes(p)'
        BY <2>5, <4>2
      <4> QED
        BY <1>3, <3>2, <4>1, <4>3 DEF PairComes, Pair
    <3> QED
      BY <2>4, <2>6, <3>1, <3>2
  <2>7. ASSUME NEW x \in Todo', x.op = "put", x.tab = "vips"
        PROVE  task'.guest \in {x.key, Pair(x.key, x.val)} /\ PairComes(Pair(x.key, x.val))'
    <3>1. PICK p : p = Pair(x.key, x.val)
      OBVIOUS
    <3>2. task.guest \in {x.key, p} /\ PairComes(p) /\ task'.guest = task.guest
      BY <2>2, <2>7, <3>1 DEF VipInv
    <3>3. PairComes(p)'
      BY <2>5, <3>2
    <3> QED
      BY <3>1, <3>2, <3>3 DEF PairComes, Pair
  <2> QED
    BY <1>4, <2>3, <2>6, <2>7
<1>6. CASE WriteFails
  <2>1. Todo' = {} /\ W = V /\ broken' = broken \cup {task.guest}
    BY <1>2, <1>3, <1>6, FailEffect DEF WriteFails
  <2>2. \A t, k : ~Dropping(t, k) /\ ~Dropping(t, k)'
    BY <1>6, PutKind
  <2>3. ASSUME NEW k \in DOMAIN W
        PROVE  k \in broken' \/ Pair(k, W[k]) \in broken' \/ PairComes(Pair(k, W[k]))'
    <3>1. PICK p : p = Pair(k, V[k])
      OBVIOUS
    <3>2. k \in broken \/ p \in broken \/ PairComes(p)
      BY <1>2, <2>1, <2>2, <2>3, <3>1 DEF VipInv
    <3>3. CASE p \in DOMAIN V
      BY <1>3, <2>1, <3>1, <3>3 DEF PairComes, Pair
    <3>4. CASE \E u \in Todo : u.op = "put" /\ u.tab = "vips" /\ u.key = p
      <4>1. PICK u \in Todo : u.op = "put" /\ u.tab = "vips" /\ u.key = p
        BY <3>4
      <4>2. WriteFits(u)
        BY <4>1 DEF TypeInv, TaskFits
      <4>3. p \in Vnis \X Addrs /\ VipEntry(p, u.val)
        BY <4>1, <4>2 DEF WriteFits, Fits
      <4>4. VipEntry(p, k[2]) /\ Pair(p, k[2]) = k
        BY <1>2, <2>1, <2>3, <3>1, PairFacts
      <4>5. Pair(p, u.val) = k
        BY <4>3, <4>4, VipFacts
      <4>6. task.guest \in {p, k}
        BY <4>1, <4>5 DEF VipInv
      <4> QED
        BY <2>1, <3>1, <4>6
    <3> QED
      BY <1>2, <2>1, <3>1, <3>2, <3>3, <3>4 DEF PairComes
  <2> QED
    BY <1>4, <2>1, <2>2, <2>3
<1>7. CASE WriteDel \/ WriteSnap
  <2>1. Todo' \subseteq Todo /\ \A x \in Todo : x.op # "put"
    BY <1>7, DelKind
  <2>2. /\ DOMAIN W \subseteq DOMAIN V
        /\ \A k \in DOMAIN W : W[k] = V[k]
        /\ \A k \in DOMAIN V : k \in DOMAIN W \/ Dropping("vips", k)
        /\ \A k \in DOMAIN W : Dropping("vips", k)' <=> Dropping("vips", k)
    BY <1>1, <1>2, <1>3, <1>7, DelTabs
  <2>3. broken' = broken
    BY <1>7 DEF WriteDel, WriteSnap, history
  <2>4. ASSUME NEW k \in DOMAIN W
        PROVE  /\ \/ k \in broken' \/ Pair(k, W[k]) \in broken' \/ Dropping("vips", k)'
                  \/ PairComes(Pair(k, W[k]))'
               /\ Dropping("vips", k)' => Pair(k, W[k]) \notin DOMAIN W \/ Dropping("vips", Pair(k, W[k]))'
    <3>1. PICK p : p = Pair(k, V[k])
      OBVIOUS
    <3>2. /\ k \in broken \/ p \in broken \/ Dropping("vips", k) \/ p \in DOMAIN V
          /\ Dropping("vips", k) => p \notin DOMAIN V \/ Dropping("vips", p)
      BY <1>2, <2>1, <2>2, <2>4, <3>1 DEF VipInv, PairComes
    <3>3. Pair(k, W[k]) = p
      BY <2>2, <2>4, <3>1
    <3>4. ASSUME p \in DOMAIN V, p \notin DOMAIN W PROVE Dropping("vips", k)'
      <4>1. Dropping("vips", p)
        BY <2>2, <3>4
      <4>2. V[p] = k[2] /\ Pair(p, k[2]) = k
        BY <1>2, <2>2, <2>4, <3>1, <3>4, PairFacts
      <4>3. Dropping("vips", k)
        BY <1>2, <2>2, <2>4, <3>4, <4>1, <4>2 DEF VipInv
      <4> QED
        BY <2>2, <2>4, <4>3
    <3>5. p \in DOMAIN W => PairComes(p)'
      BY <1>3 DEF PairComes
    <3>6. \/ k \in broken' \/ p \in broken' \/ Dropping("vips", k)' \/ PairComes(p)'
      BY <2>2, <2>3, <2>4, <3>2, <3>4, <3>5
    <3>7. Dropping("vips", k)' => p \notin DOMAIN W \/ Dropping("vips", p)'
      BY <2>2, <2>4, <3>2
    <3>8. /\ PairComes(p)' => PairComes(Pair(k, W[k]))'
          /\ Dropping("vips", p)' => Dropping("vips", Pair(k, W[k]))'
      BY <1>3, <3>3 DEF PairComes, Dropping, Pair
    <3> QED
      BY <3>3, <3>6, <3>7, <3>8
  <2> QED
    BY <1>4, <2>1, <2>4
<1> QED
  BY <1>5, <1>6, <1>7 DEF Write

\* Removing a VIP removes both directions.
LEMMA UnvipFacts ==
    ASSUME TypeInv, NEW g, NEW K,
           K = IF g \in DOMAIN tab["vips"] THEN {<<g[1], tab["vips"][g]>>, g} ELSE {g},
           NEW k \in DOMAIN tab["vips"], k \in K
    PROVE  Pair(k, tab["vips"][k]) \in K
<1>1. CASE k = g
  BY <1>1 DEF Pair
<1>2. CASE k # g
  <2>1. g \in DOMAIN tab["vips"] /\ k = Pair(g, tab["vips"][g])
    BY <1>2 DEF Pair
  <2>2. tab["vips"][k] = g[2] /\ Pair(k, g[2]) = g
    BY <2>1, PairFacts
  <2> QED
    BY <2>1, <2>2
<1> QED
  BY <1>1, <1>2

\* Calls preserve VipInv.
LEMMA CallVip ==
    ASSUME TypeInv, VipInv, Call \/ Resume
    PROVE  VipInv'
<1>1. /\ Free /\ tab' = tab /\ broken' = broken
      /\ \/ Todo' = {} \/ StartsCreate \/ StartsDetach \/ StartsVip \/ StartsUnvip \/ StartsRoute
         \/ StartsUnroute \/ StartsPrefix \/ StartsUnprefix \/ StartsOther
  BY CallKinds
<1>2. Todo = {} /\ \A t, k : ~Dropping(t, k)
  BY <1>1, FreeLive
<1>3. PICK V : V = tab["vips"] /\ V = tab'["vips"]
  BY <1>1
<1>4. \A k \in DOMAIN V : k \in broken \/ Pair(k, V[k]) \in broken \/ Pair(k, V[k]) \in DOMAIN V
  BY <1>2, <1>3 DEF VipInv, PairComes
<1>5. \A p : p \in DOMAIN V => PairComes(p)'
  BY <1>3 DEF PairComes
<1>6. ASSUME \A k \in DOMAIN V :
                Dropping("vips", k)' => Pair(k, V[k]) \notin DOMAIN V \/ Dropping("vips", Pair(k, V[k]))',
             \A w \in Todo' : w.op = "put" /\ w.tab = "vips" =>
                task'.guest \in {w.key, Pair(w.key, w.val)} /\ PairComes(Pair(w.key, w.val))'
      PROVE  VipInv'
  <2>1. \A k \in DOMAIN V : Pair(k, V[k]) \in DOMAIN V => PairComes(Pair(k, V[k]))'
    BY <1>3 DEF PairComes, Pair
  <2> QED
    BY <1>1, <1>3, <1>4, <1>6, <2>1 DEF VipInv, PairComes, Pair
<1>7. ASSUME \A w \in Todo' : w.tab # "vips" PROVE VipInv'
  <2>1. \A k : ~Dropping("vips", k)'
    BY <1>7 DEF Dropping
  <2> QED
    BY <1>6, <1>7, <2>1
<1>8. ASSUME NEW g, NEW K,
             K = IF g \in DOMAIN V THEN {<<g[1], V[g]>>, g} ELSE {g},
             \A k : Dropping("vips", k)' <=> k \in K,
             \A w \in Todo' : w.op # "put"
      PROVE  VipInv'
  <2>1. ASSUME NEW k \in DOMAIN V, Dropping("vips", k)' PROVE Dropping("vips", Pair(k, V[k]))'
    <3>1. PICK p : p = Pair(k, V[k])
      OBVIOUS
    <3>2. p \in K
      BY <1>3, <1>8, <2>1, <3>1, UnvipFacts
    <3>3. Dropping("vips", p)'
      BY <1>8, <3>2
    <3> QED
      BY <1>3, <3>1, <3>3 DEF Dropping, Pair
  <2> QED
    BY <1>6, <1>8, <2>1
<1>9. \A t, k, v : /\ Put(t, k, v).op = "put" /\ Put(t, k, v).tab = t
                   /\ Put(t, k, v).key = k /\ Put(t, k, v).val = v
  BY DEF Put
<1>10. \A t, K : Del(t, K).op = "del" /\ Del(t, K).tab = t /\ Del(t, K).keys = K
  BY DEF Del
<1>11. CASE StartsVip
  <2>1. PICK g : /\ task'.guest = g
                 /\ Todo' = { Put("vips", g, VipOf(g)), Put("vips", <<g[1], VipOf(g)>>, g[2]) }
                 /\ \E r : g = Guest(r)
    BY <1>11 DEF StartsVip
  <2>2. PICK a, b, h : /\ a = Put("vips", g, VipOf(g)) /\ b = Put("vips", h, g[2])
                       /\ h = Pair(g, VipOf(g)) /\ Todo' = {a, b}
    BY <2>1 DEF Pair
  <2>3. Pair(h, g[2]) = g
    BY <2>1, <2>2 DEF Pair, Guest
  <2>4. PairComes(g)' /\ PairComes(h)'
    BY <1>9, <2>2 DEF PairComes
  <2>5. \A k : ~Dropping("vips", k)'
    BY <1>9, <2>2 DEF Dropping
  <2>6. ASSUME NEW w \in Todo'
        PROVE  task'.guest \in {w.key, Pair(w.key, w.val)} /\ PairComes(Pair(w.key, w.val))'
    <3>1. CASE w = a
      <4>1. w.key = g /\ w.val = VipOf(g) /\ Pair(w.key, w.val) = h
        BY <1>9, <2>2, <3>1
      <4>2. PairComes(Pair(w.key, w.val))'
        BY <2>4, <4>1 DEF PairComes, Pair
      <4> QED
        BY <2>1, <4>1, <4>2
    <3>2. CASE w = b
      <4>1. w.key = h /\ w.val = g[2] /\ Pair(w.key, w.val) = g
        BY <1>9, <2>2, <2>3, <3>2
      <4>2. PairComes(Pair(w.key, w.val))'
        BY <2>4, <4>1 DEF PairComes, Pair
      <4> QED
        BY <2>1, <4>1, <4>2
    <3> QED
      BY <2>2, <2>6, <3>1, <3>2
  <2> QED
    BY <1>6, <2>5, <2>6
<1>12. CASE StartsUnvip
  <2>1. PICK g \in DOMAIN V : Todo' = { Del("vips", {<<g[1], V[g]>>}), Del("vips", {g}) }
    BY <1>3, <1>12 DEF StartsUnvip
  <2>2. \A k : Dropping("vips", k)' <=> k \in {<<g[1], V[g]>>, g}
    BY <1>10, <2>1 DEF Dropping
  <2>3. \A w \in Todo' : w.op # "put"
    BY <1>10, <2>1
  <2> QED
    BY <1>8, <2>1, <2>2, <2>3
<1>13. CASE StartsDetach
  <2>1. PICK id \in DOMAIN ById : Todo' = DetachTodo(id, ById[id])
    BY <1>13 DEF StartsDetach
  <2>2. PICK r, g, D : /\ r = ById[id] /\ g = Guest(r)
                       /\ D = { Del("byId", {id}), Del("prefixes", PrefixKeys("prefixes", id)),
                                Del("ports", {r.dev}), Del("ifaces", {Guest(r)}), Snap(UnderlayOf(r)),
                                Del("underlay", {UnderlayOf(r)}),
                                Del("meter", {r.dev}), Del("dhcpMeta", {r.dev}), Del("routes", SelfRoutes(r)) }
                       /\ Todo' = D \cup (IF LastOfVni(id) THEN PurgeTodo(r) ELSE {})
    BY <2>1 DEF DetachTodo
  <2>3. \A w \in D : w.op # "put" /\ ~(w.op = "del" /\ w.tab = "vips")
    BY <2>2 DEF Del, Snap
  <2>4. CASE ~LastOfVni(id)
    <3>1. \A k : ~Dropping("vips", k)'
      BY <2>2, <2>3, <2>4 DEF Dropping
    <3> QED
      BY <1>6, <2>2, <2>3, <2>4, <3>1
  <2>5. CASE LastOfVni(id)
    <3>1. PICK K1, K2 : K1 = VipKeys(g)[1] /\ K2 = VipKeys(g)[2]
      OBVIOUS
    <3>2. K1 \cup K2 = IF g \in DOMAIN V THEN {<<g[1], V[g]>>, g} ELSE {g}
      BY <1>3, <3>1 DEF VipKeys
    <3>3. PurgeTodo(r) = { Del("vips", K1), Del("vips", K2),
                           Del("routes", RoutesOf(r.vni)), Del("routesShadow", RoutesOf(r.vni)) }
      BY <2>2, <3>1 DEF PurgeTodo
    <3>4. \A k : Dropping("vips", k)' <=> k \in K1 \cup K2
      BY <1>10, <2>2, <2>3, <2>5, <3>3 DEF Dropping
    <3>5. \A w \in Todo' : w.op # "put"
      BY <1>10, <2>2, <2>3, <2>5, <3>3
    <3>6. PICK K : K = K1 \cup K2
      OBVIOUS
    <3> QED
      BY <1>8, <3>2, <3>4, <3>5, <3>6
  <2> QED
    BY <2>4, <2>5
<1>14. CASE StartsCreate
  <2>1. \A w \in Todo' : w.tab # "vips"
    BY <1>14 DEF StartsCreate, CreateTodo, Put
  <2> QED
    BY <1>7, <2>1
<1>15. CASE StartsRoute
  BY <1>7, <1>9, <1>15 DEF StartsRoute
<1>16. CASE StartsUnroute
  BY <1>7, <1>10, <1>16 DEF StartsUnroute
<1>17. CASE StartsPrefix
  BY <1>7, <1>9, <1>17 DEF StartsPrefix
<1>18. CASE StartsUnprefix
  BY <1>7, <1>10, <1>18 DEF StartsUnprefix
<1>19. CASE Todo' = {} \/ StartsOther
  BY <1>7, <1>19 DEF StartsOther
<1> QED
  BY <1>1, <1>11, <1>12, <1>13, <1>14, <1>15, <1>16, <1>17, <1>18, <1>19

\* VipInv is inductive.
LEMMA VipInductive ==
    /\ Init => VipInv
    /\ TypeInv /\ OneKind /\ VipInv /\ [Next]_vars => VipInv'
<1>1. ASSUME Init PROVE VipInv
  <2>1. Todo = {} /\ tab["vips"] = << >>
    BY <1>1, FreeFacts DEF Init, Free, Tables, Maps
  <2> QED
    BY <2>1 DEF VipInv
<1>2. ASSUME TypeInv, OneKind, VipInv, [Next]_vars PROVE VipInv'
  <2>1. CASE Write
    BY <1>2, <2>1, WriteVip
  <2>2. CASE Call \/ Resume
    BY <1>2, <2>2, CallVip
  <2>3. CASE (\E c \in Cpus : Datapath(c)) \/ UNCHANGED vars
    <3>1. /\ UNCHANGED <<task, broken>> /\ tab'["vips"] = tab["vips"]
          /\ Todo' = Todo /\ \A t, k : Dropping(t, k)' <=> Dropping(t, k)
      BY <1>2, <2>3, DatapathQuiet, QuietFacts DEF ControlTabs
    <3>2. \A p : PairComes(p)' <=> PairComes(p)
      BY <3>1 DEF PairComes
    <3>3. PICK V : V = tab["vips"] /\ V = tab'["vips"]
      BY <3>1
    <3>4. ASSUME NEW k \in DOMAIN V
          PROVE  LET p == Pair(k, V[k]) IN
                 /\ k \in broken' \/ p \in broken' \/ PairComes(p)' \/ Dropping("vips", k)'
                 /\ Dropping("vips", k)' => p \notin DOMAIN V \/ Dropping("vips", p)'
      <4>1. PICK p : p = Pair(k, V[k])
        OBVIOUS
      <4>2. /\ k \in broken' \/ p \in broken' \/ PairComes(p)' \/ Dropping("vips", k)'
            /\ Dropping("vips", k)' => p \notin DOMAIN V \/ Dropping("vips", p)'
        BY <1>2, <3>1, <3>2, <3>3, <3>4, <4>1 DEF VipInv
      <4> QED
        BY <4>1, <4>2 DEF PairComes, Dropping, Pair
    <3>5. ASSUME NEW w \in Todo', w.op = "put", w.tab = "vips"
          PROVE  task'.guest \in {w.key, Pair(w.key, w.val)} /\ PairComes(Pair(w.key, w.val))'
      BY <1>2, <3>1, <3>5 DEF VipInv, PairComes, Pair
    <3> QED
      BY <3>3, <3>4, <3>5 DEF VipInv, PairComes, Pair
  <2> QED
    BY <1>2, <2>1, <2>2, <2>3 DEF Next
<1> QED
  BY <1>1, <1>2

\* Between operations each VIP leads to its guest and each guest's VIP back
\* to it, unless an insert failed for them.
THEOREM VipPairedHolds == Spec => []VipPaired
<1>1. TypeInv /\ VipInv => VipPaired
  <2> SUFFICES ASSUME TypeInv, VipInv, Free, NEW k \in DOMAIN tab["vips"], NEW p, p = <<k[1], tab["vips"][k]>>,
                      k \notin broken, p \notin broken
               PROVE  Maplet(tab["vips"], p, k[2])
    BY DEF VipPaired
  <2>1. Todo = {} /\ \A t, x : ~Dropping(t, x)
    BY FreeLive
  <2>2. p \in DOMAIN tab["vips"]
    BY <2>1 DEF VipInv, Pair, PairComes
  <2> QED
    BY <2>2, PairFacts DEF Pair, Maplet
<1> QED
  BY <1>1, TypeInductive, KindInductive, VipInductive, PTL DEF Spec

(***************************************************************************)
(* ROUTES holds what the shadow tables account for.                        *)
(***************************************************************************)

\* Lists of one write and of two.
LEMMA ShortOps ==
    /\ \A b : task.ops = <<b>> => Todo = {b} /\ Head(task.ops) = b /\ Len(task.ops) = 1
    /\ \A a, b : task.ops = <<a, b>> =>
          Todo = {a, b} /\ Head(task.ops) = a /\ Len(task.ops) = 2 /\ Tail(task.ops) = <<b>>
<1>1. \A b : Range(<<b>>) = {b} /\ Head(<<b>>) = b /\ Len(<<b>>) = 1
  BY ShortLists DEF Lists
<1>2. \A a, b : Range(<<a, b>>) = {a, b} /\ Head(<<a, b>>) = a /\ Len(<<a, b>>) = 2 /\ Tail(<<a, b>>) = <<b>>
  BY ShortLists DEF Lists
<1> QED
  BY <1>1, <1>2 DEF Todo

\* They after their first write.
LEMMA ShortAdvance ==
    ASSUME TaskFits, Advance
    PROVE  /\ \A b : task.ops = <<b>> => Todo' = {}
           /\ \A a, b : task.ops = <<a, b>> => task'.ops = <<b>> /\ Todo' = {b}
<1>1. ASSUME NEW b, task.ops = <<b>> PROVE Todo' = {}
  <2>1. task' = FreeTask
    BY <1>1, ShortOps DEF Advance
  <2> QED
    BY <2>1, FreeFacts DEF Todo
<1>2. ASSUME NEW a, NEW b, task.ops = <<a, b>> PROVE task'.ops = <<b>> /\ Todo' = {b}
  <2>1. Len(task.ops) = 2 /\ Tail(task.ops) = <<b>>
    BY <1>2, ShortOps
  <2>2. task' = [task EXCEPT !.ops = Tail(@)]
    BY <2>1 DEF Advance
  <2>3. task'.ops = <<b>>
    BY <2>1, <2>2 DEF TaskFits
  <2>4. Range(<<b>>) = {b}
    BY ShortLists DEF Lists
  <2> QED
    BY <2>3, <2>4 DEF Todo
<1> QED
  BY <1>1, <1>2

\* Routes, alias prefixes and host routes are different prefixes.
LEMMA RouteClasses ==
    ASSUME TypeInv
    PROVE  /\ \A k \in DOMAIN tab["routesShadow"] : k[2] \in Routes
           /\ \A k \in DOMAIN tab["prefixes"] : k[2] \in Aliases /\ k = <<k[1], k[2]>>
           /\ \A r \in Requests : \A k \in SelfRoutes(r) : k[2] \notin Routes /\ k[2] \notin Aliases
           /\ \A p : ~(p \in Routes /\ p \in Aliases)
           /\ \A k : PrefixRoute(k)[2] = k[2] /\ PrefixRoute(k)[1] = ById[k[1]].vni
<1>1. /\ \A k \in DOMAIN tab["routesShadow"] : k \in Vnis \X Routes
      /\ \A k \in DOMAIN tab["prefixes"] : k \in Ids \X Aliases
  BY DEF TypeInv, TablesFit, Fits, Tables, Shadows
<1>2. ASSUME NEW r \in Requests, NEW k \in SelfRoutes(r) PROVE k[2] \notin Routes /\ k[2] \notin Aliases
  <2>1. {{r.ip}, {r.ip6}} \cap (Routes \cup Aliases) = {}
    BY OperatorAssumption
  <2>2. k[2] = {r.ip} \/ k[2] = {r.ip6}
    BY <1>2 DEF SelfRoutes
  <2> QED
    BY <2>1, <2>2
<1>3. \A p : ~(p \in Routes /\ p \in Aliases)
  BY OperatorAssumption
<1>4. \A k : PrefixRoute(k)[2] = k[2] /\ PrefixRoute(k)[1] = ById[k[1]].vni
  BY DEF PrefixRoute
<1> QED
  BY <1>1, <1>2, <1>3, <1>4

\* An insert preserves RouteInv.
LEMMA PutRoutes ==
    ASSUME TypeInv, TapInv, OneKind, RouteInv, WritePut
    PROVE  RouteInv'
<1>1. PICK w : w = Head(task.ops)
  OBVIOUS
<1>2. /\ w \in Todo /\ w.op = "put" /\ w.tab \in Tables
      /\ Todo = {w} \cup Todo'
      /\ DOMAIN tab'[w.tab] = DOMAIN tab[w.tab] \cup {w.key}
      /\ \A x \in DOMAIN tab[w.tab] \cup {w.key} :
            tab'[w.tab][x] = IF x = w.key THEN w.val ELSE tab[w.tab][x]
      /\ \A s \in Tables \ {w.tab} : tab'[s] = tab[s]
  BY <1>1, PutEffect
<1>3. \A t, k : ~Dropping(t, k) /\ ~Dropping(t, k)'
  BY PutKind
<1>4. Live \cup Coming \subseteq Live' /\ PutKnown(w)
  BY <1>1, PutLive
<1>5. ControlTabs \subseteq Tables
  BY DEF ControlTabs, Tables, Maps, Shadows
<1>6. TaskFits /\ Advance /\ orphans' = orphans
  BY DEF WritePut, TypeInv, history
<1>7. PICK R, S, P : R = tab["routes"] /\ S = tab["routesShadow"] /\ P = tab["prefixes"]
  OBVIOUS
<1>8. PICK R1, S1, P1 : R1 = tab'["routes"] /\ S1 = tab'["routesShadow"] /\ P1 = tab'["prefixes"]
  OBVIOUS
<1>9. /\ IF w.tab = "routes"
           THEN /\ DOMAIN R1 = DOMAIN R \cup {w.key}
                /\ \A x \in DOMAIN R1 : R1[x] = IF x = w.key THEN w.val ELSE R[x]
           ELSE R1 = R
      /\ IF w.tab = "routesShadow"
           THEN /\ DOMAIN S1 = DOMAIN S \cup {w.key}
                /\ \A x \in DOMAIN S1 : S1[x] = IF x = w.key THEN w.val ELSE S[x]
           ELSE S1 = S
      /\ IF w.tab = "prefixes"
           THEN /\ DOMAIN P1 = DOMAIN P \cup {w.key}
                /\ \A x \in DOMAIN P1 : P1[x] = IF x = w.key THEN w.val ELSE P[x]
           ELSE P1 = P
  BY <1>2, <1>5, <1>7, <1>8 DEF ControlTabs
<1>10. \A x \in DOMAIN ById : x \in DOMAIN ById' /\ ById'[x] = ById[x]
  <2>1. CASE w.tab = "byId"
    BY <1>2, <1>4, <2>1 DEF PutKnown, ById
  <2>2. CASE w.tab # "byId"
    BY <1>2, <1>5, <2>2 DEF ById, ControlTabs
  <2> QED
    BY <2>1, <2>2
<1>11. /\ Held = DOMAIN P
       /\ \A k \in DOMAIN P : k[1] \in DOMAIN ById
       /\ \A k : k[1] \in DOMAIN ById => PrefixRoute(k)' = PrefixRoute(k)
  <2>1. \A k \in DOMAIN P : k[1] \in DOMAIN ById
    BY <1>3, <1>7 DEF RouteInv
  <2>2. Held = DOMAIN P
    BY <1>7, <2>1 DEF Held
  <2>3. \A k : k[1] \in DOMAIN ById => PrefixRoute(k)' = PrefixRoute(k)
    BY <1>10 DEF PrefixRoute
  <2> QED
    BY <2>1, <2>2, <2>3
<1>12. ASSUME Accounts(w) PROVE Todo' = {} /\ Maplet(R, RouteKey(w), w.val)
  <2>1. CASE task.ops = <<w>> /\ Maplet(tab["routes"], RouteKey(w), w.val)
    BY <1>6, <1>7, <2>1, ShortAdvance
  <2>2. CASE \E a : task.ops = <<a, w>> /\ Announces(a)
    BY <1>1, <1>12, <2>2, ShortOps DEF Accounts, Announces
  <2> QED
    BY <1>2, <1>12, <2>1, <2>2 DEF RouteInv, RouteOrder
<1>13. \A k \in DOMAIN S1 : Maplet(R1, k, S1[k])
  <2>1. \A k \in DOMAIN S : Maplet(R, k, S[k])
    BY <1>3, <1>7 DEF RouteInv
  <2>2. CASE w.tab = "routes"
    <3>1. w.key \notin DOMAIN S
      BY <1>2, <1>7, <2>2 DEF RouteInv, RouteOrder, Announces
    <3> QED
      BY <1>9, <2>1, <2>2, <3>1 DEF Maplet
  <2>3. CASE w.tab = "routesShadow"
    <3>1. Maplet(R, w.key, w.val)
      BY <1>2, <1>12, <2>3 DEF Accounts, RouteKey
    <3> QED
      BY <1>9, <2>1, <2>3, <3>1 DEF Maplet
  <2>4. CASE w.tab \notin {"routes", "routesShadow"}
    BY <1>9, <2>1, <2>4
  <2> QED
    BY <2>2, <2>3, <2>4
<1>14. ASSUME w.tab = "prefixes"
       PROVE  /\ w.key[1] \in DOMAIN ById /\ Maplet(R, PrefixRoute(w.key), w.val)
              /\ w.key[2] \notin Prefixes6 => \A k \in DOMAIN P : PrefixRoute(k) # PrefixRoute(w.key)
  <2>1. Accounts(w) /\ RouteKey(w) = PrefixRoute(w.key)
    BY <1>2, <1>14 DEF Accounts, RouteKey
  <2> QED
    BY <1>2, <1>11, <1>12, <1>14, <2>1 DEF RouteInv, RouteOrder
<1>15. \A k \in DOMAIN P1 : k[1] \in DOMAIN ById
  BY <1>9, <1>11, <1>14
<1>16. Held' = DOMAIN P1 /\ \A k \in DOMAIN P1 : k[1] \in DOMAIN ById' /\ PrefixRoute(k)' = PrefixRoute(k)
  <2>1. \A k \in DOMAIN P1 : k[1] \in DOMAIN ById' /\ PrefixRoute(k)' = PrefixRoute(k)
    BY <1>10, <1>11, <1>15
  <2> QED
    BY <1>8, <2>1 DEF Held
<1>17. \A k \in DOMAIN P1 : k[2] \in Prefixes6 \/ Maplet(R1, PrefixRoute(k), P1[k])
  <2>1. \A k \in DOMAIN P : k[2] \in Prefixes6 \/ Maplet(R, PrefixRoute(k), P[k])
    BY <1>3, <1>7 DEF RouteInv
  <2>2. CASE w.tab = "routes"
    <3>1. \A k \in DOMAIN P : k[2] \notin Prefixes6 => PrefixRoute(k) # w.key
      BY <1>2, <1>11, <2>2 DEF RouteInv, RouteOrder, Announces
    <3> QED
      BY <1>9, <2>1, <2>2, <3>1 DEF Maplet
  <2>3. CASE w.tab = "prefixes"
    BY <1>9, <1>14, <2>1, <2>3 DEF Maplet
  <2>4. CASE w.tab \notin {"routes", "prefixes"}
    BY <1>9, <2>1, <2>4
  <2> QED
    BY <2>2, <2>3, <2>4
<1>18. \A k, l \in DOMAIN P1 : k[2] \notin Prefixes6 /\ PrefixRoute(k) = PrefixRoute(l) => k = l
  <2>1. \A k, l \in DOMAIN P : k[2] \notin Prefixes6 /\ PrefixRoute(k) = PrefixRoute(l) => k = l
    BY <1>11 DEF RouteInv
  <2>2. CASE w.tab = "prefixes"
    <3>1. \A k : PrefixRoute(k)[2] = k[2]
      BY RouteClasses
    <3>2. w.key[2] \notin Prefixes6 => \A k \in DOMAIN P : PrefixRoute(k) # PrefixRoute(w.key)
      BY <1>14, <2>2
    <3>3. ASSUME NEW k \in DOMAIN P1, NEW l \in DOMAIN P1, k[2] \notin Prefixes6, PrefixRoute(k) = PrefixRoute(l)
          PROVE  k = l
      <4>1. l[2] = k[2]
        BY <3>1, <3>3
      <4>2. (k \in DOMAIN P \/ k = w.key) /\ (l \in DOMAIN P \/ l = w.key)
        BY <1>9, <2>2, <3>3
      <4> QED
        BY <2>1, <3>2, <3>3, <4>1, <4>2
    <3> QED
      BY <3>3
  <2>3. CASE w.tab # "prefixes"
    BY <1>9, <2>1, <2>3
  <2> QED
    BY <2>2, <2>3
<1>19. ASSUME NEW b \in Todo', Accounts(b)
       PROVE  /\ b \in Todo /\ b # w /\ Announces(w)
              /\ task.ops = <<w, b>> /\ w.key = RouteKey(b) /\ w.val = b.val
              /\ RouteKey(b)' = RouteKey(b)
  <2>1. b \in Todo /\ b # w
    BY <1>2, <1>12, <1>19
  <2>2. task.ops # <<b>>
    BY <1>1, <2>1, ShortOps
  <2>3. PICK a : task.ops = <<a, b>> /\ Announces(a) /\ a.key = RouteKey(b) /\ a.val = b.val
    BY <1>19, <2>1, <2>2 DEF RouteInv, RouteOrder
  <2>4. a = w
    BY <1>1, <2>3, ShortOps
  <2>5. w.tab # "byId"
    BY <2>3, <2>4 DEF Announces
  <2>6. ById' = ById
    BY <1>2, <1>5, <2>5 DEF ById, ControlTabs
  <2> QED
    BY <2>1, <2>3, <2>4, <2>6 DEF RouteKey, PrefixRoute
<1>20. ASSUME NEW k \in DOMAIN R1
       PROVE  \/ k \in DOMAIN S1 \cup orphans' \/ \E x \in Held' : PrefixRoute(x)' = k
              \/ \E r \in Live' : k \in SelfRoutes(r)
              \/ \E b \in Todo' : Accounts(b) /\ RouteKey(b)' = k
  <2>1. ASSUME NEW b \in Todo, Accounts(b), RouteKey(b) = k
        PROVE  k \in DOMAIN S1 \/ (\E x \in Held' : PrefixRoute(x)' = k)
               \/ \E d \in Todo' : Accounts(d) /\ RouteKey(d)' = k
    <3>1. CASE b \in Todo'
      BY <1>19, <2>1, <3>1
    <3>2. CASE b = w /\ w.tab = "routesShadow"
      BY <1>9, <2>1, <3>2 DEF RouteKey
    <3>3. CASE b = w /\ w.tab = "prefixes"
      BY <1>9, <1>16, <2>1, <3>3 DEF RouteKey
    <3> QED
      BY <1>2, <2>1, <3>1, <3>2, <3>3 DEF Accounts
  <2>2. CASE k \in DOMAIN R
    <3>1. \/ k \in DOMAIN S \cup orphans \/ \E x \in DOMAIN P : PrefixRoute(x) = k
          \/ \E r \in Live : k \in SelfRoutes(r)
          \/ \E b \in Todo : Accounts(b) /\ RouteKey(b) = k
      BY <1>3, <1>7, <1>11, <2>2 DEF RouteInv
    <3>2. DOMAIN S \subseteq DOMAIN S1 /\ DOMAIN P \subseteq DOMAIN P1
      BY <1>9
    <3> QED
      BY <1>4, <1>6, <1>16, <2>1, <3>1, <3>2
  <2>3. CASE k \notin DOMAIN R
    <3>1. w.tab = "routes" /\ k = w.key
      BY <1>9, <1>20, <2>3
    <3>2. \/ \E b \in Todo : Accounts(b) /\ RouteKey(b) = k
          \/ \E r \in Live \cup Coming : k \in SelfRoutes(r)
      BY <1>2, <3>1 DEF RouteInv, RouteOrder, Announces
    <3> QED
      BY <1>4, <2>1, <3>2
  <2> QED
    BY <2>2, <2>3
<1>21. ASSUME NEW b \in Todo', Accounts(b)
       PROVE  /\ task'.ops = <<b>> /\ Maplet(R1, RouteKey(b)', b.val)
              /\ b.tab = "prefixes" =>
                   /\ b.key[1] \in DOMAIN ById'
                   /\ b.key[2] \notin Prefixes6 => \A k \in Held' : PrefixRoute(k)' # PrefixRoute(b.key)'
  <2>1. /\ Announces(w) /\ b \in Todo
        /\ task.ops = <<w, b>> /\ w.key = RouteKey(b) /\ w.val = b.val /\ RouteKey(b)' = RouteKey(b)
    BY <1>19, <1>21
  <2>2. task'.ops = <<b>>
    BY <1>6, <2>1, ShortAdvance
  <2>3. Maplet(R1, RouteKey(b)', b.val)
    BY <1>9, <2>1 DEF Maplet, Announces
  <2>4. P1 = P
    BY <1>9, <2>1 DEF Announces
  <2>5. ASSUME b.tab = "prefixes"
        PROVE  /\ b.key[1] \in DOMAIN ById
               /\ b.key[2] \notin Prefixes6 => \A k \in DOMAIN P : PrefixRoute(k) # PrefixRoute(b.key)
    BY <1>11, <1>21, <2>1, <2>5 DEF RouteInv, RouteOrder
  <2> QED
    BY <1>10, <1>11, <1>16, <2>2, <2>3, <2>4, <2>5
<1>22. ASSUME NEW x \in Todo', Announces(x)
       PROVE  /\ x.key \notin DOMAIN S1
              /\ \A k \in Held' : k[2] \notin Prefixes6 => PrefixRoute(k)' # x.key
              /\ \/ \E b \in Todo' : Accounts(b) /\ RouteKey(b)' = x.key
                 \/ \E r \in Live' : x.key \in SelfRoutes(r)
  <2>1. ~Accounts(w) /\ w.tab \notin {"routesShadow", "prefixes"}
    BY <1>2, <1>12, <1>22 DEF Accounts
  <2>2. S1 = S /\ P1 = P
    BY <1>9, <2>1
  <2>3. /\ x.key \notin DOMAIN S
        /\ \A k \in DOMAIN P : k[2] \notin Prefixes6 => PrefixRoute(k) # x.key
        /\ \/ \E b \in Todo : Accounts(b) /\ RouteKey(b) = x.key
           \/ \E r \in Live \cup Coming : x.key \in SelfRoutes(r)
    BY <1>2, <1>7, <1>11, <1>22 DEF RouteInv, RouteOrder
  <2>4. ASSUME NEW b \in Todo, Accounts(b) PROVE b \in Todo' /\ RouteKey(b)' = RouteKey(b)
    BY <1>2, <1>19, <2>1, <2>4
  <2> QED
    BY <1>4, <1>16, <2>2, <2>3, <2>4
<1>23. RouteOrder'
  <2>1. \A x : (Accounts(x)' <=> Accounts(x)) /\ (Announces(x)' <=> Announces(x))
    BY DEF Accounts, Announces
  <2>2. \A r : SelfRoutes(r)' = SelfRoutes(r)
    BY DEF SelfRoutes
  <2>3. \A f, k, v : Maplet(f, k, v)' <=> Maplet(f, k, v)
    BY DEF Maplet
  <2> QED
    BY <1>8, <1>21, <1>22, <2>1, <2>2 DEF RouteOrder, Maplet
<1>24. RouteDrops'
  BY <1>3 DEF RouteDrops
<1>25. \A x : Accounts(x)' <=> Accounts(x)
  BY DEF Accounts
<1>26. \A r : SelfRoutes(r)' = SelfRoutes(r)
  BY DEF SelfRoutes
<1> QED
  BY <1>8, <1>13, <1>16, <1>17, <1>18, <1>20, <1>23, <1>24, <1>25, <1>26 DEF RouteInv, Maplet

\* An insert that fails: a route that is not accounted for yet is not there.
LEMMA FailRoutes ==
    ASSUME TypeInv, TapInv, OneKind, RouteInv, WriteFails
    PROVE  RouteInv'
<1>1. PICK w : w = Head(task.ops)
  OBVIOUS
<1>2. /\ w \in Todo /\ w.op = "put" /\ ~Room(w.tab, w.key) /\ UNCHANGED <<tab, orphans>>
  BY <1>1, HeadFacts DEF WriteFails, TypeInv
<1>3. Todo' = {} /\ \A t, k : ~Dropping(t, k) /\ ~Dropping(t, k)'
  BY FailEffect, PutKind
<1>4. ById' = ById /\ Held' = Held /\ \A k : PrefixRoute(k)' = PrefixRoute(k)
  BY <1>2 DEF ById, Held, PrefixRoute
<1>5. Live \subseteq Live'
  BY OtherWriteTaps
<1>6. ASSUME NEW b \in Todo, Accounts(b) PROVE RouteKey(b) \notin DOMAIN tab["routes"]
  <2>1. CASE task.ops = <<b>>
    <3>1. w = b
      BY <1>1, <2>1, ShortOps
    <3> QED
      BY <1>2, <1>6, <3>1 DEF Accounts, Room, Maps
  <2>2. CASE \E a \in Todo : task.ops = <<a, b>> /\ Announces(a) /\ a.key = RouteKey(b)
    <3>1. PICK a : task.ops = <<a, b>> /\ Announces(a) /\ a.key = RouteKey(b)
      BY <2>2
    <3>2. w = a
      BY <1>1, <3>1, ShortOps
    <3> QED
      BY <1>2, <3>1, <3>2 DEF Announces, Room, Maps
  <2> QED
    BY <1>6, <2>1, <2>2 DEF RouteInv, RouteOrder
<1>7. \A k \in DOMAIN tab["routes"] :
          \/ k \in DOMAIN tab["routesShadow"] \cup orphans
          \/ \E x \in Held : PrefixRoute(x) = k
          \/ \E r \in Live' : k \in SelfRoutes(r)
  BY <1>3, <1>5, <1>6 DEF RouteInv
<1>8. RouteOrder' /\ RouteDrops'
  BY <1>3 DEF RouteOrder, RouteDrops
<1>9. \A r : SelfRoutes(r)' = SelfRoutes(r)
  BY DEF SelfRoutes
<1>10. /\ \A k \in DOMAIN tab["routesShadow"] : Maplet(tab["routes"], k, tab["routesShadow"][k])
       /\ \A k \in DOMAIN tab["prefixes"] :
            /\ k[1] \in DOMAIN ById
            /\ k[2] \in Prefixes6 \/ Maplet(tab["routes"], PrefixRoute(k), tab["prefixes"][k])
       /\ \A k, l \in Held : k[2] \notin Prefixes6 /\ PrefixRoute(k) = PrefixRoute(l) => k = l
  BY <1>3 DEF RouteInv
<1> QED
  BY <1>2, <1>4, <1>7, <1>8, <1>9, <1>10 DEF RouteInv, Maplet

\* A removal preserves RouteInv.
LEMMA DelRoutes ==
    ASSUME TypeInv, TapInv, OneKind, RouteInv, WriteDel \/ WriteSnap
    PROVE  RouteInv'
<1>1. PICK R, S, P : R = tab["routes"] /\ S = tab["routesShadow"] /\ P = tab["prefixes"]
  OBVIOUS
<1>2. PICK R1, S1, P1 : R1 = tab'["routes"] /\ S1 = tab'["routesShadow"] /\ P1 = tab'["prefixes"]
  OBVIOUS
<1>3. /\ DOMAIN R1 \subseteq DOMAIN R /\ \A k \in DOMAIN R1 : R1[k] = R[k]
      /\ \A k \in DOMAIN R : k \in DOMAIN R1 \/ Dropping("routes", k)
      /\ \A k \in DOMAIN R1 : Dropping("routes", k)' <=> Dropping("routes", k)
  BY <1>1, <1>2, DelTabs DEF ControlTabs
<1>4. /\ DOMAIN S1 \subseteq DOMAIN S /\ \A k \in DOMAIN S1 : S1[k] = S[k]
      /\ \A k \in DOMAIN S : k \in DOMAIN S1 \/ Dropping("routesShadow", k)
      /\ \A k \in DOMAIN S1 : Dropping("routesShadow", k)' <=> Dropping("routesShadow", k)
  BY <1>1, <1>2, DelTabs DEF ControlTabs
<1>5. /\ DOMAIN P1 \subseteq DOMAIN P /\ \A k \in DOMAIN P1 : P1[k] = P[k]
      /\ \A k \in DOMAIN P : k \in DOMAIN P1 \/ Dropping("prefixes", k)
      /\ \A k \in DOMAIN P1 : Dropping("prefixes", k)' <=> Dropping("prefixes", k)
  BY <1>1, <1>2, DelTabs DEF ControlTabs
<1>6. /\ DOMAIN ById' \subseteq DOMAIN ById /\ \A k \in DOMAIN ById' : ById'[k] = ById[k]
      /\ \A k \in DOMAIN ById : k \in DOMAIN ById' \/ Dropping("byId", k)
      /\ \A k \in DOMAIN ById' : Dropping("byId", k)' <=> Dropping("byId", k)
  BY DelTabs DEF ControlTabs, ById
<1>7. Todo' \subseteq Todo /\ \A x \in Todo : x.op # "put"
  BY DelKind
<1>8. \A t, k : Dropping(t, k)' => Dropping(t, k)
  BY <1>7 DEF Dropping
<1>9. Live \subseteq Live' /\ orphans' = orphans
  BY WriteLive DEF Write
<1>10. /\ Held = {k \in DOMAIN P : k[1] \in DOMAIN ById}
       /\ Held' = {k \in DOMAIN P1 : k[1] \in DOMAIN ById'}
       /\ \A k \in Held' : k \in Held /\ PrefixRoute(k)' = PrefixRoute(k)
  <2>1. /\ Held = {k \in DOMAIN P : k[1] \in DOMAIN ById}
        /\ Held' = {k \in DOMAIN P1 : k[1] \in DOMAIN ById'}
    BY <1>1, <1>2 DEF Held
  <2> QED
    BY <1>5, <1>6, <2>1 DEF PrefixRoute
<1>11. /\ \A k \in DOMAIN S : Dropping("routes", k) => Dropping("routesShadow", k)
       /\ \A k \in DOMAIN R : Dropping("routesShadow", k) => Dropping("routes", k)
       /\ \A k \in Held :
            /\ k[2] \notin Prefixes6 /\ Dropping("routes", PrefixRoute(k)) => Dropping("prefixes", k)
            /\ Dropping("prefixes", k) /\ PrefixRoute(k) \in DOMAIN R =>
                  Dropping("routes", PrefixRoute(k)) \/ PrefixRoute(k) \in orphans
            /\ Dropping("byId", k[1]) => Dropping("prefixes", k)
  BY <1>1 DEF RouteInv, RouteDrops
<1>12. \A k \in DOMAIN S1 : Dropping("routesShadow", k)' \/ Maplet(R1, k, S1[k])
  <2>1. \A k \in DOMAIN S : Dropping("routesShadow", k) \/ Maplet(R, k, S[k])
    BY <1>1 DEF RouteInv
  <2> QED
    BY <1>3, <1>4, <1>11, <2>1 DEF Maplet
<1>13. ASSUME NEW k \in DOMAIN P1, ~Dropping("prefixes", k)'
       PROVE  k[1] \in DOMAIN ById' /\ (k[2] \in Prefixes6 \/ Maplet(R1, PrefixRoute(k)', P1[k]))
  <2>1. ~Dropping("prefixes", k) /\ k \in DOMAIN P
    BY <1>5, <1>13
  <2>2. k[1] \in DOMAIN ById /\ (k[2] \in Prefixes6 \/ Maplet(R, PrefixRoute(k), P[k]))
    BY <1>1, <2>1 DEF RouteInv
  <2>3. k \in Held
    BY <1>10, <2>1, <2>2
  <2>4. k[1] \in DOMAIN ById'
    BY <1>6, <1>11, <2>1, <2>2, <2>3
  <2>5. k \in Held'
    BY <1>10, <1>13, <2>4
  <2>6. k[2] \in Prefixes6 \/ ~Dropping("routes", PrefixRoute(k))
    BY <1>11, <2>1, <2>3
  <2>7. k[2] \in Prefixes6 \/ Maplet(R1, PrefixRoute(k), P[k])
    BY <1>3, <2>2, <2>6 DEF Maplet
  <2>8. PrefixRoute(k)' = PrefixRoute(k) /\ P1[k] = P[k]
    BY <1>5, <1>10, <1>13, <2>5
  <2> QED
    BY <2>4, <2>7, <2>8
<1>14. \A k, l \in Held' : k[2] \notin Prefixes6 /\ PrefixRoute(k)' = PrefixRoute(l)' => k = l
  <2>1. \A k, l \in Held : k[2] \notin Prefixes6 /\ PrefixRoute(k) = PrefixRoute(l) => k = l
    BY DEF RouteInv
  <2> QED
    BY <1>10, <2>1
<1>15. ASSUME NEW k \in DOMAIN R1
       PROVE  \/ k \in DOMAIN S1 \cup orphans' \/ Dropping("routes", k)'
              \/ \E x \in Held' : PrefixRoute(x)' = k
              \/ \E r \in Live' : k \in SelfRoutes(r)
  <2>1. \/ k \in DOMAIN S \cup orphans \/ Dropping("routes", k)
        \/ \E x \in Held : PrefixRoute(x) = k
        \/ \E r \in Live : k \in SelfRoutes(r)
    BY <1>1, <1>3, <1>7, <1>15 DEF RouteInv, Accounts
  <2>2. Dropping("routes", k) => Dropping("routes", k)'
    BY <1>3, <1>15
  <2>3. CASE k \in DOMAIN S
    BY <1>3, <1>4, <1>11, <1>15, <2>2, <2>3
  <2>4. ASSUME NEW x \in Held, PrefixRoute(x) = k
        PROVE  k \in orphans \/ Dropping("routes", k) \/ \E y \in Held' : PrefixRoute(y)' = k
    <3>1. CASE x \in Held'
      BY <1>10, <2>4, <3>1
    <3>2. CASE x \notin Held'
      <4>1. Dropping("prefixes", x)
        BY <1>5, <1>6, <1>10, <1>11, <2>4, <3>2
      <4> QED
        BY <1>3, <1>11, <1>15, <2>4, <4>1
    <3> QED
      BY <3>1, <3>2
  <2> QED
    BY <1>9, <2>1, <2>2, <2>3, <2>4
<1>16. RouteOrder'
  BY <1>7 DEF RouteOrder, Accounts, Announces
<1>17. RouteDrops'
  <2>1. \A k \in DOMAIN S1 : Dropping("routes", k)' => Dropping("routesShadow", k)'
    BY <1>4, <1>8, <1>11
  <2>2. \A k \in DOMAIN R1 : Dropping("routesShadow", k)' => Dropping("routes", k)'
    BY <1>3, <1>8, <1>11
  <2>3. ASSUME NEW k \in Held'
        PROVE  /\ k[2] \notin Prefixes6 /\ Dropping("routes", PrefixRoute(k))' => Dropping("prefixes", k)'
               /\ Dropping("prefixes", k)' /\ PrefixRoute(k)' \in DOMAIN R1 =>
                    Dropping("routes", PrefixRoute(k))' \/ PrefixRoute(k)' \in orphans'
               /\ Dropping("byId", k[1])' => Dropping("prefixes", k)'
    <3>1. PICK p : p = PrefixRoute(k)
      OBVIOUS
    <3>2. k \in Held /\ p = PrefixRoute(k)' /\ k \in DOMAIN P1
      BY <1>10, <2>3, <3>1
    <3>3. Dropping("routes", PrefixRoute(k))' <=> Dropping("routes", p)'
      BY <3>2 DEF Dropping
    <3>4. Dropping("prefixes", k)' <=> Dropping("prefixes", k)
      BY <1>5, <3>2
    <3>5. /\ k[2] \notin Prefixes6 /\ Dropping("routes", p) => Dropping("prefixes", k)
          /\ Dropping("prefixes", k) /\ p \in DOMAIN R => Dropping("routes", p) \/ p \in orphans
          /\ Dropping("byId", k[1]) => Dropping("prefixes", k)
      BY <1>11, <3>1, <3>2
    <3>6. Dropping("routes", p)' => Dropping("routes", p)
      BY <1>8
    <3>7. Dropping("byId", k[1])' => Dropping("byId", k[1])
      BY <1>8
    <3>8. p \in DOMAIN R1 => p \in DOMAIN R /\ (Dropping("routes", p)' <=> Dropping("routes", p))
      BY <1>3
    <3> QED
      BY <1>9, <3>2, <3>3, <3>4, <3>5, <3>6, <3>7, <3>8
  <2> QED
    BY <1>2, <2>1, <2>2, <2>3 DEF RouteDrops
<1>18. \A r : SelfRoutes(r)' = SelfRoutes(r)
  BY DEF SelfRoutes
<1> QED
  BY <1>2, <1>12, <1>13, <1>14, <1>15, <1>16, <1>17, <1>18 DEF RouteInv, Maplet

\* What RouteInv says while no operation holds the mutex, and what a call has
\* to establish for it.
LEMMA CallExact ==
    ASSUME TypeInv, RouteInv, Free, tab' = tab, NEW R, NEW S, NEW P,
           R = tab["routes"], S = tab["routesShadow"], P = tab["prefixes"]
    PROVE  /\ Held = DOMAIN P /\ ById' = ById
           /\ \A b : RouteKey(b)' = RouteKey(b)
           /\ \A k, l \in DOMAIN P : k[2] \notin Prefixes6 /\ PrefixRoute(k) = PrefixRoute(l) => k = l
           /\ RouteOrder' <=>
                /\ \A b \in Todo' : Accounts(b) =>
                      /\ \/ task'.ops = <<b>> /\ Maplet(R, RouteKey(b), b.val)
                         \/ \E a \in Todo' : /\ task'.ops = <<a, b>> /\ Announces(a)
                                             /\ a.key = RouteKey(b) /\ a.val = b.val
                      /\ b.tab = "prefixes" =>
                            /\ b.key[1] \in DOMAIN ById
                            /\ b.key[2] \notin Prefixes6 =>
                                  \A k \in DOMAIN P : PrefixRoute(k) # PrefixRoute(b.key)
                /\ \A w \in Todo' : Announces(w) =>
                      /\ w.key \notin DOMAIN S
                      /\ \A k \in DOMAIN P : k[2] \notin Prefixes6 => PrefixRoute(k) # w.key
                      /\ \/ \E b \in Todo' : Accounts(b) /\ RouteKey(b) = w.key
                         \/ \E r \in Live' \cup Coming' : w.key \in SelfRoutes(r)
           /\ (/\ \A k \in DOMAIN S : Dropping("routes", k)' => Dropping("routesShadow", k)'
               /\ \A k \in DOMAIN R : Dropping("routesShadow", k)' => Dropping("routes", k)'
               /\ \A k \in DOMAIN P : \A p : p = PrefixRoute(k) =>
                     /\ k[2] \notin Prefixes6 /\ Dropping("routes", p)' => Dropping("prefixes", k)'
                     /\ Dropping("prefixes", k)' /\ p \in DOMAIN R =>
                           Dropping("routes", p)' \/ p \in orphans'
                     /\ Dropping("byId", k[1])' => Dropping("prefixes", k)') => RouteDrops'
           /\ (/\ orphans \subseteq orphans'
               /\ \A r \in Live : r \in Live' \/ \A k \in SelfRoutes(r) : Dropping("routes", k)'
               /\ RouteOrder' /\ RouteDrops') => RouteInv'
<1>1. Todo = {} /\ \A t, k : ~Dropping(t, k)
  BY FreeLive
<1>2. R = tab'["routes"] /\ S = tab'["routesShadow"] /\ P = tab'["prefixes"] /\ ById' = ById
  BY DEF ById
<1>3. /\ \A k \in DOMAIN S : Maplet(R, k, S[k])
      /\ \A k \in DOMAIN P :
           k[1] \in DOMAIN ById /\ (k[2] \in Prefixes6 \/ Maplet(R, PrefixRoute(k), P[k]))
      /\ \A k, l \in Held : k[2] \notin Prefixes6 /\ PrefixRoute(k) = PrefixRoute(l) => k = l
      /\ \A k \in DOMAIN R :
           \/ k \in DOMAIN S \cup orphans
           \/ \E x \in Held : PrefixRoute(x) = k
           \/ \E r \in Live : k \in SelfRoutes(r)
  BY <1>1 DEF RouteInv
<1>4. Held = DOMAIN P /\ Held' = Held
  BY <1>2, <1>3 DEF Held
<1>5. \A k : PrefixRoute(k)' = PrefixRoute(k)
  BY <1>2 DEF PrefixRoute
<1>6. \A b : RouteKey(b)' = RouteKey(b)
  BY <1>2 DEF RouteKey, PrefixRoute
<1>7. /\ \A x : (Accounts(x)' <=> Accounts(x)) /\ (Announces(x)' <=> Announces(x))
      /\ \A r : SelfRoutes(r)' = SelfRoutes(r)
  BY DEF Accounts, Announces, SelfRoutes
<1>8. RouteOrder' <=>
        /\ \A b \in Todo' : Accounts(b) =>
              /\ \/ task'.ops = <<b>> /\ Maplet(R, RouteKey(b), b.val)
                 \/ \E a \in Todo' : /\ task'.ops = <<a, b>> /\ Announces(a)
                                     /\ a.key = RouteKey(b) /\ a.val = b.val
              /\ b.tab = "prefixes" =>
                    /\ b.key[1] \in DOMAIN ById
                    /\ b.key[2] \notin Prefixes6 =>
                          \A k \in DOMAIN P : PrefixRoute(k) # PrefixRoute(b.key)
        /\ \A w \in Todo' : Announces(w) =>
              /\ w.key \notin DOMAIN S
              /\ \A k \in DOMAIN P : k[2] \notin Prefixes6 => PrefixRoute(k) # w.key
              /\ \/ \E b \in Todo' : Accounts(b) /\ RouteKey(b) = w.key
                 \/ \E r \in Live' \cup Coming' : w.key \in SelfRoutes(r)
  <2>1. \A b : PrefixRoute(b.key)' = PrefixRoute(b.key)
    BY <1>2 DEF PrefixRoute
  <2> QED
    BY <1>2, <1>4, <1>5, <1>6, <1>7, <2>1 DEF RouteOrder, Maplet
<1>9. ASSUME \A k \in DOMAIN S : Dropping("routes", k)' => Dropping("routesShadow", k)',
             \A k \in DOMAIN R : Dropping("routesShadow", k)' => Dropping("routes", k)',
             \A k \in DOMAIN P : \A p : p = PrefixRoute(k) =>
                /\ k[2] \notin Prefixes6 /\ Dropping("routes", p)' => Dropping("prefixes", k)'
                /\ Dropping("prefixes", k)' /\ p \in DOMAIN R => Dropping("routes", p)' \/ p \in orphans'
                /\ Dropping("byId", k[1])' => Dropping("prefixes", k)'
      PROVE  RouteDrops'
  <2>1. ASSUME NEW k \in Held'
        PROVE  /\ k[2] \notin Prefixes6 /\ Dropping("routes", PrefixRoute(k))' => Dropping("prefixes", k)'
               /\ Dropping("prefixes", k)' /\ PrefixRoute(k)' \in DOMAIN R =>
                    Dropping("routes", PrefixRoute(k))' \/ PrefixRoute(k)' \in orphans'
               /\ Dropping("byId", k[1])' => Dropping("prefixes", k)'
    <3>1. PICK p : p = PrefixRoute(k) /\ p = PrefixRoute(k)'
      BY <1>5
    <3>2. Dropping("routes", PrefixRoute(k))' <=> Dropping("routes", p)'
      BY <3>1 DEF Dropping
    <3> QED
      BY <1>4, <1>9, <2>1, <3>1, <3>2
  <2> QED
    BY <1>2, <1>9, <2>1 DEF RouteDrops
<1>10. ASSUME orphans \subseteq orphans',
              \A r \in Live : r \in Live' \/ \A k \in SelfRoutes(r) : Dropping("routes", k)',
              RouteOrder', RouteDrops'
       PROVE  RouteInv'
  <2>1. \A k \in DOMAIN R :
           \/ k \in DOMAIN S \cup orphans' \/ Dropping("routes", k)'
           \/ \E x \in Held' : PrefixRoute(x)' = k
           \/ \E r \in Live' : k \in SelfRoutes(r)
    BY <1>3, <1>4, <1>5, <1>10
  <2>2. \A k, l \in Held' : k[2] \notin Prefixes6 /\ PrefixRoute(k)' = PrefixRoute(l)' => k = l
    BY <1>3, <1>4, <1>5
  <2>3. \A k \in DOMAIN P :
           k[1] \in DOMAIN ById' /\ (k[2] \in Prefixes6 \/ Maplet(R, PrefixRoute(k)', P[k]))
    BY <1>2, <1>3, <1>5
  <2> QED
    BY <1>2, <1>3, <1>7, <1>10, <2>1, <2>2, <2>3 DEF RouteInv, Maplet
<1> QED
  BY <1>2, <1>3, <1>4, <1>6, <1>8, <1>9, <1>10

\* Calls other than detach_interface preserve RouteInv.
LEMMA OtherCallRoutes ==
    ASSUME TypeInv, RouteInv, Call \/ Resume, ~StartsDetach
    PROVE  RouteInv'
<1>1. /\ Free /\ tab' = tab
      /\ (\E id \in DOMAIN ById : DetachInterface(id)) \/ UNCHANGED <<orphans, lateVnis>>
      /\ \/ Todo' = {} \/ StartsCreate \/ StartsVip \/ StartsUnvip \/ StartsRoute
         \/ StartsUnroute \/ StartsPrefix \/ StartsUnprefix \/ StartsOther
  BY CallKinds
<1>2. Live' = Live /\ \A k : ~Dropping("byId", k)'
  BY CallLive
<1>3. UNCHANGED orphans
  <2>1. ASSUME NEW id \in DOMAIN ById, DetachInterface(id) PROVE FALSE
    <3>1. id \in Ids
      BY <2>1, RecordFacts
    <3> QED
      BY <2>1, <3>1, DetachStarts DEF StartsDetach
  <2> QED
    BY <1>1, <2>1
<1>4. PICK R, S, P : R = tab["routes"] /\ S = tab["routesShadow"] /\ P = tab["prefixes"]
  OBVIOUS
<1>5. /\ \A b : RouteKey(b)' = RouteKey(b)
      /\ \A k, l \in DOMAIN P : k[2] \notin Prefixes6 /\ PrefixRoute(k) = PrefixRoute(l) => k = l
      /\ \A k \in DOMAIN S : k[2] \in Routes
      /\ \A k \in DOMAIN P : k[2] \in Aliases /\ k = <<k[1], k[2]>>
      /\ \A p : ~(p \in Routes /\ p \in Aliases)
      /\ \A k : PrefixRoute(k)[2] = k[2] /\ PrefixRoute(k)[1] = ById[k[1]].vni
  BY <1>1, <1>4, CallExact, RouteClasses
<1>6. ASSUME \A b \in Todo' : Accounts(b) =>
                /\ \E a \in Todo' : /\ task'.ops = <<a, b>> /\ Announces(a)
                                    /\ a.key = RouteKey(b) /\ a.val = b.val
                /\ b.tab = "prefixes" =>
                      /\ b.key[1] \in DOMAIN ById
                      /\ b.key[2] \notin Prefixes6 =>
                            \A k \in DOMAIN P : PrefixRoute(k) # PrefixRoute(b.key),
             \A w \in Todo' : Announces(w) =>
                /\ w.key \notin DOMAIN S
                /\ \A k \in DOMAIN P : k[2] \notin Prefixes6 => PrefixRoute(k) # w.key
                /\ \/ \E b \in Todo' : Accounts(b) /\ RouteKey(b) = w.key
                   \/ \E r \in Live' \cup Coming' : w.key \in SelfRoutes(r),
             \A w \in Todo' : w.op # "del"
      PROVE  RouteInv'
  <2>1. \A t, k : ~Dropping(t, k)'
    BY <1>6 DEF Dropping
  <2>2. RouteOrder'
    BY <1>1, <1>4, <1>6, CallExact
  <2>3. RouteDrops'
    BY <1>1, <1>4, <2>1, CallExact
  <2> QED
    BY <1>1, <1>2, <1>3, <1>4, <2>2, <2>3, CallExact
<1>7. ASSUME \A w \in Todo' : ~Accounts(w) /\ ~Announces(w),
             \A k \in DOMAIN S : Dropping("routes", k)' => Dropping("routesShadow", k)',
             \A k \in DOMAIN R : Dropping("routesShadow", k)' => Dropping("routes", k)',
             \A k \in DOMAIN P : \A p : p = PrefixRoute(k) =>
                /\ k[2] \notin Prefixes6 /\ Dropping("routes", p)' => Dropping("prefixes", k)'
                /\ Dropping("prefixes", k)' /\ p \in DOMAIN R => Dropping("routes", p)'
      PROVE  RouteInv'
  <2>1. RouteOrder'
    BY <1>1, <1>4, <1>7, CallExact
  <2>2. RouteDrops'
    BY <1>1, <1>2, <1>4, <1>7, CallExact
  <2> QED
    BY <1>1, <1>2, <1>3, <1>4, <2>1, <2>2, CallExact
<1>8. ASSUME \A w \in Todo' : w.tab \notin {"routes", "routesShadow", "prefixes"} PROVE RouteInv'
  <2>1. \A k : ~Dropping("routes", k)' /\ ~Dropping("routesShadow", k)' /\ ~Dropping("prefixes", k)'
    BY <1>8 DEF Dropping
  <2>2. \A w \in Todo' : ~Accounts(w) /\ ~Announces(w)
    BY <1>8 DEF Accounts, Announces
  <2> QED
    BY <1>7, <2>1, <2>2
<1>9. \A t, k, v : /\ Put(t, k, v).op = "put" /\ Put(t, k, v).tab = t
                   /\ Put(t, k, v).key = k /\ Put(t, k, v).val = v
  BY DEF Put
<1>10. \A t, K : Del(t, K).op = "del" /\ Del(t, K).tab = t /\ Del(t, K).keys = K
  BY DEF Del
<1>11. CASE StartsCreate
  <2>1. PICK r \in Requests, mac \in Macs : Todo' = CreateTodo(r, mac)
    BY <1>11 DEF StartsCreate
  <2>2. r \in Coming'
    <3>1. PICK w : w = Put("byId", r.id, r)
      OBVIOUS
    <3>2. w \in Todo'
      BY <2>1, <3>1 DEF CreateTodo
    <3> QED
      BY <1>9, <3>1, <3>2 DEF Coming
  <2>3. ASSUME NEW w \in Todo'
        PROVE  w.op = "put" /\ ~Accounts(w) /\ (Announces(w) => w.key \in SelfRoutes(r))
    <3>1. \/ w = Put("byId", r.id, r)
          \/ w = Put("ports", r.dev, PortMeta(r, mac))
          \/ w = Put("ifaces", Guest(r), IfaceValue(r, mac))
          \/ w = Put("underlay", UnderlayOf(r), UnderlayValue(r, mac))
          \/ w = Put("routes", <<r.vni, {r.ip}>>, UnderlayOf(r))
          \/ (r.ip6 # None /\ w = Put("routes", <<r.vni, {r.ip6}>>, UnderlayOf(r)))
          \/ w = Put("meter", r.dev, TRUE)
      BY <2>1, <2>3, Zenon DEF CreateTodo
    <3>2. r.ip # None
      BY RequestFacts, OverlayAssumption
    <3>3. w.op = "put" /\ w.tab \notin {"routesShadow", "prefixes"}
      BY <3>1 DEF Put
    <3>4. w.tab = "routes" => (w.key = <<r.vni, {r.ip}>> \/ (r.ip6 # None /\ w.key = <<r.vni, {r.ip6}>>))
      BY <3>1 DEF Put
    <3> QED
      BY <3>2, <3>3, <3>4 DEF Accounts, Announces, SelfRoutes
  <2>4. ASSUME NEW w \in Todo', Announces(w)
        PROVE  w.key \notin DOMAIN S /\ \A k \in DOMAIN P : PrefixRoute(k) # w.key
    <3>1. w.key[2] \notin Routes /\ w.key[2] \notin Aliases
      BY <2>3, <2>4, RouteClasses
    <3> QED
      BY <1>5, <3>1
  <2> QED
    BY <1>6, <2>2, <2>3, <2>4
<1>12. CASE StartsRoute
  <2>1. PICK x, k : /\ k \in Vnis \X Routes /\ k \notin DOMAIN S
                    /\ Todo' = { Put("routes", k, x.nh), Put("routesShadow", k, x.nh) }
                    /\ task'.ops = << Put("routes", k, x.nh), Put("routesShadow", k, x.nh) >>
    BY <1>4, <1>12 DEF StartsRoute
  <2>2. PICK a, b : /\ a = Put("routes", k, x.nh) /\ b = Put("routesShadow", k, x.nh)
                    /\ Todo' = {a, b} /\ task'.ops = <<a, b>>
    BY <2>1
  <2>3. /\ a.op = "put" /\ a.tab = "routes" /\ a.key = k /\ a.val = x.nh
        /\ b.op = "put" /\ b.tab = "routesShadow" /\ b.key = k /\ b.val = x.nh
    BY <1>9, <2>2
  <2>4. Announces(a) /\ Accounts(b) /\ ~Announces(b) /\ ~Accounts(a) /\ RouteKey(b) = k
    BY <2>3 DEF Announces, Accounts, RouteKey
  <2>5. \A l \in DOMAIN P : PrefixRoute(l) # k
    BY <1>5, <2>1
  <2> QED
    BY <1>6, <2>1, <2>2, <2>3, <2>4, <2>5
<1>13. CASE StartsPrefix
  <2>1. PICK id \in DOMAIN ById, p \in Aliases : \E u :
                    /\ AddPrefix(id, p)
                    /\ Todo' = { Put("routes", <<ById[id].vni, p>>, u), Put("prefixes", <<id, p>>, u) }
                    /\ task'.ops = << Put("routes", <<ById[id].vni, p>>, u), Put("prefixes", <<id, p>>, u) >>
    BY <1>13 DEF StartsPrefix
  <2>2. PICK x, k, u, a, b :
           /\ x = <<id, p>> /\ k = <<ById[id].vni, p>>
           /\ a = Put("routes", k, u) /\ b = Put("prefixes", x, u)
           /\ Todo' = {a, b} /\ task'.ops = <<a, b>>
    BY <2>1
  <2>3. /\ a.op = "put" /\ a.tab = "routes" /\ a.key = k /\ a.val = u
        /\ b.op = "put" /\ b.tab = "prefixes" /\ b.key = x /\ b.val = u
    BY <1>9, <2>2
  <2>4. PrefixRoute(x) = k /\ k[2] = p /\ k[1] = ById[id].vni /\ x[1] = id /\ x[2] = p
    BY <2>2 DEF PrefixRoute
  <2>5. Announces(a) /\ Accounts(b) /\ ~Announces(b) /\ ~Accounts(a) /\ RouteKey(b) = k
    BY <2>3, <2>4 DEF Announces, Accounts, RouteKey
  <2>6. \A l \in DOMAIN P : l[2] \notin Prefixes6 => PrefixRoute(l) # k
    <3>1. ~PrefixTaken(id, p)
      BY <2>1 DEF AddPrefix
    <3>2. Held = DOMAIN P
      BY <1>1, <1>4, CallExact
    <3>3. \A l \in DOMAIN P : l[1] \in DOMAIN ById
      BY <1>4, <3>2 DEF Held
    <3> QED
      BY <1>4, <1>5, <2>4, <3>1, <3>3 DEF PrefixTaken
  <2>7. p \notin Prefixes6 => \A l \in DOMAIN P : PrefixRoute(l) # k
    BY <1>5, <2>4, <2>6
  <2>8. k \notin DOMAIN S
    BY <1>5, <2>1, <2>4
  <2>9. /\ b.key[1] \in DOMAIN ById
        /\ b.key[2] \notin Prefixes6 => \A l \in DOMAIN P : PrefixRoute(l) # PrefixRoute(b.key)
    BY <2>1, <2>3, <2>4, <2>7
  <2> QED
    BY <1>6, <2>2, <2>3, <2>5, <2>6, <2>8, <2>9
<1>14. CASE StartsUnroute
  <2>1. PICK k \in DOMAIN S : Todo' = { Del("routesShadow", {k}), Del("routes", {k}) }
    BY <1>4, <1>14 DEF StartsUnroute
  <2>2. \A w \in Todo' : ~Accounts(w) /\ ~Announces(w)
    BY <1>10, <2>1 DEF Accounts, Announces
  <2>3. \A l : /\ Dropping("routesShadow", l)' <=> l = k
               /\ Dropping("routes", l)' <=> l = k
               /\ ~Dropping("prefixes", l)'
    BY <1>10, <2>1 DEF Dropping
  <2>4. \A l \in DOMAIN P : PrefixRoute(l) # k
    BY <1>5, <2>1
  <2> QED
    BY <1>7, <2>2, <2>3, <2>4
<1>15. CASE StartsUnprefix
  <2>1. PICK id \in DOMAIN ById, p \in Aliases :
           /\ <<id, p>> \in DOMAIN P
           /\ Todo' = { Del("prefixes", {<<id, p>>}), Del("routes", {<<ById[id].vni, p>>}) }
    BY <1>4, <1>15 DEF StartsUnprefix
  <2>2. PICK x, k : x = <<id, p>> /\ k = <<ById[id].vni, p>>
    OBVIOUS
  <2>3. PrefixRoute(x) = k /\ k[2] = p
    BY <2>2 DEF PrefixRoute
  <2>4. \A w \in Todo' : ~Accounts(w) /\ ~Announces(w)
    BY <1>10, <2>1 DEF Accounts, Announces
  <2>5. \A l : /\ ~Dropping("routesShadow", l)'
               /\ Dropping("routes", l)' <=> l = k
               /\ Dropping("prefixes", l)' <=> l = x
    BY <1>10, <2>1, <2>2 DEF Dropping
  <2>6. k \notin DOMAIN S
    BY <1>5, <2>1, <2>3
  <2> QED
    BY <1>5, <1>7, <2>1, <2>2, <2>3, <2>4, <2>5, <2>6
<1>16. CASE StartsVip
  BY <1>8, <1>9, <1>16 DEF StartsVip
<1>17. CASE StartsUnvip
  BY <1>8, <1>10, <1>17 DEF StartsUnvip
<1>18. CASE Todo' = {} \/ StartsOther
  BY <1>8, <1>18 DEF StartsOther
<1> QED
  BY <1>1, <1>11, <1>12, <1>13, <1>14, <1>15, <1>16, <1>17, <1>18

\* detach_interface preserves RouteInv: it takes the routes of the interface
\* away with its record, and forgets those of its alias prefixes.
LEMMA DetachRoutes ==
    ASSUME TypeInv, RouteInv, Call \/ Resume, StartsDetach
    PROVE  RouteInv'
<1>1. Free /\ tab' = tab
  BY CallKinds
<1>2. PICK id \in DOMAIN ById : DetachInterface(id) /\ Todo' = DetachTodo(id, ById[id])
  BY DEF StartsDetach
<1>3. PICK r, R, S, P, K, A, B :
         /\ r = ById[id] /\ R = tab["routes"] /\ S = tab["routesShadow"] /\ P = tab["prefixes"]
         /\ K = PrefixKeys("prefixes", id) /\ A = SelfRoutes(r) /\ B = RoutesOf(r.vni)
  OBVIOUS
<1>4. /\ orphans' = orphans \cup {<<r.vni, k[2]>> : k \in K}
      /\ K = {k \in DOMAIN P : k[1] = id} /\ B \subseteq DOMAIN S
  BY <1>2, <1>3 DEF DetachInterface, PrefixKeys, RoutesOf
<1>5. PICK D, E :
         /\ D = { Del("byId", {id}), Del("prefixes", K),
                  Del("ports", {r.dev}), Del("ifaces", {Guest(r)}), Snap(UnderlayOf(r)),
                  Del("underlay", {UnderlayOf(r)}),
                  Del("meter", {r.dev}), Del("dhcpMeta", {r.dev}), Del("routes", A) }
         /\ E = (IF LastOfVni(id)
                   THEN { Del("vips", VipKeys(Guest(r))[1]), Del("vips", VipKeys(Guest(r))[2]),
                          Del("routes", B), Del("routesShadow", B) }
                   ELSE {})
         /\ Todo' = D \cup E
  BY <1>2, <1>3 DEF DetachTodo, PurgeTodo
<1>6. \A w \in D : /\ w.op # "put"
                   /\ w.op = "del" /\ w.tab = "byId" => w.keys = {id}
                   /\ w.op = "del" /\ w.tab = "prefixes" => w.keys = K
                   /\ w.op = "del" /\ w.tab = "routes" => w.keys = A
                   /\ ~(w.op = "del" /\ w.tab = "routesShadow")
  BY <1>5 DEF Del, Snap
<1>7. \A w \in E : /\ w.op = "del" /\ w.tab \in {"vips", "routes", "routesShadow"}
                   /\ w.tab \in {"routes", "routesShadow"} => w.keys = B
  BY <1>5 DEF Del
<1>8. \A k \in K : Dropping("prefixes", k)'
  <2>1. PICK w : w = Del("prefixes", K)
    OBVIOUS
  <2>2. w \in Todo' /\ w.op = "del" /\ w.tab = "prefixes" /\ w.keys = K
    BY <1>5, <2>1 DEF Del
  <2> QED
    BY <2>2 DEF Dropping
<1>9. \A k \in A : Dropping("routes", k)'
  <2>1. PICK w : w = Del("routes", A)
    OBVIOUS
  <2>2. w \in Todo' /\ w.op = "del" /\ w.tab = "routes" /\ w.keys = A
    BY <1>5, <2>1 DEF Del
  <2> QED
    BY <2>2 DEF Dropping
<1>10. LastOfVni(id) => \A k \in B : Dropping("routes", k)' /\ Dropping("routesShadow", k)'
  <2>1. PICK w, x : w = Del("routes", B) /\ x = Del("routesShadow", B)
    OBVIOUS
  <2>2. /\ w.op = "del" /\ w.tab = "routes" /\ w.keys = B
        /\ x.op = "del" /\ x.tab = "routesShadow" /\ x.keys = B
    BY <2>1 DEF Del
  <2>3. LastOfVni(id) => w \in Todo' /\ x \in Todo'
    BY <1>5, <2>1
  <2> QED
    BY <2>2, <2>3 DEF Dropping
<1>11. /\ \A k : Dropping("byId", k)' => k = id
       /\ \A k : Dropping("prefixes", k)' => k \in K
       /\ \A k : Dropping("routes", k)' => k \in A \/ (LastOfVni(id) /\ k \in B)
       /\ \A k : Dropping("routesShadow", k)' => LastOfVni(id) /\ k \in B
  <2>1. ASSUME NEW w \in Todo', w.op = "del"
        PROVE  /\ w.tab = "byId" => w.keys = {id}
               /\ w.tab = "prefixes" => w.keys = K
               /\ w.tab = "routes" => w.keys = A \/ (LastOfVni(id) /\ w.keys = B)
               /\ w.tab = "routesShadow" => LastOfVni(id) /\ w.keys = B
    <3>1. CASE w \in D
      BY <1>6, <2>1, <3>1
    <3>2. CASE w \in E
      <4>1. LastOfVni(id)
        BY <1>5, <3>2
      <4> QED
        BY <1>7, <3>2, <4>1
    <3> QED
      BY <1>5, <2>1, <3>1, <3>2
  <2>2. \A t, k : Dropping(t, k)' => \E w \in Todo' : w.op = "del" /\ w.tab = t /\ k \in w.keys
    BY DEF Dropping
  <2>3. \A k : Dropping("byId", k)' => k = id
    BY <2>1, <2>2
  <2>4. \A k : Dropping("prefixes", k)' => k \in K
    BY <2>1, <2>2
  <2>5. \A k : Dropping("routes", k)' => k \in A \/ (LastOfVni(id) /\ k \in B)
    BY <2>1, <2>2
  <2>6. \A k : Dropping("routesShadow", k)' => LastOfVni(id) /\ k \in B
    BY <2>1, <2>2
  <2> QED
    BY <2>3, <2>4, <2>5, <2>6
<1>12. /\ \A k \in DOMAIN S : k[2] \in Routes
       /\ \A k \in DOMAIN P : k[2] \in Aliases
       /\ \A k \in A : k[2] \notin Routes /\ k[2] \notin Aliases
       /\ \A p : ~(p \in Routes /\ p \in Aliases)
       /\ \A k : PrefixRoute(k)[2] = k[2]
  BY <1>3, RouteClasses, RecordFacts
<1>13. \A w \in Todo' : ~Accounts(w) /\ ~Announces(w)
  BY <1>5, <1>6, <1>7 DEF Accounts, Announces
<1>14. RouteOrder'
  BY <1>1, <1>3, <1>13, CallExact
<1>15. ASSUME NEW k \in DOMAIN P, NEW p, p = PrefixRoute(k)
       PROVE  /\ ~Dropping("routes", p)'
              /\ Dropping("prefixes", k)' => p \in orphans'
              /\ Dropping("byId", k[1])' => Dropping("prefixes", k)'
  <2>1. ~Dropping("routes", p)'
    BY <1>4, <1>11, <1>12, <1>15
  <2>2. k[1] = id => p = <<r.vni, k[2]>>
    BY <1>3, <1>15 DEF PrefixRoute
  <2> QED
    BY <1>4, <1>8, <1>11, <1>15, <2>1, <2>2
<1>16. RouteDrops'
  <2>1. \A k \in DOMAIN S : Dropping("routes", k)' => Dropping("routesShadow", k)'
    BY <1>10, <1>11, <1>12
  <2>2. \A k \in DOMAIN R : Dropping("routesShadow", k)' => Dropping("routes", k)'
    BY <1>10, <1>11
  <2> QED
    BY <1>1, <1>3, <1>15, <2>1, <2>2, CallExact
<1>17. \A s \in Live : s \in Live' \/ \A k \in SelfRoutes(s) : Dropping("routes", k)'
  <2>1. \A x \in DOMAIN ById \ {id} : ById[x] \in Live'
    BY <1>1, <1>11 DEF Live, ById
  <2> QED
    BY <1>3, <1>9, <2>1 DEF Live
<1> QED
  BY <1>1, <1>3, <1>4, <1>14, <1>16, <1>17, CallExact

\* RouteInv is inductive.
LEMMA RouteInductive ==
    /\ Init => RouteInv
    /\ TypeInv /\ TapInv /\ OneKind /\ RouteInv /\ [Next]_vars => RouteInv'
<1>1. ASSUME Init PROVE RouteInv
  <2>1. Todo = {} /\ tab["routes"] = << >> /\ tab["routesShadow"] = << >> /\ tab["prefixes"] = << >>
    BY <1>1, FreeFacts DEF Init, Free, Tables, Maps, Shadows
  <2>2. Held = {}
    BY <2>1 DEF Held
  <2> QED
    BY <2>1, <2>2 DEF RouteInv, RouteOrder, RouteDrops
<1>2. ASSUME TypeInv, TapInv, OneKind, RouteInv, [Next]_vars PROVE RouteInv'
  <2>1. CASE Write
    BY <1>2, <2>1, PutRoutes, FailRoutes, DelRoutes DEF Write
  <2>2. CASE Call \/ Resume
    BY <1>2, <2>2, OtherCallRoutes, DetachRoutes
  <2>3. CASE (\E c \in Cpus : Datapath(c)) \/ UNCHANGED vars
    <3>1. /\ UNCHANGED <<task, orphans>>
          /\ tab'["routes"] = tab["routes"] /\ tab'["routesShadow"] = tab["routesShadow"]
          /\ tab'["prefixes"] = tab["prefixes"] /\ Todo' = Todo /\ ById' = ById
          /\ Live' = Live /\ Coming' = Coming
      BY <1>2, <2>3, DatapathQuiet, QuietFacts DEF ControlTabs
    <3>2. Held' = Held
      BY <3>1 DEF Held
    <3>3. RouteOrder'
      <4>1. RouteOrder
        BY <1>2 DEF RouteInv
      <4>2. /\ \A x : (Accounts(x)' <=> Accounts(x)) /\ (Announces(x)' <=> Announces(x))
            /\ \A r : SelfRoutes(r)' = SelfRoutes(r)
        BY DEF Accounts, Announces, SelfRoutes
      <4>3. /\ \A b : RouteKey(b)' = RouteKey(b) /\ PrefixRoute(b.key)' = PrefixRoute(b.key)
            /\ \A k : PrefixRoute(k)' = PrefixRoute(k)
        BY <3>1 DEF RouteKey, PrefixRoute
      <4> QED
        BY <3>1, <3>2, <4>1, <4>2, <4>3 DEF RouteOrder, Maplet
    <3>4. RouteDrops'
      BY <1>2, <3>1, <3>2 DEF RouteInv, RouteDrops, Dropping, PrefixRoute
    <3> QED
      BY <1>2, <3>1, <3>2, <3>3, <3>4
         DEF RouteInv, Dropping, Accounts, RouteKey, PrefixRoute, SelfRoutes, Maplet
  <2> QED
    BY <1>2, <2>1, <2>2, <2>3 DEF Next
<1> QED
  BY <1>1, <1>2

\* Between operations ROUTES holds what the shadow tables account for, and
\* besides only routes of alias prefixes that detach_interface forgot.
THEOREM RoutesExactHolds == Spec => []RoutesExact
<1>1. RouteInv => RoutesExact
  <2> SUFFICES ASSUME RouteInv, Free PROVE RoutesExact
    BY DEF RoutesExact
  <2>1. Live = Records /\ Todo = {} /\ \A t, k : ~Dropping(t, k)
    BY FreeLive
  <2>2. \A k \in DOMAIN tab["routesShadow"] : Maplet(tab["routes"], k, tab["routesShadow"][k])
    BY <2>1 DEF RouteInv
  <2>3. \A k \in DOMAIN tab["prefixes"] :
           k[2] \in Prefixes6 \/ Maplet(tab["routes"], PrefixRoute(k), tab["prefixes"][k])
    BY <2>1 DEF RouteInv
  <2>4. ASSUME NEW k \in DOMAIN tab["routes"]
        PROVE  \/ k \in DOMAIN tab["routesShadow"] \cup orphans
               \/ \E x \in DOMAIN tab["prefixes"] : PrefixRoute(x) = k
               \/ \E r \in Records : k \in SelfRoutes(r)
    BY <2>1, <2>4 DEF RouteInv, Held
  <2> QED
    BY <2>2, <2>3, <2>4 DEF RoutesExact, PrefixRoute
<1> QED
  BY <1>1, TypeInductive, TapInductive, KindInductive, RouteInductive, PTL DEF Spec

(***************************************************************************)
(* Interfaces are programmed: what the operations work on.                 *)
(***************************************************************************)

\* Interfaces come from requests.
LEMMA MineFacts ==
    ASSUME TypeInv
    PROVE  Mine \subseteq Requests
<1>1. Live \subseteq Requests
  BY RecordFacts DEF Live
<1>2. ASSUME NEW w \in Todo, w.op = "put", w.tab = "byId" PROVE w.val \in Requests
  BY <1>2 DEF TypeInv, TaskFits, WriteFits, Fits
<1> QED
  BY <1>1, <1>2 DEF Mine, Coming

\* A write is taken from the list, or stays the first.
LEMMA WriteTodo ==
    ASSUME TypeInv, Write
    PROVE  /\ ~Free /\ Head(task.ops) \in Todo /\ Todo' \subseteq Todo
           /\ Todo' = {} \/ (task'.guest = task.guest /\ task'.dev = task.dev)
           /\ Advance \/ UNCHANGED task \/ task' = FreeTask
<1>1. ~Free /\ TaskFits /\ (Advance \/ UNCHANGED task \/ task' = FreeTask)
  BY DEF Write, WritePut, WriteFails, WriteDel, WriteSnap, TypeInv
<1>2. Head(task.ops) \in Todo
  BY <1>1, HeadFacts
<1>3. CASE Advance
  BY <1>1, <1>2, <1>3, AdvanceFacts
<1>4. CASE UNCHANGED task
  BY <1>1, <1>2, <1>4 DEF Todo
<1>5. CASE task' = FreeTask
  BY <1>1, <1>2, <1>5, FreeFacts DEF Todo
<1> QED
  BY <1>1, <1>3, <1>4, <1>5

\* Writes bring no interface that was not on its way.
LEMMA WriteMine ==
    ASSUME TypeInv, TapInv, OneKind, Write
    PROVE  /\ Mine' \subseteq Mine
           /\ WriteDel \/ WriteSnap => Live' = Live /\ Mine = Live /\ Mine' = Live
<1>1. CASE WritePut
  <2>1. PICK w : w = Head(task.ops)
    OBVIOUS
  <2>2. /\ w \in Todo /\ w.op = "put"
        /\ DOMAIN tab'[w.tab] = DOMAIN tab[w.tab] \cup {w.key}
        /\ \A x \in DOMAIN tab[w.tab] \cup {w.key} :
              tab'[w.tab][x] = IF x = w.key THEN w.val ELSE tab[w.tab][x]
        /\ \A s \in Tables \ {w.tab} : tab'[s] = tab[s]
    BY <1>1, <2>1, PutEffect
  <2>3. Coming' = {} /\ \A k : ~Dropping("byId", k) /\ ~Dropping("byId", k)'
    BY <1>1, PutLive
  <2>4. /\ Live = {ById[id] : id \in DOMAIN ById}
        /\ Live' = {ById'[id] : id \in DOMAIN ById'}
    BY <2>3 DEF Live
  <2>5. CASE w.tab = "byId"
    <3>1. w.val \in Coming
      BY <2>2, <2>5 DEF Coming
    <3>2. \A id \in DOMAIN ById' : ById'[id] = w.val \/ (id \in DOMAIN ById /\ ById'[id] = ById[id])
      BY <2>2, <2>5 DEF ById
    <3> QED
      BY <1>1, <2>3, <2>4, <3>1, <3>2 DEF Mine, WritePut, WriteDel, WriteSnap
  <2>6. CASE w.tab # "byId"
    <3>1. ById' = ById
      BY <2>2, <2>6 DEF ById, Tables, Shadows
    <3> QED
      BY <1>1, <2>3, <2>4, <3>1 DEF Mine, WritePut, WriteDel, WriteSnap
  <2> QED
    BY <2>5, <2>6
<1>2. CASE WriteFails
  <2>1. Todo' = {} /\ tab' = tab
    BY <1>2, FailEffect DEF WriteFails
  <2>2. \A k : ~Dropping("byId", k) /\ ~Dropping("byId", k)'
    BY <1>2, PutKind
  <2>3. Live' = Live /\ Coming' = {}
    BY <2>1, <2>2 DEF Live, Coming, ById
  <2> QED
    BY <1>2, <2>3 DEF Mine, WriteFails, WriteDel, WriteSnap
<1>3. CASE WriteDel \/ WriteSnap
  <2>1. Todo' \subseteq Todo /\ \A w \in Todo : w.op # "put"
    BY <1>3, DelKind
  <2>2. Coming = {} /\ Coming' = {}
    BY <2>1 DEF Coming
  <2>3. /\ DOMAIN ById' \subseteq DOMAIN ById
        /\ \A k \in DOMAIN ById' : ById'[k] = ById[k]
        /\ \A k \in DOMAIN ById : k \in DOMAIN ById' \/ Dropping("byId", k)
        /\ \A k \in DOMAIN ById' : Dropping("byId", k)' <=> Dropping("byId", k)
    BY <1>3, DelTabs DEF ControlTabs, ById
  <2>4. Live' = Live
    <3>1. {x \in DOMAIN ById' : ~Dropping("byId", x)'} = {x \in DOMAIN ById : ~Dropping("byId", x)}
      BY <2>3
    <3> QED
      BY <2>3, <3>1 DEF Live
  <2> QED
    BY <2>2, <2>4 DEF Mine
<1> QED
  BY <1>1, <1>2, <1>3 DEF Write

\* Writes concern the same interfaces before and after a step.
LEMMA ConcernsSame ==
    /\ \A w, u : Concerns(w, u)' <=> Concerns(w, u)
    /\ \A r : UnderlayOf(r)' = UnderlayOf(r) /\ Guest(r)' = Guest(r) /\ SelfRoutes(r)' = SelfRoutes(r)
              /\ Marks(r)' = Marks(r)
<1>1. \A r : UnderlayOf(r)' = UnderlayOf(r) /\ Guest(r)' = Guest(r) /\ SelfRoutes(r)' = SelfRoutes(r)
             /\ Marks(r)' = Marks(r)
  BY DEF UnderlayOf, Guest, SelfRoutes, Marks
<1> QED
  BY <1>1 DEF Concerns

\* What is left to be done was to be done.
LEMMA LessTodo ==
    ASSUME Todo' \subseteq Todo
    PROVE  /\ \A u : Working(u)' => Working(u)
           /\ \A t, k : Dropping(t, k)' => Dropping(t, k)
<1>1. \A u : Working(u)' => Working(u)
  BY ConcernsSame DEF Working
<1> QED
  BY <1>1 DEF Dropping

\* Interfaces stay apart.
LEMMA ApartStays ==
    ASSUME ApartInv, Mine' \subseteq Mine, shared \subseteq shared'
    PROVE  ApartInv'
<1>1. \A r, s : Apart(r, s) => Apart(r, s)'
  BY ConcernsSame DEF Apart
<1> QED
  BY <1>1 DEF ApartInv

\* The order of writes stays when the first is taken.
LEMMA OrderStays ==
    ASSUME TypeInv, SnapOrder, Write
    PROVE  SnapOrder'
<1>1. /\ ~Free /\ TaskFits /\ Todo' \subseteq Todo
      /\ Advance \/ UNCHANGED task \/ task' = FreeTask
  BY WriteTodo DEF TypeInv
<1>2. \A w \in Todo' : w.op # "snap" => w.tab # "learned"
  BY <1>1 DEF SnapOrder
<1>3. CASE task' = FreeTask
  BY <1>2, <1>3, FreeFacts DEF SnapOrder
<1>4. CASE UNCHANGED task
  BY <1>2, <1>4 DEF SnapOrder
<1>5. CASE Advance /\ task' # FreeTask
  <2>1. PICK q : q = task.ops
    OBVIOUS
  <2>2. task' = [task EXCEPT !.ops = Tail(@)]
    BY <1>5 DEF Advance
  <2>3. task'.ops = Tail(q) /\ q \in Seq(Todo) /\ q # << >>
    BY <1>1, <2>1, <2>2, HeadFacts DEF TaskFits
  <2>4. /\ Len(q) \in Nat /\ DOMAIN q = 1 .. Len(q)
        /\ DOMAIN Tail(q) = 1 .. (Len(q) - 1)
        /\ \A i \in 1 .. (Len(q) - 1) : Tail(q)[i] = q[i + 1]
    BY <2>3, HeadTailProperties, LenProperties, EmptySeq
  <2>5. ASSUME NEW i \in DOMAIN Tail(q), NEW j \in DOMAIN Tail(q),
               Tail(q)[i].op = "del", Tail(q)[i].tab = "underlay", Tail(q)[j].op = "snap"
        PROVE  j < i
    <3>1. i + 1 \in DOMAIN q /\ j + 1 \in DOMAIN q /\ q[i + 1] = Tail(q)[i] /\ q[j + 1] = Tail(q)[j]
      BY <2>4, <2>5
    <3>2. j + 1 < i + 1
      BY <2>1, <2>5, <3>1 DEF SnapOrder
    <3> QED
      BY <2>4, <3>2
  <2> QED
    BY <1>2, <2>3, <2>5 DEF SnapOrder
<1> QED
  BY <1>1, <1>3, <1>4, <1>5

\* A write of the operation under way.
LEMMA WriteWorks ==
    ASSUME TypeInv, TapInv, OneKind, WorksInv, Write
    PROVE  WorksInv'
<1>1. /\ Todo' \subseteq Todo
      /\ Todo' = {} \/ (task'.guest = task.guest /\ task'.dev = task.dev)
  BY WriteTodo
<1>2. Mine' \subseteq Mine /\ (WriteDel \/ WriteSnap => Live' = Live)
  BY WriteMine
<1>3. shared' = shared
  BY DEF Write, WritePut, WriteFails, WriteDel, WriteSnap, history
<1>4. /\ \A u : Working(u)' => Working(u)
      /\ \A t, k : Dropping(t, k)' => Dropping(t, k)
  BY <1>1, LessTodo
<1>5. ApartInv' /\ SnapOrder'
  BY <1>2, <1>3, ApartStays, OrderStays DEF WorksInv
<1>6. WorkInv'
  <2> SUFFICES ASSUME NEW u \in Underlays, Working(u)'
               PROVE  /\ \A r \in Requests : UnderlayOf(r) = u => Guest(r) = task'.guest
                      /\ \A r \in Mine' : UnderlayOf(r) = u => r.dev = task'.dev
    BY ConcernsSame DEF WorkInv
  <2>1. Todo' # {}
    BY DEF Working
  <2> QED
    BY <1>1, <1>2, <1>4, <2>1 DEF WorksInv, WorkInv
<1>7. StayInv'
  <2>1. CASE WritePut \/ WriteFails
    <3>1. \A t, k : ~Dropping(t, k)'
      BY <2>1, PutKind
    <3>2. \A r : ~Dropping("ifaces", Guest(r))' /\ ~Dropping("underlay", UnderlayOf(r))' /\ ~Dropping("ports", r.dev)'
      BY <3>1, ConcernsSame
    <3> QED
      BY <3>1, <3>2 DEF StayInv
  <2>2. CASE WriteDel \/ WriteSnap
    <3> SUFFICES ASSUME NEW r \in Live
                 PROVE  /\ Dropping("ports", r.dev)' => r.dev \in shared
                        /\ ~Dropping("ifaces", Guest(r))' /\ ~Dropping("underlay", UnderlayOf(r))'
                        /\ \A k \in SelfRoutes(r) : ~Dropping("routes", k)'
      BY <1>2, <1>3, <2>2, ConcernsSame DEF StayInv
    <3>1. PICK d, g, u : d = r.dev /\ g = Guest(r) /\ u = UnderlayOf(r)
      OBVIOUS
    <3>2. /\ Dropping("ports", d) => d \in shared
          /\ ~Dropping("ifaces", g) /\ ~Dropping("underlay", u)
          /\ \A k \in SelfRoutes(r) : ~Dropping("routes", k)
      BY <3>1 DEF WorksInv, StayInv
    <3>3. /\ Dropping("ports", d)' => d \in shared
          /\ ~Dropping("ifaces", g)' /\ ~Dropping("underlay", u)'
          /\ \A k \in SelfRoutes(r) : ~Dropping("routes", k)'
      BY <1>4, <3>2
    <3> QED
      BY <3>1, <3>3, ConcernsSame DEF Dropping
  <2> QED
    BY <2>1, <2>2 DEF Write
<1> QED
  BY <1>5, <1>6, <1>7 DEF WorksInv

\* A write that concerns no interface as a whole.
Harmless(w) ==
    /\ w.op # "snap" /\ w.tab \notin {"byId", "ports", "ifaces", "underlay", "learned"}
    /\ w.op = "put" /\ w.tab = "routes" =>
          w.key[2] \in Aliases \/ (w.key[2] \in Routes /\ w.val \in Remotes)
    /\ w.op = "del" /\ w.tab = "routes" => \A k \in w.keys : k[2] \in Routes \cup Aliases

\* The calls other than create_interface and detach_interface.
LEMMA OtherCall ==
    ASSUME TypeInv, Call \/ Resume
    PROVE  \/ \E r \in Requests : CreateInterface(r)
           \/ \E id \in Ids : DetachInterface(id)
           \/ Free /\ UNCHANGED <<tab, cpu, history>> /\ \A w \in Todo' : Harmless(w)
<1> SUFFICES ASSUME \A r \in Requests : ~CreateInterface(r), \A id \in Ids : ~DetachInterface(id)
             PROVE  Free /\ UNCHANGED <<tab, cpu, history>> /\ \A w \in Todo' : Harmless(w)
  OBVIOUS
<1>1. UNCHANGED <<cpu, history>>
  <2>1. ASSUME NEW id, CreateVip(id) \/ DeleteVip(id) PROVE UNCHANGED <<cpu, history>>
    BY <2>1 DEF CreateVip, DeleteVip
  <2>2. ASSUME NEW v, NEW p, NEW nh, CheckRoute(v, p, nh) \/ DeleteRoute(v) \/ ListReset(v, p)
        PROVE  UNCHANGED <<cpu, history>>
    BY <2>2 DEF CheckRoute, DeleteRoute, ListReset
  <2>3. ASSUME NEW id, NEW p, AddPrefix(id, p) \/ DelPrefix(id, p) \/ AddLbPrefix(id, p) \/ DelLbPrefix(id, p)
        PROVE  UNCHANGED <<cpu, history>>
    BY <2>3 DEF AddPrefix, DelPrefix, AddLbPrefix, DelLbPrefix
  <2>4. ASSUME NEW x, SetDhcpMeta(x) \/ CreateRoute(x) \/ ResetOne(x) PROVE UNCHANGED <<cpu, history>>
    BY <2>4 DEF SetDhcpMeta, CreateRoute, ResetOne
  <2> QED
    BY <2>1, <2>2, <2>3, <2>4, Zenon DEF Call, Resume
<1>2. /\ Free /\ tab' = tab
      /\ \/ Todo' = {} \/ StartsCreate \/ StartsDetach \/ StartsVip \/ StartsUnvip \/ StartsRoute
         \/ StartsUnroute \/ StartsPrefix \/ StartsUnprefix \/ StartsOther
  BY CallKinds
<1>3. ~StartsCreate /\ ~StartsDetach
  BY RecordFacts DEF StartsCreate, StartsDetach
<1>4. /\ \A t, k, v : /\ Put(t, k, v).op = "put" /\ Put(t, k, v).tab = t
                      /\ Put(t, k, v).key = k /\ Put(t, k, v).val = v
      /\ \A t, K : Del(t, K).op = "del" /\ Del(t, K).tab = t /\ Del(t, K).keys = K
  BY DEF Put, Del
<1>5. /\ \A t, k, v : t \in {"vips", "routesShadow", "prefixes"} => Harmless(Put(t, k, v))
      /\ \A t, K : t \in {"vips", "routesShadow", "prefixes"} => Harmless(Del(t, K))
  BY <1>4 DEF Harmless
<1>6. ASSUME NEW k \in DOMAIN tab["routesShadow"] PROVE k[2] \in Routes
  <2>1. Fits("routesShadow", k, tab["routesShadow"][k])
    BY <1>6 DEF TypeInv, TablesFit, Tables, Shadows
  <2> QED
    BY <2>1 DEF Fits
<1>7. ASSUME StartsVip \/ StartsUnvip PROVE \A w \in Todo' : Harmless(w)
  <2>1. CASE StartsVip
    BY <1>5, <2>1 DEF StartsVip
  <2>2. CASE StartsUnvip
    BY <1>5, <2>2 DEF StartsUnvip
  <2> QED
    BY <1>7, <2>1, <2>2
<1>8. ASSUME StartsRoute PROVE \A w \in Todo' : Harmless(w)
  <2>1. PICK k \in Vnis \X Routes, nh \in Remotes : Todo' = { Put("routes", k, nh), Put("routesShadow", k, nh) }
    BY <1>8 DEF StartsRoute
  <2>2. Harmless(Put("routes", k, nh))
    BY <1>4, <2>1 DEF Harmless
  <2> QED
    BY <1>5, <2>1, <2>2
<1>9. ASSUME StartsUnroute PROVE \A w \in Todo' : Harmless(w)
  <2>1. PICK k \in DOMAIN tab["routesShadow"] : Todo' = { Del("routesShadow", {k}), Del("routes", {k}) }
    BY <1>9 DEF StartsUnroute
  <2>2. Harmless(Del("routes", {k}))
    BY <1>4, <1>6, <2>1 DEF Harmless
  <2> QED
    BY <1>5, <2>1, <2>2
<1>10. ASSUME StartsPrefix PROVE \A w \in Todo' : Harmless(w)
  <2>0. PICK id \in DOMAIN ById, p \in Aliases : \E u :
           Todo' = { Put("routes", <<ById[id].vni, p>>, u), Put("prefixes", <<id, p>>, u) }
    BY <1>10 DEF StartsPrefix
  <2>1. PICK u : Todo' = { Put("routes", <<ById[id].vni, p>>, u), Put("prefixes", <<id, p>>, u) }
    BY <2>0
  <2>2. PICK v, k : v = ById[id].vni /\ k = <<v, p>>
    OBVIOUS
  <2>3. Harmless(Put("routes", k, u))
    <3>1. k[2] = p
      BY <2>2
    <3> QED
      BY <1>4, <3>1 DEF Harmless
  <2> QED
    BY <1>5, <2>1, <2>2, <2>3
<1>11. ASSUME StartsUnprefix PROVE \A w \in Todo' : Harmless(w)
  <2>1. PICK id \in DOMAIN ById, p \in Aliases :
           Todo' = { Del("prefixes", {<<id, p>>}), Del("routes", {<<ById[id].vni, p>>}) }
    BY <1>11 DEF StartsUnprefix
  <2>2. PICK v, k : v = ById[id].vni /\ k = <<v, p>>
    OBVIOUS
  <2>3. Harmless(Del("routes", {k}))
    <3>1. k[2] = p
      BY <2>2
    <3> QED
      BY <1>4, <3>1 DEF Harmless
  <2> QED
    BY <1>5, <2>1, <2>2, <2>3
<1>12. ASSUME StartsOther PROVE \A w \in Todo' : Harmless(w)
  BY <1>12 DEF StartsOther, Harmless
<1> QED
  BY <1>1, <1>2, <1>3, <1>7, <1>8, <1>9, <1>10, <1>11, <1>12

\* Harmless writes work on no interface and take nothing from one.
LEMMA HarmlessFacts ==
    ASSUME TypeInv', \A w \in Todo' : Harmless(w)
    PROVE  /\ \A u \in Underlays : ~Working(u)'
           /\ \A t \in {"byId", "ports", "ifaces", "underlay"} : \A k : ~Dropping(t, k)'
           /\ \A r \in Requests : \A k \in SelfRoutes(r) : ~Dropping("routes", k)'
           /\ Mine' = Live' /\ SnapOrder' /\ PutInv'
<1>1. ASSUME NEW u \in Underlays PROVE ~Working(u)'
  <2>1. u \notin Remotes
    BY OperatorAssumption
  <2>2. \A w \in Todo' : ~Concerns(w, u)
    BY <2>1 DEF Harmless, Concerns
  <2> QED
    BY <2>2, ConcernsSame DEF Working
<1>2. \A t \in {"byId", "ports", "ifaces", "underlay"} : \A k : ~Dropping(t, k)'
  BY DEF Harmless, Dropping
<1>3. ASSUME NEW r \in Requests, NEW k \in SelfRoutes(r) PROVE ~Dropping("routes", k)'
  <2>1. k[2] \notin Routes \cup Aliases
    BY OperatorAssumption DEF SelfRoutes
  <2> QED
    BY <2>1 DEF Harmless, Dropping
<1>4. Mine' = Live'
  BY DEF Harmless, Coming, Mine
<1>5. SnapOrder'
  <2>1. \A j \in DOMAIN task'.ops : task'.ops[j] \in Todo'
    BY DEF Todo, Range
  <2> QED
    BY <2>1 DEF SnapOrder, Harmless
<1>6. PutInv'
  BY DEF PutInv, PutOwned, Harmless
<1> QED
  BY <1>1, <1>2, <1>3, <1>4, <1>5, <1>6

\* The datapath only adds to the history of taps.
LEMMA DatapathHistory ==
    ASSUME (\E c \in Cpus : Datapath(c)) \/ UNCHANGED vars
    PROVE  shared' = shared /\ broken' = broken /\ late \subseteq late'
<1>1. CASE UNCHANGED vars
  BY <1>1 DEF vars, history
<1>2. ASSUME NEW c \in Cpus, Datapath(c)
      PROVE  shared' = shared /\ broken' = broken /\ late \subseteq late'
  <2>1. ASSUME NEW dev, NEW a, GuestPacket(c, dev, a)
        PROVE  shared' = shared /\ broken' = broken /\ late' = late
    BY <2>1 DEF GuestPacket, history
  <2>2. ASSUME NEW dev, NEW mac, DhcpPacket(c, dev, mac)
        PROVE  shared' = shared /\ broken' = broken /\ late \subseteq late'
    BY <2>2 DEF DhcpPacket
  <2>3. ASSUME VipLookup(c) \/ RouteLookup(c) \/ UnderlayLookup(c) \/ Deliver(c)
        PROVE  shared' = shared /\ broken' = broken /\ late' = late
    BY <2>3 DEF VipLookup, RouteLookup, UnderlayLookup, Deliver, history
  <2>4. ASSUME LearnUnderlayGet(c) \/ LearnIfaceGet(c)
        PROVE  shared' = shared /\ broken' = broken /\ late' = late
    BY <2>4 DEF LearnUnderlayGet, LearnIfaceGet, LearnGet, history
  <2>5. ASSUME LearnPort(c) \/ LearnUnderlayPut(c) \/ LearnIfacePut(c)
        PROVE  shared' = shared /\ broken' = broken /\ late' = late
    BY <2>5 DEF LearnPort, LearnUnderlayPut, LearnIfacePut, history
  <2> QED
    BY <1>2, <2>1, <2>2, <2>3, <2>4, <2>5 DEF Datapath
<1> QED
  BY <1>1, <1>2

\* The writes of create_interface work on its interface.
LEMMA CreateConcerns ==
    ASSUME NEW r \in Requests, NEW mac, NEW w \in CreateTodo(r, mac)
    PROVE  /\ w.op = "put" /\ w.tab # "learned"
           /\ w.tab = "byId" => w.val = r
           /\ \A u : Concerns(w, u) => u = UnderlayOf(r)
           /\ w.tab \in {"ports", "ifaces", "underlay"} => TapWrite(w, r, mac)
           /\ w.tab = "routes" => w.key \in SelfRoutes(r) /\ w.val = UnderlayOf(r)
<1>1. PICK g, u, p, i, x, a, b :
         /\ g = Guest(r) /\ u = UnderlayOf(r) /\ p = PortMeta(r, mac) /\ i = IfaceValue(r, mac)
         /\ x = UnderlayValue(r, mac) /\ a = <<r.vni, {r.ip}>> /\ b = <<r.vni, {r.ip6}>>
  OBVIOUS
<1>2. \/ w = Put("byId", r.id, r)
      \/ w = Put("ports", r.dev, p)
      \/ w = Put("ifaces", g, i)
      \/ w = Put("underlay", u, x)
      \/ w = Put("routes", a, u)
      \/ w = Put("routes", b, u) /\ r.ip6 # None
      \/ w = Put("meter", r.dev, TRUE)
  BY <1>1, Zenon DEF CreateTodo
<1>3. p.ul = u /\ i.ul = u
  BY <1>1 DEF PortMeta, IfaceValue
<1>4. a \in SelfRoutes(r) /\ (r.ip6 # None => b \in SelfRoutes(r))
  <2>1. r.ip # None
    BY RequestFacts, OverlayAssumption
  <2> QED
    BY <1>1, <2>1 DEF SelfRoutes
<1>5. /\ w.op = "put" /\ w.tab # "learned"
      /\ w.tab = "byId" => w.val = r
      /\ w.tab = "routes" => w.key \in SelfRoutes(r) /\ w.val = u
  BY <1>2, <1>4 DEF Put
<1>6. \A v : Concerns(w, v) => v = u
  BY <1>2, <1>3 DEF Put, Concerns
<1>7. w.tab \in {"ports", "ifaces", "underlay"} =>
         w = Put("ports", r.dev, p) \/ w = Put("ifaces", g, i) \/ w = Put("underlay", u, x)
  BY <1>2 DEF Put
<1> QED
  BY <1>1, <1>5, <1>6, <1>7 DEF TapWrite

\* create_interface adds one interface, which is none of those there are.
LEMMA CreateMine ==
    ASSUME TypeInv, TapInv, NEW r \in Requests, CreateInterface(r)
    PROVE  /\ Free /\ tab' = tab /\ cpu' = cpu /\ lastMac' = lastMac /\ broken' = broken
           /\ Todo = {} /\ Mine = Live /\ Live' = Live /\ Mine' = Live \cup {r}
           /\ late \subseteq late' /\ shared \subseteq shared'
           /\ \A t, k : ~Dropping(t, k) /\ ~Dropping(t, k)'
           /\ \A s \in Live : s # r /\ UnderlayOf(s) # UnderlayOf(r) /\ Apart(r, s)' /\ Apart(s, r)'
<1>1. /\ Free /\ tab' = tab /\ cpu' = cpu /\ lastMac' = lastMac /\ broken' = broken
      /\ r.id \notin DOMAIN ById /\ ~InUse(r) /\ late' = Overlapped(r)
      /\ shared' = IF \E id \in DOMAIN ById : ById[id].dev = r.dev THEN shared \cup {r.dev} ELSE shared
  BY DEF CreateInterface
<1>2. Live = Records /\ Todo = {} /\ \A t, k : ~Dropping(t, k)
  BY <1>1, FreeLive
<1>3. late \subseteq late' /\ shared \subseteq shared'
  BY <1>1 DEF Overlapped
<1>4. PICK mac \in Macs : Todo' = CreateTodo(r, mac)
  BY CreateStarts
<1>5. \A w \in Todo' : w.op = "put" /\ (w.tab = "byId" => w.val = r)
  BY <1>4, CreateConcerns
<1>6. \A t, k : ~Dropping(t, k)'
  BY <1>5 DEF Dropping
<1>7. Live' = Live
  BY <1>1, <1>2, <1>6 DEF Live, Records, ById
<1>8. Coming' = {r}
  <2>1. PICK w : w = Put("byId", r.id, r)
    OBVIOUS
  <2>2. w \in Todo' /\ w.op = "put" /\ w.tab = "byId" /\ w.val = r
    BY <1>4, <2>1 DEF CreateTodo, Put
  <2> QED
    BY <1>5, <2>2 DEF Coming
<1>9. Coming = {}
  BY <1>2 DEF Coming
<1>10. ASSUME NEW s \in Live
       PROVE  s # r /\ UnderlayOf(s) # UnderlayOf(r) /\ Apart(r, s)' /\ Apart(s, r)'
  <2>1. PICK id \in DOMAIN ById : s = ById[id]
    BY <1>2, <1>10 DEF Records
  <2>2. s \in Requests /\ s.id = id
    BY <2>1, RecordFacts
  <2>3. s.vni # r.vni \/ (s.ip # r.ip /\ (r.ip6 # None => s.ip6 # r.ip6))
    BY <1>1, <2>1 DEF InUse
  <2>4. Guest(s) # Guest(r)
    BY <2>3 DEF Guest
  <2>5. UnderlayOf(s) # UnderlayOf(r)
    BY <2>2, <2>4, OperatorAssumption
  <2>6. s.dev = r.dev => r.dev \in shared'
    BY <1>1, <2>1
  <2>7. r.ip # s.ip6 /\ s.ip # r.ip6
    BY <2>2, OverlayAssumption
  <2>8. SelfRoutes(r) \cap SelfRoutes(s) = {}
    <3> SUFFICES ASSUME NEW a \in {r.ip, r.ip6} \ {None}, NEW b \in {s.ip, s.ip6} \ {None},
                        <<r.vni, {a}>> = <<s.vni, {b}>>
                 PROVE  FALSE
      BY DEF SelfRoutes
    <3>1. r.vni = s.vni /\ {a} = {b}
      OBVIOUS
    <3>2. a = b
      BY <3>1
    <3> QED
      BY <2>3, <2>7, <3>1, <3>2
  <2>9. Apart(r, s)' /\ Apart(s, r)'
    BY <2>4, <2>6, <2>8, ConcernsSame DEF Apart
  <2> QED
    BY <2>4, <2>5, <2>9
<1> QED
  BY <1>1, <1>2, <1>3, <1>6, <1>7, <1>8, <1>9, <1>10 DEF Mine

\* create_interface.
LEMMA CreateWorks ==
    ASSUME TypeInv, TapInv, WorksInv, NEW r \in Requests, CreateInterface(r)
    PROVE  WorksInv'
<1>1. /\ Mine = Live /\ Live' = Live /\ Mine' = Live \cup {r} /\ shared \subseteq shared'
      /\ \A t, k : ~Dropping(t, k)'
      /\ \A s \in Live : s # r /\ UnderlayOf(s) # UnderlayOf(r) /\ Apart(r, s)' /\ Apart(s, r)'
  BY CreateMine
<1>2. PICK mac \in Macs : Todo' = CreateTodo(r, mac) /\ task'.dev = r.dev /\ task'.guest = Guest(r)
                          /\ TaskFits'
  BY CreateStarts
<1>3. \A w \in Todo' : w.op = "put" /\ w.tab # "learned" /\ \A u : Concerns(w, u) => u = UnderlayOf(r)
  BY <1>2, CreateConcerns
<1>4. ApartInv'
  <2>1. \A x, y : Apart(x, y) => Apart(x, y)'
    BY <1>1, ConcernsSame DEF Apart
  <2> QED
    BY <1>1, <2>1 DEF WorksInv, ApartInv
<1>5. WorkInv'
  <2>1. \A u : Working(u)' => u = UnderlayOf(r)
    BY <1>3, ConcernsSame DEF Working
  <2>2. \A s \in Requests : UnderlayOf(s) = UnderlayOf(r) => Guest(s) = Guest(r)
    BY OperatorAssumption
  <2> QED
    BY <1>1, <1>2, <2>1, <2>2, ConcernsSame DEF WorkInv
<1>6. StayInv'
  <2>1. \A s : ~Dropping("ifaces", Guest(s))' /\ ~Dropping("underlay", UnderlayOf(s))' /\ ~Dropping("ports", s.dev)'
    BY <1>1, ConcernsSame
  <2> QED
    BY <1>1, <2>1 DEF StayInv
<1>7. SnapOrder'
  <2>1. \A j \in DOMAIN task'.ops : task'.ops[j] \in Todo'
    BY DEF Todo, Range
  <2> QED
    BY <1>3, <2>1 DEF SnapOrder
<1> QED
  BY <1>4, <1>5, <1>6, <1>7 DEF WorksInv

\* The writes of detach_interface work on its guest.
LEMMA DetachConcerns ==
    ASSUME NEW id, NEW r, NEW w \in DetachTodo(id, r)
    PROVE  /\ w.op \in {"del", "snap"} /\ (w.op = "snap" => w.ul = UnderlayOf(r))
           /\ w.op = "del" =>
                 /\ w.tab # "learned"
                 /\ w.tab = "byId" => w.keys = {id}
                 /\ w.tab = "ports" => w.keys = {r.dev}
                 /\ w.tab = "ifaces" => w.keys = {Guest(r)}
                 /\ w.tab = "underlay" => w.keys = {UnderlayOf(r)}
                 /\ w.tab = "routes" => w.keys \in {SelfRoutes(r), RoutesOf(r.vni)}
<1>1. \/ w = Snap(UnderlayOf(r))
      \/ w = Del("byId", {id}) \/ w = Del("ports", {r.dev}) \/ w = Del("ifaces", {Guest(r)})
      \/ w = Del("underlay", {UnderlayOf(r)})
      \/ w = Del("routes", SelfRoutes(r)) \/ w = Del("routes", RoutesOf(r.vni))
      \/ \E t \in {"prefixes", "meter", "dhcpMeta", "vips", "routesShadow"}, K \in {w.keys} : w = Del(t, K)
  <2>1. \A t, K : Del(t, K).keys = K
    BY DEF Del
  <2> QED
    BY <2>1 DEF DetachTodo, PurgeTodo
<1>2. \A t, K : Del(t, K).op = "del" /\ Del(t, K).tab = t /\ Del(t, K).keys = K
  BY DEF Del
<1>3. \A u : Snap(u).op = "snap" /\ Snap(u).ul = u
  BY DEF Snap
<1> QED
  BY <1>1, <1>2, <1>3

\* It keeps the MAC before it removes the entry.
LEMMA DetachOrder ==
    ASSUME TypeInv, NEW id \in Ids, DetachInterface(id)
    PROVE  SnapOrder'
<1>1. PICK r : r = ById[id]
  OBVIOUS
<1>2. Todo' = DetachTodo(id, r)
  BY <1>1, DetachStarts
<1>3. PICK a, b, c, d, e, f, g, h, i :
         /\ DetachWrites(id, r) = <<a, b, c, d, e, f, g, h, i>>
         /\ a = Del("byId", {id}) /\ b = Del("prefixes", PrefixKeys("prefixes", id))
         /\ c = Del("ports", {r.dev}) /\ d = Del("ifaces", {Guest(r)}) /\ e = Snap(UnderlayOf(r))
         /\ f = Del("underlay", {UnderlayOf(r)}) /\ g = Del("meter", {r.dev})
         /\ h = Del("dhcpMeta", {r.dev}) /\ i = Del("routes", SelfRoutes(r))
  BY DEF DetachWrites
<1>4. PICK p : p = <<a, b, c, d, e, f, g, h, i>>
  OBVIOUS
<1>5. /\ a.op = "del" /\ a.tab # "underlay" /\ b.op = "del" /\ b.tab # "underlay"
      /\ c.op = "del" /\ c.tab # "underlay" /\ d.op = "del" /\ d.tab # "underlay"
      /\ e.op = "snap" /\ f.op = "del" /\ g.op = "del" /\ g.tab # "underlay"
      /\ h.op = "del" /\ h.tab # "underlay" /\ i.op = "del" /\ i.tab # "underlay"
  BY <1>3 DEF Del, Snap
<1>6. /\ Len(p) = 9 /\ DOMAIN p = 1 .. 9 /\ p[1] = a /\ p[2] = b /\ p[3] = c /\ p[4] = d /\ p[5] = e
      /\ p[6] = f /\ p[7] = g /\ p[8] = h /\ p[9] = i
  BY <1>4
<1>7. \A j \in 1 .. 9 : /\ p[j].op = "snap" => j = 5
                        /\ p[j].op = "del" /\ p[j].tab = "underlay" => j = 6
  <2> SUFFICES ASSUME NEW j \in 1 .. 9
               PROVE  /\ p[j].op = "snap" => j = 5
                      /\ p[j].op = "del" /\ p[j].tab = "underlay" => j = 6
    OBVIOUS
  <2>1. j = 1 \/ j = 2 \/ j = 3 \/ j = 4 \/ j = 5 \/ j = 6 \/ j = 7 \/ j = 8 \/ j = 9
    OBVIOUS
  <2> QED
    BY <1>5, <1>6, <2>1
<1>8. PICK q, T : /\ q = (IF LastOfVni(id) THEN PurgeWrites(r) ELSE << >>)
                  /\ T = (IF LastOfVni(id) THEN PurgeTodo(r) ELSE {})
                  /\ Lists(q, T)
  <2>1. Lists(PurgeWrites(r), PurgeTodo(r))
    BY LongLists DEF PurgeWrites, PurgeTodo
  <2> QED
    BY <2>1, ShortLists
<1>9. \A w \in T : w.op = "del" /\ w.tab # "underlay"
  BY <1>8 DEF PurgeTodo, Del
<1>10. PICK S : Lists(p, S)
  BY <1>4, LongLists
<1>11. /\ q \in Seq(T) /\ Len(q) \in Nat /\ DOMAIN q = 1 .. Len(q) /\ \A j \in DOMAIN q : q[j] \in T
  BY <1>8 DEF Lists
<1>12. /\ Len(p \o q) = 9 + Len(q) /\ DOMAIN (p \o q) = 1 .. (9 + Len(q))
       /\ \A j \in 1 .. (9 + Len(q)) : (p \o q)[j] = IF j <= 9 THEN p[j] ELSE q[j - 9]
  <2>1. p \in Seq(S \cup T) /\ q \in Seq(S \cup T)
    BY <1>8, <1>10, SeqMonotonic DEF Lists
  <2>2. /\ p \o q \in Seq(S \cup T) /\ Len(p \o q) = Len(p) + Len(q)
        /\ \A j \in 1 .. (Len(p) + Len(q)) : (p \o q)[j] = IF j <= Len(p) THEN p[j] ELSE q[j - Len(p)]
    BY <2>1, ConcatProperties
  <2>3. DOMAIN (p \o q) = 1 .. Len(p \o q)
    BY <2>2, LenProperties
  <2> QED
    BY <1>6, <2>2, <2>3
<1>13. ASSUME NEW j \in DOMAIN (p \o q), NEW z, z = (p \o q)[j]
       PROVE  /\ z.op = "snap" => j = 5
              /\ z.op = "del" /\ z.tab = "underlay" => j = 6
  <2>1. CASE j <= 9
    <3>1. j \in 1 .. 9 /\ z = p[j]
      BY <1>11, <1>12, <1>13, <2>1
    <3> QED
      BY <1>7, <3>1
  <2>2. CASE ~(j <= 9)
    <3>1. j - 9 \in DOMAIN q /\ z = q[j - 9]
      BY <1>11, <1>12, <1>13, <2>2
    <3> QED
      BY <1>9, <1>11, <3>1
  <2> QED
    BY <2>1, <2>2
<1>14. task'.ops = p \o q
  BY <1>1, <1>3, <1>4, <1>8 DEF DetachInterface, Task, FreeTask
<1>15. \A w \in Todo' : w.op # "snap" => w.tab # "learned"
  BY <1>2, DetachConcerns
<1> QED
  BY <1>13, <1>14, <1>15 DEF SnapOrder

\* detach_interface takes one interface away, and MAC updates go on.
LEMMA DetachMine ==
    ASSUME TypeInv, TapInv, NEW id \in Ids, DetachInterface(id), NEW r, r = ById[id]
    PROVE  /\ Free /\ tab' = tab /\ lastMac' = lastMac /\ broken' = broken /\ shared' = shared
           /\ Todo = {} /\ Mine = Live /\ r \in Live /\ r \in Requests /\ Todo' = DetachTodo(id, r)
           /\ Live' \subseteq Live /\ Mine' = Live' /\ \A x \in Live' : Guest(x) # Guest(r)
           /\ \A x \in Live : Guest(x) = Guest(r) => x = r
           /\ late \subseteq late' /\ (Learning(r.dev) => Marks(r) \subseteq late')
           /\ \A t, k : ~Dropping(t, k)
           /\ \A c \in Cpus : cpu[c].pc \in LearnPcs \/ cpu'[c].pc \in LearnPcs => cpu'[c] = cpu[c]
<1>1. /\ id \in DOMAIN ById /\ r \in Requests /\ Todo' = DetachTodo(id, r)
  BY DetachStarts
<1>2. /\ Free /\ tab' = tab /\ lastMac' = lastMac /\ broken' = broken /\ shared' = shared
      /\ late' = Overlapped(r)
      /\ cpu' = [c \in Cpus |-> IF cpu[c].pc \in ForwardPcs THEN [cpu[c] EXCEPT !.stale = TRUE] ELSE cpu[c]]
  BY DEF DetachInterface
<1>3. Live = Records /\ Todo = {} /\ \A t, k : ~Dropping(t, k)
  BY <1>2, FreeLive
<1>4. late \subseteq late' /\ (Learning(r.dev) => Marks(r) \subseteq late')
  BY <1>2 DEF Overlapped
<1>5. Coming = {} /\ Coming' = {}
  <2>1. \A w \in Todo' : w.op # "put"
    BY <1>1, DetachConcerns
  <2> QED
    BY <1>3, <2>1 DEF Coming
<1>6. Dropping("byId", id)'
  <2>1. PICK w : w = Del("byId", {id})
    OBVIOUS
  <2>2. w \in Todo' /\ w.op = "del" /\ w.tab = "byId" /\ w.keys = {id}
    BY <1>1, <2>1 DEF DetachTodo, Del
  <2> QED
    BY <2>2 DEF Dropping
<1>7. Live' \subseteq {ById[x] : x \in DOMAIN ById \ {id}}
  BY <1>2, <1>6 DEF Live, ById
<1>8. \A x \in DOMAIN ById : Guest(ById[x]) = Guest(r) => x = id
  BY <1>1, OneOwner DEF TapInv
<1>9. r \in Live /\ (\A x \in Live : Guest(x) = Guest(r) => x = r)
      /\ Live' \subseteq Live /\ \A x \in Live' : Guest(x) # Guest(r)
  BY <1>1, <1>3, <1>7, <1>8 DEF Records
<1>10. ASSUME NEW c \in Cpus, cpu[c].pc \in LearnPcs \/ cpu'[c].pc \in LearnPcs
       PROVE  cpu'[c] = cpu[c]
  <2>1. PICK s : s = cpu[c]
    OBVIOUS
  <2>2. s \in CpuState
    BY <2>1 DEF TypeInv, CpuFits
  <2>3. CASE s.pc \in ForwardPcs
    <3>1. cpu'[c].pc = s.pc
      BY <1>2, <2>1, <2>2, <2>3 DEF CpuState, ForwardPcs, IdleCpu
    <3> QED
      BY <1>10, <2>1, <2>3, <3>1 DEF ForwardPcs, LearnPcs
  <2>4. CASE s.pc \notin ForwardPcs
    BY <1>2, <2>1, <2>4
  <2> QED
    BY <2>3, <2>4
<1> QED
  BY <1>1, <1>2, <1>3, <1>4, <1>5, <1>9, <1>10 DEF Mine

\* Underlay addresses that detach_interface works on are of the guest.
LEMMA DetachGuest ==
    ASSUME NEW id, NEW r \in Requests, Todo' = DetachTodo(id, r), NEW u, Working(u)'
    PROVE  \A s \in Requests : UnderlayOf(s) = u => Guest(s) = Guest(r)
<1>1. PICK w \in Todo' : Concerns(w, u)
  BY ConcernsSame DEF Working
<1>2. u = UnderlayOf(r) \/ \E q \in Requests : UnderlayOf(q) = u /\ Guest(q) = Guest(r)
  BY <1>1, DetachConcerns DEF Concerns
<1>3. PICK q \in Requests : UnderlayOf(q) = u /\ Guest(q) = Guest(r)
  BY <1>2
<1> QED
  BY <1>3, OperatorAssumption

\* detach_interface.
LEMMA DetachWorks ==
    ASSUME TypeInv, TapInv, WorksInv, NEW id \in Ids, DetachInterface(id)
    PROVE  WorksInv'
<1>1. PICK r : r = ById[id]
  OBVIOUS
<1>2. /\ tab' = tab /\ shared' = shared
      /\ Mine = Live /\ r \in Live /\ r \in Requests /\ Todo' = DetachTodo(id, r)
      /\ Live' \subseteq Live /\ Mine' = Live' /\ \A x \in Live' : Guest(x) # Guest(r)
  BY <1>1, DetachMine
<1>3. task'.guest = Guest(r)
  BY <1>1, DetachStarts
<1>4. ApartInv' /\ SnapOrder'
  BY <1>2, ApartStays, DetachOrder DEF WorksInv
<1>5. \A s \in Live' : s \in Requests /\ s # r /\ Apart(s, r)
  BY <1>2, MineFacts DEF WorksInv, ApartInv
<1>6. WorkInv'
  <2> SUFFICES ASSUME NEW u \in Underlays, Working(u)'
               PROVE  /\ \A s \in Requests : UnderlayOf(s) = u => Guest(s) = task'.guest
                      /\ \A s \in Mine' : UnderlayOf(s) = u => s.dev = task'.dev
    BY ConcernsSame DEF WorkInv
  <2>1. \A s \in Requests : UnderlayOf(s) = u => Guest(s) = Guest(r)
    BY <1>2, DetachGuest
  <2> QED
    BY <1>2, <1>3, <1>5, <2>1
<1>7. StayInv'
  <2> SUFFICES ASSUME NEW s \in Live'
               PROVE  /\ Dropping("ports", s.dev)' => s.dev \in shared
                      /\ ~Dropping("ifaces", Guest(s))' /\ ~Dropping("underlay", UnderlayOf(s))'
                      /\ \A k \in SelfRoutes(s) : ~Dropping("routes", k)'
    BY <1>2, ConcernsSame DEF StayInv
  <2>1. s \in Requests /\ Apart(s, r) /\ Guest(s) # Guest(r)
    BY <1>2, <1>5
  <2>2. UnderlayOf(s) # UnderlayOf(r)
    BY <1>2, <2>1, OperatorAssumption
  <2>3. \A w \in Todo' : w.op = "del" =>
           /\ w.tab = "ports" => w.keys = {r.dev}
           /\ w.tab = "ifaces" => w.keys = {Guest(r)}
           /\ w.tab = "underlay" => w.keys = {UnderlayOf(r)}
           /\ w.tab = "routes" => w.keys \in {SelfRoutes(r), RoutesOf(r.vni)}
    BY <1>2, DetachConcerns
  <2>4. \A k : /\ Dropping("ports", k)' => k = r.dev
               /\ Dropping("ifaces", k)' => k = Guest(r)
               /\ Dropping("underlay", k)' => k = UnderlayOf(r)
               /\ Dropping("routes", k)' => k \in SelfRoutes(r) \cup RoutesOf(r.vni)
    BY <2>3 DEF Dropping
  <2>5. Dropping("ports", s.dev)' => s.dev \in shared
    BY <2>1, <2>4 DEF Apart
  <2>6. ~Dropping("ifaces", Guest(s))' /\ ~Dropping("underlay", UnderlayOf(s))'
    <3>1. PICK g, u : g = Guest(s) /\ u = UnderlayOf(s)
      OBVIOUS
    <3>2. ~Dropping("ifaces", g)' /\ ~Dropping("underlay", u)'
      BY <2>1, <2>2, <2>4, <3>1
    <3> QED
      BY <3>1, <3>2, ConcernsSame DEF Dropping
  <2>7. ASSUME NEW k \in SelfRoutes(s) PROVE ~Dropping("routes", k)'
    <3>1. k[2] \notin Routes
      BY <2>1, OperatorAssumption DEF SelfRoutes
    <3>2. \A x \in RoutesOf(r.vni) : x[2] \in Routes
      <4>1. \A x \in DOMAIN tab["routesShadow"] : Fits("routesShadow", x, tab["routesShadow"][x])
        BY DEF TypeInv, TablesFit, Tables, Shadows
      <4> QED
        BY <4>1 DEF Fits, RoutesOf
    <3>3. k \notin SelfRoutes(r)
      BY <2>1, <2>7 DEF Apart
    <3> QED
      BY <2>4, <3>1, <3>2, <3>3
  <2> QED
    BY <2>5, <2>6, <2>7
<1> QED
  BY <1>4, <1>6, <1>7 DEF WorksInv

\* WorksInv is inductive.
LEMMA WorksInductive ==
    /\ Init => WorksInv
    /\ TypeInv /\ TapInv /\ OneKind /\ WorksInv /\ [Next]_vars => WorksInv'
<1>1. ASSUME Init PROVE WorksInv
  <2>1. Free /\ tab["byId"] = << >>
    BY <1>1 DEF Init, Free, Tables, Shadows
  <2>2. Todo = {} /\ task.ops = << >>
    BY <2>1, FreeFacts DEF Free
  <2>3. Live = {} /\ Coming = {}
    BY <2>1, <2>2 DEF Live, Coming, ById
  <2> QED
    BY <2>2, <2>3 DEF WorksInv, ApartInv, WorkInv, StayInv, SnapOrder, Mine, Working
<1>2. ASSUME TypeInv, TapInv, OneKind, WorksInv, [Next]_vars PROVE WorksInv'
  <2>1. CASE Write
    BY <1>2, <2>1, WriteWorks
  <2>2. CASE Call \/ Resume
    <3>1. CASE Free /\ UNCHANGED <<tab, cpu, history>> /\ \A w \in Todo' : Harmless(w)
      <4>2. TypeInv'
        BY <1>2, TypeInductive
      <4>3. /\ \A u \in Underlays : ~Working(u)'
            /\ \A t \in {"byId", "ports", "ifaces", "underlay"} : \A k : ~Dropping(t, k)'
            /\ \A r \in Requests : \A k \in SelfRoutes(r) : ~Dropping("routes", k)'
            /\ Mine' = Live' /\ SnapOrder'
        BY <3>1, <4>2, HarmlessFacts
      <4>4. Live' = Live /\ Mine = Live
        <5>1. Live = Records /\ Todo = {}
          BY <3>1, FreeLive
        <5>2. Live' = Records
          BY <3>1, <4>3 DEF Live, Records, ById
        <5> QED
          BY <5>1, <5>2 DEF Mine, Coming
      <4>5. ApartInv'
        BY <1>2, <3>1, <4>3, <4>4, ApartStays DEF WorksInv, history
      <4>6. WorkInv'
        BY <4>3, ConcernsSame DEF WorkInv
      <4>7. StayInv'
        <5>1. Live \subseteq Requests
          BY <1>2, <4>4, MineFacts
        <5>2. \A s : ~Dropping("ifaces", Guest(s))' /\ ~Dropping("underlay", UnderlayOf(s))'
                     /\ ~Dropping("ports", s.dev)'
          BY <4>3, ConcernsSame
        <5> QED
          BY <4>3, <4>4, <5>1, <5>2, ConcernsSame DEF StayInv
      <4> QED
        BY <4>3, <4>5, <4>6, <4>7 DEF WorksInv
    <3> QED
      BY <1>2, <2>2, <3>1, OtherCall, CreateWorks, DetachWorks
  <2>3. CASE (\E c \in Cpus : Datapath(c)) \/ UNCHANGED vars
    <3>1. /\ task' = task /\ Todo' = Todo /\ Live' = Live /\ Coming' = Coming
          /\ \A t, k : Dropping(t, k)' <=> Dropping(t, k)
      BY <1>2, <2>3, DatapathQuiet, QuietFacts
    <3>2. shared' = shared
      BY <2>3, DatapathHistory
    <3>3. Mine' = Mine
      BY <3>1 DEF Mine
    <3>4. ApartInv'
      BY <1>2, <3>2, <3>3, ApartStays DEF WorksInv
    <3>5. SnapOrder'
      BY <1>2, <3>1 DEF WorksInv, SnapOrder
    <3>6. WorkInv'
      BY <1>2, <3>1, <3>3, ConcernsSame DEF WorksInv, WorkInv, Working
    <3>7. StayInv'
      <4>1. \A s : /\ Dropping("ifaces", Guest(s))' <=> Dropping("ifaces", Guest(s))
                   /\ Dropping("underlay", UnderlayOf(s))' <=> Dropping("underlay", UnderlayOf(s))
                   /\ Dropping("ports", s.dev)' <=> Dropping("ports", s.dev)
        BY <3>1, ConcernsSame DEF Dropping
      <4> QED
        BY <1>2, <3>1, <3>2, <4>1, ConcernsSame DEF WorksInv, StayInv
    <3> QED
      BY <3>4, <3>5, <3>6, <3>7 DEF WorksInv
  <2> QED
    BY <1>2, <2>1, <2>2, <2>3 DEF Next
<1> QED
  BY <1>1, <1>2

(***************************************************************************)
(* Interfaces are programmed: the MAC learned last.                        *)
(***************************************************************************)

\* What is owned stays so.
LEMMA PutsStay ==
    ASSUME Mine \subseteq Mine', late \subseteq late'
    PROVE  \A w : /\ PutOwned(w)
                  /\ \A r \in Mine : lastMac'[UnderlayOf(r)] = lastMac[UnderlayOf(r)] \/ UnderlayOf(r) \in late
                                     \/ ~Concerns(w, UnderlayOf(r))
                  /\ w.op = "put"
                  => PutOwned(w)'
<1> SUFFICES ASSUME NEW w, PutOwned(w), w.op = "put",
                    \A r \in Mine : lastMac'[UnderlayOf(r)] = lastMac[UnderlayOf(r)] \/ UnderlayOf(r) \in late
                                    \/ ~Concerns(w, UnderlayOf(r))
             PROVE  PutOwned(w)'
  OBVIOUS
<1>1. \A r, mac : TapWrite(w, r, mac)' <=> TapWrite(w, r, mac)
  BY DEF TapWrite, Put, PortMeta, IfaceValue, UnderlayValue, UnderlayOf, Guest
<1>2. ASSUME w.tab \in {"ports", "ifaces", "underlay"}
      PROVE  \E r \in Mine', mac \in Macs :
                TapWrite(w, r, mac)' /\ (UnderlayOf(r) \in late' \/ mac = lastMac'[UnderlayOf(r)])
  <2>1. PICK r \in Mine, mac \in Macs :
           TapWrite(w, r, mac) /\ (UnderlayOf(r) \in late \/ mac = lastMac[UnderlayOf(r)])
    BY <1>2 DEF PutOwned
  <2>2. Concerns(w, UnderlayOf(r))
    BY <2>1 DEF TapWrite, Concerns, Put, PortMeta, IfaceValue
  <2> QED
    BY <1>1, <2>1, <2>2
<1>3. ASSUME w.tab = "routes", w.key[2] \notin Routes \cup Aliases
      PROVE  \E r \in Mine' : w.key \in SelfRoutes(r) /\ w.val = UnderlayOf(r)
  BY <1>3 DEF PutOwned
<1> QED
  BY <1>2, <1>3, ConcernsSame DEF PutOwned

\* A MAC update of one step before is one of the step after.
LEMMA LearnersStay ==
    ASSUME NEW c, cpu'[c] = cpu[c]
    PROVE  \A u : (Learner(c, u)' <=> Learner(c, u)) /\ (Past(c, u)' <=> Past(c, u)) /\ (Late(c, u)' <=> Late(c, u))
<1>1. \A u : Learner(c, u)' <=> Learner(c, u)
  BY DEF Learner, LearnPcs
<1> QED
  BY <1>1 DEF Past, Late

\* An insert.
LEMMA PutMacs ==
    ASSUME TypeInv, TapInv, OneKind, WorksInv, MacsInv, WritePut
    PROVE  MacsInv'
<1>1. PICK w : w = Head(task.ops)
  OBVIOUS
<1>2. /\ w \in Todo /\ w.op = "put" /\ w.tab \in Tables
      /\ Todo = {w} \cup Todo'
      /\ DOMAIN tab'[w.tab] = DOMAIN tab[w.tab] \cup {w.key}
      /\ \A x \in DOMAIN tab[w.tab] \cup {w.key} :
            tab'[w.tab][x] = IF x = w.key THEN w.val ELSE tab[w.tab][x]
      /\ \A s \in Tables \ {w.tab} : tab'[s] = tab[s]
  BY <1>1, PutEffect
<1>3. UNCHANGED <<cpu, late, lastMac>>
  BY DEF WritePut, history
<1>4. \A t, k : ~Dropping(t, k)'
  BY PutKind
<1>5. tab'["learned"] = tab["learned"]
  <2>1. w.tab # "learned" /\ "learned" \in Tables
    BY <1>2 DEF WorksInv, SnapOrder, Tables, Shadows
  <2> QED
    BY <1>2, <2>1
<1>6. w.tab = "underlay" => /\ w.val.mac = lastMac[w.key] \/ w.key \in late
                            /\ Concerns(w, w.key)
  <2> SUFFICES ASSUME w.tab = "underlay"
               PROVE  (w.val.mac = lastMac[w.key] \/ w.key \in late) /\ Concerns(w, w.key)
    OBVIOUS
  <2>1. PICK r \in Mine, mac \in Macs :
           TapWrite(w, r, mac) /\ (UnderlayOf(r) \in late \/ mac = lastMac[UnderlayOf(r)])
    BY <1>2 DEF MacsInv, PutInv, PutOwned
  <2>2. w.key = UnderlayOf(r) /\ w.val.mac = mac
    BY <2>1 DEF TapWrite, Put, UnderlayValue
  <2> QED
    BY <1>2, <2>1, <2>2 DEF Concerns
<1>7. /\ DOMAIN tab["underlay"] \subseteq DOMAIN tab'["underlay"]
      /\ \A u \in DOMAIN tab'["underlay"] :
            \/ w.tab = "underlay" /\ u = w.key /\ tab'["underlay"][u] = w.val
            \/ u \in DOMAIN tab["underlay"] /\ tab'["underlay"][u] = tab["underlay"][u]
  <2>1. CASE w.tab = "underlay"
    BY <1>2, <2>1
  <2>2. CASE w.tab # "underlay"
    BY <1>2, <2>2 DEF Tables, Maps
  <2> QED
    BY <2>1, <2>2
<1>8. MacInv'
  <2>1. \A u : EffectiveMac(u)' = EffectiveMac(u)
    BY <1>5 DEF EffectiveMac
  <2> QED
    BY <1>3, <1>4, <1>6, <1>7, <2>1 DEF MacsInv, MacInv
<1>9. PutInv'
  <2>1. Mine \subseteq Mine'
    BY PutLive DEF Mine
  <2> QED
    BY <1>2, <1>3, <2>1, PutsStay DEF MacsInv, PutInv
<1>10. LearnInv'
  <2> SUFFICES ASSUME NEW u \in Underlays \ late, NEW c \in Cpus, Learner(c, u)
               PROVE  /\ ~Working(u)'
                      /\ \A e \in Cpus : Learner(e, u) => e = c
                      /\ cpu[c].pc = "luput" => Maplet(tab'["underlay"], u, cpu[c].val)
    BY <1>3, LearnersStay DEF LearnInv, Maplet
  <2>1. /\ ~Working(u)
        /\ \A e \in Cpus : Learner(e, u) => e = c
        /\ cpu[c].pc = "luput" => Maplet(tab["underlay"], u, cpu[c].val)
    BY DEF MacsInv, LearnInv
  <2>2. ~Working(u)'
    BY <1>2, <2>1, LessTodo
  <2>3. ~(w.tab = "underlay" /\ u = w.key)
    BY <1>2, <1>6, <2>1 DEF Working
  <2> QED
    BY <1>7, <2>1, <2>2, <2>3 DEF Maplet
<1> QED
  BY <1>8, <1>9, <1>10 DEF MacsInv

\* An insert that fails.
LEMMA FailMacs ==
    ASSUME TypeInv, OneKind, MacsInv, WriteFails
    PROVE  MacsInv'
<1>1. UNCHANGED <<tab, cpu, late, lastMac>> /\ Todo' = {}
  BY FailEffect DEF WriteFails
<1>2. \A t, k : ~Dropping(t, k)'
  BY PutKind
<1>3. MacInv'
  BY <1>1, <1>2 DEF MacsInv, MacInv, EffectiveMac
<1>4. PutInv' /\ \A u : ~Working(u)'
  BY <1>1 DEF PutInv, Working
<1>5. LearnInv'
  BY <1>1, <1>4, LearnersStay DEF MacsInv, LearnInv, Maplet
<1> QED
  BY <1>3, <1>4, <1>5 DEF MacsInv

\* What a removal takes away is what its write names.
LEMMA DelHead ==
    ASSUME TypeInv, WriteDel, NEW t \in Tables, NEW k \in DOMAIN tab[t], k \notin DOMAIN tab'[t]
    PROVE  Head(task.ops).tab = t /\ k \in Head(task.ops).keys
<1>1. PICK w, K : w = Head(task.ops) /\ K = w.keys \cap DOMAIN tab[w.tab]
  OBVIOUS
<1>2. /\ w.tab \in Tables /\ TablesFit
  BY <1>1, HeadFacts DEF WriteDel, WriteFits, TypeInv
<1>3. PICK x \in K : tab' = [tab EXCEPT ![w.tab] = Restrict(@, DOMAIN @ \ {x})]
  <2>1. \/ UNCHANGED tab
        \/ \E x \in K : tab' = [tab EXCEPT ![w.tab] = Restrict(@, DOMAIN @ \ {x})]
    BY <1>1 DEF WriteDel
  <2> QED
    BY <2>1
<1>4. /\ DOMAIN tab'[w.tab] = DOMAIN tab[w.tab] \ {x}
      /\ \A s \in Tables \ {w.tab} : tab'[s] = tab[s]
  BY <1>1, <1>2, <1>3, DelFits
<1> QED
  BY <1>1, <1>3, <1>4

\* A removal.
LEMMA DelMacs ==
    ASSUME TypeInv, OneKind, WorksInv, MacsInv, WriteDel
    PROVE  MacsInv'
<1>1. PICK w : w = Head(task.ops)
  OBVIOUS
<1>2. /\ w \in Todo /\ w.op = "del" /\ Todo' \subseteq Todo /\ Todo \subseteq {w} \cup Todo'
      /\ \A s \in Tables : /\ DOMAIN tab'[s] \subseteq DOMAIN tab[s]
                           /\ \A x \in DOMAIN tab'[s] : tab'[s][x] = tab[s][x]
                           /\ \A x \in DOMAIN tab'[s] : Dropping(s, x) <=> Dropping(s, x)'
  BY <1>1, DelEffect
<1>3. UNCHANGED <<cpu, late, lastMac>>
  BY DEF WriteDel, history
<1>4. "underlay" \in Tables /\ "learned" \in Tables
  BY DEF Tables, Maps, Shadows
<1>5. DOMAIN tab'["learned"] = DOMAIN tab["learned"]
  <2>1. w.tab # "learned"
    BY <1>2 DEF WorksInv, SnapOrder
  <2> QED
    BY <1>1, <1>2, <1>4, <2>1, DelHead
<1>6. \A u : EffectiveMac(u)' = EffectiveMac(u)
  BY <1>2, <1>4, <1>5 DEF EffectiveMac
<1>7. ASSUME NEW u \in DOMAIN tab["underlay"], u \notin DOMAIN tab'["underlay"]
      PROVE  Dropping("underlay", u) /\ Snapped(u) /\ Concerns(w, u)
  <2>1. w.tab = "underlay" /\ u \in w.keys
    BY <1>1, <1>4, <1>7, DelHead
  <2>2. Dropping("underlay", u) /\ Concerns(w, u)
    BY <1>2, <2>1 DEF Dropping, Concerns
  <2>3. PICK q : q = task.ops
    OBVIOUS
  <2>4. q \in Seq(Todo) /\ q # << >>
    BY <2>3, HeadFacts DEF WriteDel, TypeInv
  <2>5. 1 \in DOMAIN q /\ w = q[1] /\ DOMAIN q = 1 .. Len(q) /\ Len(q) \in Nat
    BY <1>1, <2>3, <2>4, HeadTailProperties, LenProperties, EmptySeq
  <2>6. \A j \in DOMAIN q : q[j].op # "snap"
    BY <1>2, <2>1, <2>3, <2>5 DEF WorksInv, SnapOrder
  <2>7. Snapped(u)
    BY <2>3, <2>6 DEF Snapped, Todo, Range
  <2> QED
    BY <2>2, <2>7
<1>8. \A u : Snapped(u)' => Snapped(u)
  BY <1>2 DEF Snapped
<1>9. MacInv'
  <2> SUFFICES ASSUME NEW u \in Underlays \ late
               PROVE  /\ u \in DOMAIN tab'["underlay"] => tab'["underlay"][u].mac = lastMac[u]
                      /\ u \notin DOMAIN tab'["underlay"] \/ (Dropping("underlay", u)' /\ Snapped(u)') =>
                            EffectiveMac(u) = lastMac[u]
    BY <1>3, <1>6 DEF MacsInv, MacInv
  <2>1. /\ u \in DOMAIN tab["underlay"] => tab["underlay"][u].mac = lastMac[u]
        /\ u \notin DOMAIN tab["underlay"] \/ (Dropping("underlay", u) /\ Snapped(u)) =>
              EffectiveMac(u) = lastMac[u]
    BY DEF MacsInv, MacInv
  <2> QED
    BY <1>2, <1>4, <1>7, <1>8, <2>1
<1>10. PutInv'
  BY DelKind DEF PutInv
<1>11. LearnInv'
  <2> SUFFICES ASSUME NEW u \in Underlays \ late, NEW c \in Cpus, Learner(c, u)
               PROVE  /\ ~Working(u)'
                      /\ \A e \in Cpus : Learner(e, u) => e = c
                      /\ cpu[c].pc = "luput" => Maplet(tab'["underlay"], u, cpu[c].val)
    BY <1>3, LearnersStay DEF LearnInv, Maplet
  <2>1. /\ ~Working(u)
        /\ \A e \in Cpus : Learner(e, u) => e = c
        /\ cpu[c].pc = "luput" => Maplet(tab["underlay"], u, cpu[c].val)
    BY DEF MacsInv, LearnInv
  <2>2. ~Working(u)'
    BY <1>2, <2>1, LessTodo
  <2>3. ~Concerns(w, u)
    BY <1>2, <2>1 DEF Working
  <2> QED
    BY <1>2, <1>4, <1>7, <2>1, <2>2, <2>3 DEF Maplet
<1> QED
  BY <1>9, <1>10, <1>11 DEF MacsInv

\* detach_interface keeps the MAC.
LEMMA SnapMacs ==
    ASSUME TypeInv, OneKind, MacsInv, WriteSnap
    PROVE  MacsInv'
<1>1. PICK w, v : w = Head(task.ops) /\ v = w.ul
  OBVIOUS
<1>2. /\ w \in Todo /\ w.op = "snap" /\ Todo = {w} \cup Todo'
      /\ \A s \in Tables \ {"learned"} : tab'[s] = tab[s]
  BY <1>1, SnapEffect
<1>3. UNCHANGED <<cpu, late, lastMac>>
  BY DEF WriteSnap, history
<1>4. tab'["underlay"] = tab["underlay"]
  BY <1>2 DEF Tables, Maps
<1>5. /\ \A u : u # v => EffectiveMac(u)' = EffectiveMac(u)
      /\ v \in DOMAIN tab["underlay"] => EffectiveMac(v)' = tab["underlay"][v].mac
      /\ v \notin DOMAIN tab["underlay"] => EffectiveMac(v)' = EffectiveMac(v)
  <2>1. CASE v \in DOMAIN tab["underlay"]
    <3>1. tab' = [tab EXCEPT !["learned"] = Upsert(@, v, tab["underlay"][v].mac)]
      BY <1>1, <2>1 DEF WriteSnap
    <3>2. DOMAIN tab = Tables /\ "learned" \in Tables
      BY DEF TypeInv, TablesFit, Tables, Shadows
    <3>3. tab'["learned"] = Upsert(tab["learned"], v, tab["underlay"][v].mac)
      BY <3>1, <3>2
    <3> QED
      BY <2>1, <3>3 DEF EffectiveMac, Upsert
  <2>2. CASE v \notin DOMAIN tab["underlay"]
    <3>1. tab' = tab
      BY <1>1, <2>2 DEF WriteSnap
    <3> QED
      BY <2>2, <3>1 DEF EffectiveMac
  <2> QED
    BY <2>1, <2>2
<1>6. \A t, k : Dropping(t, k)' => Dropping(t, k)
  BY <1>2, LessTodo
<1>7. \A u : u # v /\ Snapped(u)' => Snapped(u)
  BY <1>1, <1>2 DEF Snapped
<1>8. MacInv'
  <2> SUFFICES ASSUME NEW u \in Underlays \ late
               PROVE  u \notin DOMAIN tab["underlay"] \/ (Dropping("underlay", u)' /\ Snapped(u)') =>
                            EffectiveMac(u)' = lastMac[u]
    BY <1>3, <1>4 DEF MacsInv, MacInv
  <2>1. /\ u \in DOMAIN tab["underlay"] => tab["underlay"][u].mac = lastMac[u]
        /\ u \notin DOMAIN tab["underlay"] \/ (Dropping("underlay", u) /\ Snapped(u)) =>
              EffectiveMac(u) = lastMac[u]
    BY DEF MacsInv, MacInv
  <2>2. CASE u = v
    BY <1>5, <2>1, <2>2
  <2>3. CASE u # v
    BY <1>5, <1>6, <1>7, <2>1, <2>3
  <2> QED
    BY <2>2, <2>3
<1>9. PutInv'
  BY DelKind DEF PutInv
<1>10. LearnInv'
  <2>1. \A u : Working(u)' => Working(u)
    BY <1>2, LessTodo
  <2> QED
    BY <1>3, <1>4, <2>1, LearnersStay DEF MacsInv, LearnInv, Maplet
<1> QED
  BY <1>8, <1>9, <1>10 DEF MacsInv

\* An update is for an interface, or late.
LEMMA LearnerOwner ==
    ASSUME TypeInv, TapInv, NEW c \in Cpus, cpu[c].pc \in LearnPcs
    PROVE  \E x \in Requests : /\ Owns(x, cpu[c].dev, cpu[c].meta) /\ x.dev = cpu[c].dev
                               /\ UnderlayOf(x) = cpu[c].meta.ul
                               /\ Guest(x) = <<cpu[c].meta.vni, cpu[c].meta.ip>>
                               /\ x \in Live \/ Marks(x) \subseteq late
<1>1. PICK x \in Requests : Owns(x, cpu[c].dev, cpu[c].meta) /\ Known(x)
  BY DEF TapInv, CpuKnown
<1> QED
  BY <1>1 DEF Owns, Known, Guest

\* create_interface finds the MAC learned last in the cache.
LEMMA FreshMac ==
    ASSUME TypeInv, TapInv, MacsInv, NEW r \in Requests, CreateInterface(r), UnderlayOf(r) \notin late
    PROVE  EffectiveMac(UnderlayOf(r)) = lastMac[UnderlayOf(r)] /\ \A c \in Cpus : ~Learner(c, UnderlayOf(r))
<1>1. PICK u : u = UnderlayOf(r)
  OBVIOUS
<1>2. (\A t, k : ~Dropping(t, k)) /\ \A s \in Live : UnderlayOf(s) # u
  BY <1>1, CreateMine
<1>3. u \in Underlays \ late
  BY <1>1, RequestFacts
<1>4. u \notin DOMAIN tab["underlay"]
  BY <1>2, <1>3 DEF TapInv, TapsKnown
<1>5. EffectiveMac(u) = lastMac[u]
  BY <1>3, <1>4 DEF MacsInv, MacInv
<1>6. ASSUME NEW c \in Cpus, Learner(c, u) PROVE FALSE
  <2>1. PICK x \in Requests : UnderlayOf(x) = u /\ (x \in Live \/ Marks(x) \subseteq late)
    BY <1>6, LearnerOwner DEF Learner
  <2> QED
    BY <1>2, <1>3, <2>1 DEF Marks
<1> QED
  BY <1>1, <1>5, <1>6 DEF EffectiveMac, Learner

\* create_interface.
LEMMA CreateMacs ==
    ASSUME TypeInv, TapInv, MacsInv, NEW r \in Requests, CreateInterface(r)
    PROVE  MacsInv'
<1>1. /\ tab' = tab /\ cpu' = cpu /\ lastMac' = lastMac
      /\ r \in Mine' /\ late \subseteq late'
      /\ \A t, k : ~Dropping(t, k) /\ ~Dropping(t, k)'
  BY CreateMine
<1>2. PICK u, mac : u = UnderlayOf(r) /\ mac = EffectiveMac(u)
  OBVIOUS
<1>3. mac \in Macs /\ Todo' = CreateTodo(r, mac)
  BY <1>2, CreateStarts
<1>4. u \in late \/ (mac = lastMac[u] /\ \A c \in Cpus : ~Learner(c, u))
  BY <1>2, FreshMac
<1>5. MacInv'
  BY <1>1 DEF MacsInv, MacInv, EffectiveMac
<1>6. PutInv'
  <2> SUFFICES ASSUME NEW w \in Todo' PROVE PutOwned(w)'
    BY DEF PutInv
  <2>1. /\ w.tab \in {"ports", "ifaces", "underlay"} => TapWrite(w, r, mac)
        /\ w.tab = "routes" => w.key \in SelfRoutes(r) /\ w.val = UnderlayOf(r)
    BY <1>3, CreateConcerns
  <2>2. TapWrite(w, r, mac) => TapWrite(w, r, mac)'
    BY DEF TapWrite, Put, PortMeta, IfaceValue, UnderlayValue, UnderlayOf, Guest
  <2>3. u \in late' \/ mac = lastMac'[u]
    BY <1>1, <1>4
  <2> QED
    BY <1>1, <1>2, <1>3, <2>1, <2>2, <2>3, ConcernsSame DEF PutOwned
<1>7. LearnInv'
  <2>1. \A v : Working(v)' => v = u
    BY <1>2, <1>3, CreateConcerns, ConcernsSame DEF Working
  <2> SUFFICES ASSUME NEW v \in Underlays \ late', NEW c \in Cpus, Learner(c, v)
               PROVE  /\ ~Working(v)'
                      /\ \A e \in Cpus : Learner(e, v) => e = c
                      /\ cpu[c].pc = "luput" => Maplet(tab["underlay"], v, cpu[c].val)
    BY <1>1, LearnersStay DEF LearnInv, Maplet
  <2>2. /\ \A e \in Cpus : Learner(e, v) => e = c
        /\ cpu[c].pc = "luput" => Maplet(tab["underlay"], v, cpu[c].val)
    BY <1>1 DEF MacsInv, LearnInv
  <2>3. v # u
    BY <1>1, <1>4
  <2> QED
    BY <2>1, <2>2, <2>3
<1> QED
  BY <1>5, <1>6, <1>7 DEF MacsInv

\* detach_interface.
LEMMA DetachMacs ==
    ASSUME TypeInv, TapInv, MacsInv, NEW id \in Ids, DetachInterface(id)
    PROVE  MacsInv'
<1>1. PICK r : r = ById[id]
  OBVIOUS
<1>2. /\ tab' = tab /\ lastMac' = lastMac
      /\ r \in Requests /\ Todo' = DetachTodo(id, r)
      /\ \A x \in Live : Guest(x) = Guest(r) => x = r
      /\ late \subseteq late' /\ (Learning(r.dev) => Marks(r) \subseteq late')
      /\ \A t, k : ~Dropping(t, k)
      /\ \A c \in Cpus : cpu[c].pc \in LearnPcs \/ cpu'[c].pc \in LearnPcs => cpu'[c] = cpu[c]
  BY <1>1, DetachMine
<1>3. \A c \in Cpus : \A u : Learner(c, u)' => Learner(c, u) /\ cpu'[c] = cpu[c]
  BY <1>2 DEF Learner, LearnPcs
<1>4. \A u : ~(Dropping("underlay", u)' /\ Snapped(u)')
  <2> SUFFICES ASSUME NEW u, Dropping("underlay", u)' PROVE ~Snapped(u)'
    OBVIOUS
  <2>1. u = UnderlayOf(r)
    BY <1>2, DetachConcerns DEF Dropping
  <2>2. PICK w : w = Snap(u)
    OBVIOUS
  <2>3. w \in Todo' /\ w.op = "snap" /\ w.ul = u
    BY <1>2, <2>1, <2>2 DEF DetachTodo, Snap
  <2> QED
    BY <2>3 DEF Snapped
<1>5. MacInv'
  BY <1>2, <1>4 DEF MacsInv, MacInv, EffectiveMac
<1>6. PutInv'
  BY <1>2, DetachConcerns DEF PutInv
<1>7. LearnInv'
  <2> SUFFICES ASSUME NEW u \in Underlays \ late', NEW c \in Cpus, Learner(c, u), cpu'[c] = cpu[c]
               PROVE  /\ ~Working(u)'
                      /\ \A e \in Cpus : Learner(e, u) => e = c
                      /\ cpu[c].pc = "luput" => Maplet(tab["underlay"], u, cpu[c].val)
    BY <1>2, <1>3 DEF LearnInv, Maplet
  <2>1. /\ \A e \in Cpus : Learner(e, u) => e = c
        /\ cpu[c].pc = "luput" => Maplet(tab["underlay"], u, cpu[c].val)
    BY <1>2 DEF MacsInv, LearnInv
  <2>2. ASSUME Working(u)' PROVE FALSE
    <3>1. PICK x \in Requests : /\ x.dev = cpu[c].dev /\ UnderlayOf(x) = u
                                /\ x \in Live \/ Marks(x) \subseteq late
      BY LearnerOwner DEF Learner
    <3>2. x \in Live
      BY <1>2, <3>1 DEF Marks
    <3>3. x = r
      BY <1>2, <2>2, <3>1, <3>2, DetachGuest
    <3>4. Learning(r.dev)
      BY <3>1, <3>3 DEF Learning, Learner
    <3> QED
      BY <1>2, <3>1, <3>3, <3>4 DEF Marks
  <2> QED
    BY <2>1, <2>2
<1> QED
  BY <1>5, <1>6, <1>7 DEF MacsInv

\* The other calls.
LEMMA OtherMacs ==
    ASSUME TypeInv, TypeInv', MacsInv, Free, UNCHANGED <<tab, cpu, history>>, \A w \in Todo' : Harmless(w)
    PROVE  MacsInv'
<1>1. UNCHANGED <<late, lastMac>>
  BY DEF history
<1>2. /\ \A u \in Underlays : ~Working(u)'
      /\ \A k : ~Dropping("underlay", k)'
      /\ PutInv'
  BY HarmlessFacts
<1>3. MacInv'
  BY <1>1, <1>2 DEF MacsInv, MacInv, EffectiveMac
<1>4. LearnInv'
  BY <1>1, <1>2, LearnersStay DEF MacsInv, LearnInv, Maplet
<1> QED
  BY <1>2, <1>3, <1>4 DEF MacsInv

\* An insert by the datapath.
LEMMA LearnFacts ==
    ASSUME TypeInv, NEW t \in Tables, NEW k, NEW v, Learn(t, k, v)
    PROVE  /\ \A s \in Tables \ {t} : tab'[s] = tab[s]
           /\ k \in DOMAIN tab[t] => Maplet(tab'[t], k, v)
           /\ \A x : x # k => /\ x \in DOMAIN tab'[t] <=> x \in DOMAIN tab[t]
                              /\ x \in DOMAIN tab[t] => tab'[t][x] = tab[t][x]
                              /\ \A z : Maplet(tab'[t], x, z) <=> Maplet(tab[t], x, z)
<1>1. DOMAIN tab = Tables
  BY DEF TypeInv, TablesFit
<1>2. CASE Room(t, k)
  <2>1. tab' = [tab EXCEPT ![t] = Upsert(@, k, v)]
    BY <1>2 DEF Learn
  <2>2. tab'[t] = Upsert(tab[t], k, v) /\ \A s \in Tables \ {t} : tab'[s] = tab[s]
    BY <1>1, <2>1
  <2> QED
    BY <2>2 DEF Upsert, Maplet
<1>3. CASE ~Room(t, k)
  <2>1. tab' = tab
    BY <1>3 DEF Learn
  <2>2. k \notin DOMAIN tab[t]
    BY <1>3 DEF Room
  <2> QED
    BY <2>1, <2>2
<1> QED
  BY <1>2, <1>3

\* The program counter moves.
LEMMA PcMoves ==
    ASSUME NEW s \in CpuState, s.pc \in {"lport", "luget", "luput"}, NEW p, NEW y, y = [s EXCEPT !.pc = p]
    PROVE  y.pc = p /\ y.dev = s.dev /\ y.meta = s.meta /\ y.mac = s.mac
<1>1. \/ s \in [pc : {"lport"}, dev : Devices, meta : Meta, mac : Macs]
      \/ s \in [pc : {"luget"}, dev : Devices, meta : Meta, mac : Macs]
      \/ s \in [pc : {"luput"}, dev : Devices, meta : Meta, mac : Macs, val : UnderlayValues]
  BY CpuKinds
<1> QED
  BY <1>1

\* learn_mac in PORT_META.
LEMMA PortMoves ==
    ASSUME TypeInv, NEW c \in Cpus, LearnPort(c), NEW s, s = cpu[c], NEW y, y = cpu'[c]
    PROVE  /\ s.pc = "lport" /\ y.pc = "luget" /\ y.dev = s.dev /\ y.meta = s.meta /\ y.mac = s.mac
           /\ Learn("ports", s.dev, [s.meta EXCEPT !.mac = s.mac]) /\ UNCHANGED <<late, lastMac>>
<1>0. s \in CpuState /\ DOMAIN cpu = Cpus
  BY DEF TypeInv, CpuFits
<1>1. /\ s.pc = "lport" /\ cpu' = [cpu EXCEPT ![c].pc = "luget"] /\ UNCHANGED <<late, lastMac>>
      /\ Learn("ports", s.dev, [s.meta EXCEPT !.mac = s.mac])
  BY DEF LearnPort, history
<1>2. s.pc \in {"lport", "luget", "luput"} /\ y = [s EXCEPT !.pc = "luget"]
  BY <1>0, <1>1
<1>3. y.pc = "luget" /\ y.dev = s.dev /\ y.meta = s.meta /\ y.mac = s.mac
  BY <1>0, <1>2, PcMoves
<1> QED
  BY <1>1, <1>3

\* learn_mac looks UNDERLAY up.
LEMMA UnderlayGetMoves ==
    ASSUME TypeInv, NEW c \in Cpus, LearnUnderlayGet(c), NEW s, s = cpu[c], NEW y, y = cpu'[c]
    PROVE  /\ s.pc = "luget" /\ y.dev = s.dev /\ y.meta = s.meta /\ y.mac = s.mac
           /\ UNCHANGED <<tab, late, lastMac>>
           /\ \/ y.pc = "liget" /\ s.meta.ul \notin DOMAIN tab["underlay"]
              \/ y.pc = "luput" /\ Maplet(tab["underlay"], s.meta.ul, y.val)
<1>0. s \in CpuState /\ DOMAIN cpu = Cpus
  BY DEF TypeInv, CpuFits
<1>1. PICK k : k = s.meta.ul
  OBVIOUS
<1>2. /\ s.pc = "luget" /\ UNCHANGED <<tab, late, lastMac>>
      /\ cpu' = [cpu EXCEPT ![c] =
                   IF k \in DOMAIN tab["underlay"]
                     THEN [pc |-> "luput", dev |-> s.dev, meta |-> s.meta, mac |-> s.mac,
                           val |-> tab["underlay"][k]]
                     ELSE [s EXCEPT !.pc = "liget"]]
  BY <1>1 DEF LearnUnderlayGet, LearnGet, history
<1>3. CASE k \in DOMAIN tab["underlay"]
  <2>1. y = [pc |-> "luput", dev |-> s.dev, meta |-> s.meta, mac |-> s.mac, val |-> tab["underlay"][k]]
    BY <1>0, <1>2, <1>3
  <2> QED
    BY <1>1, <1>2, <1>3, <2>1 DEF Maplet
<1>4. CASE k \notin DOMAIN tab["underlay"]
  <2>1. y = [s EXCEPT !.pc = "liget"]
    BY <1>0, <1>2, <1>4
  <2>2. s.pc \in {"lport", "luget", "luput"}
    BY <1>2
  <2>3. y.pc = "liget" /\ y.dev = s.dev /\ y.meta = s.meta /\ y.mac = s.mac
    BY <1>0, <2>1, <2>2, PcMoves
  <2> QED
    BY <1>1, <1>2, <1>4, <2>3
<1> QED
  BY <1>3, <1>4

\* learn_mac in UNDERLAY.
LEMMA UnderlayPutMoves ==
    ASSUME TypeInv, NEW c \in Cpus, LearnUnderlayPut(c), NEW s, s = cpu[c], NEW y, y = cpu'[c]
    PROVE  /\ s.pc = "luput" /\ y.pc = "liget" /\ y.dev = s.dev /\ y.meta = s.meta /\ y.mac = s.mac
           /\ Learn("underlay", s.meta.ul, [s.val EXCEPT !.mac = s.mac])
           /\ late' = late /\ lastMac' = [lastMac EXCEPT ![s.meta.ul] = s.mac]
<1>0. s \in CpuState /\ DOMAIN cpu = Cpus
  BY DEF TypeInv, CpuFits
<1>1. /\ s.pc = "luput" /\ cpu' = [cpu EXCEPT ![c].pc = "liget"]
      /\ Learn("underlay", s.meta.ul, [s.val EXCEPT !.mac = s.mac])
      /\ late' = late /\ lastMac' = [lastMac EXCEPT ![s.meta.ul] = s.mac]
  BY DEF LearnUnderlayPut
<1>2. y.pc = "liget" /\ y.dev = s.dev /\ y.meta = s.meta /\ y.mac = s.mac
  <2>1. s.pc \in {"lport", "luget", "luput"} /\ y = [s EXCEPT !.pc = "liget"]
    BY <1>0, <1>1
  <2> QED
    BY <1>0, <2>1, PcMoves
<1> QED
  BY <1>1, <1>2

\* learn_mac looks INTERFACES up.
LEMMA IfaceGetMoves ==
    ASSUME TypeInv, NEW c \in Cpus, LearnIfaceGet(c), NEW s, s = cpu[c], NEW y, y = cpu'[c]
    PROVE  /\ s.pc = "liget" /\ UNCHANGED <<tab, late, lastMac>>
           /\ \/ y = IdleCpu /\ <<s.meta.vni, s.meta.ip>> \notin DOMAIN tab["ifaces"]
              \/ /\ y.pc = "liput" /\ y.dev = s.dev /\ y.meta = s.meta /\ y.mac = s.mac
                 /\ Maplet(tab["ifaces"], <<s.meta.vni, s.meta.ip>>, y.val)
<1>0. s \in CpuState /\ DOMAIN cpu = Cpus
  BY DEF TypeInv, CpuFits
<1>1. PICK k : k = <<s.meta.vni, s.meta.ip>>
  OBVIOUS
<1>2. /\ s.pc = "liget" /\ UNCHANGED <<tab, late, lastMac>>
      /\ cpu' = [cpu EXCEPT ![c] =
                   IF k \in DOMAIN tab["ifaces"]
                     THEN [pc |-> "liput", dev |-> s.dev, meta |-> s.meta, mac |-> s.mac,
                           val |-> tab["ifaces"][k]]
                     ELSE IdleCpu]
  BY <1>1 DEF LearnIfaceGet, LearnGet, history
<1>3. y = IF k \in DOMAIN tab["ifaces"]
            THEN [pc |-> "liput", dev |-> s.dev, meta |-> s.meta, mac |-> s.mac, val |-> tab["ifaces"][k]]
            ELSE IdleCpu
  BY <1>0, <1>2
<1> QED
  BY <1>1, <1>2, <1>3 DEF Maplet

\* learn_mac in INTERFACES.
LEMMA IfacePutMoves ==
    ASSUME TypeInv, NEW c \in Cpus, LearnIfacePut(c), NEW s, s = cpu[c], NEW y, y = cpu'[c]
    PROVE  /\ s.pc = "liput" /\ y = IdleCpu /\ UNCHANGED <<late, lastMac>>
           /\ Learn("ifaces", <<s.meta.vni, s.meta.ip>>, [s.val EXCEPT !.mac = s.mac])
<1>0. s \in CpuState /\ DOMAIN cpu = Cpus
  BY DEF TypeInv, CpuFits
<1> QED
  BY <1>0 DEF LearnIfacePut, history

\* A MAC that is new for the tap.
LEMMA DhcpMoves ==
    ASSUME TypeInv, NEW c \in Cpus, NEW dev, NEW mac, DhcpPacket(c, dev, mac), NEW s, s = cpu[c], NEW y, y = cpu'[c]
    PROVE  /\ UNCHANGED <<tab, lastMac>>
           /\ s.pc = "idle" /\ y.pc = "lport" /\ y.dev = dev /\ y.meta = tab["ports"][dev]
           /\ dev \in DOMAIN tab["ports"]
           /\ late' = IF task.dev = dev \/ Learning(dev)
                        THEN late \cup {dev, y.meta.ul, <<y.meta.vni, y.meta.ip>>} ELSE late
<1>0. s \in CpuState /\ DOMAIN cpu = Cpus
  BY DEF TypeInv, CpuFits
<1>1. PICK m : m = tab["ports"][dev]
  OBVIOUS
<1>2. /\ UNCHANGED <<tab, lastMac>> /\ s.pc = "idle" /\ dev \in DOMAIN tab["ports"]
      /\ cpu' = [cpu EXCEPT ![c] = [pc |-> "lport", dev |-> dev, meta |-> m, mac |-> mac]]
      /\ late' = IF task.dev = dev \/ Learning(dev)
                   THEN late \cup {dev, m.ul, <<m.vni, m.ip>>} ELSE late
  BY <1>1 DEF DhcpPacket
<1>3. y = [pc |-> "lport", dev |-> dev, meta |-> m, mac |-> mac]
  BY <1>0, <1>2
<1> QED
  BY <1>1, <1>2, <1>3

\* A step of a CPU concerns no other CPU, and outside learn_mac no map.
LEMMA DatapathParts ==
    ASSUME TypeInv, NEW c \in Cpus, Datapath(c)
    PROVE  /\ \A e \in Cpus \ {c} : cpu'[e] = cpu[e]
           /\ \/ \E dev \in Devices, mac \in GuestMacs : DhcpPacket(c, dev, mac)
              \/ LearnPort(c) \/ LearnUnderlayGet(c) \/ LearnUnderlayPut(c)
              \/ LearnIfaceGet(c) \/ LearnIfacePut(c)
              \/ /\ UNCHANGED <<tab, late, lastMac>>
                 /\ cpu[c].pc \notin LearnPcs /\ cpu'[c].pc \notin LearnPcs
<1>1. DOMAIN cpu = Cpus /\ cpu[c] \in CpuState
  BY DEF TypeInv, CpuFits
<1>2. ASSUME NEW v, cpu' = [cpu EXCEPT ![c] = v]
      PROVE  cpu'[c] = v /\ \A e \in Cpus \ {c} : cpu'[e] = cpu[e]
  BY <1>1, <1>2
<1>3. ASSUME NEW dev, NEW a, GuestPacket(c, dev, a)
      PROVE  /\ \A e \in Cpus \ {c} : cpu'[e] = cpu[e]
             /\ UNCHANGED <<tab, late, lastMac>> /\ cpu[c].pc \notin LearnPcs /\ cpu'[c].pc \notin LearnPcs
  BY <1>1, <1>3 DEF GuestPacket, history, LearnPcs
<1>4. ASSUME VipLookup(c)
      PROVE  /\ \A e \in Cpus \ {c} : cpu'[e] = cpu[e]
             /\ UNCHANGED <<tab, late, lastMac>> /\ cpu[c].pc \notin LearnPcs /\ cpu'[c].pc \notin LearnPcs
  <2>1. PICK k, a : k = <<cpu[c].meta.vni, cpu[c].addr>>
                    /\ a = IF k \in DOMAIN tab["vips"] THEN tab["vips"][k] ELSE cpu[c].addr
    OBVIOUS
  <2>2. /\ cpu[c].pc = "vip" /\ cpu' = [cpu EXCEPT ![c].pc = "route", ![c].addr = a]
        /\ UNCHANGED <<tab, late, lastMac>>
    BY <1>4, <2>1 DEF VipLookup, history
  <2>3. cpu[c] \in [pc : {"vip", "route"}, dev : Devices, meta : Meta, addr : Addrs, stale : BOOLEAN]
    BY <1>1, <2>2, CpuKinds
  <2>4. cpu'[c] = [cpu[c] EXCEPT !.pc = "route", !.addr = a] /\ \A e \in Cpus \ {c} : cpu'[e] = cpu[e]
    BY <1>1, <2>2
  <2>5. cpu'[c].pc = "route"
    BY <2>3, <2>4
  <2> QED
    BY <2>2, <2>4, <2>5 DEF LearnPcs
<1>5. ASSUME RouteLookup(c) \/ UnderlayLookup(c) \/ Deliver(c)
      PROVE  /\ \A e \in Cpus \ {c} : cpu'[e] = cpu[e]
             /\ UNCHANGED <<tab, late, lastMac>> /\ cpu[c].pc \notin LearnPcs /\ cpu'[c].pc \notin LearnPcs
  <2>1. /\ UNCHANGED <<tab, late, lastMac>> /\ cpu[c].pc \notin LearnPcs
        /\ \E v : cpu' = [cpu EXCEPT ![c] = v] /\ v.pc \in {"idle", "underlay", "local"}
    <3>1. CASE RouteLookup(c)
      <4>1. PICK K, nh : K = Matching(cpu[c].meta.vni, cpu[c].addr) /\ nh = tab["routes"][Longest(K)]
        OBVIOUS
      <4>2. PICK v : v = IF K = {} THEN IdleCpu
                         ELSE [pc |-> "underlay", dev |-> cpu[c].dev, meta |-> cpu[c].meta,
                               stale |-> cpu[c].stale, nh |-> nh]
        OBVIOUS
      <4>3. cpu' = [cpu EXCEPT ![c] = v]
        BY <1>1, <3>1, <4>1, <4>2 DEF RouteLookup
      <4>4. v.pc \in {"idle", "underlay", "local"}
        BY <4>2 DEF IdleCpu
      <4>5. UNCHANGED <<tab, late, lastMac>> /\ cpu[c].pc \notin LearnPcs
        BY <3>1 DEF RouteLookup, history, LearnPcs
      <4> QED
        BY <4>3, <4>4, <4>5
    <3>2. CASE UnderlayLookup(c)
      <4>1. PICK u : u = cpu[c].nh
        OBVIOUS
      <4>2. PICK v : v = IF u \notin DOMAIN tab["underlay"] THEN IdleCpu
                         ELSE [pc |-> "local", dev |-> cpu[c].dev, meta |-> cpu[c].meta,
                               stale |-> cpu[c].stale, nh |-> u, to |-> tab["underlay"][u]]
        OBVIOUS
      <4>3. cpu' = [cpu EXCEPT ![c] = v]
        BY <1>1, <3>2, <4>1, <4>2 DEF UnderlayLookup
      <4>4. v.pc \in {"idle", "underlay", "local"}
        BY <4>2 DEF IdleCpu
      <4>5. UNCHANGED <<tab, late, lastMac>> /\ cpu[c].pc \notin LearnPcs
        BY <3>2 DEF UnderlayLookup, history, LearnPcs
      <4> QED
        BY <4>3, <4>4, <4>5
    <3>3. CASE Deliver(c)
      <4>1. IdleCpu.pc \in {"idle", "underlay", "local"}
        BY DEF IdleCpu
      <4> QED
        BY <3>3, <4>1 DEF Deliver, history, LearnPcs
    <3> QED
      BY <1>5, <3>1, <3>2, <3>3
  <2> QED
    BY <1>2, <2>1 DEF LearnPcs
<1>6. ASSUME LearnPort(c) \/ LearnUnderlayPut(c) \/ LearnIfacePut(c) \/ LearnUnderlayGet(c) \/ LearnIfaceGet(c)
      PROVE  \A e \in Cpus \ {c} : cpu'[e] = cpu[e]
  <2>1. \E v : cpu' = [cpu EXCEPT ![c] = v]
    <3>1. ASSUME LearnPort(c) \/ LearnUnderlayPut(c) PROVE \E v : cpu' = [cpu EXCEPT ![c] = v]
      <4>1. \E p : cpu' = [cpu EXCEPT ![c].pc = p]
        BY <3>1 DEF LearnPort, LearnUnderlayPut
      <4>2. \A p : [cpu EXCEPT ![c].pc = p] = [cpu EXCEPT ![c] = [cpu[c] EXCEPT !.pc = p]]
        BY <1>1
      <4> QED
        BY <4>1, <4>2
    <3>2. ASSUME LearnIfacePut(c) PROVE \E v : cpu' = [cpu EXCEPT ![c] = v]
      BY <3>2 DEF LearnIfacePut
    <3>3. ASSUME NEW p, NEW t, NEW k, NEW q, NEW i, LearnGet(c, p, t, k, q, i)
          PROVE  \E v : cpu' = [cpu EXCEPT ![c] = v]
      BY <3>3 DEF LearnGet
    <3> QED
      BY <1>6, <3>1, <3>2, <3>3 DEF LearnUnderlayGet, LearnIfaceGet
  <2> QED
    BY <1>2, <2>1
<1>7. ASSUME NEW dev, NEW mac, DhcpPacket(c, dev, mac)
      PROVE  \A e \in Cpus \ {c} : cpu'[e] = cpu[e]
  BY <1>2, <1>7 DEF DhcpPacket
<1> QED
  BY <1>3, <1>4, <1>5, <1>6, <1>7 DEF Datapath

\* A step that leaves the MACs of UNDERLAY alone.
LEMMA QuietMacs ==
    ASSUME MacsInv, NEW c \in Cpus, UNCHANGED <<task, lastMac>>, late \subseteq late', Mine' = Mine,
           tab'["underlay"] = tab["underlay"], tab'["learned"] = tab["learned"],
           \A e \in Cpus \ {c} : cpu'[e] = cpu[e],
           \A u \in Underlays \ late' : Learner(c, u)' =>
               /\ Learner(c, u) \/ (~Working(u) /\ \A e \in Cpus \ {c} : ~Learner(e, u))
               /\ cpu'[c].pc = "luput" => Maplet(tab["underlay"], u, cpu'[c].val)
    PROVE  MacsInv'
<1>1. Todo' = Todo
  BY DEF Todo
<1>2. \A u : /\ Working(u)' <=> Working(u)
             /\ Dropping("underlay", u)' <=> Dropping("underlay", u)
             /\ Snapped(u)' <=> Snapped(u)
             /\ EffectiveMac(u)' = EffectiveMac(u)
  BY <1>1, ConcernsSame DEF Working, Dropping, Snapped, EffectiveMac
<1>3. MacInv'
  BY <1>2 DEF MacsInv, MacInv
<1>4. PutInv'
  BY <1>1, PutsStay DEF MacsInv, PutInv
<1>5. ASSUME NEW u \in Underlays \ late', NEW e \in Cpus, Learner(e, u)'
      PROVE  /\ ~Working(u)
             /\ \A d \in Cpus : Learner(d, u)' => d = e
             /\ cpu'[e].pc = "luput" => Maplet(tab["underlay"], u, cpu'[e].val)
  <2>1. u \in Underlays \ late
    OBVIOUS
  <2>2. \A d \in Cpus : Learner(d, u) =>
           /\ ~Working(u)
           /\ \A x \in Cpus : Learner(x, u) => x = d
           /\ cpu[d].pc = "luput" => Maplet(tab["underlay"], u, cpu[d].val)
    BY <2>1 DEF MacsInv, LearnInv
  <2>3. \A d \in Cpus \ {c} : Learner(d, u)' <=> Learner(d, u)
    BY LearnersStay
  <2>4. CASE e = c
    BY <1>5, <2>2, <2>3, <2>4
  <2>5. CASE e # c
    <3>1. Learner(e, u) /\ cpu'[e] = cpu[e]
      BY <1>5, <2>3, <2>5
    <3>2. ~Learner(c, u)'
      BY <2>2, <2>5, <3>1
    <3> QED
      BY <2>2, <2>3, <3>1, <3>2
  <2> QED
    BY <2>4, <2>5
<1>6. LearnInv'
  BY <1>2, <1>5 DEF LearnInv, Maplet
<1> QED
  BY <1>3, <1>4, <1>6 DEF MacsInv

\* Two interfaces have different underlay addresses.
LEMMA OneInterface ==
    ASSUME TypeInv, ApartInv, NEW r \in Mine, NEW s \in Mine, UnderlayOf(r) = UnderlayOf(s)
    PROVE  r = s
<1>1. r \in Requests /\ s \in Requests
  BY MineFacts
<1>2. Guest(r) = Guest(s)
  BY <1>1, OperatorAssumption
<1> QED
  BY <1>2 DEF ApartInv, Apart

\* The interface that an update is for.
LEMMA LearnerOf ==
    ASSUME TypeInv, TapInv, WorksInv, NEW c \in Cpus, NEW u, u \notin late, Learner(c, u)
    PROVE  \E r \in Live : /\ UnderlayOf(r) = u /\ Owns(r, cpu[c].dev, cpu[c].meta)
                           /\ \A s \in Mine : UnderlayOf(s) = u => s = r
<1>1. PICK r \in Requests : /\ Owns(r, cpu[c].dev, cpu[c].meta) /\ UnderlayOf(r) = cpu[c].meta.ul
                            /\ r \in Live \/ Marks(r) \subseteq late
  BY LearnerOwner DEF Learner
<1>2. UnderlayOf(r) = u
  BY <1>1 DEF Learner
<1>3. r \in Live /\ r \in Mine
  BY <1>1, <1>2 DEF Marks, Mine
<1>4. ApartInv
  BY DEF WorksInv
<1> QED
  BY <1>1, <1>2, <1>3, <1>4, OneInterface

\* A MAC update that begins.
LEMMA DhcpMacs ==
    ASSUME TypeInv, TapInv, WorksInv, NEW c \in Cpus, NEW dev, NEW mac, DhcpPacket(c, dev, mac),
           NEW u \in Underlays \ late', Learner(c, u)'
    PROVE  ~Working(u) /\ \A e \in Cpus : ~Learner(e, u)
<1>1. PICK s, y, m : s = cpu[c] /\ y = cpu'[c] /\ m = tab["ports"][dev]
  OBVIOUS
<1>2. /\ dev \in DOMAIN tab["ports"] /\ y.meta = m /\ s.pc = "idle"
      /\ late' = IF task.dev = dev \/ Learning(dev)
                   THEN late \cup {dev, y.meta.ul, <<y.meta.vni, y.meta.ip>>} ELSE late
  BY <1>1, DhcpMoves
<1>3. m.ul = u /\ late' = late /\ task.dev # dev /\ ~Learning(dev)
  BY <1>1, <1>2 DEF Learner
<1>4. PICK r \in Requests : Owns(r, dev, m) /\ (Known(r) \/ Dropping("ports", dev))
  BY <1>1, <1>2 DEF TapInv, TapsKnown
<1>5. ~Dropping("ports", dev)
  BY <1>3 DEF TapInv, TodoKnown, Dropping
<1>6. r \in Live /\ r \in Mine /\ r.dev = dev /\ UnderlayOf(r) = u
  <2>1. r.dev = dev /\ UnderlayOf(r) = u
    BY <1>3, <1>4 DEF Owns
  <2>2. r \in Live
    BY <1>3, <1>4, <1>5, <2>1 DEF Known, Marks
  <2> QED
    BY <2>1, <2>2 DEF Mine
<1>7. ~Working(u)
  BY <1>3, <1>6 DEF WorksInv, WorkInv
<1>8. ASSUME NEW e \in Cpus, Learner(e, u) PROVE FALSE
  <2>1. PICK x \in Live : Owns(x, cpu[e].dev, cpu[e].meta) /\ \A q \in Mine : UnderlayOf(q) = u => q = x
    BY <1>3, <1>8, LearnerOf
  <2>2. cpu[e].dev = dev
    BY <1>6, <2>1 DEF Owns
  <2> QED
    BY <1>3, <1>8, <2>2 DEF Learner, Learning
<1> QED
  BY <1>7, <1>8

\* UNDERLAY gets the MAC.
LEMMA UnderlayPutMacs ==
    ASSUME TypeInv, MacsInv, NEW c \in Cpus, Datapath(c), LearnUnderlayPut(c)
    PROVE  MacsInv'
<1>1. PICK s, y, v : s = cpu[c] /\ y = cpu'[c] /\ v = s.meta.ul
  OBVIOUS
<1>2. /\ s.pc = "luput" /\ y.pc = "liget" /\ y.meta = s.meta
      /\ Learn("underlay", v, [s.val EXCEPT !.mac = s.mac])
      /\ late' = late /\ lastMac' = [lastMac EXCEPT ![v] = s.mac]
  BY <1>1, UnderlayPutMoves
<1>3. s \in [pc : {"luput"}, dev : Devices, meta : Meta, mac : Macs, val : UnderlayValues]
  <2>1. s \in CpuState
    BY <1>1 DEF TypeInv, CpuFits
  <2> QED
    BY <1>2, <2>1, CpuKinds
<1>4. v \in Underlays /\ s.mac \in Macs /\ [s.val EXCEPT !.mac = s.mac].mac = s.mac
  BY <1>1, <1>3 DEF Meta, UnderlayValues
<1>5. PICK z : z = [s.val EXCEPT !.mac = s.mac]
  OBVIOUS
<1>6. /\ \A t \in Tables \ {"underlay"} : tab'[t] = tab[t]
      /\ v \in DOMAIN tab["underlay"] => Maplet(tab'["underlay"], v, z)
      /\ \A x : x # v => /\ x \in DOMAIN tab'["underlay"] <=> x \in DOMAIN tab["underlay"]
                         /\ x \in DOMAIN tab["underlay"] => tab'["underlay"][x] = tab["underlay"][x]
                         /\ \A i : Maplet(tab'["underlay"], x, i) <=> Maplet(tab["underlay"], x, i)
  <2>1. "underlay" \in Tables /\ Learn("underlay", v, z)
    BY <1>2, <1>5 DEF Tables, Maps
  <2> QED
    BY <2>1, LearnFacts
<1>7. /\ task' = task /\ Todo' = Todo /\ Mine' = Mine
      /\ \A t, k : Dropping(t, k)' <=> Dropping(t, k)
  BY DatapathQuiet, QuietFacts DEF Mine
<1>8. \A u : /\ Working(u)' <=> Working(u)
             /\ Snapped(u)' <=> Snapped(u)
             /\ EffectiveMac(u)' = EffectiveMac(u)
  BY <1>6, <1>7, ConcernsSame DEF Working, Snapped, EffectiveMac, Tables, Shadows, Maps
<1>9. lastMac \in [Underlays -> Macs]
  BY DEF MacsInv, MacInv
<1>10. /\ lastMac' \in [Underlays -> Macs] /\ lastMac'[v] = s.mac
       /\ \A u \in Underlays : u # v => lastMac'[u] = lastMac[u]
  BY <1>2, <1>4, <1>9
<1>11. v \notin late => /\ v \in DOMAIN tab["underlay"] /\ ~Working(v) /\ ~Dropping("underlay", v)
                        /\ \A e \in Cpus : Learner(e, v) => e = c
  <2> SUFFICES ASSUME v \notin late
               PROVE  /\ v \in DOMAIN tab["underlay"] /\ ~Working(v) /\ ~Dropping("underlay", v)
                      /\ \A e \in Cpus : Learner(e, v) => e = c
    OBVIOUS
  <2>1. Learner(c, v)
    BY <1>1, <1>2 DEF Learner, LearnPcs
  <2>2. /\ ~Working(v)
        /\ \A e \in Cpus : Learner(e, v) => e = c
        /\ Maplet(tab["underlay"], v, cpu[c].val)
    BY <1>1, <1>2, <1>4, <2>1 DEF MacsInv, LearnInv
  <2> QED
    BY <2>2 DEF Maplet, Working, Dropping, Concerns
<1>12. MacInv'
  <2>1. ASSUME NEW u \in Underlays \ late, u # v
        PROVE  /\ u \in DOMAIN tab'["underlay"] => tab'["underlay"][u].mac = lastMac'[u]
               /\ u \notin DOMAIN tab'["underlay"] \/ (Dropping("underlay", u)' /\ Snapped(u)') =>
                     EffectiveMac(u)' = lastMac'[u]
    BY <1>6, <1>7, <1>8, <1>10, <2>1 DEF MacsInv, MacInv
  <2>2. ASSUME v \notin late
        PROVE  /\ v \in DOMAIN tab'["underlay"] /\ tab'["underlay"][v].mac = lastMac'[v]
               /\ ~Dropping("underlay", v)'
    BY <1>4, <1>5, <1>6, <1>7, <1>10, <1>11, <2>2 DEF Maplet
  <2> QED
    BY <1>2, <1>10, <2>1, <2>2 DEF MacInv
<1>13. PutInv'
  <2>1. Mine \subseteq Requests
    BY MineFacts
  <2>2. \A r \in Mine : UnderlayOf(r) \in Underlays
    BY <2>1, RequestFacts
  <2>3. \A w \in Todo : v \in late \/ ~Concerns(w, v)
    BY <1>11 DEF Working
  <2>4. \A w \in Todo : \A r \in Mine :
           lastMac'[UnderlayOf(r)] = lastMac[UnderlayOf(r)] \/ UnderlayOf(r) \in late \/ ~Concerns(w, UnderlayOf(r))
    BY <1>10, <2>2, <2>3
  <2> QED
    BY <1>2, <1>7, <2>4, PutsStay DEF MacsInv, PutInv
<1>14. ASSUME NEW u \in Underlays \ late, NEW e \in Cpus, Learner(e, u)'
       PROVE  /\ ~Working(u)
              /\ \A d \in Cpus : Learner(d, u)' => d = e
              /\ cpu'[e].pc = "luput" => Maplet(tab'["underlay"], u, cpu'[e].val)
  <2>1. \A d \in Cpus : Learner(d, u)' <=> Learner(d, u)
    <3>1. Learner(c, u)' <=> Learner(c, u)
      BY <1>1, <1>2 DEF Learner, LearnPcs
    <3> QED
      BY <3>1, DatapathParts, LearnersStay
  <2>2. /\ ~Working(u)
        /\ \A d \in Cpus : Learner(d, u) => d = e
        /\ cpu[e].pc = "luput" => Maplet(tab["underlay"], u, cpu[e].val)
    BY <1>14, <2>1 DEF MacsInv, LearnInv
  <2>3. CASE e = c
    BY <1>1, <1>2, <2>1, <2>2, <2>3
  <2>4. CASE e # c
    <3>1. cpu'[e] = cpu[e]
      BY <2>4, DatapathParts
    <3>2. u # v
      BY <1>11, <1>14, <2>1, <2>4
    <3> QED
      BY <1>6, <2>1, <2>2, <3>1, <3>2
  <2> QED
    BY <2>3, <2>4
<1>15. LearnInv'
  BY <1>2, <1>8, <1>14 DEF LearnInv, Maplet
<1> QED
  BY <1>12, <1>13, <1>15 DEF MacsInv

\* The datapath.
LEMMA DatapathMacs ==
    ASSUME TypeInv, TapInv, WorksInv, MacsInv, NEW c \in Cpus, Datapath(c)
    PROVE  MacsInv'
<1>1. PICK s, y : s = cpu[c] /\ y = cpu'[c]
  OBVIOUS
<1>2. /\ task' = task /\ Mine' = Mine /\ late \subseteq late'
      /\ \A e \in Cpus \ {c} : cpu'[e] = cpu[e]
  BY DatapathQuiet, QuietFacts, DatapathHistory, DatapathParts DEF Mine
<1>3. {"ports", "ifaces", "underlay", "learned"} \subseteq Tables
  BY DEF Tables, Shadows, Maps
<1>4. ASSUME UNCHANGED <<tab, late, lastMac>>, y.pc \notin LearnPcs PROVE MacsInv'
  <2>1. \A u : ~Learner(c, u)'
    BY <1>1, <1>4 DEF Learner, LearnPcs
  <2> QED
    BY <1>2, <1>4, <2>1, QuietMacs
<1>5. ASSUME NEW dev, NEW mac, DhcpPacket(c, dev, mac) PROVE MacsInv'
  <2>1. UNCHANGED <<tab, lastMac>> /\ y.pc = "lport"
    BY <1>1, <1>5, DhcpMoves
  <2>2. \A u \in Underlays \ late' : Learner(c, u)' => ~Working(u) /\ \A e \in Cpus : ~Learner(e, u)
    BY <1>5, DhcpMacs
  <2> QED
    BY <1>1, <1>2, <2>1, <2>2, QuietMacs
<1>6. ASSUME LearnPort(c) PROVE MacsInv'
  <2>1. /\ s.pc = "lport" /\ y.pc = "luget" /\ y.meta = s.meta
        /\ Learn("ports", s.dev, [s.meta EXCEPT !.mac = s.mac]) /\ UNCHANGED <<late, lastMac>>
    BY <1>1, <1>6, PortMoves
  <2>2. tab'["underlay"] = tab["underlay"] /\ tab'["learned"] = tab["learned"]
    BY <1>3, <2>1, LearnFacts
  <2>3. \A u : Learner(c, u)' => Learner(c, u) /\ cpu'[c].pc # "luput"
    BY <1>1, <2>1 DEF Learner, LearnPcs
  <2> QED
    BY <1>2, <2>1, <2>2, <2>3, QuietMacs
<1>7. ASSUME LearnUnderlayGet(c) PROVE MacsInv'
  <2>1. /\ s.pc = "luget" /\ y.meta = s.meta /\ UNCHANGED <<tab, late, lastMac>>
        /\ \/ y.pc = "liget"
           \/ y.pc = "luput" /\ Maplet(tab["underlay"], s.meta.ul, y.val)
    BY <1>1, <1>7, UnderlayGetMoves
  <2>2. \A u : Learner(c, u)' => /\ Learner(c, u)
                                 /\ cpu'[c].pc = "luput" => Maplet(tab["underlay"], u, cpu'[c].val)
    BY <1>1, <2>1 DEF Learner, LearnPcs
  <2> QED
    BY <1>2, <2>1, <2>2, QuietMacs
<1>8. ASSUME LearnIfaceGet(c) PROVE MacsInv'
  <2>1. /\ s.pc = "liget" /\ UNCHANGED <<tab, late, lastMac>>
        /\ y.pc = "idle" \/ (y.pc = "liput" /\ y.meta = s.meta)
    <3>1. /\ s.pc = "liget" /\ UNCHANGED <<tab, late, lastMac>>
          /\ \/ y = IdleCpu /\ <<s.meta.vni, s.meta.ip>> \notin DOMAIN tab["ifaces"]
             \/ /\ y.pc = "liput" /\ y.dev = s.dev /\ y.meta = s.meta /\ y.mac = s.mac
                /\ Maplet(tab["ifaces"], <<s.meta.vni, s.meta.ip>>, y.val)
      BY <1>1, <1>8, IfaceGetMoves
    <3>2. IdleCpu.pc = "idle"
      BY DEF IdleCpu
    <3> QED
      BY <3>1, <3>2
  <2>2. \A u : Learner(c, u)' => Learner(c, u) /\ cpu'[c].pc # "luput"
    BY <1>1, <2>1 DEF Learner, LearnPcs
  <2> QED
    BY <1>2, <2>1, <2>2, QuietMacs
<1>9. ASSUME LearnIfacePut(c) PROVE MacsInv'
  <2>1. /\ y = IdleCpu /\ UNCHANGED <<late, lastMac>>
        /\ Learn("ifaces", <<s.meta.vni, s.meta.ip>>, [s.val EXCEPT !.mac = s.mac])
    BY <1>1, <1>9, IfacePutMoves
  <2>2. tab'["underlay"] = tab["underlay"] /\ tab'["learned"] = tab["learned"]
    BY <1>3, <2>1, LearnFacts
  <2>3. \A u : ~Learner(c, u)'
    BY <1>1, <2>1 DEF Learner, LearnPcs, IdleCpu
  <2> QED
    BY <1>2, <2>1, <2>2, <2>3, QuietMacs
<1> QED
  BY <1>1, <1>4, <1>5, <1>6, <1>7, <1>8, <1>9, DatapathParts, UnderlayPutMacs

\* MacsInv is inductive.
LEMMA MacsInductive ==
    /\ Init => MacsInv
    /\ TypeInv /\ TapInv /\ OneKind /\ WorksInv /\ MacsInv /\ [Next]_vars => MacsInv'
<1>1. ASSUME Init PROVE MacsInv
  <2>1. /\ Free /\ tab["underlay"] = << >> /\ tab["learned"] = << >>
        /\ lastMac = [u \in Underlays |-> HostMac] /\ \A c \in Cpus : cpu[c].pc = "idle"
    BY <1>1 DEF Init, Free, Tables, Shadows, Maps, IdleCpu
  <2>2. Todo = {}
    BY <2>1, FreeFacts
  <2>3. HostMac \in Macs
    BY DEF Macs
  <2>4. MacInv
    BY <2>1, <2>3 DEF MacInv, EffectiveMac
  <2> QED
    BY <2>1, <2>2, <2>4 DEF MacsInv, PutInv, LearnInv, Learner, LearnPcs
<1>2. ASSUME TypeInv, TapInv, OneKind, WorksInv, MacsInv, [Next]_vars PROVE MacsInv'
  <2>1. CASE Write
    BY <1>2, <2>1, PutMacs, FailMacs, DelMacs, SnapMacs DEF Write
  <2>2. CASE Call \/ Resume
    <3>1. TypeInv'
      BY <1>2, TypeInductive
    <3> QED
      BY <1>2, <2>2, <3>1, OtherCall, CreateMacs, DetachMacs, OtherMacs
  <2>3. CASE \E c \in Cpus : Datapath(c)
    BY <1>2, <2>3, DatapathMacs
  <2>4. CASE UNCHANGED vars
    <3>1. /\ UNCHANGED <<tab, task, cpu, late, lastMac>>
      BY <2>4 DEF vars, history
    <3>2. Todo' = Todo /\ Mine' = Mine /\ \A t, k : Dropping(t, k)' <=> Dropping(t, k)
      BY <1>2, <2>4, QuietFacts DEF Mine
    <3>3. MacInv'
      BY <1>2, <3>1, <3>2 DEF MacsInv, MacInv, EffectiveMac, Snapped
    <3>4. PutInv'
      BY <1>2, <3>1, <3>2, PutsStay DEF MacsInv, PutInv
    <3>5. \A u : Working(u)' <=> Working(u)
      BY <3>2, ConcernsSame DEF Working
    <3>6. LearnInv'
      BY <1>2, <3>1, <3>5, LearnersStay DEF MacsInv, LearnInv, Maplet
    <3> QED
      BY <3>3, <3>4, <3>6 DEF MacsInv
  <2> QED
    BY <1>2, <2>1, <2>2, <2>3, <2>4 DEF Next
<1> QED
  BY <1>1, <1>2

(***************************************************************************)
(* Interfaces are programmed: the entries of the maps.                     *)
(***************************************************************************)

\* What the definitions say after a step.
LEMMA HasAfter ==
    ASSUME NEW r, NEW u, u = UnderlayOf(r)
    PROVE  /\ HasPort(r)' <=>
                /\ \A c \in Cpus : Past(c, u)' => Maplet(tab'["ports"], r.dev, PortMeta(r, cpu'[c].mac))
                /\ (\A c \in Cpus : ~Past(c, u)') => Maplet(tab'["ports"], r.dev, PortMeta(r, lastMac'[u]))
           /\ HasIface(r)' <=>
                /\ \E mac \in Macs : Maplet(tab'["ifaces"], Guest(r), IfaceValue(r, mac))
                /\ (\A c \in Cpus : ~Late(c, u)') => Maplet(tab'["ifaces"], Guest(r), IfaceValue(r, lastMac'[u]))
                /\ \A c \in Cpus : Late(c, u)' =>
                      /\ lastMac'[u] = cpu'[c].mac
                      /\ cpu'[c].pc = "liput" => Maplet(tab'["ifaces"], Guest(r), cpu'[c].val)
           /\ HasUnderlay(r)' <=> Maplet(tab'["underlay"], u, UnderlayValue(r, lastMac'[u]))
           /\ \A t, k, v : Comes(t, k, v)' <=> Put(t, k, v) \in Todo'
           /\ Excused(r)' <=> r.dev \in shared' \/ Guest(r) \in broken' \/ Marks(r) \cap late' # {}
           /\ Programmed(r)' <=>
                /\ Put("ports", r.dev, PortMeta(r, lastMac'[u])) \in Todo' \/ HasPort(r)'
                /\ Put("ifaces", Guest(r), IfaceValue(r, lastMac'[u])) \in Todo' \/ HasIface(r)'
                /\ Put("underlay", u, UnderlayValue(r, lastMac'[u])) \in Todo' \/ HasUnderlay(r)'
                /\ \A k \in SelfRoutes(r) : Put("routes", k, u) \in Todo' \/ Maplet(tab'["routes"], k, u)
<1>1. /\ UnderlayOf(r)' = u /\ Guest(r)' = Guest(r) /\ SelfRoutes(r)' = SelfRoutes(r) /\ Marks(r)' = Marks(r)
  BY ConcernsSame
<1>2. HasPort(r)' <=>
        /\ \A c \in Cpus : Past(c, u)' => Maplet(tab'["ports"], r.dev, PortMeta(r, cpu'[c].mac))
        /\ (\A c \in Cpus : ~Past(c, u)') => Maplet(tab'["ports"], r.dev, PortMeta(r, lastMac'[u]))
  BY <1>1 DEF HasPort, PortMeta, Past, Learner, Maplet
<1>3. HasIface(r)' <=>
        /\ \E mac \in Macs : Maplet(tab'["ifaces"], Guest(r), IfaceValue(r, mac))
        /\ (\A c \in Cpus : ~Late(c, u)') => Maplet(tab'["ifaces"], Guest(r), IfaceValue(r, lastMac'[u]))
        /\ \A c \in Cpus : Late(c, u)' =>
              /\ lastMac'[u] = cpu'[c].mac
              /\ cpu'[c].pc = "liput" => Maplet(tab'["ifaces"], Guest(r), cpu'[c].val)
  BY <1>1 DEF HasIface, IfaceValue, Late, Learner, Maplet
<1>4. HasUnderlay(r)' <=> Maplet(tab'["underlay"], u, UnderlayValue(r, lastMac'[u]))
  BY <1>1 DEF HasUnderlay, UnderlayValue, Maplet
<1>5. \A t, k, v : Comes(t, k, v)' <=> Put(t, k, v) \in Todo'
  BY DEF Comes, Put
<1>6. Excused(r)' <=> r.dev \in shared' \/ Guest(r) \in broken' \/ Marks(r) \cap late' # {}
  BY <1>1 DEF Excused
<1>7. Programmed(r)' <=>
        /\ Put("ports", r.dev, PortMeta(r, lastMac'[u])) \in Todo' \/ HasPort(r)'
        /\ Put("ifaces", Guest(r), IfaceValue(r, lastMac'[u])) \in Todo' \/ HasIface(r)'
        /\ Put("underlay", u, UnderlayValue(r, lastMac'[u])) \in Todo' \/ HasUnderlay(r)'
        /\ \A k \in SelfRoutes(r) : Put("routes", k, u) \in Todo' \/ Maplet(tab'["routes"], k, u)
  BY <1>1 DEF Programmed, Comes, Put, PortMeta, IfaceValue, UnderlayValue, Maplet
<1> QED
  BY <1>2, <1>3, <1>4, <1>5, <1>6, <1>7

\* An interface keeps what its maps keep while no update of it goes on.
LEMMA HasStays ==
    ASSUME NEW r, NEW u, u = UnderlayOf(r), lastMac'[u] = lastMac[u],
           \A c \in Cpus : Learner(c, u) \/ Learner(c, u)' => cpu'[c] = cpu[c]
    PROVE  /\ (\A x : Maplet(tab["ports"], r.dev, x) => Maplet(tab'["ports"], r.dev, x))
                 /\ HasPort(r) => HasPort(r)'
           /\ (\A x : Maplet(tab["ifaces"], Guest(r), x) => Maplet(tab'["ifaces"], Guest(r), x))
                 /\ HasIface(r) => HasIface(r)'
           /\ (\A x : Maplet(tab["underlay"], u, x) => Maplet(tab'["underlay"], u, x))
                 /\ HasUnderlay(r) => HasUnderlay(r)'
<1>1. \A c \in Cpus : /\ Past(c, u)' <=> Past(c, u)
                      /\ Late(c, u)' <=> Late(c, u)
                      /\ Past(c, u) \/ Late(c, u) => cpu'[c] = cpu[c]
  <2> SUFFICES ASSUME NEW c \in Cpus
               PROVE  /\ Past(c, u)' <=> Past(c, u)
                      /\ Late(c, u)' <=> Late(c, u)
                      /\ Past(c, u) \/ Late(c, u) => cpu'[c] = cpu[c]
    OBVIOUS
  <2>1. CASE cpu'[c] = cpu[c]
    BY <2>1, LearnersStay
  <2>2. CASE ~Learner(c, u) /\ ~Learner(c, u)'
    BY <2>2 DEF Past, Late
  <2> QED
    BY <2>1, <2>2
<1>2. ASSUME HasPort(r), \A x : Maplet(tab["ports"], r.dev, x) => Maplet(tab'["ports"], r.dev, x)
      PROVE  HasPort(r)'
  <2>1. /\ \A c \in Cpus : Past(c, u) => Maplet(tab["ports"], r.dev, PortMeta(r, cpu[c].mac))
        /\ (\A c \in Cpus : ~Past(c, u)) => Maplet(tab["ports"], r.dev, PortMeta(r, lastMac[u]))
    BY <1>2 DEF HasPort
  <2>2. /\ \A c \in Cpus : Past(c, u)' => Maplet(tab'["ports"], r.dev, PortMeta(r, cpu'[c].mac))
        /\ (\A c \in Cpus : ~Past(c, u)') => Maplet(tab'["ports"], r.dev, PortMeta(r, lastMac'[u]))
    BY <1>1, <1>2, <2>1
  <2> QED
    BY <2>2, HasAfter
<1>3. ASSUME HasIface(r), \A x : Maplet(tab["ifaces"], Guest(r), x) => Maplet(tab'["ifaces"], Guest(r), x)
      PROVE  HasIface(r)'
  <2>1. /\ \E mac \in Macs : Maplet(tab["ifaces"], Guest(r), IfaceValue(r, mac))
        /\ (\A c \in Cpus : ~Late(c, u)) => Maplet(tab["ifaces"], Guest(r), IfaceValue(r, lastMac[u]))
        /\ \A c \in Cpus : Late(c, u) =>
              /\ lastMac[u] = cpu[c].mac
              /\ cpu[c].pc = "liput" => Maplet(tab["ifaces"], Guest(r), cpu[c].val)
    BY <1>3 DEF HasIface
  <2>2. /\ \E mac \in Macs : Maplet(tab'["ifaces"], Guest(r), IfaceValue(r, mac))
        /\ (\A c \in Cpus : ~Late(c, u)') => Maplet(tab'["ifaces"], Guest(r), IfaceValue(r, lastMac'[u]))
        /\ \A c \in Cpus : Late(c, u)' =>
              /\ lastMac'[u] = cpu'[c].mac
              /\ cpu'[c].pc = "liput" => Maplet(tab'["ifaces"], Guest(r), cpu'[c].val)
    BY <1>1, <1>3, <2>1
  <2> QED
    BY <2>2, HasAfter
<1>4. ASSUME HasUnderlay(r), \A x : Maplet(tab["underlay"], u, x) => Maplet(tab'["underlay"], u, x)
      PROVE  HasUnderlay(r)'
  <2>1. Maplet(tab["underlay"], u, UnderlayValue(r, lastMac[u]))
    BY <1>4 DEF HasUnderlay
  <2> QED
    BY <1>4, <2>1, HasAfter
<1> QED
  BY <1>2, <1>3, <1>4

\* Entries that are there stay, entries to come stay to come or come.
LEMMA ProgrammedStays ==
    ASSUME NEW r \in Requests, NEW u, u = UnderlayOf(r), lastMac'[u] = lastMac[u], Programmed(r),
           \A c \in Cpus : Learner(c, u) \/ Learner(c, u)' => cpu'[c] = cpu[c],
           \A x : Maplet(tab["ports"], r.dev, x) => Maplet(tab'["ports"], r.dev, x),
           \A x : Maplet(tab["ifaces"], Guest(r), x) => Maplet(tab'["ifaces"], Guest(r), x),
           \A x : Maplet(tab["underlay"], u, x) => Maplet(tab'["underlay"], u, x),
           \A k \in SelfRoutes(r) : \A x : Maplet(tab["routes"], k, x) => Maplet(tab'["routes"], k, x),
           \A w \in Todo : Concerns(w, u) => w \in Todo'
    PROVE  Programmed(r)'
<1>1. /\ HasPort(r) => HasPort(r)'
      /\ HasIface(r) => HasIface(r)'
      /\ HasUnderlay(r) => HasUnderlay(r)'
  BY HasStays
<1>2. ASSUME NEW t, NEW k, NEW v, Comes(t, k, v), Concerns(Put(t, k, v), u) PROVE Put(t, k, v) \in Todo'
  BY <1>2 DEF Comes
<1>3. PICK m, p, i, x : m = lastMac[u] /\ p = PortMeta(r, m) /\ i = IfaceValue(r, m) /\ x = UnderlayValue(r, m)
  OBVIOUS
<1>4. /\ Comes("ports", r.dev, p) \/ HasPort(r)
      /\ Comes("ifaces", Guest(r), i) \/ HasIface(r)
      /\ Comes("underlay", u, x) \/ HasUnderlay(r)
      /\ \A k \in SelfRoutes(r) : Comes("routes", k, u) \/ Maplet(tab["routes"], k, u)
  BY <1>3 DEF Programmed
<1>5. /\ Concerns(Put("ports", r.dev, p), u) /\ Concerns(Put("ifaces", Guest(r), i), u)
      /\ Concerns(Put("underlay", u, x), u)
  <2>1. p.ul = u /\ i.ul = u
    BY <1>3 DEF PortMeta, IfaceValue
  <2> QED
    BY <2>1 DEF Concerns, Put
<1>6. ASSUME NEW k \in SelfRoutes(r), Comes("routes", k, u) PROVE Put("routes", k, u) \in Todo'
  <2>1. k[2] \notin Aliases
    BY OperatorAssumption DEF SelfRoutes
  <2>2. Concerns(Put("routes", k, u), u)
    BY <2>1 DEF Concerns, Put
  <2> QED
    BY <1>2, <1>6, <2>2
<1> QED
  BY <1>1, <1>2, <1>3, <1>4, <1>5, <1>6, HasAfter

\* What is said of an interface from now on.
LEMMA ExcusedStays ==
    ASSUME NEW r, shared \subseteq shared', broken \subseteq broken', late \subseteq late'
    PROVE  Excused(r) => Excused(r)'
  BY HasAfter DEF Excused

\* While an operation works on the interface no update of it is under way.
LEMMA WorkedOn ==
    ASSUME TypeInv, MacsInv, NEW r \in Requests, ~Excused(r), NEW w \in Todo, Concerns(w, UnderlayOf(r))
    PROVE  \A c \in Cpus : ~Learner(c, UnderlayOf(r))
<1>1. UnderlayOf(r) \in Underlays \ late
  BY RequestFacts DEF Excused, Marks
<1> QED
  BY <1>1 DEF MacsInv, LearnInv, Working

\* What is inserted at the keys of an interface is what it is to have.
LEMMA PutFor ==
    ASSUME TypeInv, WorksInv, MacsInv, NEW w \in Todo, w.op = "put",
           NEW r \in Mine, ~Excused(r), NEW u, u = UnderlayOf(r), NEW m, m = lastMac[u]
    PROVE  /\ w.tab = "ports" /\ w.key = r.dev => w.val = PortMeta(r, m) /\ Concerns(w, u)
           /\ w.tab = "ifaces" /\ w.key = Guest(r) => w.val = IfaceValue(r, m) /\ Concerns(w, u)
           /\ w.tab = "underlay" /\ w.key = u => w.val = UnderlayValue(r, m) /\ Concerns(w, u)
           /\ \A k \in SelfRoutes(r) : w.tab = "routes" /\ w.key = k => w.val = u /\ Concerns(w, u)
<1>1. r \in Requests /\ PutOwned(w) /\ ApartInv
  BY MineFacts DEF MacsInv, PutInv, WorksInv
<1>2. r.dev \notin shared /\ u \notin late
  BY DEF Excused, Marks
<1>3. ASSUME w.tab \in {"ports", "ifaces", "underlay"}
      PROVE  \E q \in Mine, mac \in Macs :
                TapWrite(w, q, mac) /\ (UnderlayOf(q) \in late \/ mac = lastMac[UnderlayOf(q)])
  BY <1>1, <1>3 DEF PutOwned
<1>4. ASSUME w.tab \in {"ports", "ifaces", "underlay"},
             \/ w.tab = "ports" /\ w.key = r.dev
             \/ w.tab = "ifaces" /\ w.key = Guest(r)
             \/ w.tab = "underlay" /\ w.key = u
      PROVE  TapWrite(w, r, m)
  <2>1. PICK q \in Mine, mac \in Macs :
           TapWrite(w, q, mac) /\ (UnderlayOf(q) \in late \/ mac = lastMac[UnderlayOf(q)])
    BY <1>3, <1>4
  <2>2. q.dev = r.dev \/ Guest(q) = Guest(r) \/ UnderlayOf(q) = u
    BY <1>4, <2>1 DEF TapWrite, Put
  <2>3. q = r
    <3>1. UnderlayOf(q) = u => q = r
      BY <1>1, OneInterface
    <3> QED
      BY <1>1, <1>2, <2>2, <3>1 DEF ApartInv, Apart
  <2> QED
    BY <1>2, <2>1, <2>3
<1>5. ASSUME NEW k \in SelfRoutes(r), w.tab = "routes", w.key = k PROVE w.val = u /\ Concerns(w, u)
  <2>1. k[2] \notin Routes \cup Aliases
    BY <1>1, OperatorAssumption DEF SelfRoutes
  <2>2. PICK q \in Mine : w.key \in SelfRoutes(q) /\ w.val = UnderlayOf(q)
    BY <1>1, <1>5, <2>1 DEF PutOwned
  <2>3. q = r
    BY <1>1, <1>5, <2>2 DEF ApartInv, Apart
  <2> QED
    BY <1>5, <2>1, <2>2, <2>3 DEF Concerns
<1>6. PICK p, i, x : p = PortMeta(r, m) /\ i = IfaceValue(r, m) /\ x = UnderlayValue(r, m)
  OBVIOUS
<1>7. p.ul = u /\ i.ul = u
  BY <1>6 DEF PortMeta, IfaceValue
<1>8. TapWrite(w, r, m) => /\ w.tab = "ports" => w.val = p
                           /\ w.tab = "ifaces" => w.val = i
                           /\ w.tab = "underlay" => w.val = x /\ w.key = u
  BY <1>6 DEF TapWrite, Put
<1>9. ASSUME w.tab = "ports", w.key = r.dev PROVE w.val = p /\ Concerns(w, u)
  BY <1>4, <1>7, <1>8, <1>9 DEF Concerns
<1>10. ASSUME w.tab = "ifaces", w.key = Guest(r) PROVE w.val = i /\ Concerns(w, u)
  BY <1>4, <1>7, <1>8, <1>10 DEF Concerns
<1>11. ASSUME w.tab = "underlay", w.key = u PROVE w.val = x /\ Concerns(w, u)
  BY <1>4, <1>7, <1>8, <1>11 DEF Concerns
<1> QED
  BY <1>5, <1>6, <1>9, <1>10, <1>11

\* What an insert does for an entry.
LEMMA PutEntry ==
    ASSUME TypeInv, WritePut, NEW w, w = Head(task.ops), NEW t \in Tables, NEW k, NEW v,
           w.tab = t /\ w.key = k => w.val = v
    PROVE  \/ w.tab = t /\ w.key = k /\ Maplet(tab'[t], k, v)
           \/ /\ Put(t, k, v) \in Todo => Put(t, k, v) \in Todo'
              /\ \A x : Maplet(tab[t], k, x) => Maplet(tab'[t], k, x)
<1>1. /\ w \in Todo /\ Todo = {w} \cup Todo'
      /\ DOMAIN tab'[w.tab] = DOMAIN tab[w.tab] \cup {w.key}
      /\ \A x \in DOMAIN tab[w.tab] \cup {w.key} :
            tab'[w.tab][x] = IF x = w.key THEN w.val ELSE tab[w.tab][x]
      /\ \A s \in Tables \ {w.tab} : tab'[s] = tab[s]
  BY PutEffect
<1>2. CASE w.tab = t /\ w.key = k
  BY <1>1, <1>2 DEF Maplet
<1>3. CASE ~(w.tab = t /\ w.key = k)
  <2>1. w # Put(t, k, v)
    BY <1>3 DEF Put
  <2>2. \A x : Maplet(tab[t], k, x) => Maplet(tab'[t], k, x)
    <3>1. CASE w.tab = t
      BY <1>1, <1>3, <3>1 DEF Maplet
    <3>2. CASE w.tab # t
      BY <1>1, <3>2
    <3> QED
      BY <3>1, <3>2
  <2> QED
    BY <1>1, <2>1, <2>2
<1> QED
  BY <1>2, <1>3

\* An insert.
LEMMA PutProgs ==
    ASSUME TypeInv, TapInv, OneKind, WorksInv, MacsInv, ProgInv, WritePut
    PROVE  ProgInv'
<1> SUFFICES ASSUME NEW r \in Mine', ~Excused(r)'
             PROVE  Programmed(r)'
  BY DEF ProgInv
<1>1. UNCHANGED <<cpu, late, shared, broken, lastMac>>
  BY DEF WritePut, history
<1>2. r \in Mine /\ r \in Requests
  <2>1. Write
    BY DEF Write
  <2> QED
    BY <2>1, WriteMine, MineFacts
<1>3. ~Excused(r) /\ Programmed(r)
  BY <1>1, <1>2, ExcusedStays DEF ProgInv
<1>4. PICK w, u, m : w = Head(task.ops) /\ u = UnderlayOf(r) /\ m = lastMac[u]
  OBVIOUS
<1>5. PICK g, p, i, x : g = Guest(r) /\ p = PortMeta(r, m) /\ i = IfaceValue(r, m) /\ x = UnderlayValue(r, m)
  OBVIOUS
<1>6. w \in Todo /\ w.op = "put"
  BY <1>4, PutEffect
<1>7. /\ w.tab = "ports" /\ w.key = r.dev => w.val = p /\ Concerns(w, u)
      /\ w.tab = "ifaces" /\ w.key = g => w.val = i /\ Concerns(w, u)
      /\ w.tab = "underlay" /\ w.key = u => w.val = x /\ Concerns(w, u)
      /\ \A k \in SelfRoutes(r) : w.tab = "routes" /\ w.key = k => w.val = u /\ Concerns(w, u)
  BY <1>2, <1>3, <1>4, <1>5, <1>6, PutFor
<1>8. /\ Comes("ports", r.dev, p) \/ HasPort(r)
      /\ Comes("ifaces", g, i) \/ HasIface(r)
      /\ Comes("underlay", u, x) \/ HasUnderlay(r)
      /\ \A k \in SelfRoutes(r) : Comes("routes", k, u) \/ Maplet(tab["routes"], k, u)
  BY <1>3, <1>4, <1>5 DEF Programmed
<1>9. {"ports", "ifaces", "underlay", "routes"} \subseteq Tables
  BY DEF Tables, Maps
<1>10. Concerns(w, u) => \A c \in Cpus : ~Learner(c, u)' /\ ~Past(c, u)' /\ ~Late(c, u)'
  <2>1. Concerns(w, u) => \A c \in Cpus : ~Learner(c, u)
    BY <1>2, <1>3, <1>4, <1>6, WorkedOn
  <2> QED
    BY <1>1, <2>1, LearnersStay DEF Past, Late
<1>11. \A c \in Cpus : Learner(c, u) \/ Learner(c, u)' => cpu'[c] = cpu[c]
  BY <1>1
<1>12. Put("ports", r.dev, p) \in Todo' \/ HasPort(r)'
  <2>1. CASE w.tab = "ports" /\ w.key = r.dev /\ Maplet(tab'["ports"], r.dev, p)
    BY <1>1, <1>4, <1>5, <1>7, <1>10, <2>1, HasAfter
  <2>2. CASE /\ Put("ports", r.dev, p) \in Todo => Put("ports", r.dev, p) \in Todo'
             /\ \A z : Maplet(tab["ports"], r.dev, z) => Maplet(tab'["ports"], r.dev, z)
    BY <1>1, <1>4, <1>8, <1>11, <2>2, HasStays DEF Comes
  <2> QED
    BY <1>4, <1>7, <1>9, <2>1, <2>2, PutEntry
<1>13. Put("ifaces", g, i) \in Todo' \/ HasIface(r)'
  <2>1. CASE w.tab = "ifaces" /\ w.key = g /\ Maplet(tab'["ifaces"], g, i)
    <3>1. u \in Underlays /\ lastMac \in [Underlays -> Macs]
      BY <1>2, <1>4, RequestFacts DEF MacsInv, MacInv
    <3>2. m \in Macs
      BY <1>4, <3>1
    <3>3. \A c \in Cpus : ~Late(c, u)'
      BY <1>7, <1>10, <2>1
    <3>4. Maplet(tab'["ifaces"], Guest(r), IfaceValue(r, m)) /\ lastMac'[u] = m
      BY <1>1, <1>4, <1>5, <2>1
    <3> QED
      BY <1>4, <3>2, <3>3, <3>4, HasAfter
  <2>2. CASE /\ Put("ifaces", g, i) \in Todo => Put("ifaces", g, i) \in Todo'
             /\ \A z : Maplet(tab["ifaces"], g, z) => Maplet(tab'["ifaces"], g, z)
    BY <1>1, <1>4, <1>5, <1>8, <1>11, <2>2, HasStays DEF Comes
  <2> QED
    BY <1>4, <1>7, <1>9, <2>1, <2>2, PutEntry
<1>14. Put("underlay", u, x) \in Todo' \/ HasUnderlay(r)'
  <2>1. CASE w.tab = "underlay" /\ w.key = u /\ Maplet(tab'["underlay"], u, x)
    BY <1>1, <1>4, <1>5, <2>1, HasAfter
  <2>2. CASE /\ Put("underlay", u, x) \in Todo => Put("underlay", u, x) \in Todo'
             /\ \A z : Maplet(tab["underlay"], u, z) => Maplet(tab'["underlay"], u, z)
    BY <1>1, <1>4, <1>8, <1>11, <2>2, HasStays DEF Comes
  <2> QED
    BY <1>4, <1>7, <1>9, <2>1, <2>2, PutEntry
<1>15. ASSUME NEW k \in SelfRoutes(r)
       PROVE  Put("routes", k, u) \in Todo' \/ Maplet(tab'["routes"], k, u)
  <2>1. \/ Maplet(tab'["routes"], k, u)
        \/ /\ Put("routes", k, u) \in Todo => Put("routes", k, u) \in Todo'
           /\ \A z : Maplet(tab["routes"], k, z) => Maplet(tab'["routes"], k, z)
    BY <1>4, <1>7, <1>9, PutEntry
  <2>2. Comes("routes", k, u) \/ Maplet(tab["routes"], k, u)
    BY <1>8
  <2> QED
    BY <2>1, <2>2 DEF Comes
<1> QED
  BY <1>1, <1>4, <1>5, <1>12, <1>13, <1>14, <1>15, HasAfter

\* An insert that fails.
LEMMA FailProgs ==
    ASSUME TypeInv, TapInv, OneKind, WorksInv, ProgInv, WriteFails
    PROVE  ProgInv'
<1> SUFFICES ASSUME NEW r \in Mine', ~Excused(r)'
             PROVE  Programmed(r)'
  BY DEF ProgInv
<1>1. UNCHANGED <<tab, cpu, late, shared, lastMac>> /\ broken' = broken \cup {task.guest}
  BY DEF WriteFails
<1>2. r \in Mine /\ r \in Requests
  <2>1. Write
    BY DEF Write
  <2> QED
    BY <2>1, WriteMine, MineFacts
<1>3. ~Excused(r) /\ Programmed(r) /\ Guest(r) # task.guest
  <2>1. ~Excused(r)
    BY <1>1, ExcusedStays
  <2>2. Guest(r) \notin broken'
    BY HasAfter
  <2> QED
    BY <1>1, <1>2, <2>1, <2>2 DEF ProgInv
<1>4. PICK u : u = UnderlayOf(r)
  OBVIOUS
<1>5. \A w \in Todo : ~Concerns(w, u)
  <2>1. u \in Underlays
    BY <1>2, <1>4, RequestFacts
  <2> QED
    BY <1>2, <1>3, <1>4, <2>1 DEF WorksInv, WorkInv, Working
<1> QED
  BY <1>1, <1>2, <1>3, <1>4, <1>5, ProgrammedStays

\* A removal, and the copy of a MAC.
LEMMA DelProgs ==
    ASSUME TypeInv, TapInv, OneKind, WorksInv, ProgInv, WriteDel \/ WriteSnap
    PROVE  ProgInv'
<1> SUFFICES ASSUME NEW r \in Mine', ~Excused(r)'
             PROVE  Programmed(r)'
  BY DEF ProgInv
<1>1. UNCHANGED <<cpu, late, shared, broken, lastMac>>
  BY DEF WriteDel, WriteSnap, history
<1>2. r \in Live /\ r \in Mine /\ r \in Requests
  <2>1. Write
    BY DEF Write
  <2> QED
    BY <2>1, WriteMine, MineFacts
<1>3. ~Excused(r) /\ Programmed(r)
  BY <1>1, <1>2, ExcusedStays DEF ProgInv
<1>4. PICK u, g : u = UnderlayOf(r) /\ g = Guest(r)
  OBVIOUS
<1>5. /\ ~Dropping("ports", r.dev) /\ ~Dropping("ifaces", g) /\ ~Dropping("underlay", u)
      /\ \A k \in SelfRoutes(r) : ~Dropping("routes", k)
  BY <1>2, <1>3, <1>4 DEF WorksInv, StayInv, Excused
<1>6. ASSUME NEW t \in {"ports", "ifaces", "underlay", "routes"}, NEW k, ~Dropping(t, k)
      PROVE  \A x : Maplet(tab[t], k, x) => Maplet(tab'[t], k, x)
  <2>1. t \in Tables \ {"learned"}
    BY DEF Tables, Maps
  <2>2. CASE WriteSnap
    BY <2>1, <2>2, SnapEffect
  <2>3. CASE WriteDel
    <3>1. /\ Head(task.ops) \in Todo /\ Head(task.ops).op = "del"
          /\ \A x \in DOMAIN tab'[t] : tab'[t][x] = tab[t][x]
      BY <2>1, <2>3, DelEffect
    <3>2. k \in DOMAIN tab[t] => k \in DOMAIN tab'[t]
      BY <1>6, <2>1, <2>3, <3>1, DelHead DEF Dropping
    <3> QED
      BY <3>1, <3>2 DEF Maplet
  <2> QED
    BY <2>2, <2>3
<1>7. \A w \in Todo : w.op # "put"
  BY DelKind
<1>8. \A t, k, v : ~Comes(t, k, v)
  BY <1>7 DEF Comes, Put
<1>9. /\ HasPort(r) /\ HasIface(r) /\ HasUnderlay(r)
      /\ \A k \in SelfRoutes(r) : Maplet(tab["routes"], k, u)
  BY <1>3, <1>4, <1>8 DEF Programmed
<1>10. /\ \A x : Maplet(tab["ports"], r.dev, x) => Maplet(tab'["ports"], r.dev, x)
       /\ \A x : Maplet(tab["ifaces"], g, x) => Maplet(tab'["ifaces"], g, x)
       /\ \A x : Maplet(tab["underlay"], u, x) => Maplet(tab'["underlay"], u, x)
       /\ \A k \in SelfRoutes(r) : Maplet(tab["routes"], k, u) => Maplet(tab'["routes"], k, u)
  BY <1>5, <1>6
<1>11. HasPort(r)' /\ HasIface(r)' /\ HasUnderlay(r)'
  BY <1>1, <1>4, <1>9, <1>10, HasStays
<1> QED
  BY <1>4, <1>9, <1>10, <1>11, HasAfter

\* A call that comes finds every interface that is to stay programmed, and
\* leaves it so.
LEMMA CallProgs ==
    ASSUME TypeInv, ProgInv, Free, UNCHANGED <<tab, lastMac>>,
           shared \subseteq shared', broken \subseteq broken', late \subseteq late',
           \A c \in Cpus : cpu[c].pc \in LearnPcs \/ cpu'[c].pc \in LearnPcs => cpu'[c] = cpu[c],
           NEW r \in Mine
    PROVE  Excused(r)' \/ Programmed(r)'
<1>1. PICK u : u = UnderlayOf(r)
  OBVIOUS
<1>2. r \in Requests /\ Todo = {}
  BY MineFacts, FreeFacts
<1>3. \A c \in Cpus : Learner(c, u) \/ Learner(c, u)' => cpu'[c] = cpu[c]
  BY DEF Learner, LearnPcs
<1>4. CASE Excused(r)
  BY <1>4, ExcusedStays
<1>5. CASE Programmed(r)
  BY <1>1, <1>2, <1>3, <1>5, ProgrammedStays
<1> QED
  BY <1>4, <1>5 DEF ProgInv

\* create_interface.
LEMMA CreateProgs ==
    ASSUME TypeInv, TapInv, MacsInv, ProgInv, NEW q \in Requests, CreateInterface(q)
    PROVE  ProgInv'
<1>1. /\ Free /\ tab' = tab /\ cpu' = cpu /\ lastMac' = lastMac /\ broken' = broken
      /\ Mine = Live /\ Mine' = Live \cup {q}
      /\ late \subseteq late' /\ shared \subseteq shared'
  BY CreateMine
<1>2. \A r \in Live : Excused(r)' \/ Programmed(r)'
  BY <1>1, CallProgs
<1>3. Excused(q)' \/ Programmed(q)'
  <2>1. PICK u, mac : u = UnderlayOf(q) /\ mac = EffectiveMac(u)
    OBVIOUS
  <2>2. Todo' = CreateTodo(q, mac)
    BY <2>1, CreateStarts
  <2>3. CASE u \in late
    BY <1>1, <2>1, <2>3, HasAfter DEF Marks
  <2>4. CASE u \notin late
    <3>1. mac = lastMac'[u]
      BY <1>1, <2>1, <2>4, FreshMac
    <3>2. /\ Put("ports", q.dev, PortMeta(q, mac)) \in Todo'
          /\ Put("ifaces", Guest(q), IfaceValue(q, mac)) \in Todo'
          /\ Put("underlay", u, UnderlayValue(q, mac)) \in Todo'
      BY <2>1, <2>2 DEF CreateTodo
    <3>3. \A k \in SelfRoutes(q) : Put("routes", k, u) \in Todo'
      BY <2>1, <2>2 DEF CreateTodo, SelfRoutes
    <3> QED
      BY <2>1, <3>1, <3>2, <3>3, HasAfter
  <2> QED
    BY <2>3, <2>4
<1> QED
  BY <1>1, <1>2, <1>3 DEF ProgInv

\* detach_interface.
LEMMA DetachProgs ==
    ASSUME TypeInv, TapInv, ProgInv, NEW id \in Ids, DetachInterface(id)
    PROVE  ProgInv'
<1>1. PICK r : r = ById[id]
  OBVIOUS
<1>2. /\ Free /\ tab' = tab /\ lastMac' = lastMac /\ broken' = broken /\ shared' = shared
      /\ Mine = Live /\ Live' \subseteq Live /\ Mine' = Live' /\ late \subseteq late'
      /\ \A c \in Cpus : cpu[c].pc \in LearnPcs \/ cpu'[c].pc \in LearnPcs => cpu'[c] = cpu[c]
  BY <1>1, DetachMine
<1>3. \A x \in Mine : Excused(x)' \/ Programmed(x)'
  BY <1>2, CallProgs
<1> QED
  BY <1>2, <1>3 DEF ProgInv

\* The other calls.
LEMMA OtherProgs ==
    ASSUME TypeInv, TypeInv', ProgInv, Free, UNCHANGED <<tab, cpu, history>>, \A w \in Todo' : Harmless(w)
    PROVE  ProgInv'
<1>1. UNCHANGED <<late, shared, broken, lastMac>>
  BY DEF history
<1>2. Mine' = Live' /\ \A k : ~Dropping("byId", k)'
  BY HarmlessFacts
<1>3. Mine' = Mine
  <2>1. Live = Records /\ Todo = {}
    BY FreeLive
  <2>2. Live' = Records
    BY <1>2 DEF Live, Records, ById
  <2> QED
    BY <1>2, <2>1, <2>2 DEF Mine, Coming
<1>4. \A r \in Mine : Excused(r)' \/ Programmed(r)'
  BY <1>1, CallProgs
<1> QED
  BY <1>3, <1>4 DEF ProgInv

\* The interface that a MAC update is for has all its entries.
LEMMA LearnerHas ==
    ASSUME TypeInv, TapInv, WorksInv, MacsInv, NEW r \in Mine, ~Excused(r), Programmed(r),
           NEW u, u = UnderlayOf(r), ~Working(u)
    PROVE  /\ HasPort(r) /\ HasIface(r) /\ HasUnderlay(r)
           /\ \A k \in SelfRoutes(r) : Maplet(tab["routes"], k, u)
<1>1. PICK m, p, i, x : m = lastMac[u] /\ p = PortMeta(r, m) /\ i = IfaceValue(r, m) /\ x = UnderlayValue(r, m)
  OBVIOUS
<1>2. /\ Comes("ports", r.dev, p) \/ HasPort(r)
      /\ Comes("ifaces", Guest(r), i) \/ HasIface(r)
      /\ Comes("underlay", u, x) \/ HasUnderlay(r)
      /\ \A k \in SelfRoutes(r) : Comes("routes", k, u) \/ Maplet(tab["routes"], k, u)
  BY <1>1 DEF Programmed
<1>3. p.ul = u /\ i.ul = u
  BY <1>1 DEF PortMeta, IfaceValue
<1>4. /\ ~Comes("ports", r.dev, p) /\ ~Comes("ifaces", Guest(r), i) /\ ~Comes("underlay", u, x)
  BY <1>3 DEF Comes, Working, Concerns, Put
<1>5. ASSUME NEW k \in SelfRoutes(r) PROVE ~Comes("routes", k, u)
  <2>1. r \in Requests
    BY MineFacts
  <2>2. k[2] \notin Aliases
    BY <2>1, OperatorAssumption DEF SelfRoutes
  <2> QED
    BY <2>2 DEF Comes, Working, Concerns, Put
<1> QED
  BY <1>2, <1>4, <1>5

\* An update for another interface has neither its tap nor its guest.
LEMMA OthersKeys ==
    ASSUME TypeInv, TapInv, WorksInv, NEW r \in Mine, ~Excused(r), NEW c \in Cpus, cpu[c].pc \in LearnPcs,
           cpu[c].meta.ul # UnderlayOf(r)
    PROVE  cpu[c].dev # r.dev /\ <<cpu[c].meta.vni, cpu[c].meta.ip>> # Guest(r)
<1>1. PICK x \in Requests : /\ x.dev = cpu[c].dev /\ UnderlayOf(x) = cpu[c].meta.ul
                            /\ Guest(x) = <<cpu[c].meta.vni, cpu[c].meta.ip>>
                            /\ x \in Live \/ Marks(x) \subseteq late
  BY LearnerOwner
<1>2. r.dev \notin shared /\ r.dev \notin late /\ Guest(r) \notin late
  BY DEF Excused, Marks
<1>3. CASE x \in Live
  <2>1. x \in Mine /\ x # r /\ ApartInv
    BY <1>1, <1>3 DEF Mine, WorksInv
  <2> QED
    BY <1>1, <1>2, <2>1 DEF ApartInv, Apart
<1>4. CASE Marks(x) \subseteq late
  BY <1>1, <1>2, <1>4 DEF Marks
<1> QED
  BY <1>1, <1>3, <1>4

\* A step of a CPU that is about another interface, or about none.
LEMMA StrangeStep ==
    ASSUME TypeInv, TapInv, WorksInv, MacsInv, NEW c \in Cpus, Datapath(c), NEW r \in Mine,
           ~Excused(r), Programmed(r), ~Learner(c, UnderlayOf(r)), ~Learner(c, UnderlayOf(r))'
    PROVE  Programmed(r)'
<1>1. PICK u, g, s, y, h : u = UnderlayOf(r) /\ g = Guest(r) /\ s = cpu[c] /\ y = cpu'[c]
                           /\ h = <<s.meta.vni, s.meta.ip>>
  OBVIOUS
<1>2. /\ r \in Requests /\ u \in Underlays /\ Todo' = Todo
      /\ \A e \in Cpus \ {c} : cpu'[e] = cpu[e]
  BY <1>1, MineFacts, RequestFacts, QuietFacts, DatapathParts
<1>3. \A e \in Cpus : Learner(e, u) \/ Learner(e, u)' => cpu'[e] = cpu[e]
  BY <1>1, <1>2
<1>4. s.pc \in LearnPcs => s.meta.ul # u /\ s.dev # r.dev /\ h # g
  <2>1. s.pc \in LearnPcs => s.meta.ul # u
    BY <1>1 DEF Learner
  <2> QED
    BY <1>1, <2>1, OthersKeys
<1>5. {"ports", "ifaces", "underlay", "routes"} \subseteq Tables /\ {"lport", "luput", "liput"} \subseteq LearnPcs
  BY DEF Tables, Maps, LearnPcs
<1>6. ASSUME NEW t \in {"ports", "ifaces", "underlay"}, NEW k, NEW v, Learn(t, k, v),
             t = "ports" => k # r.dev, t = "ifaces" => k # g, t = "underlay" => k # u
      PROVE  /\ \A x : Maplet(tab["ports"], r.dev, x) => Maplet(tab'["ports"], r.dev, x)
             /\ \A x : Maplet(tab["ifaces"], g, x) => Maplet(tab'["ifaces"], g, x)
             /\ \A x : Maplet(tab["underlay"], u, x) => Maplet(tab'["underlay"], u, x)
             /\ tab'["routes"] = tab["routes"]
  <2>1. /\ \A q \in Tables \ {t} : tab'[q] = tab[q]
        /\ \A x : x # k => \A z : Maplet(tab'[t], x, z) <=> Maplet(tab[t], x, z)
    BY <1>5, <1>6, LearnFacts
  <2>2. CASE t = "ports"
    BY <1>5, <1>6, <2>1, <2>2
  <2>3. CASE t = "ifaces"
    BY <1>5, <1>6, <2>1, <2>3
  <2>4. CASE t = "underlay"
    BY <1>5, <1>6, <2>1, <2>4
  <2> QED
    BY <2>2, <2>3, <2>4
<1>7. /\ lastMac'[u] = lastMac[u]
      /\ \/ tab' = tab
         \/ \E t \in {"ports", "ifaces", "underlay"} : \E k, v :
               /\ Learn(t, k, v)
               /\ t = "ports" => k # r.dev
               /\ t = "ifaces" => k # g
               /\ t = "underlay" => k # u
  <2>1. CASE LearnPort(c)
    <3>1. s.pc = "lport" /\ Learn("ports", s.dev, [s.meta EXCEPT !.mac = s.mac]) /\ lastMac' = lastMac
      BY <1>1, <2>1, PortMoves
    <3> QED
      BY <1>4, <1>5, <3>1
  <2>2. CASE LearnIfacePut(c)
    <3>1. s.pc = "liput" /\ Learn("ifaces", h, [s.val EXCEPT !.mac = s.mac]) /\ lastMac' = lastMac
      BY <1>1, <2>2, IfacePutMoves
    <3> QED
      BY <1>4, <1>5, <3>1
  <2>3. CASE LearnUnderlayPut(c)
    <3>1. /\ s.pc = "luput" /\ Learn("underlay", s.meta.ul, [s.val EXCEPT !.mac = s.mac])
          /\ lastMac' = [lastMac EXCEPT ![s.meta.ul] = s.mac]
      BY <1>1, <2>3, UnderlayPutMoves
    <3>2. s.meta.ul # u /\ lastMac \in [Underlays -> Macs]
      BY <1>4, <1>5, <3>1 DEF MacsInv, MacInv
    <3> QED
      BY <1>2, <3>1, <3>2
  <2>4. ASSUME UNCHANGED <<tab, lastMac>> PROVE tab' = tab /\ lastMac'[u] = lastMac[u]
    BY <2>4
  <2>5. ASSUME LearnUnderlayGet(c) PROVE UNCHANGED <<tab, lastMac>>
    BY <2>5 DEF LearnUnderlayGet, LearnGet, history
  <2>6. ASSUME LearnIfaceGet(c) PROVE UNCHANGED <<tab, lastMac>>
    BY <2>6 DEF LearnIfaceGet, LearnGet, history
  <2>7. ASSUME NEW dev, NEW mac, DhcpPacket(c, dev, mac) PROVE UNCHANGED <<tab, lastMac>>
    BY <2>7 DEF DhcpPacket
  <2> QED
    BY <2>1, <2>2, <2>3, <2>4, <2>5, <2>6, <2>7, DatapathParts
<1>8. /\ \A x : Maplet(tab["ports"], r.dev, x) => Maplet(tab'["ports"], r.dev, x)
      /\ \A x : Maplet(tab["ifaces"], g, x) => Maplet(tab'["ifaces"], g, x)
      /\ \A x : Maplet(tab["underlay"], u, x) => Maplet(tab'["underlay"], u, x)
      /\ tab'["routes"] = tab["routes"]
  BY <1>6, <1>7
<1> QED
  BY <1>1, <1>2, <1>3, <1>7, <1>8, ProgrammedStays

\* What an update finds of its interface.
LEMMA OwnBefore ==
    ASSUME TypeInv, TapInv, WorksInv, MacsInv, NEW r \in Mine, ~Excused(r), Programmed(r),
           NEW u, u = UnderlayOf(r), NEW c \in Cpus, Learner(c, u), NEW s, s = cpu[c]
    PROVE  /\ s.pc \in LearnPcs /\ s.dev = r.dev /\ s.meta \in Meta /\ s.mac \in Macs
           /\ s.meta.vni = r.vni /\ s.meta.ip = r.ip /\ s.meta.ul = u
           /\ <<s.meta.vni, s.meta.ip>> = Guest(r)
           /\ \A e \in Cpus : Learner(e, u) => e = c
           /\ s.pc # "lport" => Maplet(tab["ports"], r.dev, PortMeta(r, s.mac))
           /\ s.pc = "lport" => Maplet(tab["ports"], r.dev, PortMeta(r, lastMac[u]))
           /\ \E mac \in Macs : Maplet(tab["ifaces"], Guest(r), IfaceValue(r, mac))
           /\ s.pc \notin {"liget", "liput"} => Maplet(tab["ifaces"], Guest(r), IfaceValue(r, lastMac[u]))
           /\ s.pc \in {"liget", "liput"} => lastMac[u] = s.mac
           /\ s.pc = "liput" => Maplet(tab["ifaces"], Guest(r), s.val)
           /\ Maplet(tab["underlay"], u, UnderlayValue(r, lastMac[u]))
           /\ s.pc = "luput" => Maplet(tab["underlay"], u, s.val)
           /\ \A k \in SelfRoutes(r) : Maplet(tab["routes"], k, u)
<1>1. r \in Requests /\ u \in Underlays \ late
  BY MineFacts, RequestFacts DEF Excused, Marks
<1>2. s.pc \in LearnPcs /\ s.meta.ul = u
  BY DEF Learner
<1>3. s.meta \in Meta /\ s.mac \in Macs
  <2>1. s \in CpuState
    BY DEF TypeInv, CpuFits
  <2> QED
    BY <1>2, <2>1, CpuKinds
<1>4. Owns(r, s.dev, s.meta)
  BY <1>1, LearnerOf
<1>5. s.dev = r.dev /\ s.meta.vni = r.vni /\ s.meta.ip = r.ip /\ <<s.meta.vni, s.meta.ip>> = Guest(r)
  BY <1>4 DEF Owns, Guest
<1>6. /\ ~Working(u)
      /\ \A e \in Cpus : Learner(e, u) => e = c
      /\ s.pc = "luput" => Maplet(tab["underlay"], u, s.val)
  BY <1>1 DEF MacsInv, LearnInv
<1>7. /\ HasPort(r) /\ HasIface(r) /\ HasUnderlay(r)
      /\ \A k \in SelfRoutes(r) : Maplet(tab["routes"], k, u)
  BY <1>6, LearnerHas
<1>8. /\ \A e \in Cpus : Past(e, u) <=> e = c /\ s.pc # "lport"
      /\ \A e \in Cpus : Late(e, u) <=> e = c /\ s.pc \in {"liget", "liput"}
  BY <1>6 DEF Past, Late
<1>9. /\ s.pc # "lport" => Maplet(tab["ports"], r.dev, PortMeta(r, s.mac))
      /\ s.pc = "lport" => Maplet(tab["ports"], r.dev, PortMeta(r, lastMac[u]))
  BY <1>7, <1>8 DEF HasPort
<1>10. /\ \E mac \in Macs : Maplet(tab["ifaces"], Guest(r), IfaceValue(r, mac))
       /\ s.pc \notin {"liget", "liput"} => Maplet(tab["ifaces"], Guest(r), IfaceValue(r, lastMac[u]))
       /\ s.pc \in {"liget", "liput"} => lastMac[u] = s.mac
       /\ s.pc = "liput" => Maplet(tab["ifaces"], Guest(r), s.val)
  BY <1>7, <1>8 DEF HasIface
<1>11. Maplet(tab["underlay"], u, UnderlayValue(r, lastMac[u]))
  BY <1>7 DEF HasUnderlay
<1> QED
  BY <1>2, <1>3, <1>5, <1>6, <1>7, <1>9, <1>10, <1>11

\* What an update has to leave of its interface.
LEMMA OwnAfter ==
    ASSUME NEW r, NEW u, u = UnderlayOf(r), NEW c \in Cpus, NEW y, y = cpu'[c], NEW m, m = lastMac'[u],
           \A e \in Cpus \ {c} : ~Learner(e, u)',
           Past(c, u)' => Maplet(tab'["ports"], r.dev, PortMeta(r, y.mac)),
           ~Past(c, u)' => Maplet(tab'["ports"], r.dev, PortMeta(r, m)),
           \E mac \in Macs : Maplet(tab'["ifaces"], Guest(r), IfaceValue(r, mac)),
           ~Late(c, u)' => Maplet(tab'["ifaces"], Guest(r), IfaceValue(r, m)),
           Late(c, u)' => m = y.mac /\ (y.pc = "liput" => Maplet(tab'["ifaces"], Guest(r), y.val)),
           Maplet(tab'["underlay"], u, UnderlayValue(r, m)),
           \A k \in SelfRoutes(r) : Maplet(tab'["routes"], k, u)
    PROVE  Programmed(r)'
<1>1. \A e \in Cpus \ {c} : ~Past(e, u)' /\ ~Late(e, u)'
  BY DEF Past, Late
<1>2. HasPort(r)'
  BY <1>1, HasAfter
<1>3. HasIface(r)'
  BY <1>1, HasAfter
<1>4. HasUnderlay(r)'
  BY HasAfter
<1> QED
  BY <1>2, <1>3, <1>4, HasAfter

\* The values with the new MAC.
LEMMA NewMac ==
    ASSUME NEW r, NEW u, u = UnderlayOf(r), NEW mac
    PROVE  /\ \A m \in Meta : m.vni = r.vni /\ m.ip = r.ip /\ m.ul = u => [m EXCEPT !.mac = mac] = PortMeta(r, mac)
           /\ \A old : [UnderlayValue(r, old) EXCEPT !.mac = mac] = UnderlayValue(r, mac)
           /\ \A old : [IfaceValue(r, old) EXCEPT !.mac = mac] = IfaceValue(r, mac)
<1>1. ASSUME NEW m \in Meta, m.vni = r.vni, m.ip = r.ip, m.ul = u
      PROVE  [m EXCEPT !.mac = mac] = PortMeta(r, mac)
  BY <1>1 DEF Meta, PortMeta
<1> QED
  BY <1>1 DEF UnderlayValue, IfaceValue

\* A step of the update of the interface.
LEMMA OwnStep ==
    ASSUME TypeInv, TapInv, WorksInv, MacsInv, NEW c \in Cpus, Datapath(c), NEW r \in Mine,
           ~Excused(r), Programmed(r), Learner(c, UnderlayOf(r))
    PROVE  Programmed(r)'
<1>1. PICK u, g, s, y, m, n : /\ u = UnderlayOf(r) /\ g = Guest(r) /\ s = cpu[c] /\ y = cpu'[c]
                              /\ m = lastMac[u] /\ n = lastMac'[u]
  OBVIOUS
<1>2. /\ s.pc \in LearnPcs /\ s.dev = r.dev /\ s.meta \in Meta /\ s.mac \in Macs
      /\ s.meta.vni = r.vni /\ s.meta.ip = r.ip /\ s.meta.ul = u
      /\ <<s.meta.vni, s.meta.ip>> = g
      /\ \A e \in Cpus : Learner(e, u) => e = c
      /\ s.pc # "lport" => Maplet(tab["ports"], r.dev, PortMeta(r, s.mac))
      /\ s.pc = "lport" => Maplet(tab["ports"], r.dev, PortMeta(r, m))
      /\ \E mac \in Macs : Maplet(tab["ifaces"], g, IfaceValue(r, mac))
      /\ s.pc \notin {"liget", "liput"} => Maplet(tab["ifaces"], g, IfaceValue(r, m))
      /\ s.pc \in {"liget", "liput"} => m = s.mac
      /\ s.pc = "liput" => Maplet(tab["ifaces"], g, s.val)
      /\ Maplet(tab["underlay"], u, UnderlayValue(r, m))
      /\ s.pc = "luput" => Maplet(tab["underlay"], u, s.val)
      /\ \A k \in SelfRoutes(r) : Maplet(tab["routes"], k, u)
  BY <1>1, OwnBefore
<1>3. /\ \A e \in Cpus \ {c} : ~Learner(e, u)'
      /\ tab'["routes"] = tab["routes"]
  BY <1>1, <1>2, DatapathParts, DatapathQuiet, LearnersStay DEF ControlTabs
<1>4. {"ports", "ifaces", "underlay"} \subseteq Tables
  BY DEF Tables, Maps
<1>5. u \in Underlays /\ lastMac \in [Underlays -> Macs]
  BY <1>1, MineFacts, RequestFacts DEF MacsInv, MacInv
<1>6. Past(c, u)' <=> y.pc \in LearnPcs /\ y.meta.ul = u /\ y.pc # "lport"
  BY <1>1 DEF Past, Learner, LearnPcs
<1>7. Late(c, u)' <=> y.pc \in {"liget", "liput"} /\ y.meta.ul = u
  BY <1>1 DEF Late, Learner, LearnPcs
<1>8. CASE LearnPort(c)
  <2>1. /\ s.pc = "lport" /\ y.pc = "luget" /\ y.meta = s.meta /\ y.mac = s.mac
        /\ Learn("ports", s.dev, [s.meta EXCEPT !.mac = s.mac]) /\ lastMac' = lastMac
    BY <1>1, <1>8, PortMoves
  <2>2. [s.meta EXCEPT !.mac = s.mac] = PortMeta(r, y.mac)
    BY <1>1, <1>2, <2>1, NewMac
  <2>3. Learn("ports", r.dev, PortMeta(r, y.mac)) /\ r.dev \in DOMAIN tab["ports"]
    BY <1>2, <2>1, <2>2 DEF Maplet
  <2>4. /\ Maplet(tab'["ports"], r.dev, PortMeta(r, y.mac))
        /\ tab'["ifaces"] = tab["ifaces"] /\ tab'["underlay"] = tab["underlay"]
    BY <1>4, <2>3, LearnFacts
  <2>5. Past(c, u)' /\ ~Late(c, u)' /\ n = m
    BY <1>1, <1>2, <1>6, <1>7, <2>1 DEF LearnPcs
  <2> QED
    BY <1>1, <1>2, <1>3, <2>1, <2>4, <2>5, OwnAfter
<1>9. CASE LearnUnderlayGet(c)
  <2>1. /\ s.pc = "luget" /\ y.meta = s.meta /\ y.mac = s.mac /\ UNCHANGED <<tab, lastMac>>
        /\ \/ y.pc = "liget" /\ s.meta.ul \notin DOMAIN tab["underlay"]
           \/ y.pc = "luput"
    BY <1>1, <1>9, UnderlayGetMoves
  <2>2. y.pc = "luput"
    BY <1>2, <2>1 DEF Maplet
  <2>3. Past(c, u)' /\ ~Late(c, u)' /\ n = m
    BY <1>1, <1>2, <1>6, <1>7, <2>1, <2>2 DEF LearnPcs
  <2> QED
    BY <1>1, <1>2, <1>3, <2>1, <2>3, OwnAfter
<1>10. CASE LearnUnderlayPut(c)
  <2>1. /\ s.pc = "luput" /\ y.pc = "liget" /\ y.meta = s.meta /\ y.mac = s.mac
        /\ Learn("underlay", s.meta.ul, [s.val EXCEPT !.mac = s.mac])
        /\ lastMac' = [lastMac EXCEPT ![s.meta.ul] = s.mac]
    BY <1>1, <1>10, UnderlayPutMoves
  <2>2. n = s.mac
    BY <1>1, <1>2, <1>5, <2>1
  <2>3. s.val = UnderlayValue(r, m)
    BY <1>2, <2>1 DEF Maplet
  <2>4. [s.val EXCEPT !.mac = s.mac] = UnderlayValue(r, n)
    BY <1>1, <2>2, <2>3, NewMac
  <2>5. Learn("underlay", u, UnderlayValue(r, n)) /\ u \in DOMAIN tab["underlay"]
    BY <1>2, <2>1, <2>4 DEF Maplet
  <2>6. /\ Maplet(tab'["underlay"], u, UnderlayValue(r, n))
        /\ tab'["ifaces"] = tab["ifaces"] /\ tab'["ports"] = tab["ports"]
    BY <1>4, <2>5, LearnFacts
  <2>7. Past(c, u)' /\ Late(c, u)'
    BY <1>2, <1>6, <1>7, <2>1 DEF LearnPcs
  <2> QED
    BY <1>1, <1>2, <1>3, <2>1, <2>2, <2>6, <2>7, OwnAfter
<1>11. CASE LearnIfaceGet(c)
  <2>1. /\ s.pc = "liget" /\ UNCHANGED <<tab, late, lastMac>>
        /\ \/ y = IdleCpu /\ <<s.meta.vni, s.meta.ip>> \notin DOMAIN tab["ifaces"]
           \/ /\ y.pc = "liput" /\ y.dev = s.dev /\ y.meta = s.meta /\ y.mac = s.mac
              /\ Maplet(tab["ifaces"], <<s.meta.vni, s.meta.ip>>, y.val)
    BY <1>1, <1>11, IfaceGetMoves
  <2>2. g \in DOMAIN tab["ifaces"]
    BY <1>2 DEF Maplet
  <2>3. y.pc = "liput" /\ y.meta = s.meta /\ y.mac = s.mac /\ Maplet(tab["ifaces"], g, y.val)
    BY <1>2, <2>1, <2>2
  <2>4. Past(c, u)' /\ Late(c, u)' /\ n = m /\ m = y.mac
    BY <1>1, <1>2, <1>6, <1>7, <2>1, <2>3 DEF LearnPcs
  <2>5. /\ Maplet(tab'["ports"], r.dev, PortMeta(r, y.mac))
        /\ \E mac \in Macs : Maplet(tab'["ifaces"], g, IfaceValue(r, mac))
        /\ Maplet(tab'["ifaces"], g, y.val) /\ Maplet(tab'["underlay"], u, UnderlayValue(r, n))
        /\ \A k \in SelfRoutes(r) : Maplet(tab'["routes"], k, u)
    BY <1>2, <2>1, <2>3, <2>4
  <2> QED
    BY <1>1, <1>3, <2>4, <2>5, OwnAfter
<1>12. CASE LearnIfacePut(c)
  <2>1. /\ s.pc = "liput" /\ y = IdleCpu /\ lastMac' = lastMac
        /\ Learn("ifaces", <<s.meta.vni, s.meta.ip>>, [s.val EXCEPT !.mac = s.mac])
    BY <1>1, <1>12, IfacePutMoves
  <2>2. m = s.mac /\ n = m
    BY <1>1, <1>2, <2>1
  <2>3. PICK mac \in Macs : s.val = IfaceValue(r, mac)
    BY <1>2, <2>1 DEF Maplet
  <2>4. [s.val EXCEPT !.mac = s.mac] = IfaceValue(r, n)
    BY <1>1, <2>2, <2>3, NewMac
  <2>5. Learn("ifaces", g, IfaceValue(r, n)) /\ g \in DOMAIN tab["ifaces"]
    BY <1>2, <2>1, <2>4 DEF Maplet
  <2>6. /\ Maplet(tab'["ifaces"], g, IfaceValue(r, n))
        /\ tab'["underlay"] = tab["underlay"] /\ tab'["ports"] = tab["ports"]
    BY <1>4, <2>5, LearnFacts
  <2>7. ~Past(c, u)' /\ ~Late(c, u)' /\ n \in Macs
    BY <1>2, <1>6, <1>7, <2>1, <2>2 DEF LearnPcs, IdleCpu
  <2> QED
    BY <1>1, <1>2, <1>3, <2>1, <2>2, <2>6, <2>7, OwnAfter
<1>13. ASSUME NEW dev, NEW mac, DhcpPacket(c, dev, mac) PROVE FALSE
  BY <1>1, <1>2, <1>13 DEF DhcpPacket, LearnPcs
<1> QED
  BY <1>1, <1>2, <1>8, <1>9, <1>10, <1>11, <1>12, <1>13, DatapathParts

\* The update of the interface begins.
LEMMA FirstStep ==
    ASSUME TypeInv, TapInv, WorksInv, MacsInv, NEW c \in Cpus, Datapath(c), NEW r \in Mine,
           ~Excused(r), ~Excused(r)', Programmed(r), ~Learner(c, UnderlayOf(r)), Learner(c, UnderlayOf(r))'
    PROVE  Programmed(r)'
<1>1. PICK u, s, y : u = UnderlayOf(r) /\ s = cpu[c] /\ y = cpu'[c]
  OBVIOUS
<1>2. ~Learner(c, u) /\ Learner(c, u)' /\ y.pc \in LearnPcs /\ y.meta.ul = u
  BY <1>1, ConcernsSame DEF Learner, LearnPcs
<1>3. PICK dev, mac : DhcpPacket(c, dev, mac)
  <2>1. s.pc \in LearnPcs => y.meta # s.meta
    BY <1>1, <1>2 DEF Learner
  <2>2. ASSUME LearnPort(c) PROVE FALSE
    <3>1. /\ s.pc = "lport" /\ y.pc = "luget" /\ y.meta = s.meta /\ y.mac = s.mac
          /\ Learn("ports", s.dev, [s.meta EXCEPT !.mac = s.mac]) /\ lastMac' = lastMac
      BY <1>1, <2>2, PortMoves
    <3> QED
      BY <2>1, <3>1 DEF LearnPcs
  <2>3. ASSUME LearnUnderlayGet(c) PROVE FALSE
    <3>1. s.pc = "luget" /\ y.meta = s.meta
      BY <1>1, <2>3, UnderlayGetMoves
    <3> QED
      BY <2>1, <3>1 DEF LearnPcs
  <2>4. ASSUME LearnUnderlayPut(c) PROVE FALSE
    <3>1. /\ s.pc = "luput" /\ y.pc = "liget" /\ y.meta = s.meta /\ y.mac = s.mac
          /\ Learn("underlay", s.meta.ul, [s.val EXCEPT !.mac = s.mac])
          /\ lastMac' = [lastMac EXCEPT ![s.meta.ul] = s.mac]
      BY <1>1, <2>4, UnderlayPutMoves
    <3> QED
      BY <2>1, <3>1 DEF LearnPcs
  <2>5. ASSUME LearnIfaceGet(c) PROVE FALSE
    <3>1. /\ s.pc = "liget" /\ UNCHANGED <<tab, late, lastMac>>
          /\ \/ y = IdleCpu /\ <<s.meta.vni, s.meta.ip>> \notin DOMAIN tab["ifaces"]
             \/ /\ y.pc = "liput" /\ y.dev = s.dev /\ y.meta = s.meta /\ y.mac = s.mac
                /\ Maplet(tab["ifaces"], <<s.meta.vni, s.meta.ip>>, y.val)
      BY <1>1, <2>5, IfaceGetMoves
    <3> QED
      BY <1>2, <2>1, <3>1 DEF LearnPcs, IdleCpu
  <2>6. ASSUME LearnIfacePut(c) PROVE FALSE
    <3>1. /\ s.pc = "liput" /\ y = IdleCpu /\ lastMac' = lastMac
          /\ Learn("ifaces", <<s.meta.vni, s.meta.ip>>, [s.val EXCEPT !.mac = s.mac])
      BY <1>1, <2>6, IfacePutMoves
    <3> QED
      BY <1>2, <3>1 DEF LearnPcs, IdleCpu
  <2> QED
    BY <1>1, <1>2, <2>2, <2>3, <2>4, <2>5, <2>6, DatapathParts
<1>4. UNCHANGED <<tab, lastMac>> /\ y.pc = "lport"
  BY <1>1, <1>3, DhcpMoves
<1>5. r \in Requests /\ u \in Underlays \ late'
  BY <1>1, MineFacts, RequestFacts, HasAfter DEF Marks
<1>6. ~Working(u) /\ \A e \in Cpus : ~Learner(e, u)
  BY <1>2, <1>3, <1>5, DhcpMacs
<1>7. /\ HasPort(r) /\ HasIface(r) /\ HasUnderlay(r)
      /\ \A k \in SelfRoutes(r) : Maplet(tab["routes"], k, u)
  BY <1>1, <1>6, LearnerHas
<1>8. \A e \in Cpus : ~Past(e, u) /\ ~Late(e, u)
  BY <1>6 DEF Past, Late
<1>9. /\ Maplet(tab["ports"], r.dev, PortMeta(r, lastMac[u]))
      /\ \E x \in Macs : Maplet(tab["ifaces"], Guest(r), IfaceValue(r, x))
      /\ Maplet(tab["ifaces"], Guest(r), IfaceValue(r, lastMac[u]))
      /\ Maplet(tab["underlay"], u, UnderlayValue(r, lastMac[u]))
  BY <1>1, <1>7, <1>8 DEF HasPort, HasIface, HasUnderlay
<1>10. ~Past(c, u)' /\ ~Late(c, u)'
  BY <1>1, <1>4 DEF Past, Late
<1>11. \A e \in Cpus \ {c} : ~Learner(e, u)'
  BY <1>6, DatapathParts, LearnersStay
<1> QED
  BY <1>1, <1>4, <1>7, <1>9, <1>10, <1>11, OwnAfter

\* ProgInv is inductive.
LEMMA ProgInductive ==
    /\ Init => ProgInv
    /\ TypeInv /\ TapInv /\ OneKind /\ WorksInv /\ MacsInv /\ ProgInv /\ [Next]_vars => ProgInv'
<1>1. ASSUME Init PROVE ProgInv
  <2>1. Free /\ tab["byId"] = << >>
    BY <1>1 DEF Init, Free, Tables, Shadows
  <2>2. Todo = {}
    BY <2>1, FreeFacts
  <2> QED
    BY <2>1, <2>2 DEF ProgInv, Mine, Live, Coming, ById
<1>2. ASSUME TypeInv, TapInv, OneKind, WorksInv, MacsInv, ProgInv, [Next]_vars PROVE ProgInv'
  <2>1. CASE Write
    BY <1>2, <2>1, PutProgs, FailProgs, DelProgs DEF Write
  <2>2. CASE Call \/ Resume
    <3>1. TypeInv'
      BY <1>2, TypeInductive
    <3> QED
      BY <1>2, <2>2, <3>1, OtherCall, CreateProgs, DetachProgs, OtherProgs
  <2>3. ASSUME NEW c \in Cpus, Datapath(c), NEW r \in Mine, ~Excused(r)' PROVE Programmed(r)'
    <3>1. shared' = shared /\ broken' = broken /\ late \subseteq late'
      BY <2>3, DatapathHistory
    <3>2. ~Excused(r) /\ Programmed(r)
      BY <1>2, <2>3, <3>1, ExcusedStays DEF ProgInv
    <3> QED
      BY <1>2, <2>3, <3>2, StrangeStep, OwnStep, FirstStep
  <2>4. CASE \E c \in Cpus : Datapath(c)
    <3>1. Mine' = Mine
      BY <1>2, <2>4, QuietFacts DEF Mine
    <3> QED
      BY <2>3, <2>4, <3>1 DEF ProgInv
  <2>5. CASE UNCHANGED vars
    <3>1. UNCHANGED <<tab, task, cpu, late, shared, broken, lastMac>>
      BY <2>5 DEF vars, history
    <3>2. Mine' = Mine /\ Todo' = Todo
      BY <1>2, <2>5, QuietFacts DEF Mine
    <3>3. ASSUME NEW r \in Mine PROVE Excused(r)' \/ Programmed(r)'
      <4>1. r \in Requests
        BY <1>2, MineFacts
      <4>2. Excused(r) => Excused(r)'
        BY <3>1, ExcusedStays
      <4>3. Programmed(r) => Programmed(r)'
        BY <3>1, <3>2, <4>1, ProgrammedStays
      <4> QED
        BY <1>2, <4>2, <4>3 DEF ProgInv
    <3> QED
      BY <3>2, <3>3 DEF ProgInv
  <2> QED
    BY <1>2, <2>1, <2>2, <2>4, <2>5 DEF Next
<1> QED
  BY <1>1, <1>2

\* Between operations, every interface has its entries in PORT_META,
\* INTERFACES and UNDERLAY and its host routes, all with the MAC learned last
\* for its underlay address (program_iface_maps, learn_mac, detach_interface).
THEOREM InterfaceProgrammedHolds == Spec => []InterfaceProgrammed
<1>1. TypeInv /\ TapInv /\ WorksInv /\ MacsInv /\ ProgInv => InterfaceProgrammed
  <2> SUFFICES ASSUME TypeInv, TapInv, WorksInv, MacsInv, ProgInv, Free, NEW r \in Records, ~Learning(r.dev), ~Excused(r)
               PROVE  /\ Maplet(tab["ports"], r.dev, PortMeta(r, lastMac[UnderlayOf(r)]))
                      /\ Maplet(tab["ifaces"], Guest(r), IfaceValue(r, lastMac[UnderlayOf(r)]))
                      /\ Maplet(tab["underlay"], UnderlayOf(r), UnderlayValue(r, lastMac[UnderlayOf(r)]))
                      /\ \A k \in SelfRoutes(r) : Maplet(tab["routes"], k, UnderlayOf(r))
    BY DEF InterfaceProgrammed, Excused
  <2>1. PICK u : u = UnderlayOf(r)
    OBVIOUS
  <2>2. Live = Records /\ Todo = {}
    BY FreeLive
  <2>3. r \in Mine /\ Programmed(r) /\ ~Working(u)
    BY <2>2 DEF Mine, ProgInv, Working
  <2>4. u \notin late
    BY <2>1 DEF Excused, Marks
  <2>5. \A c \in Cpus : ~Learner(c, u)
    <3> SUFFICES ASSUME NEW c \in Cpus, Learner(c, u) PROVE FALSE
      OBVIOUS
    <3>1. Owns(r, cpu[c].dev, cpu[c].meta)
      BY <2>1, <2>3, <2>4, LearnerOf
    <3> QED
      BY <3>1 DEF Owns, Learner, Learning
  <2>6. \A c \in Cpus : ~Past(c, u) /\ ~Late(c, u)
    BY <2>5 DEF Past, Late
  <2>7. /\ HasPort(r) /\ HasIface(r) /\ HasUnderlay(r)
        /\ \A k \in SelfRoutes(r) : Maplet(tab["routes"], k, u)
    BY <2>1, <2>3, LearnerHas
  <2> QED
    BY <2>1, <2>6, <2>7 DEF HasPort, HasIface, HasUnderlay
<1> QED
  BY <1>1, TypeInductive, TapInductive, KindInductive, WorksInductive, MacsInductive, ProgInductive, PTL DEF Spec

=============================================================================
