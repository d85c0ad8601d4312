---------------------------- MODULE NatConntrack ----------------------------
(***************************************************************************)
(* The stateful IPv4 NAT of the datapath: the CONNTRACK, NAT and NAT_IPS   *)
(* BPF maps, the guest egress and uplink ingress programs that run on      *)
(* every CPU without any lock, the userspace aging sweep and the           *)
(* create_nat / delete_nat operations of the control plane.                *)
(*                                                                         *)
(* A BPF map operation is atomic and nothing else is: each action of a CPU *)
(* performs exactly one operation on a shared map, so that any two CPUs,   *)
(* the sweep and the control plane interleave between any two of them.     *)
(*                                                                         *)
(* One VNI is modelled (it is a component of every key).  VIP translation, *)
(* load balancing and NAT64 are not part of this module: no VIP or LB is   *)
(* configured for the addresses used here.  The route, the firewall and    *)
(* the neighbour-NAT decisions, which read maps that are not modelled      *)
(* here, are arbitrary choices.                                            *)
(***************************************************************************)
EXTENDS Integers, FiniteSets, Functions

CONSTANTS
    Guests,          \* overlay addresses of local guest interfaces
    NatIps,          \* addresses that create_nat may hand to a guest
    Peers,           \* addresses reached through an external route
    Inside,          \* addresses reached through an internal route
    Zero,            \* 0.0.0.0, the wildcard of a reverse key
    GuestPorts,      \* L4 ports guests use in the packets considered
    PeerPorts,       \* L4 ports peers use in the packets considered
    UplinkDsts,      \* destinations of the uplink packets considered
    UplinkPorts,     \* destination ports of the uplink packets considered
    PktProtos,       \* protocols of the packets considered
    W,               \* number of L4 ports: 2^16 in the code
    NatRequests,     \* (min_port, max_port) pairs of create_nat requests
    ProbeLimit,      \* PROBE_LIMIT
    Hash(_),         \* hash5 of a 5-tuple
    DefaultTimeout,  \* DEFAULT_TIMEOUT_NS, in ticks
    EstTimeout,      \* TCP_ESTABLISHED_TIMEOUT_NS, in ticks
    CtCapacity,      \* entries CONNTRACK holds before it evicts
    Cpus,            \* CPUs that run the datapath programs
    MaxPackets,      \* bound: packets considered in a behaviour
    MaxDeletes,      \* bound: delete_nat and detach calls in a behaviour
    Detachable       \* bound: guests whose interface is detached, each once

Protos == {"tcp", "udp", "icmp"}
Port == 0 .. (W - 1)
Addr == Guests \cup NatIps \cup Peers \cup Inside \cup {Zero}

\* The 5-tuple of a packet, and the key of a conntrack entry.
CtKey == [src : Addr, dst : Addr, sport : Port, dport : Port, proto : Protos]

ASSUME NatAssumption ==
    /\ W \in Nat \ {0}
    /\ ProbeLimit \in Nat
    /\ DefaultTimeout \in Nat
    /\ EstTimeout \in Nat
    /\ DefaultTimeout <= EstTimeout
    /\ GuestPorts \subseteq Port
    /\ PeerPorts \subseteq Port
    /\ UplinkDsts \subseteq Guests \cup NatIps
    /\ UplinkPorts \subseteq Port
    /\ PktProtos \subseteq Protos
    /\ NatRequests \subseteq Nat \X Nat
    /\ MaxPackets \in Nat
    /\ MaxDeletes \in Nat
    /\ Detachable \subseteq Guests

ASSUME HashAssumption == \A k \in CtKey : Hash(k) \in Nat

\* The addresses of the parties are told apart by the network.
ASSUME AddrAssumption ==
    /\ Zero \notin Guests \cup NatIps \cup Peers \cup Inside
    /\ Guests \cap NatIps = {}
    /\ Guests \cap (Peers \cup Inside) = {}

(***************************************************************************)
(* Conntrack entries.  The flag bits occur in three combinations:          *)
(*   "snat"    CT_REWRITE_SRC | CT_F_SRC_NAT   the forward NAT entry       *)
(*   "dnat"    CT_REWRITE_DST | CT_F_SRC_NAT   the reverse NAT entry       *)
(*   "default" CT_F_DEFAULT                    no translation              *)
(* last_seen is kept as the idle time now - last_seen, saturated just past *)
(* the longest timeout: the code only compares it with the timeouts.       *)
(***************************************************************************)
TcpState == {"none", "new_syn", "new_synack", "established", "finwait", "rst_fin"}
Idle == 0 .. (EstTimeout + 1)

CtEntry == [kind : {"snat", "dnat", "default"}, xip : Addr, xport : Port,
            tcp : TcpState, idle : Idle]

\* What the flag byte of a segment says to tcp_advance, in its order of
\* precedence; "other" is a segment with none of the bits, "nontcp" a
\* packet tcp_flags returns None for.
SegFlags == {"rst", "fin", "synack", "syn", "ack", "other"}
Flags == SegFlags \cup {"nontcp"}
FlagsOf(k) == IF k.proto = "tcp" THEN SegFlags ELSE {"nontcp"}

\* NatValue of the NAT map: nat_ip and the ports port_min .. port_max - 1.
NatValue == [ip : NatIps \cup {Zero}, min : Port, max : Port]

VARIABLES
    conntrack,   \* CONNTRACK: a function from the keys present to entries
    nat,         \* NAT: a function from the guests configured to NatValue
    natIps,      \* NAT_IPS: the set of addresses marked
    ifaces,      \* by_id: the guests that have an interface
    inner,       \* the control-plane mutex: create_nat or delete_nat between
                 \* their operations on NAT and on NAT_IPS
    cpu,         \* what each CPU is doing and its stack
    gcPc,        \* the sweep: "sleep", "collected" or "removing"
    gcStale,     \* keys the sweep collected and has not removed yet
    flushReq,    \* delete_nat calls between their two critical sections
    flushing,    \* the delete_nat call that holds the conntrack mutex
    flushKeys,   \* keys it collected and has not removed yet
    sent,        \* number of packets so far
    deletes,     \* number of delete_nat and detach_interface calls so far
    granted,     \* history: (guest, nat_ip, port) a create_nat ever allowed
    late,        \* history: guests flushed while a packet was in a CPU
    gone         \* history: guests whose interface was ever detached

maps == <<conntrack, nat, natIps>>
gcVars == <<gcPc, gcStale>>
ctlVars == <<ifaces, inner, flushReq, flushing, flushKeys, deletes>>
history == <<granted, late, gone>>
vars == <<maps, cpu, gcVars, ctlVars, sent, history>>

-----------------------------------------------------------------------------
(* Map operations. *)

\* HashMap::insert(key, value, BPF_ANY): create or overwrite.
Upsert(f, k, v) == [x \in DOMAIN f \cup {k} |-> IF x = k THEN v ELSE f[x]]

\* HashMap::remove of a set of keys.
Without(f, K) == Restrict(f, DOMAIN f \ K)

-----------------------------------------------------------------------------
(* Pure parts of the datapath. *)

\* tcp_advance: one state per entry, RST over FIN over SYN over ACK.
tcp_advance(state, fl) ==
    CASE fl = "rst"    -> "rst_fin"
      [] fl = "fin"    -> "finwait"
      [] fl = "synack" -> "new_synack"
      [] fl = "syn"    -> "new_syn"
      [] fl = "ack" /\ state \in {"new_synack", "new_syn", "established"} -> "established"
      [] OTHER         -> state

\* The entry ct_touch writes back: last_seen = now, TCP state advanced.
Touched(e, fl) == [e EXCEPT !.idle = 0, !.tcp = tcp_advance(@, fl)]

\* The entry ct_ensure_default inserts.
DefaultEntry(fl) ==
    [kind |-> "default", xip |-> Zero, xport |-> 0,
     tcp |-> tcp_advance("none", fl), idle |-> 0]

invert_key(k) ==
    [src |-> k.dst, dst |-> k.src, sport |-> k.dport, dport |-> k.sport, proto |-> k.proto]

\* A packet with its source, or its destination, rewritten.  l4_ports reads
\* the identifier of an ICMP packet as both of its ports.
SourceAs(k, ip, port) ==
    [k EXCEPT !.src = ip, !.sport = port, !.dport = IF k.proto = "icmp" THEN port ELSE @]
DestAs(k, ip, port) ==
    [k EXCEPT !.dst = ip, !.dport = port, !.sport = IF k.proto = "icmp" THEN port ELSE @]

\* ct_apply: the port is rewritten only when the entry's is not zero.
ct_apply(k, e) ==
    CASE e.kind = "snat" -> SourceAs(k, e.xip, IF e.xport = 0 THEN k.sport ELSE e.xport)
      [] e.kind = "dnat" -> DestAs(k, e.xip, IF e.xport = 0 THEN k.dport ELSE e.xport)
      [] OTHER -> k

\* The number of ports of a NAT value: u16 wrapping_sub.
PortRange(v) == (v.max + W - v.min) % W

\* Mutant: the range is taken for one port longer than it is.
ProbePort_Inclusive(v, k, i) ==
    LET size == PortRange(v) + 1
    IN  (v.min + ((((Hash(k) % size) + i) % W) % size)) % W

\* The port tried at probe i by the flow k, in u16 wrapping arithmetic.
ProbePort(v, k, i) ==
    LET start == Hash(k) % PortRange(v)
    IN  (v.min + (((start + i) % W) % PortRange(v))) % W

\* The reverse key the allocator and the NAT return path agree on.
RevKey(ip, port, proto) ==
    [src |-> Zero, dst |-> ip, sport |-> 0, dport |-> port, proto |-> proto]

\* The key a packet from the uplink is looked up with.
DemuxKey(k) ==
    IF k.dst \in natIps THEN [k EXCEPT !.src = Zero, !.sport = 0] ELSE k

\* The idle time after which the sweep removes an entry.
timeout_ns(e) == IF e.tcp = "established" THEN EstTimeout ELSE DefaultTimeout

\* Mutant: established connections are never aged.
Stale_NeverEstablished(e) == e.tcp # "established" /\ e.idle > DefaultTimeout

Stale(e) == e.idle > timeout_ns(e)

-----------------------------------------------------------------------------
(* The stack of a CPU.  The program counter names the next map operation.  *)

Pc == {"idle", "touch", "route", "natfwd", "probe", "insrev", "insfwd", "track",
       "insdef", "seed", "insseed", "ilookup", "itouch", "ifw", "ifweval",
       "natfw", "natfweval", "itrack", "irefresh"}

NullKey == [src |-> Zero, dst |-> Zero, sport |-> 0, dport |-> 0, proto |-> "tcp"]
NullEntry == [kind |-> "default", xip |-> Zero, xport |-> 0, tcp |-> "none", idle |-> 0]
NullNat == [ip |-> Zero, min |-> 0, max |-> 0]

\* pkt: the packet's headers as rewritten so far; key: the key of the entry
\* being refreshed; entry and cfg: copies taken from the maps; probe and
\* port: the allocator's loop counter and chosen port.
CpuState == [pc : Pc, pkt : CtKey, flags : Flags, key : CtKey, entry : CtEntry,
             cfg : NatValue, probe : 0 .. ProbeLimit, port : Port]

IdleCpu == [pc |-> "idle", pkt |-> NullKey, flags |-> "nontcp", key |-> NullKey,
            entry |-> NullEntry, cfg |-> NullNat, probe |-> 0, port |-> 0]

At(c, label) == cpu[c].pc = label
Set(c, s) == cpu' = [cpu EXCEPT ![c] = s]
Goto(c, label) == Set(c, [cpu[c] EXCEPT !.pc = label])
Return(c) == Set(c, IdleCpu)

\* A copy of an entry; last_seen of a copy is never read.
Copy(k) == [conntrack[k] EXCEPT !.idle = 0]

\* The two ports of an ICMP packet are its identifier.
Wellformed(K) == {k \in K : k.proto = "icmp" => k.sport = k.dport}
GuestPackets == Wellformed([src : Guests, dst : Peers \cup Inside, sport : GuestPorts,
                            dport : PeerPorts, proto : PktProtos])
UplinkPackets == Wellformed([src : Peers \cup Inside, dst : UplinkDsts,
                             sport : PeerPorts, dport : UplinkPorts, proto : PktProtos])

Busy == \E c \in Cpus : ~At(c, "idle")

-----------------------------------------------------------------------------
(* Egress: forward_decision_v4 and nat_snat_egress. *)

\* A guest packet arrives and its conntrack key is looked up.  A miss that
\* the egress firewall drops changes nothing and is not a step.
EgressLookup(c, k, fl) ==
    /\ At(c, "idle") /\ sent < MaxPackets
    /\ k.src \in ifaces
    /\ IF k \in DOMAIN conntrack
         THEN Set(c, [IdleCpu EXCEPT !.pc = "touch", !.pkt = k, !.flags = fl, !.key = k,
                                     !.entry = Copy(k)])
         ELSE Set(c, [IdleCpu EXCEPT !.pc = "route", !.pkt = k, !.flags = fl])
    /\ sent' = sent + 1
    /\ UNCHANGED <<maps, gcVars, ctlVars, history>>

\* Mutant: the key is taken again from the packet after it was rewritten.
EgressTouch_RewrittenKey(c) ==
    /\ At(c, "touch")
    /\ LET s == cpu[c]
           out == IF s.entry.kind = "snat" THEN ct_apply(s.pkt, s.entry) ELSE s.pkt
       IN  /\ conntrack' = Upsert(conntrack, out, Touched(s.entry, s.flags))
           /\ Set(c, [s EXCEPT !.pc = "route", !.pkt = out])
    /\ UNCHANGED <<nat, natIps, gcVars, ctlVars, sent, history>>

\* Only an egress translation is applied; every hit is refreshed.
EgressTouch(c) ==
    /\ At(c, "touch")
    /\ LET s == cpu[c] IN
       /\ conntrack' = Upsert(conntrack, s.key, Touched(s.entry, s.flags))
       /\ Set(c, [s EXCEPT !.pc = "route",
                           !.pkt = IF s.entry.kind = "snat" THEN ct_apply(s.pkt, s.entry) ELSE s.pkt])
    /\ UNCHANGED <<nat, natIps, gcVars, ctlVars, sent, history>>

\* No route for the destination: the packet leaves the program.
EgressRouteMiss(c) ==
    /\ At(c, "route")
    /\ Return(c)
    /\ UNCHANGED <<maps, gcVars, ctlVars, sent, history>>

\* The route is found; nat_snat_egress reads the NAT map when it is external.
EgressNatConfig(c) ==
    /\ At(c, "route")
    /\ LET s == cpu[c] IN
       IF /\ s.pkt.dst \in Peers
          /\ s.pkt.src \in DOMAIN nat
          /\ PortRange(nat[s.pkt.src]) # 0
         THEN Set(c, [s EXCEPT !.pc = "natfwd", !.cfg = nat[s.pkt.src]])
         ELSE Goto(c, "track")
    /\ UNCHANGED <<maps, gcVars, ctlVars, sent, history>>

\* The packet with its source rewritten to the allocated port.
Snat(s, port) == SourceAs(s.pkt, s.cfg.ip, port)

\* The forward entry is looked up again: its port is reused when another
\* CPU has translated the flow in the meantime.
NatReusePort(c) ==
    /\ At(c, "natfwd")
    /\ LET s == cpu[c] IN
       IF s.pkt \in DOMAIN conntrack /\ conntrack[s.pkt].kind \in {"snat", "dnat"}
         THEN Set(c, [s EXCEPT !.pc = "track", !.pkt = Snat(s, conntrack[s.pkt].xport)])
         ELSE Set(c, [s EXCEPT !.pc = "probe", !.port = ProbePort(s.cfg, s.pkt, 0)])
    /\ UNCHANGED <<maps, gcVars, ctlVars, sent, history>>

\* Mutant: the first candidate is taken without looking it up.
NatProbe_Unchecked(c) ==
    /\ At(c, "probe")
    /\ Set(c, [cpu[c] EXCEPT !.pc = "insrev"])
    /\ UNCHANGED <<maps, gcVars, ctlVars, sent, history>>

\* One iteration of the probe loop: the reverse key is looked up.
NatProbe(c) ==
    /\ At(c, "probe")
    /\ LET s == cpu[c]
           cand == ProbePort(s.cfg, s.pkt, s.probe)
       IN  \/ /\ s.probe = ProbeLimit
              /\ Goto(c, "insfwd")
           \/ /\ s.probe < ProbeLimit
              /\ RevKey(s.cfg.ip, cand, s.pkt.proto) \notin DOMAIN conntrack
              /\ Set(c, [s EXCEPT !.pc = "insrev", !.port = cand])
           \/ /\ s.probe < ProbeLimit
              /\ RevKey(s.cfg.ip, cand, s.pkt.proto) \in DOMAIN conntrack
              /\ Set(c, [s EXCEPT !.probe = @ + 1])
    /\ UNCHANGED <<maps, gcVars, ctlVars, sent, history>>

\* The reverse entry is inserted, whatever is stored under its key by now.
NatInsertRev(c) ==
    /\ At(c, "insrev")
    /\ LET s == cpu[c] IN
       conntrack' = Upsert(conntrack, RevKey(s.cfg.ip, s.port, s.pkt.proto),
                           [kind |-> "dnat", xip |-> s.pkt.src, xport |-> s.pkt.sport,
                            tcp |-> "none", idle |-> 0])
    /\ Goto(c, "insfwd")
    /\ UNCHANGED <<nat, natIps, gcVars, ctlVars, sent, history>>

\* The forward entry is inserted and the packet rewritten.
NatInsertFwd(c) ==
    /\ At(c, "insfwd")
    /\ LET s == cpu[c] IN
       /\ conntrack' = Upsert(conntrack, s.pkt,
                              [kind |-> "snat", xip |-> s.cfg.ip, xport |-> s.port,
                               tcp |-> "none", idle |-> 0])
       /\ Set(c, [s EXCEPT !.pc = "track", !.pkt = Snat(s, s.port)])
    /\ UNCHANGED <<nat, natIps, gcVars, ctlVars, sent, history>>

\* Track every flow: the key of the packet as it leaves is looked up.  The
\* meter and the encapsulation that follow change none of these maps.
EgressTrack(c) ==
    /\ At(c, "track")
    /\ IF cpu[c].pkt \in DOMAIN conntrack THEN Return(c) ELSE Goto(c, "insdef")
    /\ UNCHANGED <<maps, gcVars, ctlVars, sent, history>>

-----------------------------------------------------------------------------
(* ct_ensure_default, shared by both directions. *)

InsertDefault(c) ==
    /\ At(c, "insdef")
    /\ conntrack' = Upsert(conntrack, cpu[c].pkt, DefaultEntry(cpu[c].flags))
    /\ Goto(c, "seed")
    /\ UNCHANGED <<nat, natIps, gcVars, ctlVars, sent, history>>

SeedLookup(c) ==
    /\ At(c, "seed")
    /\ IF invert_key(cpu[c].pkt) \in DOMAIN conntrack THEN Return(c) ELSE Goto(c, "insseed")
    /\ UNCHANGED <<maps, gcVars, ctlVars, sent, history>>

InsertSeed(c) ==
    /\ At(c, "insseed")
    /\ conntrack' = Upsert(conntrack, invert_key(cpu[c].pkt), DefaultEntry(cpu[c].flags))
    /\ Return(c)
    /\ UNCHANGED <<nat, natIps, gcVars, ctlVars, sent, history>>

-----------------------------------------------------------------------------
(* Ingress: the conntrack part of try_uplink_rx. *)

\* A packet whose outer destination is the underlay address of a local
\* interface is demultiplexed by the NAT_IPS map.
IngressDemux(c, k, fl) ==
    /\ At(c, "idle") /\ sent < MaxPackets
    /\ ifaces # {}
    /\ Set(c, [IdleCpu EXCEPT !.pc = "ilookup", !.pkt = k, !.flags = fl, !.key = DemuxKey(k)])
    /\ sent' = sent + 1
    /\ UNCHANGED <<maps, gcVars, ctlVars, history>>

\* A reverse NAT entry is applied; any other packet goes on untranslated.
IngressLookup(c) ==
    /\ At(c, "ilookup")
    /\ LET s == cpu[c] IN
       IF s.key \in DOMAIN conntrack /\ conntrack[s.key].kind = "dnat"
         THEN Set(c, [s EXCEPT !.pc = "itouch", !.entry = Copy(s.key)])
         ELSE Goto(c, "ifw")
    /\ UNCHANGED <<maps, gcVars, ctlVars, sent, history>>

IngressTouch(c) ==
    /\ At(c, "itouch")
    /\ LET s == cpu[c] IN
       /\ conntrack' = Upsert(conntrack, s.key, Touched(s.entry, s.flags))
       /\ Set(c, [s EXCEPT !.pc = "natfw", !.pkt = ct_apply(s.pkt, s.entry)])
    /\ UNCHANGED <<nat, natIps, gcVars, ctlVars, sent, history>>

\* An untranslated packet may be sent on to the node that owns the nat_ip,
\* or answered in place (ICMP echo): the program ends.
IngressElsewhere(c) ==
    /\ At(c, "ifw")
    /\ Return(c)
    /\ UNCHANGED <<maps, gcVars, ctlVars, sent, history>>

\* A packet that passed the firewall: a NAT return is delivered, any other
\* flow is tracked first.
Admit(c, natted) == IF natted THEN Return(c) ELSE Goto(c, "itrack")

\* The ingress firewall is consulted unless the rewritten 5-tuple is known.
IngressKnown(c) ==
    /\ At(c, "ifw") \/ At(c, "natfw")
    /\ IF cpu[c].pkt \in DOMAIN conntrack
         THEN Admit(c, At(c, "natfw"))
         ELSE Goto(c, IF At(c, "natfw") THEN "natfweval" ELSE "ifweval")
    /\ UNCHANGED <<maps, gcVars, ctlVars, sent, history>>

IngressFirewall(c) ==
    /\ At(c, "ifweval") \/ At(c, "natfweval")
    /\ \/ Return(c)                       \* FW_ACTION_DROP and enforcing
       \/ Admit(c, At(c, "natfweval"))
    /\ UNCHANGED <<maps, gcVars, ctlVars, sent, history>>

IngressTrack(c) ==
    /\ At(c, "itrack")
    /\ LET s == cpu[c] IN
       IF s.pkt \in DOMAIN conntrack
         THEN Set(c, [s EXCEPT !.pc = "irefresh", !.key = s.pkt, !.entry = Copy(s.pkt)])
         ELSE Goto(c, "insdef")
    /\ UNCHANGED <<maps, gcVars, ctlVars, sent, history>>

IngressRefresh(c) ==
    /\ At(c, "irefresh")
    /\ LET s == cpu[c] IN conntrack' = Upsert(conntrack, s.key, Touched(s.entry, s.flags))
    /\ Return(c)
    /\ UNCHANGED <<nat, natIps, gcVars, ctlVars, sent, history>>

-----------------------------------------------------------------------------
(* Time, the LRU hash and the aging sweep. *)

Tick ==
    /\ conntrack' = [k \in DOMAIN conntrack |->
                       [conntrack[k] EXCEPT !.idle = IF @ > EstTimeout THEN @ ELSE @ + 1]]
    /\ UNCHANGED <<nat, natIps, cpu, gcVars, ctlVars, sent, history>>

\* CONNTRACK is an LRU hash: a program that is about to write an entry while
\* the table is full makes the kernel drop some entries first.
Writing == {"touch", "itouch", "irefresh", "insrev", "insfwd", "insdef", "insseed"}
LruEvict(k) ==
    /\ k \in DOMAIN conntrack
    /\ \E c \in Cpus : cpu[c].pc \in Writing
    /\ Cardinality(DOMAIN conntrack) >= CtCapacity
    /\ conntrack' = Without(conntrack, {k})
    /\ UNCHANGED <<nat, natIps, cpu, gcVars, ctlVars, sent, history>>

\* The conntrack mutex, taken by the sweep and by delete_nat only.
LockFree == flushing = {} /\ gcPc # "removing"

\* The first critical section collects the stale keys.  A sweep that finds
\* none changes nothing and is not a step.
GcCollect ==
    /\ gcPc = "sleep" /\ LockFree
    /\ gcStale' = {k \in DOMAIN conntrack : Stale(conntrack[k])}
    /\ gcStale' # {}
    /\ gcPc' = "collected"
    /\ UNCHANGED <<maps, cpu, ctlVars, sent, history>>

GcLock ==
    /\ gcPc = "collected" /\ LockFree
    /\ gcPc' = "removing"
    /\ UNCHANGED <<maps, cpu, gcStale, ctlVars, sent, history>>

\* The second one removes them, one map operation each.
GcRemove(k) ==
    /\ gcPc = "removing" /\ k \in gcStale
    /\ conntrack' = Without(conntrack, {k})
    /\ gcStale' = gcStale \ {k}
    /\ gcPc' = IF gcStale' = {} THEN "sleep" ELSE "removing"
    /\ UNCHANGED <<nat, natIps, cpu, ctlVars, sent, history>>

-----------------------------------------------------------------------------
(* The control plane. *)

\* grpc create_nat truncates the requested ports to u16.
NatOf(ip, r) == [ip |-> ip, min |-> r[1] % W, max |-> r[2] % W]

\* The overlap test of create_nat, on the raw u16 bounds.
Overlap(v, w) == v.ip = w.ip /\ w.min < v.max /\ w.max > v.min

\* The ports the datapath may allocate from a NAT value.
PortsOf(v) == {(v.min + x) % W : x \in 0 .. (PortRange(v) - 1)}

Unlocked == [op |-> "none", guest |-> Zero, cfg |-> NullNat, id |-> 0]
Locked(op, g, v, id) == [op |-> op, guest |-> g, cfg |-> v, id |-> id]
InnerFree == inner.op = "none"

\* create_nat: the NAT entry is written, then its address is marked.
CreateNat(g, ip, r) ==
    /\ InnerFree
    /\ g \in ifaces /\ g \notin DOMAIN nat
    /\ \A h \in DOMAIN nat \cap ifaces : ~Overlap(nat[h], NatOf(ip, r))
    /\ nat' = Upsert(nat, g, NatOf(ip, r))
    /\ inner' = Locked("mark", g, NatOf(ip, r), 0)
    /\ granted' = granted \cup {<<g, ip, p>> : p \in PortsOf(NatOf(ip, r))}
    /\ UNCHANGED <<conntrack, natIps, cpu, gcVars, ifaces, flushReq, flushing, flushKeys,
                   deletes, sent, late, gone>>

MarkNatIp ==
    /\ inner.op = "mark"
    /\ natIps' = natIps \cup {inner.cfg.ip}
    /\ inner' = Unlocked
    /\ UNCHANGED <<conntrack, nat, cpu, gcVars, ifaces, flushReq, flushing, flushKeys,
                   deletes, sent, history>>

FlushRequest == [guest : Guests, cfg : NatValue, id : 1 .. MaxDeletes]

\* First half of delete_nat, under the control-plane mutex.
DeleteNat(g) ==
    /\ InnerFree
    /\ g \in ifaces /\ g \in DOMAIN nat /\ deletes < MaxDeletes
    /\ nat' = Without(nat, {g})
    /\ inner' = Locked("unmark", g, nat[g], deletes + 1)
    /\ deletes' = deletes + 1
    /\ UNCHANGED <<conntrack, natIps, cpu, gcVars, ifaces, flushReq, flushing, flushKeys,
                   sent, history>>

\* Mutant: the nat_ip is unmarked although another guest still uses it.
StillUsed_Never(ip) == FALSE

\* Whether another interface of the VNI uses the address.
StillUsed(ip) == \E h \in DOMAIN nat \cap ifaces : nat[h].ip = ip

UnmarkNatIp ==
    /\ inner.op = "unmark"
    /\ natIps' = IF StillUsed(inner.cfg.ip) THEN natIps ELSE natIps \ {inner.cfg.ip}
    /\ inner' = Unlocked
    /\ flushReq' = flushReq \cup {[guest |-> inner.guest, cfg |-> inner.cfg, id |-> inner.id]}
    /\ UNCHANGED <<conntrack, nat, cpu, gcVars, ifaces, flushing, flushKeys, deletes,
                   sent, history>>

AttachInterface(g) ==
    /\ InnerFree
    /\ g \notin ifaces
    /\ ifaces' = ifaces \cup {g}
    /\ UNCHANGED <<maps, cpu, gcVars, inner, flushReq, flushing, flushKeys, deletes, sent, history>>

\* detach_interface: the NAT entry goes with the last interface of the VNI,
\* its mark and its conntrack entries stay.
DetachInterface(g) ==
    /\ InnerFree
    /\ g \in ifaces /\ g \in Detachable \ gone /\ deletes < MaxDeletes
    /\ ifaces' = ifaces \ {g}
    /\ nat' = IF ifaces' = {} THEN Without(nat, {g}) ELSE nat
    /\ deletes' = deletes + 1
    /\ gone' = gone \cup {g}
    /\ UNCHANGED <<conntrack, natIps, cpu, gcVars, inner, flushReq, flushing, flushKeys,
                   sent, granted, late>>

\* What ct_flush_for_guest selects.
IsFwd(k, e, q) == k.src = q.guest /\ e.kind \in {"snat", "dnat"}

IsRev(k, e, q) ==
    /\ e.kind = "dnat"
    /\ k.dst = q.cfg.ip
    /\ k.dport >= q.cfg.min /\ k.dport < q.cfg.max

\* Mutant: the forward entries are left to the sweep.
FlushSet_RevOnly(q) == {k \in DOMAIN conntrack : IsRev(k, conntrack[k], q)}

FlushSet(q) ==
    {k \in DOMAIN conntrack : IsFwd(k, conntrack[k], q) \/ IsRev(k, conntrack[k], q)}

\* A flush overlaps a packet: what that packet writes later may survive it.
Overtaken(G) == IF Busy THEN late \cup G ELSE late
GuestsOf(Q) == {q.guest : q \in Q}

\* Second half, under the conntrack mutex: collect, then remove.
FlushCollect(q) ==
    /\ q \in flushReq /\ LockFree
    /\ flushReq' = flushReq \ {q}
    /\ flushing' = {q}
    /\ flushKeys' = FlushSet(q)
    /\ late' = Overtaken({q.guest})
    /\ UNCHANGED <<maps, cpu, gcVars, ifaces, inner, deletes, sent, granted, gone>>

FlushRemove(k) ==
    /\ k \in flushKeys
    /\ conntrack' = Without(conntrack, {k})
    /\ flushKeys' = flushKeys \ {k}
    /\ late' = Overtaken(GuestsOf(flushing))
    /\ UNCHANGED <<nat, natIps, cpu, gcVars, ifaces, inner, flushReq, flushing, deletes, sent,
                   granted, gone>>

FlushDone ==
    /\ flushing # {} /\ flushKeys = {}
    /\ flushing' = {}
    /\ late' = Overtaken(GuestsOf(flushing))
    /\ UNCHANGED <<maps, cpu, gcVars, ifaces, inner, flushReq, flushKeys, deletes, sent,
                   granted, gone>>

-----------------------------------------------------------------------------
Init ==
    /\ conntrack = << >>
    /\ nat = << >>
    /\ natIps = {}
    /\ cpu = [c \in Cpus |-> IdleCpu]
    /\ gcPc = "sleep" /\ gcStale = {}
    /\ ifaces = {} /\ inner = Unlocked
    /\ flushReq = {} /\ flushing = {} /\ flushKeys = {}
    /\ sent = 0 /\ deletes = 0
    /\ granted = {} /\ late = {} /\ gone = {}

Arrival(c) ==
    \/ \E k \in GuestPackets : \E fl \in FlagsOf(k) : EgressLookup(c, k, fl)
    \/ \E k \in UplinkPackets : \E fl \in FlagsOf(k) : IngressDemux(c, k, fl)

\* Every step of a program after its first map access.
CpuStep(c) ==
    \/ EgressTouch(c) \/ EgressRouteMiss(c) \/ EgressNatConfig(c)
    \/ NatReusePort(c) \/ NatProbe(c) \/ NatInsertRev(c) \/ NatInsertFwd(c)
    \/ EgressTrack(c) \/ InsertDefault(c) \/ SeedLookup(c) \/ InsertSeed(c)
    \/ IngressLookup(c) \/ IngressTouch(c) \/ IngressElsewhere(c)
    \/ IngressKnown(c) \/ IngressFirewall(c) \/ IngressTrack(c) \/ IngressRefresh(c)

Gc == GcCollect \/ GcLock \/ \E k \in gcStale : GcRemove(k)

Control ==
    \/ \E g \in Guests, ip \in NatIps, r \in NatRequests : CreateNat(g, ip, r)
    \/ \E g \in Guests : DeleteNat(g) \/ AttachInterface(g) \/ DetachInterface(g)
    \/ MarkNatIp \/ UnmarkNatIp
    \/ \E q \in flushReq : FlushCollect(q)
    \/ \E k \in flushKeys : FlushRemove(k)
    \/ FlushDone

Next ==
    \/ \E c \in Cpus : Arrival(c) \/ CpuStep(c)
    \/ Tick
    \/ \E k \in DOMAIN conntrack : LruEvict(k)
    \/ Gc
    \/ Control

Spec == Init /\ [][Next]_vars

\* A BPF program runs to its end, time passes, the sweep task is woken at
\* every interval, a delete_nat call that started completes.
Fairness ==
    /\ \A c \in Cpus : WF_vars(CpuStep(c))
    /\ WF_vars(Tick)
    /\ WF_vars(Gc)
    /\ WF_vars(FlushDone \/ \E k \in flushKeys : FlushRemove(k))
    /\ WF_vars(\E q \in flushReq : FlushCollect(q))
    /\ WF_vars(MarkNatIp \/ UnmarkNatIp)

FairSpec == Spec /\ Fairness

-----------------------------------------------------------------------------
(* Properties. *)

InnerState == {Unlocked} \cup
              [op : {"mark"}, guest : Guests, cfg : [ip : NatIps, min : Port, max : Port], id : {0}] \cup
              [op : {"unmark"}, guest : Guests, cfg : NatValue, id : 1 .. MaxDeletes]

\* Type invariant.
TypeOK ==
    /\ DOMAIN conntrack \subseteq CtKey
    /\ \A k \in DOMAIN conntrack : conntrack[k] \in CtEntry
    /\ DOMAIN nat \subseteq Guests
    /\ \A g \in DOMAIN nat : nat[g] \in NatValue
    /\ natIps \subseteq NatIps
    /\ ifaces \subseteq Guests
    /\ inner \in InnerState
    /\ cpu \in [Cpus -> CpuState]
    /\ gcPc \in {"sleep", "collected", "removing"}
    /\ gcStale \subseteq CtKey
    /\ flushReq \subseteq FlushRequest
    /\ flushing \subseteq FlushRequest
    /\ flushKeys \subseteq CtKey
    /\ sent \in 0 .. MaxPackets
    /\ deletes \in 0 .. MaxDeletes
    /\ granted \subseteq Guests \X NatIps \X Port
    /\ late \subseteq Guests
    /\ gone \subseteq Guests

\* What an entry stored under a key translates was granted to its guest: a
\* forward entry rewrites a guest's source to a (nat_ip, port) of a range
\* that create_nat gave this guest, a reverse entry accepts replies on such
\* a pair only.
Owned(k, e) ==
    /\ e.kind = "snat" => <<k.src, e.xip, e.xport>> \in granted
    /\ e.kind = "dnat" => <<e.xip, k.dst, k.dport>> \in granted /\ k.src = Zero

\* However CPUs, sweep, eviction and control plane interleave, no guest is
\* ever translated to, or reached through, an address and port that
\* create_nat never granted to this very guest (nat_snat_egress).
NatOwnership == \A k \in DOMAIN conntrack : Owned(k, conntrack[k])

\* Every port of the range of a NAT value was granted to the guest.
GrantedTo(g, v) == \A p \in PortsOf(v) : <<g, v.ip, p>> \in granted

\* What the copies on a CPU's stack still mean: between nat_snat_egress's
\* read of the NAT map and its last insert the configuration may be gone,
\* but the port chosen comes from a range once granted; an entry copied in
\* order to be refreshed was owned when it was read.
StackOwned(s) ==
    /\ s.pc \in {"natfwd", "probe", "insrev", "insfwd"} =>
          /\ s.cfg.ip \in NatIps
          /\ PortRange(s.cfg) # 0
          /\ GrantedTo(s.pkt.src, s.cfg)
    /\ s.pc \in {"probe", "insrev", "insfwd"} => s.port \in PortsOf(s.cfg)
    /\ s.pc \in {"touch", "itouch", "irefresh"} => Owned(s.key, s.entry)

\* The inductive form of NatOwnership.
OwnershipInv ==
    /\ NatOwnership
    /\ \A g \in DOMAIN nat : nat[g].ip \in NatIps /\ GrantedTo(g, nat[g])
    /\ \A c \in Cpus : StackOwned(cpu[c])

\* NAT_IPS marks exactly the addresses some guest's NAT uses, so that the
\* ingress demultiplexer zeroes the source of NAT returns and of nothing
\* else (create_nat and delete_nat, as long as no interface is detached).
MarksExact == natIps = {nat[g].ip : g \in DOMAIN nat}
NatIpsExact == (InnerFree /\ gone = {}) => MarksExact

\* What NAT_IPS holds between the two operations of create_nat and
\* delete_nat: the inductive form of NatIpsExact.
MarksInv ==
    gone = {} =>
        /\ DOMAIN nat \subseteq ifaces
        /\ InnerFree => MarksExact
        /\ inner.op = "mark" =>
              /\ inner.guest \in DOMAIN nat /\ nat[inner.guest] = inner.cfg
              /\ natIps \cup {inner.cfg.ip} = {nat[g].ip : g \in DOMAIN nat}
        /\ inner.op = "unmark" =>
              natIps = {nat[g].ip : g \in DOMAIN nat} \cup {inner.cfg.ip}

\* The NAT entries through which a guest is still translated.
Translates(g, k, e) ==
    \/ e.kind = "snat" /\ k.src = g
    \/ e.kind = "dnat" /\ e.xip = g

\* Once delete_nat has returned, conntrack translates nothing for the guest
\* any more, unless a packet was inside a datapath program while the flush
\* ran (ct_flush_for_guest against the ranges the allocator uses).
FlushComplete ==
    \A g \in Guests \ (late \cup gone) :
        (InnerFree /\ g \notin DOMAIN nat /\ g \notin GuestsOf(flushReq \cup flushing))
          => \A k \in DOMAIN conntrack : ~Translates(g, k, conntrack[k])

\* A reverse entry is not given to another guest socket while it is in the
\* table: the allocated port stays with its flow (nat_snat_egress).
RevNotRebound ==
    [][\A k \in DOMAIN conntrack \cap DOMAIN conntrack' :
          conntrack[k].kind = "dnat" =>
             /\ conntrack'[k].kind = "dnat"
             /\ conntrack'[k].xip = conntrack[k].xip
             /\ conntrack'[k].xport = conntrack[k].xport]_vars

\* When packets stop, the sweep empties the table: no entry, whatever its
\* TCP state, is kept for ever (conntrack_gc::run).
AgingDrains == <>[](conntrack = << >>)
=============================================================================
