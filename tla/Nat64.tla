------------------------------- MODULE Nat64 -------------------------------
(***************************************************************************)
(* NAT64 on top of the IPv4 NAT: guests' IPv6 packets to 64:ff9b::/96 are  *)
(* translated to IPv4 and share the ports, the NAT configuration and the   *)
(* CONNTRACK map of NatConntrack with the guests' IPv4 packets; entries    *)
(* they create carry the flag CT_F_NAT64, which sends a reply through the  *)
(* translation back to IPv6.                                               *)
(*                                                                         *)
(* The flag is kept in n64, beside the entries of conntrack: a key is in   *)
(* n64 when its entry has the flag.  The IPv4 programs take part unchanged;*)
(* entries they write anew lack the flag, entries they refresh keep the    *)
(* flag of the copy they took.                                             *)
(*                                                                         *)
(* nat64_egress (XDP) and tc_nat64_egress (tc) differ in how they resize   *)
(* the frame only.                                                         *)
(***************************************************************************)
EXTENDS NatConntrack, Checksum

CONSTANTS
    Dual,       \* guests whose interface has an IPv6 address
    Payloads,   \* words of the payloads of the packets considered
    MaxTicks    \* bound: ticks considered in a behaviour

ASSUME Nat64Assumption ==
    /\ Dual \subseteq Guests
    /\ Payloads \subseteq 0 .. Mask
    /\ MaxTicks \in Nat
    /\ W <= Mask
    /\ \A a \in Addr : WordOf(a) \in 0 .. Mask
    /\ \A g \in Guests : HostOf(g) \in 0 .. Mask

VARIABLES
    n64,        \* keys of conntrack whose entry has CT_F_NAT64
    copy64,     \* CPUs whose copy of an entry has it
    via64,      \* CPUs that run nat64_egress
    ticks,      \* number of ticks so far
    out,        \* history: the packet that NAT64 sent in the last step, if any
    used        \* history: (guest, port, protocol, family) guests sent from

vars64 == <<vars, n64, copy64, via64, ticks, out, used>>

Sockets == Guests \X Port \X Protos \X {4, 6}
NoPacket == [dir |-> "none"]
Silent == out' = NoPacket

-----------------------------------------------------------------------------
(* The IPv4 programs, with the flag carried along. *)

Refreshing == {"touch", "itouch", "irefresh"}

\* The key that the next step of a CPU writes, if it writes one.
Writes(c) ==
    LET s == cpu[c] IN
    CASE s.pc \in Refreshing -> {s.key}
      [] s.pc = "insrev" -> {RevKey(s.cfg.ip, s.port, s.pkt.proto)}
      [] s.pc \in {"insfwd", "insdef"} -> {s.pkt}
      [] s.pc = "insseed" -> {invert_key(s.pkt)}
      [] OTHER -> {}

Step4(c) ==
    /\ c \notin via64
    /\ ~(At(c, "itouch") /\ c \in copy64)
    /\ Arrival(c) \/ CpuStep(c)
    /\ n64' = IF cpu[c].pc \in Refreshing /\ c \in copy64 THEN n64 \cup Writes(c) ELSE n64 \ Writes(c)
    /\ copy64' = IF cpu'[c].pc \in Refreshing /\ cpu'[c].key \in n64
                   THEN copy64 \cup {c} ELSE copy64 \ {c}
    /\ used' = IF At(c, "idle") /\ cpu'[c].pkt.src \in Guests
                 THEN used \cup {<<cpu'[c].pkt.src, cpu'[c].pkt.sport, cpu'[c].pkt.proto, 4>>}
                 ELSE used
    /\ Silent
    /\ UNCHANGED <<via64, ticks>>

\* Removals take the flag with the entry.
Elsewhere4 ==
    /\ \/ Tick /\ ticks < MaxTicks /\ ticks' = ticks + 1
       \/ /\ Gc \/ Control \/ \E k \in DOMAIN conntrack : LruEvict(k)
          /\ UNCHANGED ticks
    /\ n64' = n64 \cap DOMAIN conntrack'
    /\ Silent
    /\ UNCHANGED <<copy64, via64, used>>

-----------------------------------------------------------------------------
(* nat64_egress. *)

\* A packet for 64:ff9b::/96, k being its 5-tuple in IPv4 terms; without a
\* NAT configuration it takes the IPv6 path, which tracks nothing.
Nat64Config(c, k) ==
    /\ At(c, "idle") /\ sent < MaxPackets
    /\ k.src \in ifaces \cap Dual
    /\ k.src \in DOMAIN nat /\ PortRange(nat[k.src]) # 0
    /\ Set(c, [IdleCpu EXCEPT !.pc = "natfwd", !.pkt = k, !.cfg = nat[k.src]])
    /\ sent' = sent + 1
    /\ via64' = via64 \cup {c}
    /\ used' = used \cup {<<k.src, k.sport, k.proto, 6>>}
    /\ Silent
    /\ UNCHANGED <<maps, gcVars, ctlVars, history, n64, copy64, ticks>>

\* The checksum of the translated packet: exchanged pseudo-headers, or, for
\* an echo request, computed anew.
Translated(s, port, d) ==
    LET k == s.pkt
        src6 == Addr6(k.src)
        dst6 == nat64_embed(k.dst)
        ck == Computed(pseudo_v6(src6, dst6, k.proto), k, d)
    IN  IF k.proto = "icmp" THEN icmpv4_echo_checksum(port)
        ELSE tcp_udp_v6_to_v4(ck, src6, dst6, s.cfg.ip, k.dst, k.proto, k.sport, port)

\* The packet is rewritten, then the route is looked up; without a route it
\* falls through as it is.
Emit(c, port) ==
    LET s == cpu[c] IN
    /\ \/ Silent
       \/ out' = [dir |-> "out", guest |-> s.pkt.src, cfg |-> s.cfg,
                  pkt |-> SourceAs(s.pkt, s.cfg.ip, port),
                  ck |-> [d \in Payloads |-> Translated(s, port, d)]]
    /\ Return(c)
    /\ via64' = via64 \ {c}

\* Mutant: the port is reused whatever kind of entry holds it.
Reusable_Any(k) == k \in DOMAIN conntrack

\* The forward entry, of either family, holds a port for the flow.
Reusable(k) == k \in DOMAIN conntrack /\ conntrack[k].kind \in {"snat", "dnat"}

\* The port of a hit is reused with the address configured now; the entry is
\* not refreshed.
Nat64Reuse(c) ==
    /\ At(c, "natfwd") /\ c \in via64
    /\ LET s == cpu[c] IN
       \/ /\ Reusable(s.pkt)
          /\ Emit(c, conntrack[s.pkt].xport)
       \/ /\ ~Reusable(s.pkt)
          /\ Set(c, [s EXCEPT !.pc = "probe", !.port = ProbePort(s.cfg, s.pkt, 0)])
          /\ Silent
          /\ UNCHANGED <<via64>>
    /\ UNCHANGED <<maps, gcVars, ctlVars, sent, history, n64, copy64, ticks, used>>

\* Allocation is the one of the IPv4 NAT.
Nat64Probe(c) ==
    /\ c \in via64
    /\ NatProbe(c)
    /\ Silent
    /\ UNCHANGED <<n64, copy64, via64, ticks, used>>

\* Mutant: the reverse entry lacks the flag.
Nat64InsertRev_Unflagged(c) ==
    /\ c \in via64
    /\ NatInsertRev(c)
    /\ n64' = n64 \ Writes(c)
    /\ Silent
    /\ UNCHANGED <<copy64, via64, ticks, used>>

Nat64InsertRev(c) ==
    /\ c \in via64
    /\ NatInsertRev(c)
    /\ n64' = n64 \cup Writes(c)
    /\ Silent
    /\ UNCHANGED <<copy64, via64, ticks, used>>

Nat64InsertFwd(c) ==
    /\ At(c, "insfwd") /\ c \in via64
    /\ LET s == cpu[c] IN
       /\ conntrack' = Upsert(conntrack, s.pkt,
                              [kind |-> "snat", xip |-> s.cfg.ip, xport |-> s.port,
                               tcp |-> "none", idle |-> 0])
       /\ Emit(c, s.port)
    /\ n64' = n64 \cup Writes(c)
    /\ UNCHANGED <<nat, natIps, gcVars, ctlVars, sent, history, copy64, ticks, used>>

-----------------------------------------------------------------------------
(* nat64_ingress. *)

\* The checksum of a reply k after ct_apply turned it into r, and after the
\* exchange of pseudo-headers.
ReplyChecksum(k, r, d) ==
    LET ck == Computed(pseudo_v4(k.src, k.dst, k.proto), k, d)
        applied == csum_replace(csum_replace(ck, WordOf(k.dst), WordOf(r.dst)), k.dport, r.dport)
        src6 == nat64_embed(k.src)
        dst6 == Addr6(r.dst)
    IN  IF k.proto = "icmp" THEN icmpv6_echo_checksum(src6, dst6, r.dport)
        ELSE tcp_udp_v4_to_v6(applied, k.src, r.dst, src6, dst6, k.proto)

\* The reverse entry is applied and refreshed as in the IPv4 case; then the
\* program ends, without firewall or tracking.  A guest without an IPv6
\* address gets nothing: the packet goes to the kernel.
Nat64Ingress(c) ==
    /\ At(c, "itouch") /\ c \in copy64
    /\ LET s == cpu[c]
           r == ct_apply(s.pkt, s.entry)
       IN  /\ conntrack' = Upsert(conntrack, s.key, Touched(s.entry, s.flags))
           /\ out' = IF r.dst \in Dual
                       THEN [dir |-> "in", guest |-> r.dst, pkt |-> r,
                             ck |-> [d \in Payloads |-> ReplyChecksum(s.pkt, r, d)]]
                       ELSE NoPacket
    /\ n64' = n64 \cup Writes(c)
    /\ Return(c)
    /\ copy64' = copy64 \ {c}
    /\ UNCHANGED <<nat, natIps, gcVars, ctlVars, sent, history, via64, ticks, used>>

-----------------------------------------------------------------------------

Init64 ==
    /\ Init
    /\ n64 = {} /\ copy64 = {} /\ via64 = {}
    /\ ticks = 0
    /\ out = NoPacket
    /\ used = {}

Nat64Step(c) ==
    \/ \E k \in GuestPackets : Nat64Config(c, k)
    \/ Nat64Reuse(c)
    \/ Nat64Probe(c)
    \/ Nat64InsertRev(c)
    \/ Nat64InsertFwd(c)
    \/ Nat64Ingress(c)

Next64 == Elsewhere4 \/ \E c \in Cpus : Step4(c) \/ Nat64Step(c)

Spec64 == Init64 /\ [][Next64]_vars64

-----------------------------------------------------------------------------
(* Properties. *)

\* Type invariant of what this module adds.
TypeOK64 ==
    /\ n64 \subseteq DOMAIN conntrack
    /\ \A k \in n64 : conntrack[k].kind \in {"snat", "dnat"}
    /\ copy64 \subseteq {c \in Cpus : cpu[c].pc \in Refreshing}
    /\ via64 \subseteq {c \in Cpus : cpu[c].pc \in {"natfwd", "probe", "insrev", "insfwd"}}
    /\ used \subseteq Sockets
    /\ ticks \in 0 .. MaxTicks
    /\ out.dir # "none" => out.ck \in [Payloads -> 0 .. Mask]

\* A packet that leaves through NAT64 has a port of the range it was configured
\* with, although the port of a known flow comes from conntrack and the range
\* from the NAT map, which delete_nat and create_nat may have changed since
\* the entry was written (nat64_egress).  Excepted is a guest whose interface
\* was detached, or for which a flush is due or met a packet.
EmittedInRange ==
    out.dir = "out" /\ out.guest \notin late \cup gone \cup GuestsOf(flushReq \cup flushing)
      => out.pkt.sport \in PortsOf(out.cfg)

\* A reverse entry leads back to the family of a packet that its guest did
\* send from the port (CT_F_NAT64 on both entries of a flow).
ReplyFamily ==
    \A k \in DOMAIN conntrack :
        LET e == conntrack[k] IN
        e.kind = "dnat" => <<e.xip, e.xport, k.proto, IF k \in n64 THEN 6 ELSE 4>> \in used

\* The checksum of a TCP or UDP packet that NAT64 translated verifies, for
\* every payload: over IPv4 behind the NAT address, over IPv6 in the guest
\* (tcp_udp_v6_to_v4; ct_apply followed by tcp_udp_v4_to_v6).
SegmentAccepted ==
    out.dir # "none" /\ out.pkt.proto # "icmp" =>
      LET pseudo == IF out.dir = "out"
                      THEN pseudo_v4(out.pkt.src, out.pkt.dst, out.pkt.proto)
                      ELSE pseudo_v6(nat64_embed(out.pkt.src), Addr6(out.guest), out.pkt.proto)
      IN  \A d \in Payloads : Accepts(pseudo, out.pkt, d, out.ck[d])

\* The checksum of an echo request that NAT64 translated verifies, for every
\* payload (nat64_egress: type, identifier and checksum are rewritten).
EchoAccepted ==
    out.dir = "out" /\ out.pkt.proto = "icmp" =>
      \A d \in Payloads : AcceptsEcho(EchoRequest4, out.pkt.sport, d, out.ck[d])
=============================================================================
