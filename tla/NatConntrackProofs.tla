------------------------- MODULE NatConntrackProofs -------------------------
(***************************************************************************)
(* Proofs about NatConntrack, for any number of guests, addresses, ports,  *)
(* CPUs and packets.                                                       *)
(***************************************************************************)
EXTENDS NatConntrack, TLAPS

(***************************************************************************)
(* The allocator's arithmetic.                                             *)
(***************************************************************************)

\* A remainder lies below its divisor.
LEMMA ModRange ==
    ASSUME NEW a \in Nat, NEW n \in Nat \ {0}
    PROVE  a % n \in 0 .. (n - 1)
  OBVIOUS

\* The number of ports of a NAT value is a u16 (nat_snat_egress: wrapping_sub).
LEMMA PortRangeType ==
    ASSUME NEW v \in NatValue
    PROVE  PortRange(v) \in Port
<1>1. v.max \in 0 .. (W - 1) /\ v.min \in 0 .. (W - 1) /\ W \in Nat \ {0}
  BY NatAssumption DEF NatValue, Port
<1>2. v.max + W - v.min \in Nat
  BY <1>1
<1> QED
  BY <1>1, <1>2, ModRange DEF PortRange, Port

\* Every port a NAT value provides is a u16.
LEMMA PortsOfType ==
    ASSUME NEW v \in NatValue
    PROVE  PortsOf(v) \subseteq Port
<1> SUFFICES ASSUME NEW x \in 0 .. (PortRange(v) - 1)
             PROVE  (v.min + x) % W \in Port
  BY DEF PortsOf
<1>1. v.min + x \in Nat /\ W \in Nat \ {0}
  BY PortRangeType, NatAssumption DEF NatValue, Port
<1> QED
  BY <1>1, ModRange DEF Port

\* Whatever the hash and the probe, the port tried is one of the range, the
\* u16 wrap-around of start + i included.
LEMMA ProbePortInRange ==
    ASSUME NEW v \in NatValue, PortRange(v) # 0, NEW k \in CtKey, NEW i \in Nat
    PROVE  ProbePort(v, k, i) \in PortsOf(v)
<1> DEFINE r == PortRange(v)
           start == Hash(k) % r
           x == ((start + i) % W) % r
<1>1. r \in Nat \ {0} /\ W \in Nat \ {0}
  BY PortRangeType, NatAssumption DEF Port
<1>2. start \in Nat
  BY <1>1, HashAssumption, ModRange
<1>3. (start + i) % W \in Nat
  BY <1>1, <1>2, ModRange
<1>4. x \in 0 .. (r - 1)
  BY <1>1, <1>3, ModRange
<1>5. ProbePort(v, k, i) = (v.min + x) % W
  BY DEF ProbePort
<1> QED
  BY <1>4, <1>5 DEF PortsOf

(***************************************************************************)
(* Types of what the datapath computes.                                    *)
(***************************************************************************)

\* tcp_advance yields one of the six TCP states.
LEMMA TcpAdvanceType ==
    ASSUME NEW t \in TcpState, NEW fl \in Flags
    PROVE  tcp_advance(t, fl) \in TcpState
  BY DEF tcp_advance, TcpState, Flags, SegFlags

\* ct_touch keeps the translation of the entry it refreshes.
LEMMA TouchedType ==
    ASSUME NEW e \in CtEntry, NEW fl \in Flags
    PROVE  /\ Touched(e, fl) \in CtEntry
           /\ Touched(e, fl).kind = e.kind
           /\ Touched(e, fl).xip = e.xip
           /\ Touched(e, fl).xport = e.xport
<1>1. tcp_advance(e.tcp, fl) \in TcpState
  BY TcpAdvanceType DEF CtEntry
<1>2. 0 \in Idle
  BY NatAssumption DEF Idle
<1> QED
  BY <1>1, <1>2 DEF Touched, CtEntry

\* What ct_ensure_default inserts is an entry.
LEMMA DefaultEntryType ==
    ASSUME NEW fl \in Flags
    PROVE  DefaultEntry(fl) \in CtEntry /\ DefaultEntry(fl).kind = "default"
<1>1. tcp_advance("none", fl) \in TcpState
  BY TcpAdvanceType DEF TcpState
<1>2. 0 \in Idle /\ 0 \in Port /\ Zero \in Addr
  BY NatAssumption DEF Idle, Port, Addr
<1> QED
  BY <1>1, <1>2 DEF DefaultEntry, CtEntry

\* Rewriting one end of a packet leaves a 5-tuple (the ICMP identifier is
\* rewritten in both ports).
LEMMA RewriteTypes ==
    ASSUME NEW k \in CtKey, NEW ip \in Addr, NEW port \in Port
    PROVE  SourceAs(k, ip, port) \in CtKey /\ DestAs(k, ip, port) \in CtKey
  BY DEF SourceAs, DestAs, CtKey

\* Every key the datapath derives from a 5-tuple is a 5-tuple (invert_key,
\* the demultiplexed key, ct_apply).
LEMMA KeyTypes ==
    ASSUME NEW k \in CtKey
    PROVE  /\ invert_key(k) \in CtKey
           /\ \A e \in CtEntry : ct_apply(k, e) \in CtKey
           /\ DemuxKey(k) \in CtKey
<1>1. invert_key(k) \in CtKey
  BY DEF invert_key, CtKey
<1>2. ASSUME NEW e \in CtEntry
      PROVE  ct_apply(k, e) \in CtKey
  <2>1. \A ip \in Addr, port \in Port : SourceAs(k, ip, port) \in CtKey /\ DestAs(k, ip, port) \in CtKey
    BY RewriteTypes
  <2>2. e.xip \in Addr /\ e.xport \in Port /\ k.sport \in Port /\ k.dport \in Port
    BY <1>2 DEF CtEntry, CtKey
  <2> QED
    BY <2>1, <2>2 DEF ct_apply
<1>3. 0 \in Port /\ Zero \in Addr
  BY NatAssumption DEF Port, Addr
<1>4. DemuxKey(k) \in CtKey
  BY <1>3 DEF DemuxKey, CtKey
<1> QED
  BY <1>1, <1>2, <1>4

\* The stack a program starts with.
LEMMA IdleCpuType ==
    IdleCpu \in CpuState /\ IdleCpu.pc = "idle"
  BY NatAssumption DEF IdleCpu, CpuState, NullKey, NullEntry, NullNat, CtKey, CtEntry,
     NatValue, Addr, Port, Protos, TcpState, Idle, Flags, Pc

\* The packets considered are 5-tuples.
LEMMA PacketTypes ==
    GuestPackets \subseteq CtKey /\ UplinkPackets \subseteq CtKey
  BY NatAssumption DEF GuestPackets, UplinkPackets, Wellformed, CtKey, Addr

(***************************************************************************)
(* The invariants, and the two ways an action disturbs them.               *)
(***************************************************************************)

Inv == TypeOK /\ OwnershipInv

\* A conntrack insert of an owned entry keeps the table typed and owned.
LEMMA InsertKeeps ==
    ASSUME Inv, NEW k \in CtKey, NEW e \in CtEntry, Owned(k, e), granted' = granted,
           conntrack' = Upsert(conntrack, k, e)
    PROVE  /\ DOMAIN conntrack' \subseteq CtKey
           /\ \A x \in DOMAIN conntrack' : conntrack'[x] \in CtEntry
           /\ NatOwnership'
<1>1. DOMAIN conntrack' = DOMAIN conntrack \cup {k}
  BY DEF Upsert
<1>2. \A x \in DOMAIN conntrack' : conntrack'[x] = IF x = k THEN e ELSE conntrack[x]
  BY <1>1 DEF Upsert
<1>3. DOMAIN conntrack' \subseteq CtKey
  BY <1>1 DEF Inv, TypeOK
<1>4. \A x \in DOMAIN conntrack' : conntrack'[x] \in CtEntry
  BY <1>1, <1>2 DEF Inv, TypeOK
<1>5. ASSUME NEW x \in DOMAIN conntrack'
      PROVE  Owned(x, conntrack[x])'
  <2>1. Owned(x, IF x = k THEN e ELSE conntrack[x])
    BY <1>1, <1>5 DEF Inv, OwnershipInv, NatOwnership
  <2>2. Owned(x, conntrack'[x])
    BY <2>1, <1>2, <1>5
  <2> QED
    BY <2>2 DEF Owned
<1> QED
  BY <1>3, <1>4, <1>5 DEF NatOwnership

\* So does a removal.
LEMMA RemoveKeeps ==
    ASSUME Inv, NEW K, granted' = granted, conntrack' = Without(conntrack, K)
    PROVE  /\ DOMAIN conntrack' \subseteq CtKey
           /\ \A x \in DOMAIN conntrack' : conntrack'[x] \in CtEntry
           /\ NatOwnership'
<1>1. DOMAIN conntrack' = DOMAIN conntrack \ K
  BY DEF Without, Restrict
<1>2. \A x \in DOMAIN conntrack' : conntrack'[x] = conntrack[x] /\ x \in DOMAIN conntrack
  BY <1>1 DEF Without, Restrict
<1> QED
  BY <1>1, <1>2 DEF Inv, TypeOK, OwnershipInv, NatOwnership, Owned

\* A step of one CPU leaves the stacks of the others alone.
LEMMA StackKeeps ==
    ASSUME Inv, NEW c \in Cpus, NEW s \in CpuState, StackOwned(s), granted' = granted,
           Set(c, s)
    PROVE  /\ cpu' \in [Cpus -> CpuState]
           /\ \A d \in Cpus : StackOwned(cpu[d])'
<1>1. cpu \in [Cpus -> CpuState]
  BY DEF Inv, TypeOK
<1>2. cpu' \in [Cpus -> CpuState] /\ \A d \in Cpus : cpu'[d] = IF d = c THEN s ELSE cpu[d]
  BY <1>1 DEF Set
<1>3. ASSUME NEW d \in Cpus
      PROVE  StackOwned(cpu[d])'
  <2>1. StackOwned(cpu'[d])
    BY <1>2, <1>3 DEF Inv, OwnershipInv
  <2> QED
    BY <2>1 DEF StackOwned, Owned, GrantedTo, PortsOf, PortRange
<1> QED
  BY <1>2, <1>3

\* The part of the invariants that no step of a CPU disturbs.
LEMMA ConfigKeeps ==
    ASSUME Inv, UNCHANGED <<nat, natIps, gcVars, ctlVars, history>>, sent' \in 0 .. MaxPackets
    PROVE  /\ \A g \in DOMAIN nat' : nat'[g].ip \in NatIps /\ GrantedTo(g, nat[g])'
           /\ DOMAIN nat' \subseteq Guests
           /\ \A g \in DOMAIN nat' : nat'[g] \in NatValue
           /\ natIps' \subseteq NatIps
           /\ gcPc' \in {"sleep", "collected", "removing"}
           /\ gcStale' \subseteq CtKey
           /\ flushReq' \subseteq FlushRequest
           /\ flushing' \subseteq FlushRequest
           /\ flushKeys' \subseteq CtKey
           /\ sent' \in 0 .. MaxPackets
           /\ deletes' \in 0 .. MaxDeletes
           /\ granted' \subseteq Guests \X NatIps \X Port
           /\ late' \subseteq Guests
           /\ ifaces' \subseteq Guests
           /\ inner' \in InnerState
           /\ gone' \subseteq Guests
<1>1. nat' = nat /\ granted' = granted
  BY DEF history
<1>2. \A g \in DOMAIN nat' : nat'[g].ip \in NatIps /\ GrantedTo(g, nat[g])'
  BY <1>1 DEF Inv, OwnershipInv, GrantedTo, PortsOf, PortRange
<1> QED
  BY <1>1, <1>2 DEF Inv, TypeOK, gcVars, ctlVars, history

\* A step that only moves one CPU.
LEMMA CpuMove ==
    ASSUME Inv, NEW c \in Cpus, NEW s \in CpuState, StackOwned(s), Set(c, s),
           UNCHANGED <<maps, gcVars, ctlVars, history>>, sent' \in 0 .. MaxPackets
    PROVE  Inv'
<1>1. UNCHANGED <<nat, natIps, gcVars, ctlVars, history>> /\ conntrack' = conntrack
      /\ granted' = granted
  BY DEF maps, history
<1>2. cpu' \in [Cpus -> CpuState] /\ \A d \in Cpus : StackOwned(cpu[d])'
  BY <1>1, StackKeeps
<1>3. NatOwnership'
  BY <1>1 DEF Inv, OwnershipInv, NatOwnership, Owned
<1>4. DOMAIN conntrack' \subseteq CtKey /\ \A x \in DOMAIN conntrack' : conntrack'[x] \in CtEntry
  BY <1>1 DEF Inv, TypeOK
<1> QED
  BY <1>1, <1>2, <1>3, <1>4, ConfigKeeps DEF Inv, TypeOK, OwnershipInv

\* A step of one CPU that inserts a conntrack entry.
LEMMA CpuInsert ==
    ASSUME Inv, NEW c \in Cpus, NEW s \in CpuState, StackOwned(s), Set(c, s),
           NEW k \in CtKey, NEW e \in CtEntry, Owned(k, e),
           conntrack' = Upsert(conntrack, k, e),
           UNCHANGED <<nat, natIps, gcVars, ctlVars, sent, history>>
    PROVE  Inv'
<1>1. UNCHANGED <<nat, natIps, gcVars, ctlVars, history>> /\ granted' = granted
      /\ sent' \in 0 .. MaxPackets
  BY DEF history, Inv, TypeOK
<1>2. cpu' \in [Cpus -> CpuState] /\ \A d \in Cpus : StackOwned(cpu[d])'
  BY <1>1, StackKeeps
<1>3. /\ DOMAIN conntrack' \subseteq CtKey
      /\ \A x \in DOMAIN conntrack' : conntrack'[x] \in CtEntry
      /\ NatOwnership'
  BY <1>1, InsertKeeps
<1> QED
  BY <1>1, <1>2, <1>3, ConfigKeeps DEF Inv, TypeOK, OwnershipInv

(***************************************************************************)
(* One lemma per group of actions.                                         *)
(***************************************************************************)

\* A stack whose next operation uses no copied data.
LEMMA PlainStack ==
    ASSUME NEW s, s.pc \notin {"natfwd", "probe", "insrev", "insfwd", "touch", "itouch", "irefresh"}
    PROVE  StackOwned(s)
  BY DEF StackOwned

\* Moving on with the stack as it is.
LEMMA GotoStack ==
    ASSUME Inv, NEW c \in Cpus, NEW l \in Pc
    PROVE  /\ [cpu[c] EXCEPT !.pc = l] \in CpuState
           /\ [cpu[c] EXCEPT !.pc = l].pc = l
  BY DEF Inv, TypeOK, CpuState

\* A copy of an entry of the table is typed and owned.
LEMMA CopyOwned ==
    ASSUME Inv, NEW k \in DOMAIN conntrack
    PROVE  /\ Copy(k) \in CtEntry
           /\ Owned(k, Copy(k))
           /\ k \in CtKey
<1>1. k \in CtKey /\ conntrack[k] \in CtEntry /\ Owned(k, conntrack[k])
  BY DEF Inv, TypeOK, OwnershipInv, NatOwnership
<1>2. 0 \in Idle
  BY NatAssumption DEF Idle
<1> QED
  BY <1>1, <1>2 DEF Copy, CtEntry, Owned

\* The first map access of a program (forward_decision_v4, try_uplink_rx).
LEMMA ArrivalKeeps ==
    ASSUME Inv, NEW c \in Cpus, Arrival(c)
    PROVE  Inv'
<1>1. sent < MaxPackets /\ sent' = sent + 1 => sent' \in 0 .. MaxPackets
  BY NatAssumption DEF Inv, TypeOK
<1>2. ASSUME NEW k \in GuestPackets, NEW fl \in FlagsOf(k), EgressLookup(c, k, fl)
      PROVE  Inv'
  <2>1. k \in CtKey /\ fl \in Flags
    BY PacketTypes DEF FlagsOf, Flags
  <2>2. CASE k \in DOMAIN conntrack
    <3> DEFINE s == [IdleCpu EXCEPT !.pc = "touch", !.pkt = k, !.flags = fl, !.key = k,
                                    !.entry = Copy(k)]
    <3>1. Copy(k) \in CtEntry /\ Owned(k, Copy(k))
      BY <2>2, CopyOwned
    <3>2. /\ s \in CpuState
          /\ s.pc = "touch" /\ s.key = k /\ s.entry = Copy(k)
      BY <2>1, <3>1, IdleCpuType DEF CpuState, Pc
    <3>3. StackOwned(s)
      BY <3>1, <3>2 DEF StackOwned
    <3>4. Set(c, s)
      BY <1>2, <2>2 DEF EgressLookup
    <3> HIDE DEF s
    <3> QED
      BY <1>1, <1>2, <3>2, <3>3, <3>4, CpuMove DEF EgressLookup
  <2>3. CASE k \notin DOMAIN conntrack
    <3> DEFINE s == [IdleCpu EXCEPT !.pc = "route", !.pkt = k, !.flags = fl]
    <3>1. s \in CpuState /\ s.pc = "route"
      BY <2>1, IdleCpuType DEF CpuState, Pc
    <3>2. StackOwned(s)
      BY <3>1, PlainStack
    <3>3. Set(c, s)
      BY <1>2, <2>3 DEF EgressLookup
    <3> HIDE DEF s
    <3> QED
      BY <1>1, <1>2, <3>1, <3>2, <3>3, CpuMove DEF EgressLookup
  <2> QED
    BY <2>2, <2>3
<1>3. ASSUME NEW k \in UplinkPackets, NEW fl \in FlagsOf(k), IngressDemux(c, k, fl)
      PROVE  Inv'
  <2> DEFINE s == [IdleCpu EXCEPT !.pc = "ilookup", !.pkt = k, !.flags = fl, !.key = DemuxKey(k)]
  <2>1. k \in CtKey /\ fl \in Flags /\ DemuxKey(k) \in CtKey
    BY PacketTypes, KeyTypes DEF FlagsOf, Flags
  <2>2. s \in CpuState /\ s.pc = "ilookup"
    BY <2>1, IdleCpuType DEF CpuState, Pc
  <2>3. StackOwned(s)
    BY <2>2, PlainStack
  <2>4. Set(c, s)
    BY <1>3 DEF IngressDemux
  <2> HIDE DEF s
  <2> QED
    BY <1>1, <1>3, <2>2, <2>3, <2>4, CpuMove DEF IngressDemux
<1> QED
  BY <1>2, <1>3 DEF Arrival

\* Refreshing a copied entry (ct_touch) puts an owned entry under its key,
\* even when the entry was removed or replaced since it was copied.
LEMMA TouchOwned ==
    ASSUME Inv, NEW c \in Cpus, cpu[c].pc \in {"touch", "itouch", "irefresh"}
    PROVE  /\ cpu[c].key \in CtKey
           /\ Touched(cpu[c].entry, cpu[c].flags) \in CtEntry
           /\ Owned(cpu[c].key, Touched(cpu[c].entry, cpu[c].flags))
<1>1. cpu[c] \in CpuState /\ StackOwned(cpu[c])
  BY DEF Inv, TypeOK, OwnershipInv
<1>2. cpu[c].key \in CtKey /\ cpu[c].entry \in CtEntry /\ cpu[c].flags \in Flags
  BY <1>1 DEF CpuState
<1>3. Owned(cpu[c].key, cpu[c].entry)
  BY <1>1 DEF StackOwned
<1> QED
  BY <1>2, <1>3, TouchedType DEF Owned

\* Steps that leave the program or go on without any copied data.
LEMMA ReturnKeeps ==
    ASSUME Inv, NEW c \in Cpus, Return(c), UNCHANGED <<maps, gcVars, ctlVars, sent, history>>
    PROVE  Inv'
<1>1. StackOwned(IdleCpu)
  BY IdleCpuType, PlainStack
<1>2. Set(c, IdleCpu)
  BY DEF Return
<1>3. sent' \in 0 .. MaxPackets
  BY DEF Inv, TypeOK
<1> QED
  BY <1>1, <1>2, <1>3, IdleCpuType, CpuMove

\* Steps that go on without any copied data.
LEMMA GotoKeeps ==
    ASSUME Inv, NEW c \in Cpus,
           NEW l \in {"track", "insdef", "insseed", "ifw", "ifweval", "natfweval", "itrack", "seed"},
           Goto(c, l), UNCHANGED <<maps, gcVars, ctlVars, sent, history>>
    PROVE  Inv'
<1> DEFINE s == [cpu[c] EXCEPT !.pc = l]
<1>0. l \in Pc
  BY DEF Pc
<1>1. s \in CpuState /\ s.pc = l
  BY <1>0, GotoStack
<1>2. StackOwned(s)
  BY <1>1, PlainStack
<1>3. Set(c, s)
  BY DEF Goto
<1>4. sent' \in 0 .. MaxPackets
  BY DEF Inv, TypeOK
<1> HIDE DEF s
<1> QED
  BY <1>1, <1>2, <1>3, <1>4, CpuMove

\* forward_decision_v4 around the allocator.
LEMMA EgressKeeps ==
    ASSUME Inv, NEW c \in Cpus,
           EgressTouch(c) \/ EgressRouteMiss(c) \/ EgressNatConfig(c) \/ EgressTrack(c)
    PROVE  Inv'
<1>1. cpu[c] \in CpuState /\ StackOwned(cpu[c])
  BY DEF Inv, TypeOK, OwnershipInv
<1>2. CASE EgressTouch(c)
  <2> DEFINE s == cpu[c]
             q == IF s.entry.kind = "snat" THEN ct_apply(s.pkt, s.entry) ELSE s.pkt
             t == [s EXCEPT !.pc = "route", !.pkt = q]
  <2>1. q \in CtKey
    BY <1>1, KeyTypes DEF CpuState
  <2> HIDE DEF q
  <2>2. t \in CpuState /\ t.pc = "route"
    BY <1>1, <2>1 DEF CpuState, Pc
  <2>3. StackOwned(t)
    BY <2>2, PlainStack
  <2>4. Set(c, t) /\ conntrack' = Upsert(conntrack, s.key, Touched(s.entry, s.flags))
    BY <1>2 DEF EgressTouch, q
  <2>5. s.pc = "touch"
    BY <1>2 DEF EgressTouch, At
  <2>6. UNCHANGED <<nat, natIps, gcVars, ctlVars, sent, history>>
    BY <1>2 DEF EgressTouch
  <2> HIDE DEF t
  <2> QED
    BY <2>2, <2>3, <2>4, <2>5, <2>6, TouchOwned, CpuInsert
<1>3. CASE EgressRouteMiss(c)
  BY <1>3, ReturnKeeps DEF EgressRouteMiss
<1>4. CASE EgressNatConfig(c)
  <2> DEFINE s == cpu[c]
             ext == s.pkt.dst \in Peers /\ s.pkt.src \in DOMAIN nat /\ PortRange(nat[s.pkt.src]) # 0
             t == [s EXCEPT !.pc = "natfwd", !.cfg = nat[s.pkt.src]]
  <2>1. UNCHANGED <<maps, gcVars, ctlVars, sent, history>>
    BY <1>4 DEF EgressNatConfig
  <2>2. CASE ext
    <3>1. nat[s.pkt.src] \in NatValue /\ nat[s.pkt.src].ip \in NatIps
          /\ GrantedTo(s.pkt.src, nat[s.pkt.src])
      BY <2>2 DEF Inv, TypeOK, OwnershipInv
    <3>2. /\ t \in CpuState
          /\ t.pc = "natfwd" /\ t.cfg = nat[s.pkt.src] /\ t.pkt = s.pkt
      BY <1>1, <3>1 DEF CpuState, Pc
    <3>3. StackOwned(t)
      BY <2>2, <3>1, <3>2 DEF StackOwned
    <3>4. Set(c, t)
      BY <1>4, <2>2 DEF EgressNatConfig
    <3>5. sent' \in 0 .. MaxPackets
      BY <2>1 DEF Inv, TypeOK
    <3> HIDE DEF t
    <3> QED
      BY <2>1, <3>2, <3>3, <3>4, <3>5, CpuMove
  <2>3. CASE ~ext
    BY <1>4, <2>1, <2>3, GotoKeeps DEF EgressNatConfig
  <2> QED
    BY <2>2, <2>3
<1>5. CASE EgressTrack(c)
  BY <1>5, GotoKeeps, ReturnKeeps DEF EgressTrack
<1> QED
  BY <1>2, <1>3, <1>4, <1>5

\* nat_snat_egress: reuse, probing and the two inserts.
LEMMA AllocatorKeeps ==
    ASSUME Inv, NEW c \in Cpus,
           NatReusePort(c) \/ NatProbe(c) \/ NatInsertRev(c) \/ NatInsertFwd(c)
    PROVE  Inv'
<1> DEFINE s == cpu[c]
<1>1. s \in CpuState /\ StackOwned(s) /\ sent \in 0 .. MaxPackets
  BY DEF Inv, TypeOK, OwnershipInv
<1>2. s.pkt \in CtKey /\ s.cfg \in NatValue /\ s.probe \in 0 .. ProbeLimit /\ s.port \in Port
  BY <1>1 DEF CpuState
<1>3. s.cfg.ip \in Addr
  BY <1>2 DEF NatValue, Addr
<1>4. ASSUME NEW port \in Port
      PROVE  Snat(s, port) \in CtKey
  BY <1>2, <1>3, RewriteTypes DEF Snat
<1>5. ASSUME PortRange(s.cfg) # 0, NEW i \in Nat
      PROVE  ProbePort(s.cfg, s.pkt, i) \in PortsOf(s.cfg) /\ ProbePort(s.cfg, s.pkt, i) \in Port
  BY <1>2, <1>5, ProbePortInRange, PortsOfType
<1>6. CASE NatReusePort(c)
  <2>1. /\ s.pc = "natfwd"
        /\ UNCHANGED <<maps, gcVars, ctlVars, sent, history>>
    BY <1>6 DEF NatReusePort, At
  <2>2. s.cfg.ip \in NatIps /\ PortRange(s.cfg) # 0 /\ GrantedTo(s.pkt.src, s.cfg)
    BY <1>1, <2>1 DEF StackOwned
  <2>3. CASE s.pkt \in DOMAIN conntrack /\ conntrack[s.pkt].kind \in {"snat", "dnat"}
    <3> DEFINE q == Snat(s, conntrack[s.pkt].xport)
               t == [s EXCEPT !.pc = "track", !.pkt = q]
    <3>1. conntrack[s.pkt].xport \in Port
      BY <2>3 DEF Inv, TypeOK, CtEntry
    <3>2. q \in CtKey
      BY <1>4, <3>1
    <3> HIDE DEF q
    <3>3. t \in CpuState /\ t.pc = "track"
      BY <1>1, <3>2 DEF CpuState, Pc
    <3>4. StackOwned(t)
      BY <3>3, PlainStack
    <3>5. Set(c, t)
      BY <1>6, <2>3 DEF NatReusePort, q
    <3> HIDE DEF t
    <3> QED
      BY <1>1, <2>1, <3>3, <3>4, <3>5, CpuMove
  <2>4. CASE ~(s.pkt \in DOMAIN conntrack /\ conntrack[s.pkt].kind \in {"snat", "dnat"})
    <3> DEFINE port == ProbePort(s.cfg, s.pkt, 0)
               t == [s EXCEPT !.pc = "probe", !.port = port]
    <3>1. port \in PortsOf(s.cfg) /\ port \in Port
      BY <1>5, <2>2
    <3> HIDE DEF port
    <3>2. /\ t \in CpuState
          /\ t.pc = "probe" /\ t.port = port /\ t.cfg = s.cfg /\ t.pkt = s.pkt
      BY <1>1, <3>1 DEF CpuState, Pc
    <3>3. StackOwned(t)
      BY <2>2, <3>1, <3>2 DEF StackOwned
    <3>4. Set(c, t)
      BY <1>6, <2>4 DEF NatReusePort, port
    <3> HIDE DEF t
    <3> QED
      BY <1>1, <2>1, <3>2, <3>3, <3>4, CpuMove
  <2> QED
    BY <2>3, <2>4
<1>7. CASE NatProbe(c)
  <2> DEFINE cand == ProbePort(s.cfg, s.pkt, s.probe)
             free == RevKey(s.cfg.ip, cand, s.pkt.proto) \notin DOMAIN conntrack
             t1 == [s EXCEPT !.pc = "insfwd"]
             t2 == [s EXCEPT !.pc = "insrev", !.port = cand]
             t3 == [s EXCEPT !.probe = @ + 1]
  <2>1. /\ s.pc = "probe"
        /\ UNCHANGED <<maps, gcVars, ctlVars, sent, history>>
    BY <1>7 DEF NatProbe, At
  <2>2. /\ s.cfg.ip \in NatIps /\ PortRange(s.cfg) # 0 /\ GrantedTo(s.pkt.src, s.cfg)
        /\ s.port \in PortsOf(s.cfg)
    BY <1>1, <2>1 DEF StackOwned
  <2>3. cand \in PortsOf(s.cfg) /\ cand \in Port
    BY <1>2, <1>5, <2>2
  <2>4. \/ Set(c, t1)
        \/ Set(c, t2)
        \/ s.probe < ProbeLimit /\ Set(c, t3)
    BY <1>7 DEF NatProbe, Goto
  <2> HIDE DEF cand
  <2>5. CASE Set(c, t1)
    <3>1. /\ t1 \in CpuState
          /\ t1.pc = "insfwd" /\ t1.port = s.port /\ t1.cfg = s.cfg /\ t1.pkt = s.pkt
      BY <1>1 DEF CpuState, Pc
    <3>2. StackOwned(t1)
      BY <2>2, <3>1 DEF StackOwned
    <3> HIDE DEF t1
    <3> QED
      BY <1>1, <2>1, <2>5, <3>1, <3>2, CpuMove
  <2>6. CASE Set(c, t2)
    <3>1. /\ t2 \in CpuState
          /\ t2.pc = "insrev" /\ t2.port = cand /\ t2.cfg = s.cfg /\ t2.pkt = s.pkt
      BY <1>1, <2>3 DEF CpuState, Pc
    <3>2. StackOwned(t2)
      BY <2>2, <2>3, <3>1 DEF StackOwned
    <3> HIDE DEF t2
    <3> QED
      BY <1>1, <2>1, <2>6, <3>1, <3>2, CpuMove
  <2>7. CASE s.probe < ProbeLimit /\ Set(c, t3)
    <3>1. s.probe + 1 \in 0 .. ProbeLimit
      BY <1>2, <2>7, NatAssumption
    <3>2. /\ t3 \in CpuState
          /\ t3.pc = s.pc /\ t3.port = s.port /\ t3.cfg = s.cfg /\ t3.pkt = s.pkt
      BY <1>1, <3>1 DEF CpuState
    <3>3. StackOwned(t3)
      BY <2>1, <2>2, <3>2 DEF StackOwned
    <3> HIDE DEF t3
    <3> QED
      BY <1>1, <2>1, <2>7, <3>2, <3>3, CpuMove
  <2> QED
    BY <2>4, <2>5, <2>6, <2>7
<1>8. CASE NatInsertRev(c)
  <2> DEFINE k == RevKey(s.cfg.ip, s.port, s.pkt.proto)
             e == [kind |-> "dnat", xip |-> s.pkt.src, xport |-> s.pkt.sport,
                   tcp |-> "none", idle |-> 0]
             t == [s EXCEPT !.pc = "insfwd"]
  <2>1. /\ s.pc = "insrev"
        /\ conntrack' = Upsert(conntrack, k, e)
        /\ Set(c, t)
        /\ UNCHANGED <<nat, natIps, gcVars, ctlVars, sent, history>>
    BY <1>8 DEF NatInsertRev, At, Goto
  <2>2. /\ s.cfg.ip \in NatIps /\ PortRange(s.cfg) # 0 /\ GrantedTo(s.pkt.src, s.cfg)
        /\ s.port \in PortsOf(s.cfg)
    BY <1>1, <2>1 DEF StackOwned
  <2>3. k \in CtKey /\ k.dst = s.cfg.ip /\ k.dport = s.port /\ k.src = Zero
    <3>1. 0 \in Port /\ Zero \in Addr
      BY NatAssumption DEF Port, Addr
    <3> QED
      BY <1>2, <1>3, <3>1 DEF RevKey, CtKey
  <2>4. e \in CtEntry /\ e.kind = "dnat" /\ e.xip = s.pkt.src
    <3>1. 0 \in Idle
      BY NatAssumption DEF Idle
    <3> QED
      BY <1>2, <3>1 DEF CtEntry, CtKey, TcpState
  <2>5. Owned(k, e)
    BY <2>2, <2>3, <2>4 DEF Owned, GrantedTo
  <2>6. /\ t \in CpuState
        /\ t.pc = "insfwd" /\ t.port = s.port /\ t.cfg = s.cfg /\ t.pkt = s.pkt
    BY <1>1 DEF CpuState, Pc
  <2>7. StackOwned(t)
    BY <2>2, <2>6 DEF StackOwned
  <2> HIDE DEF k, e, t
  <2> QED
    BY <2>1, <2>3, <2>4, <2>5, <2>6, <2>7, CpuInsert
<1>9. CASE NatInsertFwd(c)
  <2> DEFINE q == Snat(s, s.port)
             e == [kind |-> "snat", xip |-> s.cfg.ip, xport |-> s.port,
                   tcp |-> "none", idle |-> 0]
             t == [s EXCEPT !.pc = "track", !.pkt = q]
  <2>1. /\ s.pc = "insfwd"
        /\ conntrack' = Upsert(conntrack, s.pkt, e)
        /\ Set(c, t)
        /\ UNCHANGED <<nat, natIps, gcVars, ctlVars, sent, history>>
    BY <1>9 DEF NatInsertFwd, At
  <2>2. GrantedTo(s.pkt.src, s.cfg) /\ s.port \in PortsOf(s.cfg)
    BY <1>1, <2>1 DEF StackOwned
  <2>3. e \in CtEntry /\ e.kind = "snat" /\ e.xip = s.cfg.ip /\ e.xport = s.port
    <3>1. 0 \in Idle
      BY NatAssumption DEF Idle
    <3> QED
      BY <1>2, <1>3, <3>1 DEF CtEntry, TcpState
  <2>4. Owned(s.pkt, e)
    BY <2>2, <2>3 DEF Owned, GrantedTo
  <2>5. q \in CtKey
    BY <1>2, <1>4
  <2> HIDE DEF q
  <2>6. t \in CpuState /\ t.pc = "track"
    BY <1>1, <2>5 DEF CpuState, Pc
  <2>7. StackOwned(t)
    BY <2>6, PlainStack
  <2> HIDE DEF e, t
  <2> QED
    BY <1>2, <2>1, <2>3, <2>4, <2>6, <2>7, CpuInsert
<1> QED
  BY <1>6, <1>7, <1>8, <1>9

\* ct_ensure_default.
LEMMA DefaultKeeps ==
    ASSUME Inv, NEW c \in Cpus, InsertDefault(c) \/ SeedLookup(c) \/ InsertSeed(c)
    PROVE  Inv'
<1> DEFINE s == cpu[c]
           e == DefaultEntry(s.flags)
<1>1. s \in CpuState
  BY DEF Inv, TypeOK
<1>2. s.pkt \in CtKey /\ s.flags \in Flags /\ invert_key(s.pkt) \in CtKey
  BY <1>1, KeyTypes DEF CpuState
<1>3. e \in CtEntry /\ \A k : Owned(k, e)
  BY <1>2, DefaultEntryType DEF Owned
<1>4. CASE InsertDefault(c)
  <2> DEFINE t == [s EXCEPT !.pc = "seed"]
  <2>1. /\ conntrack' = Upsert(conntrack, s.pkt, e)
        /\ Set(c, t)
        /\ UNCHANGED <<nat, natIps, gcVars, ctlVars, sent, history>>
    BY <1>4 DEF InsertDefault, Goto
  <2>2. t \in CpuState /\ t.pc = "seed"
    BY <1>1 DEF CpuState, Pc
  <2>3. StackOwned(t)
    BY <2>2, PlainStack
  <2> HIDE DEF e, t
  <2> QED
    BY <1>2, <1>3, <2>1, <2>2, <2>3, CpuInsert
<1>5. CASE SeedLookup(c)
  BY <1>5, GotoKeeps, ReturnKeeps DEF SeedLookup
<1>6. CASE InsertSeed(c)
  <2>1. /\ conntrack' = Upsert(conntrack, invert_key(s.pkt), e)
        /\ Set(c, IdleCpu)
        /\ UNCHANGED <<nat, natIps, gcVars, ctlVars, sent, history>>
    BY <1>6 DEF InsertSeed, Return
  <2>2. StackOwned(IdleCpu)
    BY IdleCpuType, PlainStack
  <2> HIDE DEF e
  <2> QED
    BY <1>2, <1>3, <2>1, <2>2, IdleCpuType, CpuInsert
<1> QED
  BY <1>4, <1>5, <1>6

\* The conntrack part of try_uplink_rx.
LEMMA IngressKeeps ==
    ASSUME Inv, NEW c \in Cpus,
           \/ IngressLookup(c) \/ IngressTouch(c) \/ IngressElsewhere(c)
           \/ IngressKnown(c) \/ IngressFirewall(c) \/ IngressTrack(c) \/ IngressRefresh(c)
    PROVE  Inv'
<1> DEFINE s == cpu[c]
<1>1. s \in CpuState /\ sent \in 0 .. MaxPackets
  BY DEF Inv, TypeOK
<1>2. s.pkt \in CtKey /\ s.key \in CtKey /\ s.entry \in CtEntry
  BY <1>1 DEF CpuState
<1>3. CASE IngressLookup(c)
  <2>1. UNCHANGED <<maps, gcVars, ctlVars, sent, history>>
    BY <1>3 DEF IngressLookup
  <2>2. CASE s.key \in DOMAIN conntrack /\ conntrack[s.key].kind = "dnat"
    <3> DEFINE t == [s EXCEPT !.pc = "itouch", !.entry = Copy(s.key)]
    <3>1. Copy(s.key) \in CtEntry /\ Owned(s.key, Copy(s.key))
      BY <2>2, CopyOwned
    <3>2. t \in CpuState /\ t.pc = "itouch" /\ t.key = s.key /\ t.entry = Copy(s.key)
      BY <1>1, <3>1 DEF CpuState, Pc
    <3>3. StackOwned(t)
      BY <3>1, <3>2 DEF StackOwned
    <3>4. Set(c, t)
      BY <1>3, <2>2 DEF IngressLookup
    <3> HIDE DEF t
    <3> QED
      BY <1>1, <2>1, <3>2, <3>3, <3>4, CpuMove
  <2>3. CASE ~(s.key \in DOMAIN conntrack /\ conntrack[s.key].kind = "dnat")
    BY <1>3, <2>1, <2>3, GotoKeeps DEF IngressLookup
  <2> QED
    BY <2>2, <2>3
<1>4. CASE IngressTouch(c)
  <2> DEFINE q == ct_apply(s.pkt, s.entry)
             t == [s EXCEPT !.pc = "natfw", !.pkt = q]
  <2>1. q \in CtKey
    BY <1>2, KeyTypes
  <2> HIDE DEF q
  <2>2. t \in CpuState /\ t.pc = "natfw"
    BY <1>1, <2>1 DEF CpuState, Pc
  <2>3. StackOwned(t)
    BY <2>2, PlainStack
  <2>4. /\ s.pc = "itouch"
        /\ Set(c, t)
        /\ conntrack' = Upsert(conntrack, s.key, Touched(s.entry, s.flags))
        /\ UNCHANGED <<nat, natIps, gcVars, ctlVars, sent, history>>
    BY <1>4 DEF IngressTouch, At, q
  <2> HIDE DEF t
  <2> QED
    BY <2>2, <2>3, <2>4, TouchOwned, CpuInsert
<1>5. CASE IngressElsewhere(c)
  BY <1>5, ReturnKeeps DEF IngressElsewhere
<1>6. CASE IngressKnown(c)
  BY <1>6, GotoKeeps, ReturnKeeps DEF IngressKnown, Admit
<1>7. CASE IngressFirewall(c)
  BY <1>7, GotoKeeps, ReturnKeeps DEF IngressFirewall, Admit
<1>8. CASE IngressTrack(c)
  <2>1. UNCHANGED <<maps, gcVars, ctlVars, sent, history>>
    BY <1>8 DEF IngressTrack
  <2>2. CASE s.pkt \in DOMAIN conntrack
    <3> DEFINE t == [s EXCEPT !.pc = "irefresh", !.key = s.pkt, !.entry = Copy(s.pkt)]
    <3>1. Copy(s.pkt) \in CtEntry /\ Owned(s.pkt, Copy(s.pkt))
      BY <2>2, CopyOwned
    <3>2. t \in CpuState /\ t.pc = "irefresh" /\ t.key = s.pkt /\ t.entry = Copy(s.pkt)
      BY <1>1, <1>2, <3>1 DEF CpuState, Pc
    <3>3. StackOwned(t)
      BY <3>1, <3>2 DEF StackOwned
    <3>4. Set(c, t)
      BY <1>8, <2>2 DEF IngressTrack
    <3> HIDE DEF t
    <3> QED
      BY <1>1, <2>1, <3>2, <3>3, <3>4, CpuMove
  <2>3. CASE s.pkt \notin DOMAIN conntrack
    BY <1>8, <2>1, <2>3, GotoKeeps DEF IngressTrack
  <2> QED
    BY <2>2, <2>3
<1>9. CASE IngressRefresh(c)
  <2>1. /\ s.pc = "irefresh"
        /\ Set(c, IdleCpu)
        /\ conntrack' = Upsert(conntrack, s.key, Touched(s.entry, s.flags))
        /\ UNCHANGED <<nat, natIps, gcVars, ctlVars, sent, history>>
    BY <1>9 DEF IngressRefresh, At, Return
  <2>2. StackOwned(IdleCpu)
    BY IdleCpuType, PlainStack
  <2> QED
    BY <2>1, <2>2, IdleCpuType, TouchOwned, CpuInsert
<1> QED
  BY <1>3, <1>4, <1>5, <1>6, <1>7, <1>8, <1>9

\* Steps outside the datapath leave every stack owned.
LEMMA StacksStay ==
    ASSUME Inv, cpu' = cpu, granted \subseteq granted'
    PROVE  cpu' \in [Cpus -> CpuState] /\ \A d \in Cpus : StackOwned(cpu[d])'
<1>1. ASSUME NEW d \in Cpus
      PROVE  StackOwned(cpu[d])'
  <2>1. StackOwned(cpu[d])
    BY DEF Inv, OwnershipInv
  <2> QED
    BY <2>1 DEF StackOwned, Owned, GrantedTo, PortsOf, PortRange
<1> QED
  BY <1>1 DEF Inv, TypeOK

\* Time, LRU eviction and the sweep (conntrack_gc::run).
LEMMA AgingKeeps ==
    ASSUME Inv, Tick \/ Gc \/ \E k \in DOMAIN conntrack : LruEvict(k)
    PROVE  Inv'
<1>1. CASE Tick
  <2>1. cpu' = cpu /\ granted' = granted /\ sent' \in 0 .. MaxPackets
        /\ UNCHANGED <<nat, natIps, gcVars, ctlVars, history>>
    BY <1>1 DEF Tick, history, Inv, TypeOK
  <2>2. ASSUME NEW k \in DOMAIN conntrack
        PROVE  /\ conntrack'[k] \in CtEntry
               /\ Owned(k, conntrack[k])'
    <3> DEFINE e == conntrack[k]
               i == IF e.idle > EstTimeout THEN e.idle ELSE e.idle + 1
    <3>1. e \in CtEntry /\ Owned(k, e)
      BY DEF Inv, TypeOK, OwnershipInv, NatOwnership
    <3>2. i \in Idle
      BY <3>1, NatAssumption DEF CtEntry, Idle
    <3>3. conntrack'[k] = [e EXCEPT !.idle = i]
      BY <1>1 DEF Tick
    <3> HIDE DEF i
    <3>4. conntrack'[k] \in CtEntry
      BY <3>1, <3>2, <3>3 DEF CtEntry
    <3>5. /\ conntrack'[k].kind = e.kind
          /\ conntrack'[k].xip = e.xip
          /\ conntrack'[k].xport = e.xport
      BY <3>1, <3>3 DEF CtEntry
    <3> QED
      BY <2>1, <3>1, <3>4, <3>5 DEF Owned
  <2>3. DOMAIN conntrack' = DOMAIN conntrack
    BY <1>1 DEF Tick
  <2>4. DOMAIN conntrack \subseteq CtKey
    BY DEF Inv, TypeOK
  <2> QED
    BY <2>1, <2>2, <2>3, <2>4, ConfigKeeps, StacksStay
    DEF Inv, TypeOK, OwnershipInv, NatOwnership
<1>2. ASSUME NEW K, conntrack' = Without(conntrack, K), cpu' = cpu,
             UNCHANGED <<nat, natIps, ctlVars, sent, history>>,
             gcPc' \in {"sleep", "collected", "removing"}, gcStale' \subseteq gcStale
      PROVE  Inv'
  <2>1. granted' = granted /\ nat' = nat
    BY <1>2 DEF history
  <2>2. \A g \in DOMAIN nat' : nat'[g].ip \in NatIps /\ GrantedTo(g, nat[g])'
    BY <2>1 DEF Inv, OwnershipInv, GrantedTo, PortsOf, PortRange
  <2>3. gcStale' \subseteq CtKey
    BY <1>2 DEF Inv, TypeOK
  <2>4. /\ DOMAIN conntrack' \subseteq CtKey
        /\ \A x \in DOMAIN conntrack' : conntrack'[x] \in CtEntry
        /\ NatOwnership'
    BY <1>2, <2>1, RemoveKeeps
  <2>5. cpu' \in [Cpus -> CpuState] /\ \A d \in Cpus : StackOwned(cpu[d])'
    BY <1>2, <2>1, StacksStay
  <2> QED
    BY <1>2, <2>1, <2>2, <2>3, <2>4, <2>5 DEF Inv, TypeOK, OwnershipInv, ctlVars, history
<1>3. CASE \E k \in DOMAIN conntrack : LruEvict(k)
  BY <1>2, <1>3 DEF LruEvict, gcVars, Inv, TypeOK
<1>4. CASE \E k \in gcStale : GcRemove(k)
  BY <1>2, <1>4 DEF GcRemove
<1>5. CASE GcCollect \/ GcLock
  <2>1. /\ UNCHANGED <<conntrack, nat, natIps, ctlVars, history>> /\ cpu' = cpu /\ sent' = sent
        /\ granted' = granted /\ nat' = nat /\ conntrack' = conntrack
    BY <1>5 DEF GcCollect, GcLock, maps, history
  <2>2. gcPc' \in {"sleep", "collected", "removing"} /\ gcStale' \subseteq CtKey
    BY <1>5 DEF GcCollect, GcLock, Inv, TypeOK
  <2>3. \A g \in DOMAIN nat' : nat'[g].ip \in NatIps /\ GrantedTo(g, nat[g])'
    BY <2>1 DEF Inv, OwnershipInv, GrantedTo, PortsOf, PortRange
  <2>4. NatOwnership'
    BY <2>1 DEF Inv, OwnershipInv, NatOwnership, Owned
  <2>5. cpu' \in [Cpus -> CpuState] /\ \A d \in Cpus : StackOwned(cpu[d])'
    BY <2>1, StacksStay
  <2> QED
    BY <2>1, <2>2, <2>3, <2>4, <2>5 DEF Inv, TypeOK, OwnershipInv, ctlVars, history
<1> QED
  BY <1>1, <1>3, <1>4, <1>5 DEF Gc

\* A control-plane step that touches neither conntrack nor the grants.
LEMMA TableStays ==
    ASSUME Inv, conntrack' = conntrack, granted \subseteq granted'
    PROVE  /\ DOMAIN conntrack' \subseteq CtKey
           /\ \A x \in DOMAIN conntrack' : conntrack'[x] \in CtEntry
           /\ NatOwnership'
  BY DEF Inv, TypeOK, OwnershipInv, NatOwnership, Owned

\* The truncated ports of a create_nat request are u16 values.
LEMMA NatOfType ==
    ASSUME NEW ip \in NatIps, NEW r \in NatRequests
    PROVE  NatOf(ip, r) \in NatValue /\ NatOf(ip, r).ip = ip
<1>1. r[1] \in Nat /\ r[2] \in Nat /\ W \in Nat \ {0}
  BY NatAssumption
<1>2. r[1] % W \in Port /\ r[2] % W \in Port
  BY <1>1, ModRange DEF Port
<1> QED
  BY <1>2 DEF NatOf, NatValue

\* create_nat: what was granted stays granted.
LEMMA CreateKeeps ==
    ASSUME Inv, NEW g \in Guests, NEW ip \in NatIps, NEW r \in NatRequests, CreateNat(g, ip, r)
    PROVE  Inv'
<1> DEFINE v == NatOf(ip, r)
<1>1. v \in NatValue /\ v.ip = ip
  BY NatOfType
<1>2. /\ nat' = Upsert(nat, g, v)
      /\ inner' = Locked("mark", g, v, 0)
      /\ granted' = granted \cup {<<g, ip, p>> : p \in PortsOf(v)}
      /\ conntrack' = conntrack /\ cpu' = cpu /\ sent' = sent /\ late' = late /\ gone' = gone
      /\ UNCHANGED <<natIps, gcVars, ifaces, flushReq, flushing, flushKeys, deletes>>
  BY DEF CreateNat
<1>m. inner' \in InnerState
  <2>1. v = [ip |-> ip, min |-> v.min, max |-> v.max] /\ v.min \in Port /\ v.max \in Port
    BY <1>1 DEF NatOf, NatValue
  <2>2. v \in [ip : NatIps, min : Port, max : Port]
    BY <2>1
  <2> QED
    BY <1>2, <2>2 DEF InnerState, Locked
<1> HIDE DEF v
<1>3. granted' \subseteq Guests \X NatIps \X Port
  BY <1>1, <1>2, PortsOfType DEF Inv, TypeOK
<1>4. DOMAIN nat' = DOMAIN nat \cup {g} /\ \A h \in DOMAIN nat' : nat'[h] = IF h = g THEN v ELSE nat[h]
  BY <1>2 DEF Upsert
<1>5. DOMAIN nat' \subseteq Guests /\ \A h \in DOMAIN nat' : nat'[h] \in NatValue
  BY <1>1, <1>4 DEF Inv, TypeOK
<1>6. ASSUME NEW h \in DOMAIN nat'
      PROVE  nat'[h].ip \in NatIps /\ GrantedTo(h, nat[h])'
  <2>1. CASE h = g
    <3>1. nat'[h] = v
      BY <1>4, <2>1
    <3>2. \A p \in PortsOf(v) : <<h, v.ip, p>> \in granted'
      BY <1>1, <1>2, <2>1
    <3> QED
      BY <1>1, <3>1, <3>2 DEF GrantedTo, PortsOf, PortRange
  <2>2. CASE h # g
    <3>1. nat'[h] = nat[h] /\ nat[h].ip \in NatIps /\ GrantedTo(h, nat[h])
      BY <1>4, <2>2 DEF Inv, OwnershipInv
    <3> QED
      BY <1>2, <3>1 DEF GrantedTo, PortsOf, PortRange
  <2> QED
    BY <2>1, <2>2
<1>7. /\ DOMAIN conntrack' \subseteq CtKey
      /\ \A x \in DOMAIN conntrack' : conntrack'[x] \in CtEntry
      /\ NatOwnership'
  BY <1>2, TableStays
<1>8. cpu' \in [Cpus -> CpuState] /\ \A d \in Cpus : StackOwned(cpu[d])'
  BY <1>2, StacksStay
<1> QED
  BY <1>2, <1>m, <1>3, <1>5, <1>6, <1>7, <1>8 DEF Inv, TypeOK, OwnershipInv, gcVars

\* delete_nat, first critical section.
LEMMA DeleteKeeps ==
    ASSUME Inv, NEW g \in Guests, DeleteNat(g)
    PROVE  Inv'
<1>1. /\ g \in DOMAIN nat /\ deletes < MaxDeletes
      /\ nat' = Without(nat, {g})
      /\ inner' = Locked("unmark", g, nat[g], deletes + 1)
      /\ deletes' = deletes + 1
      /\ conntrack' = conntrack /\ cpu' = cpu /\ sent' = sent
      /\ granted' = granted /\ late' = late /\ gone' = gone
      /\ UNCHANGED <<natIps, gcVars, ifaces, flushReq, flushing, flushKeys>>
  BY DEF DeleteNat, history
<1>2. deletes' \in 0 .. MaxDeletes /\ deletes + 1 \in 1 .. MaxDeletes
  BY <1>1, NatAssumption DEF Inv, TypeOK
<1>3. nat[g] \in NatValue
  BY <1>1 DEF Inv, TypeOK
<1>4. inner' \in InnerState
  BY <1>1, <1>2, <1>3 DEF InnerState, Locked
<1>5. DOMAIN nat' = DOMAIN nat \ {g} /\ \A h \in DOMAIN nat' : nat'[h] = nat[h]
  BY <1>1 DEF Without, Restrict
<1>6. \A h \in DOMAIN nat' : nat'[h].ip \in NatIps /\ GrantedTo(h, nat[h])'
  BY <1>1, <1>5 DEF Inv, OwnershipInv, GrantedTo, PortsOf, PortRange
<1>7. /\ DOMAIN conntrack' \subseteq CtKey
      /\ \A x \in DOMAIN conntrack' : conntrack'[x] \in CtEntry
      /\ NatOwnership'
  BY <1>1, TableStays
<1>8. cpu' \in [Cpus -> CpuState] /\ \A d \in Cpus : StackOwned(cpu[d])'
  BY <1>1, StacksStay
<1> QED
  BY <1>1, <1>2, <1>4, <1>5, <1>6, <1>7, <1>8 DEF Inv, TypeOK, OwnershipInv, gcVars

\* The steps that mark and unmark a nat_ip, each the end of a critical section.
LEMMA MarkKeeps ==
    ASSUME Inv, MarkNatIp \/ UnmarkNatIp
    PROVE  Inv'
<1>1. /\ UNCHANGED <<nat, gcVars, ifaces, flushing, flushKeys, deletes, sent, history>>
      /\ conntrack' = conntrack /\ cpu' = cpu /\ nat' = nat /\ granted' = granted
      /\ inner' = Unlocked
  BY DEF MarkNatIp, UnmarkNatIp, history
<1>2. inner' \in InnerState
  BY <1>1 DEF InnerState
<1>3. natIps \subseteq NatIps /\ flushReq \subseteq FlushRequest /\ inner \in InnerState
  BY DEF Inv, TypeOK
<1>4. natIps' \subseteq NatIps /\ flushReq' \subseteq FlushRequest
  <2>1. CASE MarkNatIp
    <3>1. inner.cfg.ip \in NatIps
      BY <1>3, <2>1 DEF MarkNatIp, InnerState, Unlocked
    <3> QED
      BY <1>3, <2>1, <3>1 DEF MarkNatIp
  <2>2. CASE UnmarkNatIp
    <3>1. inner.guest \in Guests /\ inner.cfg \in NatValue /\ inner.id \in 1 .. MaxDeletes
      BY <1>3, <2>2 DEF UnmarkNatIp, InnerState, Unlocked
    <3>2. [guest |-> inner.guest, cfg |-> inner.cfg, id |-> inner.id] \in FlushRequest
      BY <3>1 DEF FlushRequest
    <3> QED
      BY <1>3, <2>2, <3>2 DEF UnmarkNatIp
  <2> QED
    BY <2>1, <2>2
<1>5. \A g \in DOMAIN nat' : nat'[g].ip \in NatIps /\ GrantedTo(g, nat[g])'
  BY <1>1 DEF Inv, OwnershipInv, GrantedTo, PortsOf, PortRange
<1>6. /\ DOMAIN conntrack' \subseteq CtKey
      /\ \A x \in DOMAIN conntrack' : conntrack'[x] \in CtEntry
      /\ NatOwnership'
  BY <1>1, TableStays
<1>7. cpu' \in [Cpus -> CpuState] /\ \A d \in Cpus : StackOwned(cpu[d])'
  BY <1>1, StacksStay
<1> QED
  BY <1>1, <1>2, <1>4, <1>5, <1>6, <1>7 DEF Inv, TypeOK, OwnershipInv, gcVars, history

\* create_interface and detach_interface: a NAT entry is at most removed.
LEMMA InterfaceKeeps ==
    ASSUME Inv, NEW g \in Guests, AttachInterface(g) \/ DetachInterface(g)
    PROVE  Inv'
<1>1. /\ UNCHANGED <<natIps, gcVars, inner, flushReq, flushing, flushKeys, sent, granted, late>>
      /\ conntrack' = conntrack /\ cpu' = cpu /\ granted' = granted
      /\ nat' = nat \/ nat' = Without(nat, {g})
  BY DEF AttachInterface, DetachInterface, maps, history
<1>2. ifaces' \subseteq Guests /\ gone' \subseteq Guests
  BY DEF AttachInterface, DetachInterface, history, Inv, TypeOK
<1>8. deletes' \in 0 .. MaxDeletes
  BY NatAssumption DEF AttachInterface, DetachInterface, Inv, TypeOK
<1>3. /\ DOMAIN nat' \subseteq DOMAIN nat
      /\ \A h \in DOMAIN nat' : nat'[h] = nat[h]
  BY <1>1 DEF Without, Restrict
<1>4. DOMAIN nat' \subseteq Guests /\ \A h \in DOMAIN nat' : nat'[h] \in NatValue
  BY <1>3 DEF Inv, TypeOK
<1>5. \A h \in DOMAIN nat' : nat'[h].ip \in NatIps /\ GrantedTo(h, nat[h])'
  BY <1>1, <1>3 DEF Inv, OwnershipInv, GrantedTo, PortsOf, PortRange
<1>6. /\ DOMAIN conntrack' \subseteq CtKey
      /\ \A x \in DOMAIN conntrack' : conntrack'[x] \in CtEntry
      /\ NatOwnership'
  BY <1>1, TableStays
<1>7. cpu' \in [Cpus -> CpuState] /\ \A d \in Cpus : StackOwned(cpu[d])'
  BY <1>1, StacksStay
<1> QED
  BY <1>1, <1>2, <1>4, <1>5, <1>6, <1>7, <1>8 DEF Inv, TypeOK, OwnershipInv, gcVars

\* delete_nat, second critical section (ct_flush_for_guest).
LEMMA FlushKeeps ==
    ASSUME Inv,
           \/ \E q \in flushReq : FlushCollect(q)
           \/ \E k \in flushKeys : FlushRemove(k)
           \/ FlushDone
    PROVE  Inv'
<1>1. /\ UNCHANGED <<nat, natIps, gcVars, ifaces, inner, deletes, sent, granted, gone>> /\ cpu' = cpu
      /\ conntrack' = conntrack \/ \E k \in flushKeys : conntrack' = Without(conntrack, {k})
  BY DEF FlushCollect, FlushRemove, FlushDone, maps
<1>2. /\ flushReq' \subseteq FlushRequest
      /\ flushing' \subseteq FlushRequest
      /\ flushKeys' \subseteq CtKey
  BY DEF FlushCollect, FlushRemove, FlushDone, FlushSet, Inv, TypeOK
<1>3. late' \subseteq Guests
  <2>1. /\ late \subseteq Guests
        /\ \A q \in flushReq \cup flushing : q.guest \in Guests
    BY DEF Inv, TypeOK, FlushRequest
  <2>2. GuestsOf(flushing) \subseteq Guests
    BY <2>1 DEF GuestsOf
  <2>3. \A G : G \subseteq Guests => Overtaken(G) \subseteq Guests
    BY <2>1 DEF Overtaken
  <2>4. \/ \E q \in flushReq : late' = Overtaken({q.guest})
        \/ late' = Overtaken(GuestsOf(flushing))
    BY DEF FlushCollect, FlushRemove, FlushDone
  <2> QED
    BY <2>1, <2>2, <2>3, <2>4
<1>4. /\ DOMAIN conntrack' \subseteq CtKey
      /\ \A x \in DOMAIN conntrack' : conntrack'[x] \in CtEntry
      /\ NatOwnership'
  BY <1>1, TableStays, RemoveKeeps
<1>5. cpu' \in [Cpus -> CpuState] /\ \A d \in Cpus : StackOwned(cpu[d])'
  BY <1>1, StacksStay
<1>6. \A g \in DOMAIN nat' : nat'[g].ip \in NatIps /\ GrantedTo(g, nat[g])'
  BY <1>1 DEF Inv, OwnershipInv, GrantedTo, PortsOf, PortRange
<1> QED
  BY <1>1, <1>2, <1>3, <1>4, <1>5, <1>6 DEF Inv, TypeOK, OwnershipInv, gcVars

(***************************************************************************)
(* The theorems.                                                           *)
(***************************************************************************)

\* The empty maps satisfy the inductive invariant.
LEMMA InitInv == Init => Inv
<1> SUFFICES ASSUME Init PROVE Inv
  OBVIOUS
<1>1. DOMAIN conntrack = {} /\ DOMAIN nat = {}
  BY DEF Init
<1>2. cpu = [c \in Cpus |-> IdleCpu]
  BY DEF Init
<1>3. cpu \in [Cpus -> CpuState] /\ \A c \in Cpus : StackOwned(cpu[c])
  BY <1>2, IdleCpuType, PlainStack
<1>4. sent \in 0 .. MaxPackets /\ deletes \in 0 .. MaxDeletes
  BY NatAssumption DEF Init
<1>5. inner \in InnerState
  BY DEF Init, InnerState
<1> QED
  BY <1>1, <1>3, <1>4, <1>5 DEF Init, Inv, TypeOK, OwnershipInv, NatOwnership

\* Every step preserves the inductive invariant.
LEMMA NextInv == Inv /\ [Next]_vars => Inv'
<1> SUFFICES ASSUME Inv, [Next]_vars PROVE Inv'
  OBVIOUS
<1>1. CASE \E c \in Cpus : Arrival(c)
  BY <1>1, ArrivalKeeps
<1>2. CASE \E c \in Cpus : CpuStep(c)
  BY <1>2, EgressKeeps, AllocatorKeeps, DefaultKeeps, IngressKeeps DEF CpuStep
<1>3. CASE Tick \/ Gc \/ \E k \in DOMAIN conntrack : LruEvict(k)
  BY <1>3, AgingKeeps
<1>4. CASE Control
  BY <1>4, CreateKeeps, DeleteKeeps, MarkKeeps, InterfaceKeeps, FlushKeeps DEF Control
<1>5. CASE UNCHANGED vars
  <2>1. /\ UNCHANGED <<nat, natIps, gcVars, ctlVars, history>> /\ conntrack' = conntrack
        /\ cpu' = cpu /\ granted' = granted /\ sent' = sent
    BY <1>5 DEF vars, maps, history
  <2>2. sent' \in 0 .. MaxPackets
    BY <2>1 DEF Inv, TypeOK
  <2> QED
    BY <2>1, <2>2, ConfigKeeps, TableStays, StacksStay DEF Inv, TypeOK, OwnershipInv
<1> QED
  BY <1>1, <1>2, <1>3, <1>4, <1>5 DEF Next

\* Type correctness of the maps, of every CPU's stack and of the two
\* userspace tasks, for any interleaving.
THEOREM TypeCorrect == Spec => []TypeOK
<1>1. Inv => TypeOK
  BY DEF Inv
<1> QED
  BY <1>1, InitInv, NextInv, PTL DEF Spec

\* No interleaving of packets on any number of CPUs, evictions, sweeps,
\* create_nat and delete_nat calls makes conntrack translate a guest to an
\* address and port that were never granted to it (nat_snat_egress).
THEOREM NatOwnershipHolds == Spec => []NatOwnership
<1>1. Inv => NatOwnership
  BY DEF Inv, OwnershipInv
<1> QED
  BY <1>1, InitInv, NextInv, PTL DEF Spec

\* What the copies on the CPUs' stacks mean survives every interleaving: a
\* packet that read its NAT configuration before delete_nat, or an entry
\* before the sweep removed it, still writes what was granted once.
THEOREM OwnershipInvHolds == Spec => []OwnershipInv
<1>1. Inv => OwnershipInv
  BY DEF Inv
<1> QED
  BY <1>1, InitInv, NextInv, PTL DEF Spec

\* Steps that touch none of what the marks depend on.
LEMMA MarksStay ==
    ASSUME MarksInv, UNCHANGED <<nat, natIps, ifaces, inner, gone>>
    PROVE  MarksInv'
  BY DEF MarksInv, MarksExact, InnerFree

\* The two halves of create_nat keep the marks in step with NAT.
LEMMA CreateMarks ==
    ASSUME MarksInv, (\E g \in Guests, ip \in NatIps, r \in NatRequests : CreateNat(g, ip, r)) \/ MarkNatIp
    PROVE  MarksInv'
<1>1. ASSUME NEW g \in Guests, NEW ip \in NatIps, NEW r \in NatRequests, CreateNat(g, ip, r)
      PROVE  MarksInv'
  <2> DEFINE v == NatOf(ip, r)
  <2>1. /\ InnerFree /\ g \in ifaces /\ g \notin DOMAIN nat
        /\ nat' = Upsert(nat, g, v) /\ inner' = Locked("mark", g, v, 0)
        /\ natIps' = natIps /\ ifaces' = ifaces /\ gone' = gone
    BY <1>1 DEF CreateNat
  <2> HIDE DEF v
  <2>2. DOMAIN nat' = DOMAIN nat \cup {g} /\ nat'[g] = v /\ \A h \in DOMAIN nat : nat'[h] = nat[h]
    BY <2>1 DEF Upsert
  <2>3. inner'.op = "mark" /\ inner'.guest = g /\ inner'.cfg = v
    BY <2>1 DEF Locked
  <2>4. gone = {} => DOMAIN nat \subseteq ifaces /\ natIps = {nat[h].ip : h \in DOMAIN nat}
    BY <2>1 DEF MarksInv, MarksExact
  <2>5. {nat'[h].ip : h \in DOMAIN nat'} = {nat[h].ip : h \in DOMAIN nat} \cup {v.ip}
    BY <2>1, <2>2
  <2> QED
    BY <2>1, <2>2, <2>3, <2>4, <2>5 DEF MarksInv, InnerFree
<1>2. CASE MarkNatIp
  <2>1. /\ inner.op = "mark" /\ natIps' = natIps \cup {inner.cfg.ip}
        /\ inner' = Unlocked /\ nat' = nat /\ ifaces' = ifaces /\ gone' = gone
    BY <1>2 DEF MarkNatIp, history
  <2>2. inner'.op = "none"
    BY <2>1 DEF Unlocked
  <2> QED
    BY <2>1, <2>2 DEF MarksInv, MarksExact, InnerFree
<1> QED
  BY <1>1, <1>2

\* So do the two halves of delete_nat.
LEMMA DeleteMarks ==
    ASSUME MarksInv, (\E g \in Guests : DeleteNat(g)) \/ UnmarkNatIp
    PROVE  MarksInv'
<1>1. ASSUME NEW g \in Guests, DeleteNat(g)
      PROVE  MarksInv'
  <2>1. /\ InnerFree /\ g \in DOMAIN nat
        /\ nat' = Without(nat, {g}) /\ inner' = Locked("unmark", g, nat[g], deletes + 1)
        /\ natIps' = natIps /\ ifaces' = ifaces /\ gone' = gone
    BY <1>1 DEF DeleteNat, history
  <2>2. DOMAIN nat' = DOMAIN nat \ {g} /\ \A h \in DOMAIN nat' : nat'[h] = nat[h]
    BY <2>1 DEF Without, Restrict
  <2>3. inner'.op = "unmark" /\ inner'.cfg = nat[g]
    BY <2>1 DEF Locked
  <2>4. gone = {} => DOMAIN nat \subseteq ifaces /\ natIps = {nat[h].ip : h \in DOMAIN nat}
    BY <2>1 DEF MarksInv, MarksExact
  <2>5. {nat[h].ip : h \in DOMAIN nat} = {nat'[h].ip : h \in DOMAIN nat'} \cup {nat[g].ip}
    BY <2>1, <2>2
  <2> QED
    BY <2>1, <2>2, <2>3, <2>4, <2>5 DEF MarksInv, InnerFree
<1>2. CASE UnmarkNatIp
  <2>1. /\ inner.op = "unmark"
        /\ natIps' = IF StillUsed(inner.cfg.ip) THEN natIps ELSE natIps \ {inner.cfg.ip}
        /\ inner' = Unlocked /\ nat' = nat /\ ifaces' = ifaces /\ gone' = gone
    BY <1>2 DEF UnmarkNatIp, history
  <2>2. inner'.op = "none"
    BY <2>1 DEF Unlocked
  <2>3. ASSUME gone = {}
        PROVE  /\ DOMAIN nat \subseteq ifaces
               /\ natIps' = {nat[h].ip : h \in DOMAIN nat}
    <3>1. /\ DOMAIN nat \subseteq ifaces
          /\ natIps = {nat[h].ip : h \in DOMAIN nat} \cup {inner.cfg.ip}
      BY <2>1, <2>3 DEF MarksInv
    <3>2. StillUsed(inner.cfg.ip) <=> inner.cfg.ip \in {nat[h].ip : h \in DOMAIN nat}
      BY <3>1 DEF StillUsed
    <3> QED
      BY <2>1, <3>1, <3>2
  <2> QED
    BY <2>1, <2>2, <2>3 DEF MarksInv, MarksExact, InnerFree
<1> QED
  BY <1>1, <1>2

\* An interface that appears disturbs nothing; after one was detached
\* nothing is promised.
LEMMA InterfaceMarks ==
    ASSUME MarksInv, NEW g \in Guests, AttachInterface(g) \/ DetachInterface(g)
    PROVE  MarksInv'
<1>1. CASE AttachInterface(g)
  <2>1. ifaces' = ifaces \cup {g} /\ UNCHANGED <<nat, natIps, inner, gone>>
    BY <1>1 DEF AttachInterface, maps, history
  <2> QED
    BY <2>1 DEF MarksInv, MarksExact, InnerFree
<1>2. CASE DetachInterface(g)
  <2>1. gone' # {}
    BY <1>2 DEF DetachInterface
  <2> QED
    BY <2>1 DEF MarksInv
<1> QED
  BY <1>1, <1>2

\* Whenever the control-plane mutex is free, and as long as no interface was
\* detached, NAT_IPS marks exactly the addresses in use, whatever order
\* create_nat and delete_nat calls come in.
THEOREM NatIpsExactHolds == Spec => []NatIpsExact
<1>1. Init => MarksInv
  BY DEF Init, MarksInv, MarksExact, InnerFree, Unlocked
<1>2. MarksInv /\ [Next]_vars => MarksInv'
  <2> SUFFICES ASSUME MarksInv, [Next]_vars PROVE MarksInv'
    OBVIOUS
  <2>1. CASE \E c \in Cpus : Arrival(c) \/ CpuStep(c)
    <3> PICK c \in Cpus : Arrival(c) \/ CpuStep(c)
      BY <2>1
    <3>1. ASSUME NEW k, NEW fl, EgressLookup(c, k, fl) \/ IngressDemux(c, k, fl)
          PROVE  UNCHANGED <<nat, natIps, ctlVars, history>>
      BY <3>1 DEF EgressLookup, IngressDemux, maps
    <3>2. CASE \/ EgressTouch(c) \/ EgressRouteMiss(c) \/ EgressNatConfig(c)
               \/ NatReusePort(c) \/ NatProbe(c) \/ NatInsertRev(c) \/ NatInsertFwd(c)
               \/ EgressTrack(c)
      BY <3>2, MarksStay DEF EgressTouch, EgressRouteMiss, EgressNatConfig, NatReusePort, NatProbe,
         NatInsertRev, NatInsertFwd, EgressTrack, maps, ctlVars, history
    <3>3. CASE \/ InsertDefault(c) \/ SeedLookup(c) \/ InsertSeed(c)
               \/ IngressLookup(c) \/ IngressTouch(c) \/ IngressElsewhere(c)
               \/ IngressKnown(c) \/ IngressFirewall(c) \/ IngressTrack(c) \/ IngressRefresh(c)
      BY <3>3, MarksStay DEF InsertDefault, SeedLookup, InsertSeed, IngressLookup, IngressTouch,
         IngressElsewhere, IngressKnown, IngressFirewall, IngressTrack, IngressRefresh, maps,
         ctlVars, history
    <3>4. CASE Arrival(c)
      <4>1. UNCHANGED <<nat, natIps, ctlVars, history>>
        BY <3>1, <3>4 DEF Arrival
      <4> QED
        BY <4>1, MarksStay DEF ctlVars, history
    <3> QED
      BY <3>2, <3>3, <3>4 DEF CpuStep
  <2>2. CASE Tick \/ Gc \/ \E k \in DOMAIN conntrack : LruEvict(k)
    <3>1. UNCHANGED <<maps, ctlVars, history>> \/ UNCHANGED <<nat, natIps, ctlVars, history>>
      BY <2>2 DEF Tick, Gc, LruEvict, GcCollect, GcLock, GcRemove
    <3> QED
      BY <3>1, MarksStay DEF maps, ctlVars, history
  <2>3. CASE \/ \E q \in flushReq : FlushCollect(q)
             \/ \E k \in flushKeys : FlushRemove(k)
             \/ FlushDone
    BY <2>3, MarksStay DEF FlushCollect, FlushRemove, FlushDone, maps
  <2>4. CASE Control
    BY <2>3, <2>4, CreateMarks, DeleteMarks, InterfaceMarks DEF Control
  <2>5. CASE UNCHANGED vars
    BY <2>5, MarksStay DEF vars, maps, ctlVars, history
  <2> QED
    BY <2>1, <2>2, <2>4, <2>5 DEF Next
<1>3. MarksInv => NatIpsExact
  BY DEF MarksInv, NatIpsExact
<1> QED
  BY <1>1, <1>2, <1>3, PTL DEF Spec

(***************************************************************************)
(* delete_nat leaves nothing behind.                                       *)
(***************************************************************************)

\* The ranges requested do not end beyond the last port (a range that does is
\* truncated to end below its start, and ct_flush_for_guest misses it).
Unwrapped == \A r \in NatRequests : r[1] % W <= r[2] % W

\* A configuration of a guest that is in NAT, or that a delete_nat took out
\* of it and has not flushed yet.
Serves(g, v) ==
    \/ g \in DOMAIN nat /\ v = nat[g]
    \/ inner.op = "unmark" /\ inner.guest = g /\ v = inner.cfg
    \/ \E q \in flushReq : q.guest = g /\ v = q.cfg

\* The entry uses a port of the configuration.
From(v, k, e) ==
    /\ e.kind = "snat" => e.xip = v.ip /\ e.xport \in PortsOf(v)
    /\ e.kind = "dnat" => k.dst = v.ip /\ k.dport \in PortsOf(v)

\* An entry that translates a guest is still to be flushed, sooner or later; a
\* reverse entry is found by its port, which takes a range that does not wrap.
Covered(g, k, e) ==
    Translates(g, k, e) /\ (Unwrapped \/ e.kind = "snat") =>
        \/ \E v \in NatValue : Serves(g, v) /\ From(v, k, e)
        \/ g \in GuestsOf(flushing) /\ k \in flushKeys

\* So is one that a CPU is about to write.
StackCovered(g, s) ==
    /\ s.pc \in {"natfwd", "probe", "insrev", "insfwd"} /\ s.pkt.src = g => Serves(g, s.cfg)
    /\ s.pc \in {"touch", "itouch", "irefresh"} => Covered(g, s.key, s.entry)

TableCovered(g) == \A k \in DOMAIN conntrack : Covered(g, k, conntrack[k])
StacksCovered(g) == \A c \in Cpus : StackCovered(g, cpu[c])

\* The inductive form of FlushComplete.  A guest that is flushed while a CPU
\* is busy is late: only then can a copy outlive the flush.
CoverInv == \A g \in Guests \ (late \cup gone) : TableCovered(g) /\ StacksCovered(g)
Ascending == \A g \in Guests : \A v \in NatValue : Serves(g, v) => v.min <= v.max

\* What a guest has to be flushed for depends on the control plane only.
LEMMA CoverSame ==
    ASSUME UNCHANGED <<nat, inner, flushReq, flushing, flushKeys>>, NEW g
    PROVE  /\ \A v : Serves(g, v)' <=> Serves(g, v)
           /\ \A k, e : Covered(g, k, e) => Covered(g, k, e)'
           /\ \A s : StackCovered(g, s) => StackCovered(g, s)'
<1>1. \A v : Serves(g, v)' <=> Serves(g, v)
  BY DEF Serves
<1>2. \A k, e : Covered(g, k, e) => Covered(g, k, e)'
  BY <1>1 DEF Covered, From, Translates, GuestsOf, PortsOf, PortRange
<1>3. \A s : StackCovered(g, s) => StackCovered(g, s)'
  BY <1>1, <1>2 DEF StackCovered
<1> QED
  BY <1>1, <1>2, <1>3

\* Two entries with the same translation are covered alike.
LEMMA CoverAlike ==
    ASSUME NEW g, NEW k, NEW e, NEW f, f.kind = e.kind, f.xip = e.xip, f.xport = e.xport,
           Covered(g, k, e)
    PROVE  Covered(g, k, f)
  BY DEF Covered, From, Translates

\* A table from which entries were removed, or in which they aged, is covered.
LEMMA TableKept ==
    ASSUME UNCHANGED <<nat, inner, flushReq, flushing, flushKeys>>, NEW g, TableCovered(g),
           \A k \in DOMAIN conntrack' :
              /\ k \in DOMAIN conntrack /\ conntrack'[k].kind = conntrack[k].kind
              /\ conntrack'[k].xip = conntrack[k].xip /\ conntrack'[k].xport = conntrack[k].xport
    PROVE  TableCovered(g)'
<1> SUFFICES ASSUME NEW k \in DOMAIN conntrack' PROVE Covered(g, k, conntrack[k])'
  BY DEF TableCovered
<1>1. PICK f : f = conntrack'[k]
  OBVIOUS
<1>2. Covered(g, k, conntrack[k])
  BY DEF TableCovered
<1>3. Covered(g, k, f)
  BY <1>1, <1>2, CoverAlike
<1>4. Covered(g, k, f)'
  BY <1>3, CoverSame
<1> QED
  BY <1>1, <1>4

\* An insert of a covered entry keeps the table covered.
LEMMA TableInsert ==
    ASSUME UNCHANGED <<nat, inner, flushReq, flushing, flushKeys>>, NEW g, TableCovered(g),
           NEW k, NEW e, Covered(g, k, e), conntrack' = Upsert(conntrack, k, e)
    PROVE  TableCovered(g)'
<1> SUFFICES ASSUME NEW x \in DOMAIN conntrack' PROVE Covered(g, x, conntrack[x])'
  BY DEF TableCovered
<1>1. PICK f : f = conntrack'[x]
  OBVIOUS
<1>2. (x = k /\ f = e) \/ (x \in DOMAIN conntrack /\ f = conntrack[x])
  BY <1>1 DEF Upsert
<1>3. Covered(g, x, f)
  BY <1>2 DEF TableCovered
<1>4. Covered(g, x, f)'
  BY <1>3, CoverSame
<1> QED
  BY <1>1, <1>4

\* A step of one CPU whose stack is covered keeps all stacks covered.
LEMMA StacksMove ==
    ASSUME UNCHANGED <<nat, inner, flushReq, flushing, flushKeys>>, cpu \in [Cpus -> CpuState],
           NEW g, StacksCovered(g), NEW c \in Cpus, NEW s, Set(c, s), StackCovered(g, s)
    PROVE  StacksCovered(g)'
<1> SUFFICES ASSUME NEW d \in Cpus PROVE StackCovered(g, cpu[d])'
  BY DEF StacksCovered
<1>1. PICK t : t = cpu'[d]
  OBVIOUS
<1>2. t = s \/ t = cpu[d]
  BY <1>1 DEF Set
<1>3. StackCovered(g, t)
  BY <1>2 DEF StacksCovered
<1>4. StackCovered(g, t)'
  BY <1>3, CoverSame
<1> QED
  BY <1>1, <1>4

\* What a step of a CPU leaves alone.
CpuOnly == UNCHANGED <<nat, natIps, gcVars, ctlVars, history>>

\* A step that only moves a CPU.
LEMMA MoveCovers ==
    ASSUME Inv, CoverInv, NEW c \in Cpus, NEW s, Set(c, s), CpuOnly, conntrack' = conntrack,
           \A g \in Guests \ (late \cup gone) : StackCovered(g, s)
    PROVE  CoverInv'
<1>1. /\ UNCHANGED <<nat, inner, flushReq, flushing, flushKeys>>
      /\ late' = late /\ gone' = gone /\ cpu \in [Cpus -> CpuState]
  BY DEF CpuOnly, ctlVars, history, Inv, TypeOK
<1>2. ASSUME NEW g \in Guests \ (late \cup gone) PROVE TableCovered(g)' /\ StacksCovered(g)'
  <2>1. TableCovered(g)'
    BY <1>1, TableKept DEF CoverInv
  <2>2. StacksCovered(g)'
    BY <1>1, StacksMove DEF CoverInv
  <2> QED
    BY <2>1, <2>2
<1> QED
  BY <1>1, <1>2 DEF CoverInv

\* A step of a CPU that inserts an entry.
LEMMA InsertCovers ==
    ASSUME Inv, CoverInv, NEW c \in Cpus, NEW s, Set(c, s), CpuOnly,
           NEW k, NEW e, conntrack' = Upsert(conntrack, k, e),
           \A g \in Guests \ (late \cup gone) : StackCovered(g, s) /\ Covered(g, k, e)
    PROVE  CoverInv'
<1>1. /\ UNCHANGED <<nat, inner, flushReq, flushing, flushKeys>>
      /\ late' = late /\ gone' = gone /\ cpu \in [Cpus -> CpuState]
  BY DEF CpuOnly, ctlVars, history, Inv, TypeOK
<1>2. ASSUME NEW g \in Guests \ (late \cup gone) PROVE TableCovered(g)' /\ StacksCovered(g)'
  <2>1. TableCovered(g)'
    BY <1>1, TableInsert DEF CoverInv
  <2>2. StacksCovered(g)'
    BY <1>1, StacksMove DEF CoverInv
  <2> QED
    BY <2>1, <2>2
<1> QED
  BY <1>1, <1>2 DEF CoverInv

\* A stack whose next operation uses no copied data.
LEMMA PlainCovered ==
    ASSUME NEW g, NEW s,
           s.pc \notin {"natfwd", "probe", "insrev", "insfwd", "touch", "itouch", "irefresh"}
    PROVE  StackCovered(g, s)
  BY DEF StackCovered

\* A stack that keeps its packet and its copy of the configuration.
LEMMA AllocatorCovered ==
    ASSUME NEW g, NEW s, NEW t, StackCovered(g, s), s.pc \in {"natfwd", "probe", "insrev", "insfwd"},
           t.pc \in {"natfwd", "probe", "insrev", "insfwd"}, t.pkt = s.pkt, t.cfg = s.cfg
    PROVE  StackCovered(g, t)
  BY DEF StackCovered

\* A copy of an entry is covered as the entry is.
LEMMA CopyCovered ==
    ASSUME Inv, NEW g, TableCovered(g), NEW k \in DOMAIN conntrack
    PROVE  Covered(g, k, Copy(k))
<1>1. conntrack[k] \in CtEntry /\ Covered(g, k, conntrack[k])
  BY DEF Inv, TypeOK, TableCovered
<1>2. PICK e, f : e = conntrack[k] /\ f = Copy(k)
  OBVIOUS
<1>3. f.kind = e.kind /\ f.xip = e.xip /\ f.xport = e.xport
  BY <1>1, <1>2 DEF Copy, CtEntry
<1> QED
  BY <1>1, <1>2, <1>3, CoverAlike

\* So is the refreshed copy that ct_touch writes.
LEMMA TouchCovered ==
    ASSUME Inv, NEW c \in Cpus, cpu[c].pc \in {"touch", "itouch", "irefresh"},
           NEW g, StacksCovered(g)
    PROVE  Covered(g, cpu[c].key, Touched(cpu[c].entry, cpu[c].flags))
<1>1. cpu[c] \in CpuState /\ StackCovered(g, cpu[c])
  BY DEF Inv, TypeOK, StacksCovered
<1>2. cpu[c].entry \in CtEntry /\ cpu[c].flags \in Flags
  BY <1>1 DEF CpuState
<1>3. PICK e, f : e = cpu[c].entry /\ f = Touched(cpu[c].entry, cpu[c].flags)
  OBVIOUS
<1>4. f.kind = e.kind /\ f.xip = e.xip /\ f.xport = e.xport
  BY <1>2, <1>3, TouchedType
<1>5. Covered(g, cpu[c].key, e)
  BY <1>1, <1>3 DEF StackCovered
<1> QED
  BY <1>3, <1>4, <1>5, CoverAlike

\* An entry without translation is.
LEMMA DefaultCovered ==
    ASSUME NEW g, NEW k, NEW fl \in Flags
    PROVE  Covered(g, k, DefaultEntry(fl))
  BY DefaultEntryType DEF Covered, Translates

\* The first map access of a program.
LEMMA ArrivalCovers ==
    ASSUME Inv, CoverInv, NEW c \in Cpus, Arrival(c)
    PROVE  CoverInv'
<1>1. ASSUME NEW k \in GuestPackets, NEW fl \in FlagsOf(k), EgressLookup(c, k, fl)
      PROVE  CoverInv'
  <2>1. k \in CtKey /\ fl \in Flags /\ CpuOnly /\ conntrack' = conntrack
    BY <1>1, PacketTypes DEF FlagsOf, Flags, EgressLookup, CpuOnly, maps
  <2>2. CASE k \in DOMAIN conntrack
    <3> DEFINE s == [IdleCpu EXCEPT !.pc = "touch", !.pkt = k, !.flags = fl, !.key = k,
                                    !.entry = Copy(k)]
    <3>1. s.pc = "touch" /\ s.key = k /\ s.entry = Copy(k)
      BY IdleCpuType DEF CpuState
    <3>2. Set(c, s)
      BY <1>1, <2>2 DEF EgressLookup
    <3> HIDE DEF s
    <3>3. \A g \in Guests \ (late \cup gone) : StackCovered(g, s)
      BY <2>2, <3>1, CopyCovered DEF CoverInv, StackCovered
    <3> QED
      BY <2>1, <3>2, <3>3, MoveCovers
  <2>3. CASE k \notin DOMAIN conntrack
    <3> DEFINE s == [IdleCpu EXCEPT !.pc = "route", !.pkt = k, !.flags = fl]
    <3>1. s.pc = "route"
      BY IdleCpuType DEF CpuState
    <3>2. Set(c, s)
      BY <1>1, <2>3 DEF EgressLookup
    <3> HIDE DEF s
    <3>3. \A g \in Guests \ (late \cup gone) : StackCovered(g, s)
      BY <3>1, PlainCovered
    <3> QED
      BY <2>1, <3>2, <3>3, MoveCovers
  <2> QED
    BY <2>2, <2>3
<1>2. ASSUME NEW k \in UplinkPackets, NEW fl \in FlagsOf(k), IngressDemux(c, k, fl)
      PROVE  CoverInv'
  <2> DEFINE s == [IdleCpu EXCEPT !.pc = "ilookup", !.pkt = k, !.flags = fl, !.key = DemuxKey(k)]
  <2>1. s.pc = "ilookup"
    BY IdleCpuType DEF CpuState
  <2>2. Set(c, s) /\ CpuOnly /\ conntrack' = conntrack
    BY <1>2 DEF IngressDemux, CpuOnly, maps
  <2> HIDE DEF s
  <2>3. \A g \in Guests \ (late \cup gone) : StackCovered(g, s)
    BY <2>1, PlainCovered
  <2> QED
    BY <2>2, <2>3, MoveCovers
<1> QED
  BY <1>1, <1>2 DEF Arrival

\* A stack after which no copied data is used.
Plain(s) == s.pc \notin {"natfwd", "probe", "insrev", "insfwd", "touch", "itouch", "irefresh"}

\* Steps that go on, or return, with nothing copied.
LEMMA PlainMove ==
    ASSUME Inv, CoverInv, NEW c \in Cpus, NEW s, Set(c, s), Plain(s),
           UNCHANGED <<maps, gcVars, ctlVars, history>>
    PROVE  CoverInv'
<1>1. CpuOnly /\ conntrack' = conntrack
  BY DEF CpuOnly, maps
<1>2. \A g \in Guests \ (late \cup gone) : StackCovered(g, s)
  BY PlainCovered DEF Plain
<1> QED
  BY <1>1, <1>2, MoveCovers

\* The stack of a program that has ended, or goes on at a plain label, is plain.
LEMMA PlainStacks ==
    ASSUME Inv, NEW c \in Cpus
    PROVE  /\ Plain(IdleCpu)
           /\ \A l : (l \notin {"natfwd", "probe", "insrev", "insfwd", "touch", "itouch", "irefresh"})
                 => Plain([cpu[c] EXCEPT !.pc = l])
<1>1. cpu[c] \in CpuState
  BY DEF Inv, TypeOK
<1> QED
  BY <1>1, IdleCpuType DEF Plain, CpuState

\* Steps of the programs that change no map.
LEMMA ReadsCover ==
    ASSUME Inv, CoverInv, NEW c \in Cpus,
           \/ EgressRouteMiss(c) \/ EgressTrack(c) \/ SeedLookup(c) \/ IngressElsewhere(c)
           \/ IngressKnown(c) \/ IngressFirewall(c)
    PROVE  CoverInv'
<1>1. /\ UNCHANGED <<maps, gcVars, ctlVars, history>>
      /\ \/ Return(c)
         \/ \E l \in {"insdef", "insseed", "itrack", "natfweval", "ifweval"} : Goto(c, l)
  BY DEF EgressRouteMiss, EgressTrack, SeedLookup, IngressElsewhere, IngressKnown, IngressFirewall,
     Admit
<1>2. PICK s : Set(c, s) /\ Plain(s)
  <2>1. CASE Return(c)
    BY <2>1, PlainStacks DEF Return
  <2>2. ASSUME NEW l \in {"insdef", "insseed", "itrack", "natfweval", "ifweval"}, Goto(c, l)
        PROVE  \E s : Set(c, s) /\ Plain(s)
    <3>1. Plain([cpu[c] EXCEPT !.pc = l])
      BY PlainStacks
    <3> QED
      BY <2>2, <3>1 DEF Goto
  <2> QED
    BY <1>1, <2>1, <2>2
<1> QED
  BY <1>1, <1>2, PlainMove

\* Steps that read an entry or the configuration onto the stack.
LEMMA CopiesCover ==
    ASSUME Inv, CoverInv, NEW c \in Cpus,
           \/ EgressNatConfig(c) \/ NatReusePort(c) \/ NatProbe(c) \/ IngressLookup(c)
           \/ IngressTrack(c)
    PROVE  CoverInv'
<1>1. PICK s : s = cpu[c]
  OBVIOUS
<1>2. s \in CpuState
  BY <1>1 DEF Inv, TypeOK
<1>3. ASSUME NEW g \in Guests \ (late \cup gone)
      PROVE  StackCovered(g, s) /\ TableCovered(g)
  BY <1>1, <1>3 DEF CoverInv, StacksCovered
<1>4. UNCHANGED <<maps, gcVars, ctlVars, history>> /\ CpuOnly /\ conntrack' = conntrack
  BY DEF EgressNatConfig, NatReusePort, NatProbe, IngressLookup, IngressTrack, CpuOnly, maps
<1>5. ASSUME NEW l \in {"track", "ifw", "insdef"}, Goto(c, l)
      PROVE  CoverInv'
  <2>1. Plain([cpu[c] EXCEPT !.pc = l])
    BY PlainStacks
  <2> QED
    BY <1>4, <1>5, <2>1, PlainMove DEF Goto
<1>6. CASE EgressNatConfig(c)
  <2>1. \/ Goto(c, "track")
        \/ /\ s.pkt.src \in DOMAIN nat
           /\ Set(c, [s EXCEPT !.pc = "natfwd", !.cfg = nat[s.pkt.src]])
    BY <1>1, <1>6 DEF EgressNatConfig
  <2>2. ASSUME s.pkt.src \in DOMAIN nat, NEW t, t = [s EXCEPT !.pc = "natfwd", !.cfg = nat[s.pkt.src]],
               Set(c, t)
        PROVE  CoverInv'
    <3>1. t.pc = "natfwd" /\ t.pkt = s.pkt /\ t.cfg = nat[s.pkt.src]
      BY <1>2, <2>2 DEF CpuState
    <3>2. \A g \in Guests \ (late \cup gone) : StackCovered(g, t)
      BY <2>2, <3>1 DEF StackCovered, Serves
    <3> QED
      BY <1>4, <2>2, <3>2, MoveCovers
  <2> QED
    BY <1>5, <2>1, <2>2
<1>7. CASE NatReusePort(c)
  <2>1. /\ s.pc = "natfwd"
        /\ \/ Set(c, [s EXCEPT !.pc = "track", !.pkt = Snat(s, conntrack[s.pkt].xport)])
           \/ Set(c, [s EXCEPT !.pc = "probe", !.port = ProbePort(s.cfg, s.pkt, 0)])
    BY <1>1, <1>7 DEF NatReusePort, At
  <2>2. ASSUME NEW t, t = [s EXCEPT !.pc = "track", !.pkt = Snat(s, conntrack[s.pkt].xport)], Set(c, t)
        PROVE  CoverInv'
    <3>1. Plain(t)
      BY <1>2, <2>2 DEF CpuState, Plain
    <3> QED
      BY <1>4, <2>2, <3>1, PlainMove
  <2>3. ASSUME NEW t, t = [s EXCEPT !.pc = "probe", !.port = ProbePort(s.cfg, s.pkt, 0)], Set(c, t)
        PROVE  CoverInv'
    <3>1. t.pc = "probe" /\ t.pkt = s.pkt /\ t.cfg = s.cfg
      BY <1>2, <2>3 DEF CpuState
    <3>2. \A g \in Guests \ (late \cup gone) : StackCovered(g, t)
      BY <1>3, <2>1, <3>1, AllocatorCovered
    <3> QED
      BY <1>4, <2>3, <3>2, MoveCovers
  <2> QED
    BY <2>1, <2>2, <2>3
<1>8. CASE NatProbe(c)
  <2> DEFINE cand == ProbePort(s.cfg, s.pkt, s.probe)
  <2>1. /\ s.pc = "probe"
        /\ \/ Set(c, [s EXCEPT !.pc = "insfwd"])
           \/ Set(c, [s EXCEPT !.pc = "insrev", !.port = cand])
           \/ Set(c, [s EXCEPT !.probe = @ + 1])
    BY <1>1, <1>8 DEF NatProbe, At, Goto
  <2> HIDE DEF cand
  <2>2. PICK t : /\ Set(c, t)
                 /\ \/ t = [s EXCEPT !.pc = "insfwd"]
                    \/ t = [s EXCEPT !.pc = "insrev", !.port = cand]
                    \/ t = [s EXCEPT !.probe = @ + 1]
    BY <2>1
  <2>3. t.pc \in {"probe", "insrev", "insfwd"} /\ t.pkt = s.pkt /\ t.cfg = s.cfg
    BY <1>2, <2>1, <2>2 DEF CpuState
  <2>4. \A g \in Guests \ (late \cup gone) : StackCovered(g, t)
    BY <1>3, <2>1, <2>3, AllocatorCovered
  <2> QED
    BY <1>4, <2>2, <2>4, MoveCovers
<1>9. CASE IngressLookup(c)
  <2>1. \/ Goto(c, "ifw")
        \/ s.key \in DOMAIN conntrack /\ Set(c, [s EXCEPT !.pc = "itouch", !.entry = Copy(s.key)])
    BY <1>1, <1>9 DEF IngressLookup
  <2>2. ASSUME s.key \in DOMAIN conntrack, NEW t, t = [s EXCEPT !.pc = "itouch", !.entry = Copy(s.key)],
               Set(c, t)
        PROVE  CoverInv'
    <3>1. t.pc = "itouch" /\ t.key = s.key /\ t.entry = Copy(s.key)
      BY <1>2, <2>2 DEF CpuState
    <3>2. \A g \in Guests \ (late \cup gone) : StackCovered(g, t)
      BY <1>3, <2>2, <3>1, CopyCovered DEF StackCovered
    <3> QED
      BY <1>4, <2>2, <3>2, MoveCovers
  <2> QED
    BY <1>5, <2>1, <2>2
<1>10. CASE IngressTrack(c)
  <2>1. \/ Goto(c, "insdef")
        \/ /\ s.pkt \in DOMAIN conntrack
           /\ Set(c, [s EXCEPT !.pc = "irefresh", !.key = s.pkt, !.entry = Copy(s.pkt)])
    BY <1>1, <1>10 DEF IngressTrack
  <2>2. ASSUME s.pkt \in DOMAIN conntrack, NEW t,
               t = [s EXCEPT !.pc = "irefresh", !.key = s.pkt, !.entry = Copy(s.pkt)], Set(c, t)
        PROVE  CoverInv'
    <3>1. t.pc = "irefresh" /\ t.key = s.pkt /\ t.entry = Copy(s.pkt)
      BY <1>2, <2>2 DEF CpuState
    <3>2. \A g \in Guests \ (late \cup gone) : StackCovered(g, t)
      BY <1>3, <2>2, <3>1, CopyCovered DEF StackCovered
    <3> QED
      BY <1>4, <2>2, <3>2, MoveCovers
  <2> QED
    BY <1>5, <2>1, <2>2
<1> QED
  BY <1>6, <1>7, <1>8, <1>9, <1>10

\* An entry the allocator writes uses a port of the configuration it copied.
LEMMA AllocatedCovered ==
    ASSUME Inv, NEW c \in Cpus, cpu[c].pc \in {"insrev", "insfwd"}, NEW g, StacksCovered(g),
           NEW k, NEW e,
           \/ /\ e.kind = "dnat" /\ e.xip = cpu[c].pkt.src
              /\ k.dst = cpu[c].cfg.ip /\ k.dport = cpu[c].port
           \/ /\ e.kind = "snat" /\ e.xip = cpu[c].cfg.ip /\ e.xport = cpu[c].port
              /\ k.src = cpu[c].pkt.src
    PROVE  Covered(g, k, e)
<1>1. cpu[c] \in CpuState /\ StackCovered(g, cpu[c]) /\ StackOwned(cpu[c])
  BY DEF Inv, TypeOK, OwnershipInv, StacksCovered
<1>2. cpu[c].cfg \in NatValue /\ cpu[c].port \in PortsOf(cpu[c].cfg)
  BY <1>1 DEF CpuState, StackOwned
<1>3. CASE cpu[c].pkt.src = g
  <2>1. Serves(g, cpu[c].cfg)
    BY <1>1, <1>3 DEF StackCovered
  <2>2. From(cpu[c].cfg, k, e)
    BY <1>2 DEF From
  <2> QED
    BY <1>2, <2>1, <2>2 DEF Covered
<1>4. CASE cpu[c].pkt.src # g
  BY <1>4 DEF Covered, Translates
<1> QED
  BY <1>3, <1>4

\* Steps that write an entry and go on, or return, with nothing copied.
LEMMA PlainInsert ==
    ASSUME Inv, CoverInv, NEW c \in Cpus, NEW s, Set(c, s), Plain(s), CpuOnly,
           NEW k, NEW e, conntrack' = Upsert(conntrack, k, e),
           \A g \in Guests \ (late \cup gone) : Covered(g, k, e)
    PROVE  CoverInv'
<1>1. \A g \in Guests \ (late \cup gone) : StackCovered(g, s) /\ Covered(g, k, e)
  BY PlainCovered DEF Plain
<1> QED
  BY <1>1, InsertCovers

\* Steps of the programs that write an entry.
LEMMA WritesCover ==
    ASSUME Inv, CoverInv, NEW c \in Cpus,
           \/ EgressTouch(c) \/ NatInsertRev(c) \/ NatInsertFwd(c) \/ InsertDefault(c)
           \/ InsertSeed(c) \/ IngressTouch(c) \/ IngressRefresh(c)
    PROVE  CoverInv'
<1>1. PICK s : s = cpu[c]
  OBVIOUS
<1>2. s \in CpuState
  BY <1>1 DEF Inv, TypeOK
<1>3. CpuOnly
  BY DEF EgressTouch, NatInsertRev, NatInsertFwd, InsertDefault, InsertSeed, IngressTouch,
     IngressRefresh, CpuOnly
<1>4. ASSUME s.pc \in {"touch", "itouch", "irefresh"}, NEW t, Set(c, t), Plain(t),
             conntrack' = Upsert(conntrack, s.key, Touched(s.entry, s.flags))
      PROVE  CoverInv'
  <2>1. \A g \in Guests \ (late \cup gone) : Covered(g, s.key, Touched(s.entry, s.flags))
    BY <1>1, <1>4, TouchCovered DEF CoverInv
  <2> QED
    BY <1>3, <1>4, <2>1, PlainInsert
<1>5. CASE EgressTouch(c)
  <2>1. PICK p : p = IF s.entry.kind = "snat" THEN ct_apply(s.pkt, s.entry) ELSE s.pkt
    OBVIOUS
  <2>2. PICK t : t = [s EXCEPT !.pc = "route", !.pkt = p]
    OBVIOUS
  <2>3. /\ s.pc = "touch" /\ Set(c, t)
        /\ conntrack' = Upsert(conntrack, s.key, Touched(s.entry, s.flags))
    BY <1>1, <1>5, <2>1, <2>2 DEF EgressTouch, At
  <2>4. Plain(t)
    BY <1>2, <2>2 DEF CpuState, Plain
  <2> QED
    BY <1>4, <2>3, <2>4
<1>6. CASE IngressTouch(c)
  <2>1. PICK t : t = [s EXCEPT !.pc = "natfw", !.pkt = ct_apply(s.pkt, s.entry)]
    OBVIOUS
  <2>2. /\ s.pc = "itouch" /\ Set(c, t)
        /\ conntrack' = Upsert(conntrack, s.key, Touched(s.entry, s.flags))
    BY <1>1, <1>6, <2>1 DEF IngressTouch, At
  <2>3. Plain(t)
    BY <1>2, <2>1 DEF CpuState, Plain
  <2> QED
    BY <1>4, <2>2, <2>3
<1>7. CASE IngressRefresh(c)
  <2>1. /\ s.pc = "irefresh" /\ Set(c, IdleCpu)
        /\ conntrack' = Upsert(conntrack, s.key, Touched(s.entry, s.flags))
    BY <1>1, <1>7 DEF IngressRefresh, At, Return
  <2> QED
    BY <1>4, <2>1, PlainStacks
<1>8. CASE InsertDefault(c) \/ InsertSeed(c)
  <2>1. PICK t, k : /\ Set(c, t) /\ Plain(t)
                    /\ conntrack' = Upsert(conntrack, k, DefaultEntry(s.flags))
    <3>1. Plain(IdleCpu) /\ Plain([cpu[c] EXCEPT !.pc = "seed"])
      BY PlainStacks
    <3> QED
      BY <1>1, <1>8, <3>1 DEF InsertDefault, InsertSeed, Goto, Return
  <2>2. \A g \in Guests \ (late \cup gone) : Covered(g, k, DefaultEntry(s.flags))
    <3>1. s.flags \in Flags
      BY <1>2 DEF CpuState
    <3> QED
      BY <3>1, DefaultCovered
  <2> QED
    BY <1>3, <2>1, <2>2, PlainInsert
<1>9. CASE NatInsertRev(c)
  <2>1. PICK t, k, e : /\ t = [s EXCEPT !.pc = "insfwd"]
                       /\ k = RevKey(s.cfg.ip, s.port, s.pkt.proto)
                       /\ e = [kind |-> "dnat", xip |-> s.pkt.src, xport |-> s.pkt.sport,
                               tcp |-> "none", idle |-> 0]
    OBVIOUS
  <2>2. s.pc = "insrev" /\ Set(c, t) /\ conntrack' = Upsert(conntrack, k, e)
    BY <1>1, <1>9, <2>1 DEF NatInsertRev, At, Goto
  <2>3. /\ t.pc = "insfwd" /\ t.pkt = s.pkt /\ t.cfg = s.cfg
        /\ e.kind = "dnat" /\ e.xip = s.pkt.src /\ k.dst = s.cfg.ip /\ k.dport = s.port
    BY <1>2, <2>1 DEF CpuState, RevKey
  <2>4. ASSUME NEW g \in Guests \ (late \cup gone)
        PROVE  StackCovered(g, t) /\ Covered(g, k, e)
    <3>1. StacksCovered(g) /\ StackCovered(g, s)
      BY <1>1 DEF CoverInv, StacksCovered
    <3>2. StackCovered(g, t)
      BY <2>2, <2>3, <3>1, AllocatorCovered
    <3>3. Covered(g, k, e)
      BY <1>1, <2>2, <2>3, <3>1, AllocatedCovered
    <3> QED
      BY <3>2, <3>3
  <2> QED
    BY <1>3, <2>2, <2>4, InsertCovers
<1>10. CASE NatInsertFwd(c)
  <2>1. PICK t, e : /\ t = [s EXCEPT !.pc = "track", !.pkt = Snat(s, s.port)]
                    /\ e = [kind |-> "snat", xip |-> s.cfg.ip, xport |-> s.port,
                            tcp |-> "none", idle |-> 0]
    OBVIOUS
  <2>2. s.pc = "insfwd" /\ Set(c, t) /\ conntrack' = Upsert(conntrack, s.pkt, e)
    BY <1>1, <1>10, <2>1 DEF NatInsertFwd, At
  <2>3. Plain(t) /\ e.kind = "snat" /\ e.xip = s.cfg.ip /\ e.xport = s.port
    BY <1>2, <2>1 DEF CpuState, Plain
  <2>4. \A g \in Guests \ (late \cup gone) : Covered(g, s.pkt, e)
    BY <1>1, <2>2, <2>3, AllocatedCovered DEF CoverInv
  <2> QED
    BY <1>3, <2>2, <2>3, <2>4, PlainInsert
<1> QED
  BY <1>5, <1>6, <1>7, <1>8, <1>9, <1>10

\* Time, the sweep and the eviction only age or remove entries.
LEMMA AgingCovers ==
    ASSUME Inv, CoverInv, Tick \/ Gc \/ \E k \in DOMAIN conntrack : LruEvict(k)
    PROVE  CoverInv'
<1>1. /\ UNCHANGED <<nat, inner, flushReq, flushing, flushKeys>>
      /\ late' = late /\ gone' = gone /\ cpu' = cpu
  BY DEF Tick, Gc, GcCollect, GcLock, GcRemove, LruEvict, maps, ctlVars, history
<1>2. \A k \in DOMAIN conntrack' :
         /\ k \in DOMAIN conntrack /\ conntrack'[k].kind = conntrack[k].kind
         /\ conntrack'[k].xip = conntrack[k].xip /\ conntrack'[k].xport = conntrack[k].xport
  <2>1. CASE Tick
    <3> SUFFICES ASSUME NEW k \in DOMAIN conntrack'
                 PROVE  /\ k \in DOMAIN conntrack /\ conntrack'[k].kind = conntrack[k].kind
                        /\ conntrack'[k].xip = conntrack[k].xip
                        /\ conntrack'[k].xport = conntrack[k].xport
      OBVIOUS
    <3>1. k \in DOMAIN conntrack
      BY <2>1 DEF Tick
    <3>2. PICK e : e = conntrack[k]
      OBVIOUS
    <3>3. conntrack'[k] = [e EXCEPT !.idle = IF @ > EstTimeout THEN @ ELSE @ + 1] /\ e \in CtEntry
      BY <2>1, <3>1, <3>2 DEF Tick, Inv, TypeOK
    <3> QED
      BY <3>1, <3>2, <3>3 DEF CtEntry
  <2>2. CASE GcCollect \/ GcLock
    BY <2>2 DEF GcCollect, GcLock, maps
  <2>3. ASSUME NEW k, conntrack' = Without(conntrack, {k})
        PROVE  \A x \in DOMAIN conntrack' : x \in DOMAIN conntrack /\ conntrack'[x] = conntrack[x]
    BY <2>3 DEF Without, Restrict
  <2> QED
    BY <2>1, <2>2, <2>3 DEF Gc, GcRemove, LruEvict
<1>3. ASSUME NEW g \in Guests \ (late \cup gone) PROVE TableCovered(g)' /\ StacksCovered(g)'
  <2>1. TableCovered(g)'
    BY <1>1, <1>2, TableKept DEF CoverInv
  <2>2. \A s : StackCovered(g, s) => StackCovered(g, s)'
    BY <1>1, CoverSame
  <2>3. StacksCovered(g)'
    <3> SUFFICES ASSUME NEW d \in Cpus PROVE StackCovered(g, cpu[d])'
      BY DEF StacksCovered
    <3>1. PICK s : s = cpu[d]
      OBVIOUS
    <3>2. StackCovered(g, s)'
      BY <2>2, <3>1 DEF CoverInv, StacksCovered
    <3> QED
      BY <1>1, <3>1, <3>2
  <2> QED
    BY <2>1, <2>3
<1> QED
  BY <1>1, <1>3 DEF CoverInv

\* A guest that has to be flushed for no less than before stays covered.
LEMMA CoverGrows ==
    ASSUME flushing' = flushing, flushKeys' = flushKeys, conntrack' = conntrack, cpu' = cpu,
           NEW g, \A v : Serves(g, v) => Serves(g, v)', TableCovered(g), StacksCovered(g)
    PROVE  TableCovered(g)' /\ StacksCovered(g)'
<1>1. ASSUME NEW k, NEW e, Covered(g, k, e) PROVE Covered(g, k, e)'
  BY <1>1 DEF Covered, From, Translates, GuestsOf, PortsOf, PortRange
<1>2. ASSUME NEW s, StackCovered(g, s) PROVE StackCovered(g, s)'
  BY <1>1, <1>2 DEF StackCovered
<1>3. TableCovered(g)'
  <2> SUFFICES ASSUME NEW k \in DOMAIN conntrack' PROVE Covered(g, k, conntrack[k])'
    BY DEF TableCovered
  <2>1. PICK e : e = conntrack[k]
    OBVIOUS
  <2>2. Covered(g, k, e)'
    BY <1>1, <2>1 DEF TableCovered
  <2> QED
    BY <2>1, <2>2
<1>4. StacksCovered(g)'
  <2> SUFFICES ASSUME NEW d \in Cpus PROVE StackCovered(g, cpu[d])'
    BY DEF StacksCovered
  <2>1. PICK s : s = cpu[d]
    OBVIOUS
  <2>2. StackCovered(g, s)'
    BY <1>2, <2>1 DEF StacksCovered
  <2> QED
    BY <2>1, <2>2
<1> QED
  BY <1>3, <1>4

\* create_nat, delete_nat up to its flush and the interfaces.
LEMMA ControlCovers ==
    ASSUME Inv, CoverInv,
           \/ \E g \in Guests, ip \in NatIps, r \in NatRequests : CreateNat(g, ip, r)
           \/ \E g \in Guests : DeleteNat(g) \/ AttachInterface(g) \/ DetachInterface(g)
           \/ MarkNatIp \/ UnmarkNatIp
    PROVE  CoverInv'
<1>1. /\ flushing' = flushing /\ flushKeys' = flushKeys /\ conntrack' = conntrack /\ cpu' = cpu
      /\ late' = late /\ gone \subseteq gone'
  BY DEF CreateNat, DeleteNat, AttachInterface, DetachInterface, MarkNatIp, UnmarkNatIp, maps,
     history
<1>2. SUFFICES ASSUME NEW h \in Guests \ (late' \cup gone'), NEW v, Serves(h, v)
               PROVE  Serves(h, v)'
  <2>1. ASSUME NEW h \in Guests \ (late' \cup gone')
        PROVE  TableCovered(h)' /\ StacksCovered(h)'
    BY <1>1, <1>2, <2>1, CoverGrows DEF CoverInv
  <2> QED
    BY <2>1 DEF CoverInv
<1>3. ASSUME NEW g \in Guests, NEW ip \in NatIps, NEW r \in NatRequests, CreateNat(g, ip, r)
      PROVE  Serves(h, v)'
  <2>1. /\ g \notin DOMAIN nat /\ nat' = Upsert(nat, g, NatOf(ip, r)) /\ flushReq' = flushReq
        /\ inner.op = "none"
    BY <1>3 DEF CreateNat, InnerFree
  <2> QED
    BY <1>2, <2>1 DEF Serves, Upsert
<1>4. ASSUME NEW g \in Guests, DeleteNat(g) PROVE Serves(h, v)'
  <2>1. /\ g \in DOMAIN nat /\ nat' = Without(nat, {g}) /\ flushReq' = flushReq
        /\ inner.op = "none" /\ inner' = Locked("unmark", g, nat[g], deletes + 1)
    BY <1>4 DEF DeleteNat, InnerFree
  <2> QED
    BY <1>2, <2>1 DEF Serves, Without, Restrict, Locked
<1>5. ASSUME NEW g \in Guests, AttachInterface(g) PROVE Serves(h, v)'
  BY <1>2, <1>5 DEF AttachInterface, maps, Serves
<1>6. ASSUME NEW g \in Guests, DetachInterface(g) PROVE Serves(h, v)'
  <2>1. /\ inner' = inner /\ flushReq' = flushReq /\ h # g
        /\ nat' = nat \/ nat' = Without(nat, {g})
    BY <1>6 DEF DetachInterface
  <2> QED
    BY <1>2, <2>1 DEF Serves, Without, Restrict
<1>7. CASE MarkNatIp
  BY <1>2, <1>7 DEF MarkNatIp, Serves
<1>8. CASE UnmarkNatIp
  <2>1. /\ nat' = nat
        /\ flushReq' = flushReq \cup {[guest |-> inner.guest, cfg |-> inner.cfg, id |-> inner.id]}
    BY <1>8 DEF UnmarkNatIp
  <2>2. PICK q : q = [guest |-> inner.guest, cfg |-> inner.cfg, id |-> inner.id]
    OBVIOUS
  <2>3. q \in flushReq' /\ flushReq \subseteq flushReq' /\ q.guest = inner.guest /\ q.cfg = inner.cfg
    BY <2>1, <2>2
  <2> QED
    BY <1>2, <2>1, <2>3 DEF Serves
<1> QED
  BY <1>3, <1>4, <1>5, <1>6, <1>7, <1>8

\* A full turn leaves a remainder as it is.
LEMMA ModTurn ==
    ASSUME NEW n \in Nat \ {0}, NEW a \in 0 .. (n - 1)
    PROVE  (a + n) % n = a
<1> DEFINE d == (a + n) \div n
           m == (a + n) % n
<1>1. a + n = n * d + m /\ d \in Int /\ m \in 0 .. (n - 1)
  OBVIOUS
<1> HIDE DEF d, m
<1>2. d = 1
  <2>1. ASSUME d <= 0 PROVE FALSE
    <3>1. n * d <= 0
      BY <1>1, <2>1
    <3> QED
      BY <1>1, <3>1
  <2>2. ASSUME d >= 2 PROVE FALSE
    <3>1. n * d >= n + n
      BY <1>1, <2>2
    <3> QED
      BY <1>1, <3>1
  <2> QED
    BY <1>1, <2>1, <2>2
<1>3. m = a
  BY <1>1, <1>2
<1> QED
  BY <1>3 DEF m

\* The ports of a range that does not wrap lie between its bounds, where
\* ct_flush_for_guest looks for them.
LEMMA PortsBetween ==
    ASSUME NEW v \in NatValue, v.min <= v.max, NEW p \in PortsOf(v)
    PROVE  v.min <= p /\ p < v.max
<1>1. v.min \in Nat /\ v.max \in Nat /\ v.max < W /\ W \in Nat \ {0}
  BY NatAssumption DEF NatValue, Port
<1>2. PICK min, max : min = v.min /\ max = v.max
  OBVIOUS
<1>3. (max + W - min) % W = max - min
  <2>1. max - min \in 0 .. (W - 1) /\ max + W - min = (max - min) + W
    BY <1>1, <1>2
  <2> QED
    BY <1>1, <2>1, ModTurn
<1>4. PICK x \in 0 .. ((max - min) - 1) : p = (min + x) % W
  BY <1>2, <1>3 DEF PortsOf, PortRange
<1>5. (min + x) % W = min + x
  BY <1>1, <1>2, <1>4
<1> QED
  BY <1>1, <1>2, <1>4, <1>5

\* While no program runs no stack holds a copy.
LEMMA IdleCovered ==
    ASSUME Inv, ~Busy, cpu' = cpu, NEW g
    PROVE  StacksCovered(g)'
<1> SUFFICES ASSUME NEW d \in Cpus PROVE StackCovered(g, cpu[d])'
  BY DEF StacksCovered
<1>1. cpu'[d].pc = "idle"
  BY DEF Busy, At
<1> QED
  BY <1>1 DEF StackCovered

\* The collection of a flush.
LEMMA CollectCovers ==
    ASSUME Inv, CoverInv, Unwrapped => Ascending, NEW q \in flushReq, FlushCollect(q)
    PROVE  CoverInv'
<1>1. /\ flushing = {} /\ flushing' = {q} /\ flushReq' = flushReq \ {q} /\ flushKeys' = FlushSet(q)
      /\ nat' = nat /\ inner' = inner /\ conntrack' = conntrack /\ cpu' = cpu /\ gone' = gone
      /\ late \subseteq late'
      /\ Busy => q.guest \in late'
  BY DEF FlushCollect, LockFree, Overtaken, maps
<1>2. q.guest \in Guests /\ q.cfg \in NatValue
  BY DEF Inv, TypeOK, FlushRequest
<1>3. ASSUME NEW g \in Guests \ (late' \cup gone'), g # q.guest
      PROVE  TableCovered(g)' /\ StacksCovered(g)'
  <2>1. \A v : Serves(g, v) <=> Serves(g, v)'
    BY <1>1, <1>3 DEF Serves
  <2>2. ASSUME NEW k, NEW e, Covered(g, k, e) PROVE Covered(g, k, e)'
    BY <1>1, <2>1, <2>2 DEF Covered, From, Translates, GuestsOf, PortsOf, PortRange
  <2>3. ASSUME NEW s, StackCovered(g, s) PROVE StackCovered(g, s)'
    BY <2>1, <2>2, <2>3 DEF StackCovered
  <2>4. TableCovered(g)'
    <3> SUFFICES ASSUME NEW k \in DOMAIN conntrack' PROVE Covered(g, k, conntrack[k])'
      BY DEF TableCovered
    <3>1. PICK e : e = conntrack[k]
      OBVIOUS
    <3>2. Covered(g, k, e)'
      BY <1>1, <1>3, <2>2, <3>1 DEF TableCovered, CoverInv
    <3> QED
      BY <1>1, <3>1, <3>2
  <2>5. StacksCovered(g)'
    <3> SUFFICES ASSUME NEW d \in Cpus PROVE StackCovered(g, cpu[d])'
      BY DEF StacksCovered
    <3>1. PICK s : s = cpu[d]
      OBVIOUS
    <3>2. StackCovered(g, s)'
      BY <1>1, <1>3, <2>3, <3>1 DEF StacksCovered, CoverInv
    <3> QED
      BY <1>1, <3>1, <3>2
  <2> QED
    BY <2>4, <2>5
<1>4. ASSUME q.guest \notin late' \cup gone'
      PROVE  TableCovered(q.guest)' /\ StacksCovered(q.guest)'
  <2>1. StacksCovered(q.guest)'
    BY <1>1, <1>4, IdleCovered
  <2>2. ASSUME NEW k \in DOMAIN conntrack, Translates(q.guest, k, conntrack[k]),
               Unwrapped \/ conntrack[k].kind = "snat"
        PROVE  Covered(q.guest, k, conntrack[k])'
    <3>1. Covered(q.guest, k, conntrack[k])
      BY <1>1, <1>2, <1>4 DEF CoverInv, TableCovered
    <3>2. PICK v \in NatValue : Serves(q.guest, v) /\ From(v, k, conntrack[k])
      BY <1>1, <2>2, <3>1 DEF Covered, GuestsOf
    <3>3. CASE k \in FlushSet(q)
      BY <1>1, <3>3 DEF Covered, GuestsOf
    <3>4. CASE k \notin FlushSet(q)
      <4>1. conntrack[k].kind = "dnat" /\ k.src # q.guest /\ Unwrapped
        BY <2>2, <3>4 DEF FlushSet, IsFwd, Translates
      <4>2. k.dst = v.ip /\ k.dport \in PortsOf(v)
        BY <3>2, <4>1 DEF From
      <4>3. v # q.cfg
        <5> SUFFICES ASSUME v = q.cfg PROVE FALSE
          OBVIOUS
        <5>1. v.min <= v.max
          BY <1>2, <3>2, <4>1 DEF Ascending
        <5>2. v.min <= k.dport /\ k.dport < v.max
          BY <4>2, <5>1, PortsBetween
        <5>3. k.dport \in Nat /\ v.min \in Nat
          <6>1. k \in CtKey
            BY DEF Inv, TypeOK
          <6> QED
            BY <6>1, NatAssumption DEF CtKey, NatValue, Port
        <5> QED
          BY <3>4, <4>1, <4>2, <5>2, <5>3 DEF FlushSet, IsRev
      <4>4. Serves(q.guest, v)'
        BY <1>1, <3>2, <4>3 DEF Serves
      <4>5. From(v, k, conntrack[k])'
        BY <1>1, <3>2 DEF From, PortsOf, PortRange
      <4> QED
        BY <4>4, <4>5 DEF Covered
    <3> QED
      BY <3>3, <3>4
  <2>3. TableCovered(q.guest)'
    BY <1>1, <2>2 DEF TableCovered, Covered, Translates
  <2> QED
    BY <2>1, <2>3
<1> QED
  BY <1>3, <1>4 DEF CoverInv

\* The removals of a flush and its end.
LEMMA RemovalCovers ==
    ASSUME Inv, CoverInv, FlushDone \/ \E k \in flushKeys : FlushRemove(k)
    PROVE  CoverInv'
<1>1. /\ nat' = nat /\ inner' = inner /\ flushReq' = flushReq /\ cpu' = cpu /\ gone' = gone
      /\ late \subseteq late'
      /\ Busy => GuestsOf(flushing) \subseteq late'
  BY DEF FlushDone, FlushRemove, Overtaken, maps
<1>2. ASSUME NEW g \in Guests \ (late' \cup gone')
      PROVE  TableCovered(g) /\ StacksCovered(g)
  BY <1>1, <1>2 DEF CoverInv
<1>3. ASSUME NEW g, NEW k, NEW e, Covered(g, k, e),
             (g \in GuestsOf(flushing) /\ k \in flushKeys) =>
                (flushing' = flushing /\ k \in flushKeys')
      PROVE  Covered(g, k, e)'
  <2>1. \A v : Serves(g, v) => Serves(g, v)'
    BY <1>1 DEF Serves
  <2> QED
    BY <1>3, <2>1 DEF Covered, From, Translates, GuestsOf, PortsOf, PortRange
<1>4. ASSUME NEW g \in Guests \ (late' \cup gone'), NEW k \in DOMAIN conntrack'
      PROVE  Covered(g, k, conntrack[k])'
  <2>1. /\ k \in DOMAIN conntrack /\ conntrack'[k] = conntrack[k]
        /\ k \in flushKeys => flushing' = flushing /\ k \in flushKeys'
    BY DEF FlushDone, FlushRemove, Without, Restrict, maps
  <2>2. PICK e : e = conntrack[k]
    OBVIOUS
  <2>3. Covered(g, k, e)
    BY <1>2, <2>1, <2>2 DEF TableCovered
  <2>4. Covered(g, k, e)'
    BY <1>3, <2>1, <2>3
  <2> QED
    BY <2>1, <2>2, <2>4
<1>5. ASSUME NEW g \in Guests \ (late' \cup gone') PROVE StacksCovered(g)'
  <2>1. CASE ~Busy
    BY <1>1, <2>1, IdleCovered
  <2>2. CASE Busy
    <3>1. g \notin GuestsOf(flushing)
      BY <1>1, <1>5, <2>2
    <3>2. \A v : Serves(g, v) => Serves(g, v)'
      BY <1>1 DEF Serves
    <3>3. ASSUME NEW s, StackCovered(g, s) PROVE StackCovered(g, s)'
      BY <1>3, <3>1, <3>2, <3>3 DEF StackCovered
    <3> SUFFICES ASSUME NEW d \in Cpus PROVE StackCovered(g, cpu[d])'
      BY DEF StacksCovered
    <3>4. PICK s : s = cpu[d]
      OBVIOUS
    <3>5. StackCovered(g, s)'
      BY <1>2, <1>5, <3>3, <3>4 DEF StacksCovered
    <3> QED
      BY <1>1, <3>4, <3>5
  <2> QED
    BY <2>1, <2>2
<1> QED
  BY <1>4, <1>5 DEF CoverInv, TableCovered

\* A configuration to be flushed for comes from a create_nat.
LEMMA AscendingKept ==
    ASSUME Inv, Ascending, Unwrapped, [Next]_vars
    PROVE  Ascending'
<1> SUFFICES ASSUME NEW h \in Guests, NEW v \in NatValue, Serves(h, v)' PROVE v.min <= v.max
  BY DEF Ascending, NatValue, Port
<1>1. ASSUME Serves(h, v) PROVE v.min <= v.max
  BY <1>1 DEF Ascending
<1>2. ASSUME nat' = nat, inner' = inner, flushReq' \subseteq flushReq PROVE v.min <= v.max
  BY <1>1, <1>2 DEF Serves
<1>3. ASSUME NEW c \in Cpus, Arrival(c) PROVE v.min <= v.max
  <2>1. ASSUME NEW k, NEW fl, EgressLookup(c, k, fl) \/ IngressDemux(c, k, fl)
        PROVE  nat' = nat /\ inner' = inner /\ flushReq' = flushReq
    BY <2>1 DEF EgressLookup, IngressDemux, maps, ctlVars
  <2>2. nat' = nat /\ inner' = inner /\ flushReq' = flushReq
    BY <1>3, <2>1 DEF Arrival
  <2> QED
    BY <1>2, <2>2
<1>4. ASSUME NEW c \in Cpus, CpuStep(c) PROVE v.min <= v.max
  <2>1. nat' = nat /\ UNCHANGED ctlVars
    BY <1>4 DEF CpuStep, EgressTouch, EgressRouteMiss, EgressNatConfig, NatReusePort, NatProbe,
       NatInsertRev, NatInsertFwd, EgressTrack, InsertDefault, SeedLookup, InsertSeed, IngressLookup,
       IngressTouch, IngressElsewhere, IngressKnown, IngressFirewall, IngressTrack, IngressRefresh,
       maps
  <2> QED
    BY <1>2, <2>1 DEF ctlVars
<1>5. CASE Tick \/ Gc \/ \E k \in DOMAIN conntrack : LruEvict(k)
  <2>1. nat' = nat /\ UNCHANGED ctlVars
    BY <1>5 DEF Tick, Gc, GcCollect, GcLock, GcRemove, LruEvict, maps
  <2> QED
    BY <1>2, <2>1 DEF ctlVars
<1>6. ASSUME NEW g \in Guests, NEW ip \in NatIps, NEW r \in NatRequests, CreateNat(g, ip, r)
      PROVE  v.min <= v.max
  <2>1. PICK w : w = NatOf(ip, r)
    OBVIOUS
  <2>2. /\ nat' = Upsert(nat, g, w) /\ flushReq' = flushReq /\ inner' = Locked("mark", g, w, 0)
    BY <1>6, <2>1 DEF CreateNat
  <2>3. v = w \/ Serves(h, v)
    BY <2>2 DEF Serves, Upsert, Locked
  <2>4. w.min <= w.max
    BY <2>1 DEF NatOf, Unwrapped
  <2> QED
    BY <1>1, <2>3, <2>4
<1>7. ASSUME NEW g \in Guests, DeleteNat(g) PROVE v.min <= v.max
  <2>1. /\ g \in DOMAIN nat /\ nat' = Without(nat, {g}) /\ flushReq' = flushReq
        /\ inner' = Locked("unmark", g, nat[g], deletes + 1)
    BY <1>7 DEF DeleteNat
  <2> QED
    BY <1>1, <2>1 DEF Serves, Without, Restrict, Locked
<1>8. ASSUME NEW g \in Guests, AttachInterface(g) PROVE v.min <= v.max
  BY <1>2, <1>8 DEF AttachInterface, maps
<1>9. ASSUME NEW g \in Guests, DetachInterface(g) PROVE v.min <= v.max
  <2>1. inner' = inner /\ flushReq' = flushReq /\ (nat' = nat \/ nat' = Without(nat, {g}))
    BY <1>9 DEF DetachInterface
  <2> QED
    BY <1>1, <2>1 DEF Serves, Without, Restrict
<1>10. CASE MarkNatIp
  <2>1. nat' = nat /\ flushReq' = flushReq /\ inner' = Unlocked
    BY <1>10 DEF MarkNatIp
  <2> QED
    BY <1>1, <2>1 DEF Serves, Unlocked
<1>11. CASE UnmarkNatIp
  <2>1. PICK q : q = [guest |-> inner.guest, cfg |-> inner.cfg, id |-> inner.id]
    OBVIOUS
  <2>2. /\ nat' = nat /\ flushReq' = flushReq \cup {q} /\ inner' = Unlocked
        /\ inner.op = "unmark" /\ q.guest = inner.guest /\ q.cfg = inner.cfg
    BY <1>11, <2>1 DEF UnmarkNatIp
  <2> QED
    BY <1>1, <2>2 DEF Serves, Unlocked
<1>12. ASSUME NEW q \in flushReq, FlushCollect(q) PROVE v.min <= v.max
  BY <1>2, <1>12 DEF FlushCollect, maps
<1>13. CASE FlushDone \/ \E k \in flushKeys : FlushRemove(k)
  BY <1>2, <1>13 DEF FlushDone, FlushRemove, maps
<1>14. CASE UNCHANGED vars
  BY <1>2, <1>14 DEF vars, maps, ctlVars
<1> QED
  BY <1>3, <1>4, <1>5, <1>6, <1>7, <1>8, <1>9, <1>10, <1>11, <1>12, <1>13, <1>14 DEF Next, Control

\* Every step keeps what has to be flushed covered.
LEMMA CoverKept ==
    ASSUME Inv, CoverInv, Unwrapped => Ascending, [Next]_vars
    PROVE  CoverInv'
<1>1. ASSUME NEW c \in Cpus, Arrival(c) PROVE CoverInv'
  BY <1>1, ArrivalCovers
<1>2. ASSUME NEW c \in Cpus, CpuStep(c) PROVE CoverInv'
  BY <1>2, ReadsCover, CopiesCover, WritesCover DEF CpuStep
<1>3. CASE Tick \/ Gc \/ \E k \in DOMAIN conntrack : LruEvict(k)
  BY <1>3, AgingCovers
<1>4. CASE Control
  BY <1>4, ControlCovers, CollectCovers, RemovalCovers DEF Control
<1>5. CASE UNCHANGED vars
  <2>1. /\ UNCHANGED <<flushing, flushKeys, conntrack, cpu, nat, inner, flushReq>>
        /\ late' = late /\ gone' = gone
    BY <1>5 DEF vars, maps, ctlVars, history
  <2>2. ASSUME NEW g, NEW v, Serves(g, v) PROVE Serves(g, v)'
    BY <2>1, <2>2 DEF Serves
  <2>3. ASSUME NEW g \in Guests \ (late \cup gone) PROVE TableCovered(g)' /\ StacksCovered(g)'
    BY <2>1, <2>2, CoverGrows DEF CoverInv
  <2> QED
    BY <2>1, <2>3 DEF CoverInv
<1> QED
  BY <1>1, <1>2, <1>3, <1>4, <1>5 DEF Next

\* Nothing is translated at first.
LEMMA CoverInit == Init => CoverInv /\ Ascending
<1> SUFFICES ASSUME Init PROVE CoverInv /\ Ascending
  OBVIOUS
<1>1. /\ DOMAIN conntrack = {} /\ DOMAIN nat = {} /\ inner.op = "none" /\ flushReq = {}
      /\ \A c \in Cpus : cpu[c].pc = "idle"
  BY DEF Init, Unlocked, IdleCpu
<1> QED
  BY <1>1 DEF CoverInv, Ascending, TableCovered, StacksCovered, StackCovered, Serves

\* What is covered while nothing is left to flush translates nothing.
LEMMA CoverComplete == CoverInv /\ Unwrapped => FlushComplete
<1> SUFFICES ASSUME CoverInv, Unwrapped, NEW g \in Guests \ (late \cup gone), InnerFree, g \notin DOMAIN nat,
                    g \notin GuestsOf(flushReq \cup flushing), NEW k \in DOMAIN conntrack
             PROVE  ~Translates(g, k, conntrack[k])
  BY DEF FlushComplete
<1>1. Covered(g, k, conntrack[k])
  BY DEF CoverInv, TableCovered
<1>2. g \notin GuestsOf(flushing) /\ \A q \in flushReq : q.guest # g
  BY DEF GuestsOf
<1>3. \A v : ~Serves(g, v)
  BY <1>2 DEF Serves, InnerFree
<1> QED
  BY <1>1, <1>2, <1>3 DEF Covered

\* Once delete_nat has returned, conntrack holds no entry that translates the
\* guest, unless a packet was inside a datapath program while the flush ran
\* (ct_flush_for_guest); the port ranges requested must not wrap.
THEOREM FlushCompleteHolds ==
    ASSUME Unwrapped
    PROVE  Spec => []FlushComplete
<1> DEFINE I == Inv /\ CoverInv /\ Ascending
<1>1. Init => I
  BY InitInv, CoverInit
<1>2. I /\ [Next]_vars => I'
  BY NextInv, CoverKept, AscendingKept
<1>3. I => FlushComplete
  BY CoverComplete
<1> QED
  BY <1>1, <1>2, <1>3, PTL DEF Spec

(***************************************************************************)
(* The steps of the programs, told apart by what they do with CONNTRACK.   *)
(***************************************************************************)

\* What the map operation a stack is about to perform stores, and where.
Stores(s, k, e) ==
    \/ /\ s.pc \in {"touch", "itouch", "irefresh"}
       /\ k = s.key /\ e = Touched(s.entry, s.flags)
    \/ /\ s.pc = "insrev" /\ k = RevKey(s.cfg.ip, s.port, s.pkt.proto)
       /\ e = [kind |-> "dnat", xip |-> s.pkt.src, xport |-> s.pkt.sport, tcp |-> "none", idle |-> 0]
    \/ /\ s.pc = "insfwd" /\ k = s.pkt
       /\ e = [kind |-> "snat", xip |-> s.cfg.ip, xport |-> s.port, tcp |-> "none", idle |-> 0]
    \/ s.pc = "insdef" /\ k = s.pkt /\ e = DefaultEntry(s.flags)
    \/ s.pc = "insseed" /\ k = invert_key(s.pkt) /\ e = DefaultEntry(s.flags)

\* A stack after such an operation: it holds nothing that is to be stored later,
\* except that the reverse entry is followed by the forward one.
After(s, t) ==
    /\ t.pc \in {"route", "natfw", "insfwd", "track", "seed", "idle"}
    /\ t.pc = "insfwd" => s.pc = "insrev" /\ t.pkt = s.pkt /\ t.cfg = s.cfg /\ t.port = s.port
    /\ t.pc = "route" =>
          /\ s.pc = "touch"
          /\ t.pkt = IF s.entry.kind = "snat" THEN ct_apply(s.pkt, s.entry) ELSE s.pkt

\* A stack t after an operation that stores nothing, s being the one before:
\* what t is to store was looked up in this operation, or is carried on from s.
Loads(s, t) ==
    /\ s.pc \notin {"touch", "itouch", "irefresh", "insrev", "insfwd", "insdef", "insseed"}
    /\ t.pc \in {"touch", "itouch", "irefresh"} => t.key \in DOMAIN conntrack /\ t.entry = Copy(t.key)
    /\ t.pc = "itouch" => s.pc = "ilookup" /\ conntrack[t.key].kind = "dnat"
    /\ t.pc = "irefresh" => s.pc = "itrack"
    /\ t.pc \in {"touch", "route"} => s.pc = "idle"
    /\ t.pc = "natfwd" => s.pc = "route" /\ t.pkt = s.pkt /\ s.pkt.src \in DOMAIN nat
    /\ t.pc \in {"probe", "insrev", "insfwd"} => s.pc \in {"natfwd", "probe"} /\ t.pkt = s.pkt
    /\ t.pc = "insrev" => RevKey(t.cfg.ip, t.port, t.pkt.proto) \notin DOMAIN conntrack
    /\ t.pc = "insdef" => t.pkt \notin DOMAIN conntrack
    /\ t.pc = "insseed" => invert_key(t.pkt) \notin DOMAIN conntrack

\* A step of a program is one of the two.
CpuEffect(c, t) ==
    /\ Set(c, t)
    /\ \/ conntrack' = conntrack /\ Loads(cpu[c], t)
       \/ \E k, e : Stores(cpu[c], k, e) /\ After(cpu[c], t) /\ conntrack' = Upsert(conntrack, k, e)

\* The first map access of a program only looks up (forward_decision_v4,
\* try_uplink_rx).
LEMMA ArrivalEffect ==
    ASSUME Inv, NEW c \in Cpus, Arrival(c)
    PROVE  \E t : CpuEffect(c, t)
<1>1. ASSUME NEW k \in GuestPackets, NEW fl \in FlagsOf(k), EgressLookup(c, k, fl)
      PROVE  \E t : CpuEffect(c, t)
  <2>1. cpu[c].pc = "idle" /\ conntrack' = conntrack
    BY <1>1 DEF EgressLookup, At, maps
  <2>2. CASE k \in DOMAIN conntrack
    <3>1. PICK t : t = [IdleCpu EXCEPT !.pc = "touch", !.pkt = k, !.flags = fl, !.key = k,
                                       !.entry = Copy(k)]
      OBVIOUS
    <3>2. t.pc = "touch" /\ t.key = k /\ t.entry = Copy(k)
      BY <3>1, IdleCpuType DEF CpuState
    <3>3. Set(c, t)
      BY <1>1, <2>2, <3>1 DEF EgressLookup
    <3>4. Loads(cpu[c], t)
      BY <2>1, <2>2, <3>2 DEF Loads
    <3> QED
      BY <2>1, <3>3, <3>4 DEF CpuEffect
  <2>3. CASE k \notin DOMAIN conntrack
    <3>1. PICK t : t = [IdleCpu EXCEPT !.pc = "route", !.pkt = k, !.flags = fl]
      OBVIOUS
    <3>2. t.pc = "route"
      BY <3>1, IdleCpuType DEF CpuState
    <3>3. Set(c, t)
      BY <1>1, <2>3, <3>1 DEF EgressLookup
    <3>4. Loads(cpu[c], t)
      BY <2>1, <3>2 DEF Loads
    <3> QED
      BY <2>1, <3>3, <3>4 DEF CpuEffect
  <2> QED
    BY <2>2, <2>3
<1>2. ASSUME NEW k \in UplinkPackets, NEW fl \in FlagsOf(k), IngressDemux(c, k, fl)
      PROVE  \E t : CpuEffect(c, t)
  <2>1. cpu[c].pc = "idle" /\ conntrack' = conntrack
    BY <1>2 DEF IngressDemux, At, maps
  <2>2. PICK t : t = [IdleCpu EXCEPT !.pc = "ilookup", !.pkt = k, !.flags = fl, !.key = DemuxKey(k)]
    OBVIOUS
  <2>3. t.pc = "ilookup"
    BY <2>2, IdleCpuType DEF CpuState
  <2>4. Set(c, t)
    BY <1>2, <2>2 DEF IngressDemux
  <2>5. Loads(cpu[c], t)
    BY <2>1, <2>3 DEF Loads
  <2> QED
    BY <2>1, <2>4, <2>5 DEF CpuEffect
<1> QED
  BY <1>1, <1>2 DEF Arrival

\* The operations that look up, or only decide.
LEMMA LoadEffect ==
    ASSUME Inv, NEW c \in Cpus,
           \/ EgressRouteMiss(c) \/ EgressNatConfig(c) \/ NatReusePort(c) \/ NatProbe(c)
           \/ EgressTrack(c) \/ SeedLookup(c) \/ IngressLookup(c) \/ IngressElsewhere(c)
           \/ IngressKnown(c) \/ IngressFirewall(c) \/ IngressTrack(c)
    PROVE  \E t : CpuEffect(c, t)
<1>1. PICK s : s = cpu[c]
  OBVIOUS
<1>2. s \in CpuState
  BY <1>1 DEF Inv, TypeOK
<1>3. conntrack' = conntrack
  BY DEF EgressRouteMiss, EgressNatConfig, NatReusePort, NatProbe, EgressTrack, SeedLookup,
     IngressLookup, IngressElsewhere, IngressKnown, IngressFirewall, IngressTrack, maps
<1>4. SUFFICES \E t : Set(c, t) /\ Loads(s, t)
  BY <1>1, <1>3 DEF CpuEffect
<1>5. ASSUME Return(c), s.pc \in {"route", "track", "seed", "ifw", "natfw", "ifweval", "natfweval"}
      PROVE  \E t : Set(c, t) /\ Loads(s, t)
  <2>1. Loads(s, IdleCpu)
    BY <1>5, IdleCpuType DEF Loads
  <2> QED
    BY <1>5, <2>1 DEF Return
<1>6. ASSUME NEW l, Goto(c, l), l \in Pc,
             s.pc \in {"route", "track", "seed", "ilookup", "ifw", "natfw", "ifweval", "natfweval",
                       "itrack"},
             \/ l \in {"track", "ifw", "natfweval", "ifweval", "itrack"}
             \/ l = "insdef" /\ s.pkt \notin DOMAIN conntrack
             \/ l = "insseed" /\ invert_key(s.pkt) \notin DOMAIN conntrack
      PROVE  \E t : Set(c, t) /\ Loads(s, t)
  <2>1. PICK t : t = [s EXCEPT !.pc = l]
    OBVIOUS
  <2>2. t.pc = l /\ t.pkt = s.pkt
    BY <1>2, <2>1 DEF CpuState
  <2>3. Loads(s, t)
    BY <1>6, <2>2 DEF Loads
  <2> QED
    BY <1>1, <1>6, <2>1, <2>3 DEF Goto
<1>7. CASE EgressRouteMiss(c) \/ IngressElsewhere(c)
  BY <1>1, <1>5, <1>7 DEF EgressRouteMiss, IngressElsewhere, At
<1>8. CASE EgressTrack(c)
  BY <1>1, <1>5, <1>6, <1>8 DEF EgressTrack, At, Pc
<1>9. CASE SeedLookup(c)
  BY <1>1, <1>5, <1>6, <1>9 DEF SeedLookup, At, Pc
<1>10. CASE IngressKnown(c)
  BY <1>1, <1>5, <1>6, <1>10 DEF IngressKnown, Admit, At, Pc
<1>11. CASE IngressFirewall(c)
  BY <1>1, <1>5, <1>6, <1>11 DEF IngressFirewall, Admit, At, Pc
<1>12. CASE EgressNatConfig(c)
  <2>1. CASE Goto(c, "track")
    BY <1>1, <1>6, <1>12, <2>1 DEF EgressNatConfig, At, Pc
  <2>2. CASE ~Goto(c, "track")
    <3>1. PICK t : t = [s EXCEPT !.pc = "natfwd", !.cfg = nat[s.pkt.src]]
      OBVIOUS
    <3>2. Set(c, t) /\ s.pc = "route" /\ s.pkt.src \in DOMAIN nat
      BY <1>1, <1>12, <2>2, <3>1 DEF EgressNatConfig, At
    <3>3. t.pc = "natfwd" /\ t.pkt = s.pkt
      BY <1>2, <3>1 DEF CpuState
    <3> QED
      BY <3>2, <3>3 DEF Loads
  <2> QED
    BY <2>1, <2>2
<1>13. CASE NatReusePort(c)
  <2>1. PICK p, x : p = Snat(s, conntrack[s.pkt].xport) /\ x = ProbePort(s.cfg, s.pkt, 0)
    OBVIOUS
  <2>2. PICK t : Set(c, t) /\ (t = [s EXCEPT !.pc = "track", !.pkt = p]
                               \/ t = [s EXCEPT !.pc = "probe", !.port = x])
    BY <1>1, <1>13, <2>1 DEF NatReusePort
  <2>3. s.pc = "natfwd"
    BY <1>1, <1>13 DEF NatReusePort, At
  <2>4. t.pc = "track" \/ (t.pc = "probe" /\ t.pkt = s.pkt)
    BY <1>2, <2>2 DEF CpuState
  <2> QED
    BY <2>2, <2>3, <2>4 DEF Loads
<1>14. CASE NatProbe(c)
  <2>1. PICK x : x = ProbePort(s.cfg, s.pkt, s.probe)
    OBVIOUS
  <2>2. s.pc = "probe"
    BY <1>1, <1>14 DEF NatProbe, At
  <2>3. PICK t : Set(c, t) /\ \/ t = [s EXCEPT !.pc = "insfwd"]
                              \/ /\ RevKey(s.cfg.ip, x, s.pkt.proto) \notin DOMAIN conntrack
                                 /\ t = [s EXCEPT !.pc = "insrev", !.port = x]
                              \/ t = [s EXCEPT !.probe = @ + 1]
    BY <1>1, <1>14, <2>1 DEF NatProbe, Goto
  <2>4. /\ t.pkt = s.pkt /\ t.cfg = s.cfg
        /\ \/ t.pc \in {"probe", "insfwd"}
           \/ /\ t.pc = "insrev" /\ t.port = x
              /\ RevKey(s.cfg.ip, x, s.pkt.proto) \notin DOMAIN conntrack
    BY <1>2, <2>2, <2>3 DEF CpuState
  <2> QED
    BY <2>2, <2>3, <2>4 DEF Loads
<1>15. CASE IngressLookup(c)
  <2>1. CASE Goto(c, "ifw")
    BY <1>1, <1>6, <1>15, <2>1 DEF IngressLookup, At, Pc
  <2>2. CASE ~Goto(c, "ifw")
    <3>1. PICK t : t = [s EXCEPT !.pc = "itouch", !.entry = Copy(s.key)]
      OBVIOUS
    <3>2. /\ Set(c, t) /\ s.pc = "ilookup" /\ s.key \in DOMAIN conntrack
          /\ conntrack[s.key].kind = "dnat"
      BY <1>1, <1>15, <2>2, <3>1 DEF IngressLookup, At
    <3>3. t.pc = "itouch" /\ t.key = s.key /\ t.entry = Copy(s.key)
      BY <1>2, <3>1 DEF CpuState
    <3> QED
      BY <3>2, <3>3 DEF Loads
  <2> QED
    BY <2>1, <2>2
<1>16. CASE IngressTrack(c)
  <2>1. CASE Goto(c, "insdef") /\ s.pkt \notin DOMAIN conntrack
    BY <1>1, <1>6, <1>16, <2>1 DEF IngressTrack, At, Pc
  <2>2. CASE s.pkt \in DOMAIN conntrack
    <3>1. PICK t : t = [s EXCEPT !.pc = "irefresh", !.key = s.pkt, !.entry = Copy(s.pkt)]
      OBVIOUS
    <3>2. Set(c, t) /\ s.pc = "itrack"
      BY <1>1, <1>16, <2>2, <3>1 DEF IngressTrack, At
    <3>3. t.pc = "irefresh" /\ t.key = s.pkt /\ t.entry = Copy(s.pkt)
      BY <1>2, <3>1 DEF CpuState
    <3> QED
      BY <2>2, <3>2, <3>3 DEF Loads
  <2> QED
    BY <1>1, <1>16, <2>1, <2>2 DEF IngressTrack
<1> QED
  BY <1>7, <1>8, <1>9, <1>10, <1>11, <1>12, <1>13, <1>14, <1>15, <1>16

\* The operations that store.
LEMMA StoreEffect ==
    ASSUME Inv, NEW c \in Cpus,
           \/ EgressTouch(c) \/ NatInsertRev(c) \/ NatInsertFwd(c) \/ InsertDefault(c)
           \/ InsertSeed(c) \/ IngressTouch(c) \/ IngressRefresh(c)
    PROVE  \E t : CpuEffect(c, t)
<1>1. PICK s : s = cpu[c]
  OBVIOUS
<1>2. s \in CpuState
  BY <1>1 DEF Inv, TypeOK
<1>3. SUFFICES \E t, k, e : /\ Set(c, t) /\ Stores(s, k, e) /\ After(s, t)
                            /\ conntrack' = Upsert(conntrack, k, e)
  BY <1>1 DEF CpuEffect
<1>4. CASE EgressTouch(c)
  <2>1. PICK p : p = IF s.entry.kind = "snat" THEN ct_apply(s.pkt, s.entry) ELSE s.pkt
    OBVIOUS
  <2>2. PICK t : t = [s EXCEPT !.pc = "route", !.pkt = p]
    OBVIOUS
  <2>3. /\ s.pc = "touch" /\ Set(c, t)
        /\ conntrack' = Upsert(conntrack, s.key, Touched(s.entry, s.flags))
    BY <1>1, <1>4, <2>1, <2>2 DEF EgressTouch, At
  <2>4. t.pc = "route" /\ t.pkt = p
    BY <1>2, <2>2 DEF CpuState
  <2>5. After(s, t) /\ Stores(s, s.key, Touched(s.entry, s.flags))
    BY <2>1, <2>3, <2>4 DEF After, Stores
  <2> QED
    BY <2>3, <2>5
<1>5. CASE IngressTouch(c)
  <2>1. PICK t : t = [s EXCEPT !.pc = "natfw", !.pkt = ct_apply(s.pkt, s.entry)]
    OBVIOUS
  <2>2. /\ s.pc = "itouch" /\ Set(c, t)
        /\ conntrack' = Upsert(conntrack, s.key, Touched(s.entry, s.flags))
    BY <1>1, <1>5, <2>1 DEF IngressTouch, At
  <2>3. t.pc = "natfw"
    BY <1>2, <2>1 DEF CpuState
  <2>4. After(s, t) /\ Stores(s, s.key, Touched(s.entry, s.flags))
    BY <2>2, <2>3 DEF After, Stores
  <2> QED
    BY <2>2, <2>4
<1>6. CASE IngressRefresh(c)
  <2>1. /\ s.pc = "irefresh" /\ Set(c, IdleCpu)
        /\ conntrack' = Upsert(conntrack, s.key, Touched(s.entry, s.flags))
    BY <1>1, <1>6 DEF IngressRefresh, At, Return
  <2>2. After(s, IdleCpu) /\ Stores(s, s.key, Touched(s.entry, s.flags))
    BY <2>1, IdleCpuType DEF After, Stores
  <2> QED
    BY <2>1, <2>2
<1>7. CASE NatInsertRev(c)
  <2>1. PICK t, k, e : /\ t = [s EXCEPT !.pc = "insfwd"]
                       /\ k = RevKey(s.cfg.ip, s.port, s.pkt.proto)
                       /\ e = [kind |-> "dnat", xip |-> s.pkt.src, xport |-> s.pkt.sport,
                               tcp |-> "none", idle |-> 0]
    OBVIOUS
  <2>2. s.pc = "insrev" /\ Set(c, t) /\ conntrack' = Upsert(conntrack, k, e)
    BY <1>1, <1>7, <2>1 DEF NatInsertRev, At, Goto
  <2>3. t.pc = "insfwd" /\ t.pkt = s.pkt /\ t.cfg = s.cfg /\ t.port = s.port
    BY <1>2, <2>1 DEF CpuState
  <2>4. After(s, t) /\ Stores(s, k, e)
    BY <2>1, <2>2, <2>3 DEF After, Stores
  <2> QED
    BY <2>2, <2>4
<1>8. CASE NatInsertFwd(c)
  <2>1. PICK t, p, e : /\ p = Snat(s, s.port) /\ t = [s EXCEPT !.pc = "track", !.pkt = p]
                       /\ e = [kind |-> "snat", xip |-> s.cfg.ip, xport |-> s.port,
                               tcp |-> "none", idle |-> 0]
    OBVIOUS
  <2>2. s.pc = "insfwd" /\ Set(c, t) /\ conntrack' = Upsert(conntrack, s.pkt, e)
    BY <1>1, <1>8, <2>1 DEF NatInsertFwd, At
  <2>3. t.pc = "track"
    BY <1>2, <2>1 DEF CpuState
  <2>4. After(s, t) /\ Stores(s, s.pkt, e)
    BY <2>1, <2>2, <2>3 DEF After, Stores
  <2> QED
    BY <2>2, <2>4
<1>9. CASE InsertDefault(c)
  <2>1. PICK t : t = [s EXCEPT !.pc = "seed"]
    OBVIOUS
  <2>2. s.pc = "insdef" /\ Set(c, t) /\ conntrack' = Upsert(conntrack, s.pkt, DefaultEntry(s.flags))
    BY <1>1, <1>9, <2>1 DEF InsertDefault, At, Goto
  <2>3. t.pc = "seed"
    BY <1>2, <2>1 DEF CpuState
  <2>4. After(s, t) /\ Stores(s, s.pkt, DefaultEntry(s.flags))
    BY <2>2, <2>3 DEF After, Stores
  <2> QED
    BY <2>2, <2>4
<1>10. CASE InsertSeed(c)
  <2>1. /\ s.pc = "insseed" /\ Set(c, IdleCpu)
        /\ conntrack' = Upsert(conntrack, invert_key(s.pkt), DefaultEntry(s.flags))
    BY <1>1, <1>10 DEF InsertSeed, At, Return
  <2>2. After(s, IdleCpu) /\ Stores(s, invert_key(s.pkt), DefaultEntry(s.flags))
    BY <2>1, IdleCpuType DEF After, Stores
  <2> QED
    BY <2>1, <2>2
<1> QED
  BY <1>4, <1>5, <1>6, <1>7, <1>8, <1>9, <1>10

\* Every step of a program looks up or stores, and moves its own stack only.
LEMMA ProgramEffect ==
    ASSUME Inv, NEW c \in Cpus, Arrival(c) \/ CpuStep(c)
    PROVE  \E t : CpuEffect(c, t)
  BY ArrivalEffect, LoadEffect, StoreEffect DEF CpuStep

\* Two entries that translate alike.
SameTranslation(e, f) == f.kind = e.kind /\ f.xip = e.xip /\ f.xport = e.xport

\* No step but those of the programs adds an entry or changes a translation.
LEMMA OthersRemove ==
    ASSUME Inv, Tick \/ Gc \/ Control \/ \E k \in DOMAIN conntrack : LruEvict(k)
    PROVE  /\ cpu' = cpu
           /\ DOMAIN conntrack' \subseteq DOMAIN conntrack
           /\ \A k \in DOMAIN conntrack' : SameTranslation(conntrack[k], conntrack'[k])
<1>1. cpu' = cpu
  <2>1. CASE Tick \/ Gc \/ \E k \in DOMAIN conntrack : LruEvict(k)
    BY <2>1 DEF Tick, Gc, GcCollect, GcLock, GcRemove, LruEvict
  <2>2. CASE Control
    BY <2>2 DEF Control, CreateNat, DeleteNat, AttachInterface, DetachInterface, MarkNatIp,
       UnmarkNatIp, FlushCollect, FlushRemove, FlushDone
  <2> QED
    BY <2>1, <2>2
<1>2. ASSUME NEW k, conntrack' = Without(conntrack, {k})
      PROVE  /\ DOMAIN conntrack' \subseteq DOMAIN conntrack
             /\ \A x \in DOMAIN conntrack' : conntrack'[x] = conntrack[x]
  BY <1>2 DEF Without, Restrict
<1>3. CASE Tick
  <2>1. DOMAIN conntrack' = DOMAIN conntrack
    BY <1>3 DEF Tick
  <2>2. ASSUME NEW k \in DOMAIN conntrack' PROVE SameTranslation(conntrack[k], conntrack'[k])
    <3>1. PICK e : e = conntrack[k]
      OBVIOUS
    <3>2. conntrack'[k] = [e EXCEPT !.idle = IF @ > EstTimeout THEN @ ELSE @ + 1] /\ e \in CtEntry
      BY <1>3, <2>1, <3>1 DEF Tick, Inv, TypeOK
    <3> QED
      BY <3>1, <3>2 DEF CtEntry, SameTranslation
  <2> QED
    BY <1>1, <2>1, <2>2
<1>4. CASE Gc \/ \E k \in DOMAIN conntrack : LruEvict(k)
  <2>1. conntrack' = conntrack \/ \E k : conntrack' = Without(conntrack, {k})
    BY <1>4 DEF Gc, GcCollect, GcLock, GcRemove, LruEvict, maps
  <2> QED
    BY <1>1, <1>2, <2>1 DEF SameTranslation
<1>5. CASE Control
  <2>1. conntrack' = conntrack \/ \E k : conntrack' = Without(conntrack, {k})
    BY <1>5 DEF Control, CreateNat, DeleteNat, AttachInterface, DetachInterface, MarkNatIp,
       UnmarkNatIp, FlushCollect, FlushRemove, FlushDone, maps
  <2> QED
    BY <1>1, <1>2, <2>1 DEF SameTranslation
<1> QED
  BY <1>3, <1>4, <1>5

(***************************************************************************)
(* On one CPU a reverse entry stays with its flow.                         *)
(***************************************************************************)

OneCpu == \A c, d \in Cpus : c = d

\* What a stack is to store agrees with the table until it is stored: what was
\* missing is still missing, what was copied still translates as the copy.
Agrees(s) ==
    /\ s.pc \in {"touch", "itouch", "irefresh"} /\ s.key \in DOMAIN conntrack
          => SameTranslation(conntrack[s.key], s.entry)
    /\ s.pc = "insrev" => RevKey(s.cfg.ip, s.port, s.pkt.proto) \notin DOMAIN conntrack
    /\ s.pc = "insdef" => s.pkt \notin DOMAIN conntrack
    /\ s.pc = "insseed" => invert_key(s.pkt) \notin DOMAIN conntrack

\* The inductive form of RevNotRebound.
AgreeInv == \A c \in Cpus : Agrees(cpu[c])

\* Nothing that only removes entries makes a stack disagree.
LEMMA AgreeRemove ==
    ASSUME AgreeInv, cpu' = cpu, DOMAIN conntrack' \subseteq DOMAIN conntrack,
           \A k \in DOMAIN conntrack' : SameTranslation(conntrack[k], conntrack'[k])
    PROVE  AgreeInv'
<1> SUFFICES ASSUME NEW c \in Cpus PROVE Agrees(cpu[c])'
  BY DEF AgreeInv
<1>1. PICK s : s = cpu[c]
  OBVIOUS
<1>2. Agrees(s)
  BY <1>1 DEF AgreeInv
<1>3. Agrees(s)'
  BY <1>2 DEF Agrees, SameTranslation
<1> QED
  BY <1>1, <1>3

\* Nor does a step of the only CPU.
LEMMA AgreeStep ==
    ASSUME Inv, OneCpu, NEW c \in Cpus, NEW t, CpuEffect(c, t)
    PROVE  AgreeInv'
<1>1. cpu'[c] = t /\ \A d \in Cpus : d = c
  BY DEF CpuEffect, Set, Inv, TypeOK, OneCpu
<1>2. SUFFICES Agrees(t)'
  BY <1>1 DEF AgreeInv
<1>3. CASE conntrack' = conntrack /\ Loads(cpu[c], t)
  <2>1. ASSUME t.pc \in {"touch", "itouch", "irefresh"}
        PROVE  SameTranslation(conntrack[t.key], t.entry)
    <3>1. t.key \in DOMAIN conntrack /\ t.entry = Copy(t.key)
      BY <1>3, <2>1 DEF Loads
    <3>2. conntrack[t.key] \in CtEntry
      BY <3>1 DEF Inv, TypeOK
    <3> QED
      BY <3>1, <3>2 DEF Copy, CtEntry, SameTranslation
  <2> QED
    BY <1>3, <2>1 DEF Loads, Agrees, SameTranslation
<1>4. CASE After(cpu[c], t)
  BY <1>4 DEF After, Agrees
<1> QED
  BY <1>3, <1>4 DEF CpuEffect

\* A packet that is about to be given a forward entry comes from a guest.
LEMMA AllocatorGuest ==
    ASSUME Inv, NEW c \in Cpus, cpu[c].pc \in {"natfwd", "probe", "insrev", "insfwd"}
    PROVE  cpu[c].pkt.src \in Guests
<1>1. PICK s : s = cpu[c]
  OBVIOUS
<1>2. s \in CpuState /\ StackOwned(s)
  BY <1>1 DEF Inv, TypeOK, OwnershipInv
<1>3. s.cfg \in NatValue /\ PortRange(s.cfg) # 0 /\ GrantedTo(s.pkt.src, s.cfg)
  BY <1>1, <1>2 DEF StackOwned, CpuState
<1>4. PortRange(s.cfg) \in Nat \ {0}
  BY <1>3, PortRangeType, NatAssumption DEF Port
<1>5. PICK p : p \in PortsOf(s.cfg)
  <2>1. 0 \in 0 .. (PortRange(s.cfg) - 1)
    BY <1>4
  <2> QED
    BY <2>1 DEF PortsOf
<1>6. <<s.pkt.src, s.cfg.ip, p>> \in granted
  BY <1>3, <1>5 DEF GrantedTo
<1> QED
  BY <1>1, <1>6 DEF Inv, TypeOK

\* What a stack that agrees with the table stores rebinds no reverse entry.
LEMMA StoreKeepsRev ==
    ASSUME Inv, NEW c \in Cpus, Agrees(cpu[c]), NEW k \in DOMAIN conntrack, NEW e,
           Stores(cpu[c], k, e), conntrack[k].kind = "dnat"
    PROVE  SameTranslation(conntrack[k], e)
<1>1. PICK s : s = cpu[c]
  OBVIOUS
<1>2. s \in CpuState
  BY <1>1 DEF Inv, TypeOK
<1>3. CASE s.pc \in {"touch", "itouch", "irefresh"}
  <2>1. k = s.key /\ e = Touched(s.entry, s.flags) /\ SameTranslation(conntrack[k], s.entry)
    BY <1>1, <1>3 DEF Stores, Agrees
  <2>2. s.entry \in CtEntry /\ s.flags \in Flags
    BY <1>2 DEF CpuState
  <2>3. SameTranslation(s.entry, Touched(s.entry, s.flags))
    BY <2>2, TouchedType DEF SameTranslation
  <2> QED
    BY <2>1, <2>3 DEF SameTranslation
<1>4. CASE s.pc = "insfwd"
  <2>1. k = s.pkt /\ s.pkt.src \in Guests
    BY <1>1, <1>4, AllocatorGuest DEF Stores
  <2>2. k.src = Zero
    BY DEF Inv, OwnershipInv, NatOwnership, Owned
  <2> QED
    BY <2>1, <2>2, AddrAssumption
<1>5. CASE s.pc \in {"insrev", "insdef", "insseed"}
  BY <1>1, <1>5 DEF Stores, Agrees
<1> QED
  BY <1>1, <1>3, <1>4, <1>5 DEF Stores

\* On one CPU the port of a flow is never handed to another one while its
\* reverse entry is in the table: what the probe loop of nat_snat_egress saw
\* free is still free at the insert, and a refreshed copy is still current,
\* whatever the sweep, evictions and delete_nat remove in between.
THEOREM RevNotReboundHolds ==
    ASSUME OneCpu
    PROVE  Spec => RevNotRebound
<1> DEFINE I == Inv /\ AgreeInv
           Kept == \A k \in DOMAIN conntrack \cap DOMAIN conntrack' :
                      conntrack[k].kind = "dnat" =>
                         /\ conntrack'[k].kind = "dnat"
                         /\ conntrack'[k].xip = conntrack[k].xip
                         /\ conntrack'[k].xport = conntrack[k].xport
<1>1. Init => I
  <2>1. Init => AgreeInv
    BY DEF Init, AgreeInv, Agrees, IdleCpu
  <2> QED
    BY <2>1, InitInv
<1>2. I /\ [Next]_vars => I' /\ [Kept]_vars
  <2> SUFFICES ASSUME Inv, AgreeInv, [Next]_vars PROVE AgreeInv' /\ [Kept]_vars
    BY NextInv
  <2>1. ASSUME NEW c \in Cpus, Arrival(c) \/ CpuStep(c) PROVE AgreeInv' /\ Kept
    <3>1. PICK t : CpuEffect(c, t)
      BY <2>1, ProgramEffect
    <3>2. AgreeInv'
      BY <3>1, AgreeStep
    <3>3. Kept
      <4> SUFFICES ASSUME NEW k \in DOMAIN conntrack \cap DOMAIN conntrack',
                          conntrack[k].kind = "dnat"
                   PROVE  SameTranslation(conntrack[k], conntrack'[k])
        BY DEF SameTranslation
      <4>1. CASE conntrack' = conntrack
        BY <4>1 DEF SameTranslation
      <4>2. ASSUME NEW x, NEW e, Stores(cpu[c], x, e), conntrack' = Upsert(conntrack, x, e)
            PROVE  SameTranslation(conntrack[k], conntrack'[k])
        <5>1. Agrees(cpu[c])
          BY DEF AgreeInv
        <5>2. (k = x /\ conntrack'[k] = e) \/ conntrack'[k] = conntrack[k]
          BY <4>2 DEF Upsert
        <5>3. CASE k = x /\ conntrack'[k] = e
          BY <4>2, <5>1, <5>3, StoreKeepsRev
        <5>4. CASE conntrack'[k] = conntrack[k]
          BY <5>4 DEF SameTranslation
        <5> QED
          BY <5>2, <5>3, <5>4
      <4> QED
        BY <3>1, <4>1, <4>2 DEF CpuEffect
    <3> QED
      BY <3>2, <3>3
  <2>2. CASE Tick \/ Gc \/ Control \/ \E k \in DOMAIN conntrack : LruEvict(k)
    <3>1. /\ cpu' = cpu
          /\ DOMAIN conntrack' \subseteq DOMAIN conntrack
          /\ \A k \in DOMAIN conntrack' : SameTranslation(conntrack[k], conntrack'[k])
      BY <2>2, OthersRemove
    <3>2. AgreeInv'
      BY <3>1, AgreeRemove
    <3>3. Kept
      BY <3>1 DEF SameTranslation
    <3> QED
      BY <3>2, <3>3
  <2>3. CASE UNCHANGED vars
    <3>1. cpu' = cpu /\ conntrack' = conntrack
      BY <2>3 DEF vars, maps
    <3> QED
      BY <2>3, <3>1, AgreeRemove DEF SameTranslation
  <2> QED
    BY <2>1, <2>2, <2>3 DEF Next
<1> QED
  BY <1>1, <1>2, PTL DEF Spec, RevNotRebound
=============================================================================
