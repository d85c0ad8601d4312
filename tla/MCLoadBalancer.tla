--------------------------- MODULE MCLoadBalancer ---------------------------
(* Instances of LoadBalancer for TLC. *)
EXTENDS LoadBalancer, TLC

CONSTANTS b1, b2, b3

SCTP == 132

\* A load balancer with two services, the second of a protocol that the
\* datapath does not look up, one whose IPv6 address ends in the four
\* bytes of the first one's IPv4 address, and one at another address.
MCRequests ==
    {[id |-> "A", vni |-> 1, ip |-> <<4, 7>>, pref |-> None, ports |-> << <<80, TCP>>, <<80, SCTP>> >>],
     [id |-> "B", vni |-> 1, ip |-> <<6, 7>>, pref |-> <<1, 9>>, ports |-> << <<80, TCP>> >>],
     [id |-> "B", vni |-> 1, ip |-> <<4, 8>>, pref |-> None, ports |-> << <<80, TCP>> >>]}

MCGuests == b1 :> [vni |-> 1, tap |-> 5]

\* A client's packet to a service, the error about the answer, a ping, and
\* an IPv6 packet.  SCTP stands for what create_load_balancer accepts and
\* uplink_rx ignores.
MCFlow(fam, sport) ==
    [fam |-> fam, kind |-> "data", outer |-> <<1, 7>>,
     hdr |-> [src |-> 3, dst |-> 7, sport |-> sport, dport |-> 80, proto |-> TCP],
     emb |-> [src |-> 3, dst |-> 7, sport |-> sport, dport |-> 80, proto |-> TCP]]
MCError ==
    [fam |-> 4, kind |-> "err", outer |-> <<1, 7>>,
     hdr |-> [src |-> 4, dst |-> 7, sport |-> 0, dport |-> 0, proto |-> ICMP],
     emb |-> [src |-> 7, dst |-> 3, sport |-> 80, dport |-> 1, proto |-> TCP]]
MCEcho(fam) ==
    LET t == [src |-> 3, dst |-> 7, sport |-> 1, dport |-> 1,
              proto |-> IF fam = 4 THEN ICMP ELSE ICMPV6]
    IN  [fam |-> fam, kind |-> "echo", outer |-> <<1, 7>>, hdr |-> t, emb |-> t]
MCToGuest == [MCFlow(4, 2) EXCEPT !.outer = b1]
MCSctp == [MCFlow(4, 1) EXCEPT !.hdr.proto = SCTP]
MCPackets == {MCSctp, MCFlow(4, 1), MCFlow(6, 2), MCError, MCEcho(4), MCEcho(6), MCToGuest}

MCOffset(b) == CASE b = b1 -> 1 [] b = b2 -> 1 [] b = b3 -> 5
MCSkip(b) == CASE b = b1 -> 0 [] b = b2 -> 1 [] b = b3 -> 4
MCHash(t) == t.src + 2 * t.sport + t.proto

MCCapacity(t) == CASE t = "lb" -> 2 [] t = "maglev" -> 8 [] t = "underlay" -> 3
=============================================================================
