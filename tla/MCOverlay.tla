----------------------------- MODULE MCOverlay -----------------------------
(***************************************************************************)
(* Values of the constants of Overlay for model checking.  Addresses are   *)
(* integers: 1 and 2 belong to guests, 3 is an IPv6 address of a guest, 4  *)
(* and 5 are VIPs, 6 is outside, 7 is an IPv6 address outside.             *)
(***************************************************************************)
EXTENDS Overlay

CONSTANTS i1, i2, d1, d2, p1

\* A dual-stack guest, a second guest of its VNI, and a guest of another
\* VNI with the address, the tap and the id of the first.
MCRequests ==
    { [id |-> i1, vni |-> 1, ip |-> 1, ip6 |-> 3, dev |-> d1, pref |-> None, metered |-> FALSE],
      [id |-> i2, vni |-> 1, ip |-> 2, ip6 |-> None, dev |-> d2, pref |-> p1, metered |-> TRUE],
      [id |-> i1, vni |-> 2, ip |-> 1, ip6 |-> None, dev |-> d1, pref |-> None, metered |-> FALSE] }

MCRoutes == {{1, 2, 6}, {3, 7}}
MCAliases == {{6}, {7}}
MCPrefixes6 == {{3, 7}, {7}, {3}}
MCVipOf(g) == g[2] + 3
MCCapacity(t) == CASE t = "routes" -> 4 [] t = "vips" -> 3 [] OTHER -> 2
=============================================================================
