----------------------------- MODULE MCFirewall -----------------------------
(***************************************************************************)
(* Values of the constants of Firewall for model checking.                 *)
(***************************************************************************)
EXTENDS Firewall, TLC

CONSTANTS p, q

\* An accept rule for one packet and one for both, a rule of the other
\* direction and a request with the DROP action.
MCRequests ==
    {[dir |-> "ingress", action |-> "accept", pkts |-> {p}],
     [dir |-> "ingress", action |-> "accept", pkts |-> {p, q}],
     [dir |-> "egress", action |-> "accept", pkts |-> {p}],
     [dir |-> "ingress", action |-> "drop", pkts |-> {p}]}
=============================================================================
