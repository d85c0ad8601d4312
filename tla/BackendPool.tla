---------------------------- MODULE BackendPool ----------------------------
(***************************************************************************)
(* What the load balancer promises a client, without tables or slots: each *)
(* service has a pool of backends; the control plane announces a new pool  *)
(* and is settled some time later; a packet for a service goes to a        *)
(* backend that was in the pool at some moment of the packet's stay, the   *)
(* pool before the announcement counting until it is settled, or to none.  *)
(***************************************************************************)
CONSTANTS
    Services,   \* what packets are addressed to
    Backends,   \* underlay addresses of backends
    Cpus,       \* CPUs that handle packets
    NoBackend   \* no backend was selected

VARIABLES
    pool,       \* the pool of each service
    old,        \* the pool before the announcement under way, or pool
    conn        \* the packet each CPU handles, or the one it last handled

poolVars == <<pool, old, conn>>

Idle == [svc |-> NoBackend, may |-> {}, got |-> NoBackend]

Init ==
    /\ pool = [s \in Services |-> {}]
    /\ old = pool
    /\ conn = [c \in Cpus |-> Idle]

Busy(c) == conn[c].svc # NoBackend

\* The packets under way see the new pool as well.
Announce ==
    /\ old = pool
    /\ pool' \in [Services -> SUBSET Backends]
    /\ conn' = [c \in Cpus |->
                  IF Busy(c) THEN [conn[c] EXCEPT !.may = @ \cup pool'[conn[c].svc]] ELSE conn[c]]
    /\ UNCHANGED old

\* A backend joins the pools of the services of one load balancer.
Grow ==
    /\ Announce
    /\ \E b \in Backends : \A s \in Services : pool'[s] \in {pool[s], pool[s] \cup {b}}

\* A backend leaves, or the load balancer goes with all its backends.
Shrink ==
    /\ Announce
    /\ \A s \in Services : pool'[s] \subseteq pool[s]

\* The announced pool is in force for every packet from now on.
Settle ==
    /\ old # pool
    /\ old' = pool
    /\ UNCHANGED <<pool, conn>>

Start(c, s) ==
    /\ ~Busy(c)
    /\ conn' = [conn EXCEPT ![c] = [svc |-> s, may |-> pool[s] \cup old[s], got |-> NoBackend]]
    /\ UNCHANGED <<pool, old>>

Finish(c) ==
    /\ Busy(c)
    /\ \E b \in conn[c].may \cup {NoBackend} :
          conn' = [conn EXCEPT ![c] = [Idle EXCEPT !.got = b]]
    /\ UNCHANGED <<pool, old>>

Next ==
    \/ Grow
    \/ Shrink
    \/ Settle
    \/ \E c \in Cpus : Finish(c) \/ \E s \in Services : Start(c, s)

Spec == Init /\ [][Next]_poolVars
=============================================================================
