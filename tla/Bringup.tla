------------------------------ MODULE Bringup ------------------------------
(***************************************************************************)
(* High availability: how xdp-dp processes load a datapath, attach its     *)
(* XDP programs, program its maps and pin it, how a later process adopts   *)
(* what was pinned, and what is left when a process ends at any point.     *)
(*                                                                         *)
(* A process loads the eBPF object at most once, so a datapath (programs   *)
(* and maps) is named by the process that loaded it.  It lives on in the   *)
(* kernel as long as a link of it is attached.  All processes serve the    *)
(* same uplink and guests and use the same pin directory.                  *)
(***************************************************************************)
EXTENDS Integers, Sequences

CONSTANTS
    Procs,      \* launches of xdp-dp; each is one process
    Uplink,     \* the uplink device
    Guests,     \* the --guest devices, in the order of the command line
    Removable,  \* guest devices that may be deleted and created again
    NoProc      \* no datapath

Devices == {Uplink} \cup {Guests[i] : i \in DOMAIN Guests}

ASSUME BringupAssumption ==
    /\ Guests \in Seq(Devices \ {Uplink})
    /\ Removable \subseteq Devices \ {Uplink}
    /\ NoProc \notin Procs

VARIABLES
    pc,         \* the next step of each process
    mode,       \* the command of each process
    att,        \* how many devices the process has attached
    ct,         \* the datapath whose CONNTRACK the process sweeps
    link,       \* the datapath attached to each device
    pinLink,    \* the datapath whose link is pinned for each device
    pinCt,      \* the datapath whose CONNTRACK is pinned
    done,       \* the sections of each datapath that are programmed
    ready       \* history: the last datapath pinned completely, till a cleanup

vars == <<pc, mode, att, ct, link, pinLink, pinCt, done, ready>>

\* bringup with and without --pin-dir, bringup --adopt, serve.
Modes == {"pinned", "plain", "adopt", "serve"}

Ended(p) == pc[p] \in {"idle", "exited"}

-----------------------------------------------------------------------------
(* The order of the steps. *)

\* Mutant: the guests come before the uplink.
AttachOrder_GuestsFirst(m) == IF m = "serve" THEN <<Uplink>> ELSE Append(Guests, Uplink)

\* The devices a process attaches: serve attaches guests later, one by one,
\* when their interfaces are created.
AttachOrder(m) == IF m = "serve" THEN <<Uplink>> ELSE <<Uplink>> \o Guests

FirstStep(m) == IF m = "adopt" THEN "adopt" ELSE "load"

\* The steps of a pinned bring-up: "attach" stands for all devices of
\* AttachOrder, the steps from "local" to "dhcp" only write maps.
PinnedOrder(label) ==
    CASE label = "load" -> "attach"
      [] label = "attach" -> "tail"
      [] label = "tail" -> "local"
      [] label = "local" -> "guests"
      [] label = "guests" -> "routes"
      [] label = "routes" -> "services"
      [] label = "services" -> "firewall"
      [] label = "firewall" -> "neighbours"
      [] label = "neighbours" -> "meters"
      [] label = "meters" -> "dhcp"
      [] label = "dhcp" -> "pinct"
      [] label = "pinct" -> "gc"
      [] label \in {"gc", "adopt"} -> "run"

\* Mutant: CONNTRACK is pinned before the links.
After_PinsFirst(m, label) ==
    CASE m = "serve" /\ label = "local" -> "dhcp"
      [] m = "pinned" /\ label = "load" -> "pinct"
      [] label = "pinct" -> "attach"
      [] label = "dhcp" -> "gc"
      [] OTHER -> PinnedOrder(label)

\* Mutant: CONNTRACK is pinned with the links, before the maps are programmed.
After_PinsWithLinks(m, label) ==
    CASE m = "serve" /\ label = "local" -> "dhcp"
      [] m = "pinned" /\ label = "attach" -> "pinct"
      [] label = "pinct" -> "tail"
      [] label = "dhcp" -> "gc"
      [] OTHER -> PinnedOrder(label)

\* serve programs little, and only a pinned bring-up pins.
After(m, label) ==
    CASE m = "serve" /\ label = "local" -> "dhcp"
      [] m # "pinned" /\ label = "dhcp" -> "gc"
      [] OTHER -> PinnedOrder(label)

Goto(p, label) == pc' = [pc EXCEPT ![p] = label]
Proceed(p) == Goto(p, After(mode[p], pc[p]))

\* The steps that write maps, and those of a command.
MapSections == {"local", "guests", "routes", "services", "firewall", "neighbours", "meters", "dhcp"}
SectionsOf(m) == IF m = "serve" THEN {"local", "dhcp"} ELSE MapSections

-----------------------------------------------------------------------------
(* Loading and attaching. *)

Launch(p, m) ==
    /\ pc[p] = "idle"
    /\ mode' = [mode EXCEPT ![p] = m]
    /\ Goto(p, FirstStep(m))
    /\ UNCHANGED <<att, ct, link, pinLink, pinCt, done, ready>>

\* A datapath of its own, with empty maps.
load_ebpf(p) ==
    /\ pc[p] = "load"
    /\ Proceed(p)
    /\ UNCHANGED <<mode, att, ct, link, pinLink, pinCt, done, ready>>

NextDevice(p) == AttachOrder(mode[p])[att[p] + 1]

\* Mutant: one attachment too many.
NextAttach_OnePast(p) ==
    /\ att' = [att EXCEPT ![p] = @ + 1]
    /\ IF att[p] = Len(AttachOrder(mode[p]))
       THEN Goto(p, After(mode[p], "attach"))
       ELSE Goto(p, "attach")

\* The process goes on to the next device or, after the last, to the maps.
NextAttach(p) ==
    /\ att' = [att EXCEPT ![p] = @ + 1]
    /\ IF att[p] + 1 = Len(AttachOrder(mode[p]))
       THEN Goto(p, After(mode[p], "attach"))
       ELSE Goto(p, "attach")

\* attach_xdp and attach_xdp_extra: the link belongs to the process.  A
\* device that has a program refuses another one, and the process ends.
attach_xdp(p) ==
    /\ pc[p] = "attach" /\ mode[p] # "pinned"
    /\ link[NextDevice(p)] = NoProc
    /\ link' = [link EXCEPT ![NextDevice(p)] = p]
    /\ NextAttach(p)
    /\ UNCHANGED <<mode, ct, pinLink, pinCt, done, ready>>

\* Mutant: the old pin is removed first, which detaches the link it holds.
attach_xdp_pinned_Unpins(p) ==
    /\ pc[p] = "attach" /\ mode[p] = "pinned"
    /\ link[NextDevice(p)] \in {NoProc, pinLink[NextDevice(p)]}
    /\ link' = [link EXCEPT ![NextDevice(p)] = p]
    /\ pinLink' = [pinLink EXCEPT ![NextDevice(p)] = NoProc]
    /\ Goto(p, "pin")
    /\ UNCHANGED <<mode, att, ct, pinCt, done, ready>>

\* The first half of attach_xdp_pinned, up to take_link.
attach_xdp_pinned(p) ==
    /\ pc[p] = "attach" /\ mode[p] = "pinned"
    /\ link[NextDevice(p)] = NoProc
    /\ link' = [link EXCEPT ![NextDevice(p)] = p]
    /\ Goto(p, "pin")
    /\ UNCHANGED <<mode, att, ct, pinLink, pinCt, done, ready>>

\* The second half: the pin replaces an old one and outlives the process.
PinLink(p) ==
    /\ pc[p] = "pin"
    /\ pinLink' = [pinLink EXCEPT ![NextDevice(p)] = p]
    /\ NextAttach(p)
    /\ UNCHANGED <<mode, ct, link, pinCt, done, ready>>

-----------------------------------------------------------------------------
(* Programming the maps; a section that fails ends the process in Exit. *)

Program(p, section) ==
    /\ pc[p] = section
    /\ done' = [done EXCEPT ![p] = @ \cup {section}]
    /\ Proceed(p)
    /\ UNCHANGED <<mode, att, ct, link, pinLink, pinCt, ready>>

\* GUEST_PROGS[GUEST_PROG_DHCP], the target of guest_tx's tail call.
register_guest_dhcp(p) == Program(p, "tail")

\* LOCAL.
ProgramLocal(p) == Program(p, "local")

\* --guest and --guest6: PORT_META, INTERFACES, UNDERLAY.
ProgramGuests(p) == Program(p, "guests")

\* --remote6, --remote, --vip: ROUTES6, ROUTES, VIPS.
ProgramRoutes(p) == Program(p, "routes")

\* --lb, --lb-target, --nat: LB, UNDERLAY, MAGLEV, NAT, NAT_IPS.
ProgramServices(p) == Program(p, "services")

\* --firewall-enforce and --fw-rule: FW_CONFIG, FW_RULES, FW_META.
ProgramFirewall(p) == Program(p, "firewall")

\* --underlay-marker and --neigh-nat: UNDERLAY, NEIGHBOR_NAT and its count.
ProgramNeighbours(p) == Program(p, "neighbours")

\* --meter: METER.
ProgramMeters(p) == Program(p, "meters")

\* DHCP_CONFIG.
ProgramDhcp(p) == Program(p, "dhcp")

\* The CONNTRACK pin replaces an old one; it is what adopt needs.
pin_map(p) ==
    /\ pc[p] = "pinct"
    /\ pinCt' = p /\ ready' = p
    /\ Proceed(p)
    /\ UNCHANGED <<mode, att, ct, link, pinLink, done>>

\* Conntrack::open and the sweep of the process's own CONNTRACK.
StartGc(p) ==
    /\ pc[p] = "gc"
    /\ ct' = [ct EXCEPT ![p] = p]
    /\ Proceed(p)
    /\ UNCHANGED <<mode, att, link, pinLink, pinCt, done, ready>>

\* --adopt: sweep the pinned CONNTRACK; nothing is loaded or attached.
Adopt(p) ==
    /\ pc[p] = "adopt" /\ pinCt # NoProc
    /\ ct' = [ct EXCEPT ![p] = pinCt]
    /\ Proceed(p)
    /\ UNCHANGED <<mode, att, link, pinLink, pinCt, done, ready>>

-----------------------------------------------------------------------------
(* The environment. *)

\* A process ends: killed, or on an error return of any of its steps.  Links
\* that are not pinned are closed with it.  With its last user-space handle
\* the kernel empties a program array; the other maps keep their entries.
Exit(p) ==
    /\ ~Ended(p)
    /\ Goto(p, "exited")
    /\ link' = [d \in Devices |-> IF link[d] = p /\ pinLink[d] # p THEN NoProc ELSE link[d]]
    /\ done' = [done EXCEPT ![p] = @ \ {"tail"}]
    /\ ct' = [ct EXCEPT ![p] = NoProc]
    /\ UNCHANGED <<mode, att, pinLink, pinCt, ready>>

\* A guest device goes away and comes back; the pin of its link stays.
LoseGuest(d) ==
    /\ link[d] # NoProc
    /\ link' = [link EXCEPT ![d] = NoProc]
    /\ UNCHANGED <<pc, mode, att, ct, pinLink, pinCt, done, ready>>

\* test/ha-smoke.sh: with all processes gone, rm -rf of the pin directory.
Cleanup ==
    /\ \A p \in Procs : Ended(p)
    /\ pinCt # NoProc \/ \E d \in Devices : pinLink[d] # NoProc
    /\ link' = [d \in Devices |-> NoProc]
    /\ pinLink' = [d \in Devices |-> NoProc]
    /\ pinCt' = NoProc /\ ready' = NoProc
    /\ UNCHANGED <<pc, mode, att, ct, done>>

-----------------------------------------------------------------------------
Init ==
    /\ pc = [p \in Procs |-> "idle"]
    /\ mode = [p \in Procs |-> "plain"]
    /\ att = [p \in Procs |-> 0]
    /\ ct = [p \in Procs |-> NoProc]
    /\ link = [d \in Devices |-> NoProc]
    /\ pinLink = [d \in Devices |-> NoProc]
    /\ pinCt = NoProc
    /\ done = [p \in Procs |-> {}]
    /\ ready = NoProc

Step(p) ==
    \/ \E m \in Modes : Launch(p, m)
    \/ load_ebpf(p) \/ attach_xdp(p) \/ attach_xdp_pinned(p) \/ PinLink(p)
    \/ register_guest_dhcp(p) \/ ProgramLocal(p) \/ ProgramGuests(p) \/ ProgramRoutes(p)
    \/ ProgramServices(p) \/ ProgramFirewall(p) \/ ProgramNeighbours(p) \/ ProgramMeters(p)
    \/ ProgramDhcp(p) \/ pin_map(p) \/ StartGc(p) \/ Adopt(p) \/ Exit(p)

Next ==
    \/ \E p \in Procs : Step(p)
    \/ \E d \in Removable : LoseGuest(d)
    \/ Cleanup

Spec == Init /\ [][Next]_vars

-----------------------------------------------------------------------------
(* Properties. *)

Labels == {"idle", "load", "attach", "pin", "tail", "pinct", "gc", "adopt", "run", "exited"}
          \cup MapSections

\* Every variable has its type; in particular no step runs past the last
\* device of a process.
TypeOK ==
    /\ pc \in [Procs -> Labels]
    /\ mode \in [Procs -> Modes]
    /\ att \in [Procs -> 0..(Len(Guests) + 1)]
    /\ ct \in [Procs -> Procs \cup {NoProc}]
    /\ link \in [Devices -> Procs \cup {NoProc}]
    /\ pinLink \in [Devices -> Procs \cup {NoProc}]
    /\ pinCt \in Procs \cup {NoProc}
    /\ done \in [Procs -> SUBSET (MapSections \cup {"tail"})]
    /\ ready \in Procs \cup {NoProc}
    /\ \A p \in Procs : pc[p] \in {"attach", "pin"} => att[p] < Len(AttachOrder(mode[p]))

\* A guest is never attached to another datapath than the uplink: replies
\* meet the CONNTRACK, routes and rules of the requests, whichever processes
\* overlapped, failed half way or were killed (the order of the attachments
\* in the Bringup arm of main.rs, with the refusal of attach_xdp_pinned).
OneDatapath ==
    \A d \in Devices : link[d] # NoProc => link[Uplink] = link[d]

\* A conntrack sweep, of the process that loaded the datapath or of one that
\* adopted it, works on the CONNTRACK the uplink uses (conntrack_gc::run as
\* started by main.rs).
SweptIsAttached ==
    \A p \in Procs : ct[p] # NoProc => link[Uplink] = ct[p]

\* A datapath that is swept, adopted ones included, has all its maps
\* programmed; its DHCP tail call is certain only while the process that
\* loaded it lives (the order of the Bringup arm, with pin_map last).
SweptIsComplete ==
    \A p \in Procs : ct[p] # NoProc =>
        LET g == ct[p] IN
        /\ SectionsOf(mode[g]) \subseteq done[g]
        /\ ~Ended(g) => "tail" \in done[g]

\* From the CONNTRACK pin on, until somebody removes the pins, the datapath
\* stays attached to the uplink and can be adopted: no kill and no further
\* launch undoes it (attach_xdp_pinned, pin_map: "survives this process
\* exiting").
StaysAdoptable ==
    ready # NoProc =>
        /\ pinCt = ready
        /\ link[Uplink] = ready /\ pinLink[Uplink] = ready

\* FW_CONFIG is an array map: its entry exists from the start, with value 0,
\* so the default arm of fw_enforcing is never taken.
fw_enforcing(g) == "firewall" \in done[g]

\* A datapath that is up enforces its firewall unless --firewall-enforce
\* false said otherwise: "default true when unset", as the comment of
\* fw_enforcing says.
EnforcedByDefault ==
    \A p \in Procs : ct[p] # NoProc => fw_enforcing(ct[p])
=============================================================================
