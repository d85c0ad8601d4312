--------------------------- MODULE BringupProofs ---------------------------
(***************************************************************************)
(* Proofs of the properties of Bringup, for any number of processes,       *)
(* launches that overlap in any way, and any list of guests.               *)
(*                                                                         *)
(* The uplink acts as a lock: a process that got past its first attachment *)
(* holds it (HolderInv), a pinned uplink is attached (PinInv), all other   *)
(* links and pins belong to the datapath of the uplink, and the CONNTRACK  *)
(* pin belongs to a complete datapath whose uplink is pinned (ReadyInv).   *)
(***************************************************************************)
EXTENDS Bringup, TLAPS

\* What a process that is about to take step label has programmed already.
Programmed(m, label) ==
    CASE label \in {"idle", "load", "attach", "pin", "tail", "adopt"} -> {}
      [] label = "local" -> {"tail"}
      [] label = "guests" -> {"tail", "local"}
      [] label = "routes" -> {"tail", "local", "guests"}
      [] label = "services" -> {"tail", "local", "guests", "routes"}
      [] label = "firewall" -> {"tail", "local", "guests", "routes", "services"}
      [] label = "neighbours" -> {"tail", "local", "guests", "routes", "services", "firewall"}
      [] label = "meters" ->
             {"tail", "local", "guests", "routes", "services", "firewall", "neighbours"}
      [] label = "dhcp" ->
             IF m = "serve" THEN {"tail", "local"} ELSE {"tail"} \cup (MapSections \ {"dhcp"})
      [] label \in {"pinct", "gc"} -> {"tail"} \cup SectionsOf(m)
      [] label = "run" -> IF m = "adopt" THEN {} ELSE {"tail"} \cup SectionsOf(m)
      [] OTHER -> {}

\* A process is only at steps of its command, with the maps before it
\* programmed.
ProgressInv ==
    \A p \in Procs :
        /\ Programmed(mode[p], pc[p]) \subseteq done[p]
        /\ mode[p] = "adopt" => pc[p] \in {"idle", "adopt", "run", "exited"}
        /\ pc[p] = "adopt" => mode[p] = "adopt"
        /\ pc[p] \in {"pin", "pinct"} => mode[p] = "pinned"
        /\ pc[p] \in {"idle", "load"} => att[p] = 0
        /\ pc[p] = "idle" => ct[p] = NoProc

\* The process has attached the uplink.
Holds(p) ==
    \/ pc[p] \in MapSections \cup {"pin", "tail", "pinct", "gc"}
    \/ pc[p] = "attach" /\ att[p] > 0
    \/ pc[p] = "run" /\ mode[p] # "adopt"

\* Such a process holds the uplink, with a pin as soon as the first step of
\* a pinned bring-up is over.
HolderInv ==
    \A p \in Procs : Holds(p) =>
        /\ link[Uplink] = p
        /\ mode[p] = "pinned" /\ (pc[p] = "pin" => att[p] > 0) => pinLink[Uplink] = p

\* Pins are those of the datapath of the uplink.
PinInv ==
    \A d \in Devices : pinLink[d] # NoProc =>
        pinLink[Uplink] = pinLink[d] /\ link[Uplink] = pinLink[d]

\* A pinned CONNTRACK belongs to a complete datapath.
ReadyInv ==
    /\ ready = pinCt
    /\ pinCt # NoProc =>
        /\ pinLink[Uplink] = pinCt
        /\ mode[pinCt] = "pinned" /\ pc[pinCt] \in {"gc", "run", "exited"}
        /\ MapSections \subseteq done[pinCt]

\* A process sweeps its own CONNTRACK or the pinned one.
SweepInv ==
    \A p \in Procs : ct[p] # NoProc =>
        /\ pc[p] = "run"
        /\ IF mode[p] = "adopt" THEN ct[p] = pinCt ELSE ct[p] = p

IndInv == TypeOK /\ ProgressInv /\ HolderInv /\ OneDatapath /\ PinInv /\ ReadyInv /\ SweepInv

-----------------------------------------------------------------------------
(* The order of the steps. *)

\* The uplink comes first, and only once.
LEMMA AttachFacts ==
    ASSUME NEW m
    PROVE  /\ Uplink \in Devices
           /\ Len(AttachOrder(m)) \in 1..(Len(Guests) + 1)
           /\ AttachOrder(m)[1] = Uplink
           /\ \A i \in 2..Len(AttachOrder(m)) : AttachOrder(m)[i] \in Devices \ {Uplink}
<1> DEFINE G == Devices \ {Uplink}
<1>1. Uplink \in Devices
  BY DEF Devices
<1>2. Guests \in Seq(G) /\ Len(Guests) \in Nat
  BY BringupAssumption
<1> HIDE DEF G
<1>3. \A i \in 1..Len(Guests) : Guests[i] \in G
  BY <1>2
<1>4. CASE m = "serve"
  BY <1>1, <1>2, <1>4 DEF AttachOrder
<1>5. CASE m # "serve"
  <2>1. AttachOrder(m) = <<Uplink>> \o Guests
    BY <1>5 DEF AttachOrder
  <2>2. Len(<<Uplink>> \o Guests) = Len(Guests) + 1
    BY <1>2
  <2>3. (<<Uplink>> \o Guests)[1] = Uplink
    BY <1>2
  <2>4. \A i \in 2..(Len(Guests) + 1) : (<<Uplink>> \o Guests)[i] = Guests[i - 1]
    BY <1>2
  <2> QED
    BY <1>1, <1>2, <1>3, <2>1, <2>2, <2>3, <2>4 DEF G
<1> QED
  BY <1>4, <1>5

\* After a section comes the next one, the pin or the sweep; what the next
\* step finds programmed is what this one found and the section itself.
LEMMA SectionFacts ==
    ASSUME NEW m \in Modes \ {"adopt"}, NEW s \in MapSections \cup {"tail"}
    PROVE  /\ After(m, s) \in MapSections \cup {"pinct", "gc"}
           /\ After(m, s) = "pinct" => m = "pinned"
           /\ Programmed(m, After(m, s)) \subseteq Programmed(m, s) \cup {s}
<1>1. CASE s = "tail"
  BY <1>1 DEF After, PinnedOrder, Programmed, MapSections, SectionsOf
<1>2. CASE s = "local"
  BY <1>2 DEF After, PinnedOrder, Programmed, MapSections, SectionsOf
<1>3. CASE s = "guests"
  BY <1>3 DEF After, PinnedOrder, Programmed, MapSections, SectionsOf
<1>4. CASE s = "routes"
  BY <1>4 DEF After, PinnedOrder, Programmed, MapSections, SectionsOf
<1>5. CASE s = "services"
  BY <1>5 DEF After, PinnedOrder, Programmed, MapSections, SectionsOf
<1>6. CASE s = "firewall"
  BY <1>6 DEF After, PinnedOrder, Programmed, MapSections, SectionsOf
<1>7. CASE s = "neighbours"
  BY <1>7 DEF After, PinnedOrder, Programmed, MapSections, SectionsOf
<1>8. CASE s = "meters"
  BY <1>8 DEF After, PinnedOrder, Programmed, MapSections, SectionsOf
<1>9. CASE s = "dhcp"
  BY <1>9 DEF After, PinnedOrder, Programmed, MapSections, SectionsOf
<1> QED
  BY <1>1, <1>2, <1>3, <1>4, <1>5, <1>6, <1>7, <1>8, <1>9 DEF MapSections



\* Where the other steps lead, and what they find programmed.
LEMMA OtherFacts ==
    /\ \A m \in Modes : /\ After(m, "load") = "attach"
                       /\ After(m, "attach") = "tail"
                       /\ After(m, "pinct") = "gc"
                       /\ After(m, "gc") = "run"
                       /\ After(m, "adopt") = "run"
    /\ \A m \in Modes, l \in {"idle", "load", "attach", "pin", "tail", "adopt", "exited"} :
           Programmed(m, l) = {}
    /\ \A m \in Modes \ {"adopt"}, l \in {"pinct", "gc", "run"} :
           Programmed(m, l) = {"tail"} \cup SectionsOf(m)
    /\ Programmed("adopt", "run") = {}
<1>1. \A m \in Modes : After(m, "load") = "attach"
  BY DEF After, PinnedOrder
<1>2. \A m \in Modes : After(m, "attach") = "tail"
  BY DEF After, PinnedOrder
<1>3. \A m \in Modes : After(m, "pinct") = "gc"
  BY DEF After, PinnedOrder
<1>4. \A m \in Modes : After(m, "gc") = "run"
  BY DEF After, PinnedOrder
<1>5. \A m \in Modes : After(m, "adopt") = "run"
  BY DEF After, PinnedOrder
<1>6. ASSUME NEW m \in Modes, NEW l \in {"idle", "load", "attach", "pin", "tail", "adopt"}
      PROVE  Programmed(m, l) = {}
  BY DEF Programmed
<1>7. ASSUME NEW m \in Modes PROVE Programmed(m, "exited") = {}
  BY DEF Programmed
<1>8. ASSUME NEW m \in Modes \ {"adopt"} PROVE Programmed(m, "pinct") = {"tail"} \cup SectionsOf(m)
  BY DEF Programmed
<1>9. ASSUME NEW m \in Modes \ {"adopt"} PROVE Programmed(m, "gc") = {"tail"} \cup SectionsOf(m)
  BY DEF Programmed
<1>10. ASSUME NEW m \in Modes \ {"adopt"} PROVE Programmed(m, "run") = {"tail"} \cup SectionsOf(m)
  BY DEF Programmed
<1>11. Programmed("adopt", "run") = {}
  BY DEF Programmed
<1> QED
  BY <1>1, <1>2, <1>3, <1>4, <1>5, <1>6, <1>7, <1>8, <1>9, <1>10, <1>11

-----------------------------------------------------------------------------
(* The invariant is inductive. *)

\* The invariant holds when no process has been launched.
LEMMA InitInv == Init => IndInv
<1> SUFFICES ASSUME Init PROVE IndInv
  OBVIOUS
<1>1. \A m : 0 < Len(AttachOrder(m))
  BY AttachFacts
<1>2. TypeOK
  <2>1. Len(Guests) \in Nat
    BY BringupAssumption
  <2> QED
    BY <2>1 DEF Init, TypeOK, Labels, Modes
<1>3. ProgressInv
  BY OtherFacts DEF Init, ProgressInv, Modes
<1> QED
  BY <1>2, <1>3 DEF Init, IndInv, HolderInv, Holds, MapSections, OneDatapath, PinInv, ReadyInv, SweepInv

\* A launch changes nothing but the process.
LEMMA LaunchInv ==
    ASSUME IndInv, NEW p \in Procs, NEW m \in Modes, Launch(p, m)
    PROVE  IndInv'
<1> USE BringupAssumption DEF IndInv
<1>1. Uplink \in Devices
  BY AttachFacts
<1>2. TypeOK'
  BY DEF TypeOK, Labels, Launch, Goto, FirstStep
<1>3. ProgressInv'
  BY OtherFacts, <1>1 DEF ProgressInv, TypeOK, Launch, Goto, FirstStep
<1>4. HolderInv'
  BY <1>1 DEF HolderInv, Holds, TypeOK, ProgressInv, MapSections, Launch, Goto, FirstStep
<1>5. OneDatapath'
  BY DEF OneDatapath, Launch, Goto, FirstStep
<1>6. PinInv'
  BY DEF PinInv, Launch, Goto, FirstStep
<1>7. ReadyInv'
  BY DEF ReadyInv, Launch, Goto, FirstStep
<1>8. SweepInv'
  BY DEF SweepInv, Launch, Goto, FirstStep
<1> QED
  BY <1>2, <1>3, <1>4, <1>5, <1>6, <1>7, <1>8 DEF IndInv

\* Loading leaves the first device to attach.
LEMMA LoadInv ==
    ASSUME IndInv, NEW p \in Procs, load_ebpf(p)
    PROVE  IndInv'
<1> USE BringupAssumption DEF IndInv
<1>1. 0 < Len(AttachOrder(mode[p])) /\ Uplink \in Devices
  BY AttachFacts
<1>2. TypeOK'
  BY OtherFacts, <1>1 DEF TypeOK, ProgressInv, Labels, load_ebpf, Goto, Proceed
<1>3. ProgressInv'
  BY OtherFacts, <1>1 DEF ProgressInv, TypeOK, load_ebpf, Goto, Proceed
<1>4. HolderInv'
  BY OtherFacts, <1>1 DEF HolderInv, Holds, TypeOK, ProgressInv, MapSections, load_ebpf, Goto,
     Proceed
<1>5. OneDatapath'
  BY DEF OneDatapath, load_ebpf, Goto, Proceed
<1>6. PinInv'
  BY DEF PinInv, load_ebpf, Goto, Proceed
<1>7. ReadyInv'
  BY DEF ReadyInv, load_ebpf, Goto, Proceed
<1>8. SweepInv'
  BY DEF SweepInv, load_ebpf, Goto, Proceed
<1> QED
  BY <1>2, <1>3, <1>4, <1>5, <1>6, <1>7, <1>8 DEF IndInv

\* The first attachment finds no link at all, later ones the own uplink.
LEMMA AttachInv ==
    ASSUME IndInv, NEW p \in Procs, attach_xdp(p)
    PROVE  IndInv'
<1> USE BringupAssumption DEF IndInv
<1>1. /\ Len(AttachOrder(mode[p])) \in 1..(Len(Guests) + 1)
      /\ att[p] \in Nat /\ att[p] < Len(AttachOrder(mode[p]))
      /\ NextDevice(p) \in Devices /\ Uplink \in Devices
      /\ NextDevice(p) = Uplink <=> att[p] = 0
  BY AttachFacts DEF TypeOK, NextDevice, attach_xdp
<1>2. /\ att' = [att EXCEPT ![p] = att[p] + 1]
      /\ pc' = [pc EXCEPT ![p] =
                  IF att[p] + 1 = Len(AttachOrder(mode[p])) THEN "tail" ELSE "attach"]
  BY OtherFacts DEF TypeOK, attach_xdp, NextAttach, Goto
<1>3. TypeOK'
  BY <1>1, <1>2 DEF TypeOK, Labels, attach_xdp
<1>4. ProgressInv'
  BY OtherFacts, <1>1, <1>2 DEF ProgressInv, TypeOK, attach_xdp
<1>5. HolderInv'
  BY <1>1, <1>2 DEF HolderInv, Holds, TypeOK, attach_xdp
<1>6. OneDatapath'
  BY <1>1, <1>2 DEF OneDatapath, TypeOK, HolderInv, Holds, PinInv, attach_xdp
<1>7. PinInv'
  BY DEF PinInv, attach_xdp
<1>8. ReadyInv'
  BY <1>1, <1>2 DEF ReadyInv, TypeOK, attach_xdp
<1>9. SweepInv'
  BY <1>1, <1>2 DEF SweepInv, TypeOK, attach_xdp
<1> QED
  BY <1>3, <1>4, <1>5, <1>6, <1>7, <1>8, <1>9 DEF IndInv

\* The same for a link that will be pinned.
LEMMA AttachPinnedInv ==
    ASSUME IndInv, NEW p \in Procs, attach_xdp_pinned(p)
    PROVE  IndInv'
<1> USE BringupAssumption DEF IndInv
<1>1. /\ Len(AttachOrder(mode[p])) \in 1..(Len(Guests) + 1)
      /\ att[p] \in Nat /\ att[p] < Len(AttachOrder(mode[p]))
      /\ NextDevice(p) \in Devices /\ Uplink \in Devices
      /\ NextDevice(p) = Uplink <=> att[p] = 0
  BY AttachFacts DEF TypeOK, NextDevice, attach_xdp_pinned
<1>2. TypeOK'
  BY DEF TypeOK, Labels, attach_xdp_pinned, Goto, Modes
<1>3. ProgressInv'
  BY OtherFacts, <1>1 DEF ProgressInv, TypeOK, attach_xdp_pinned, Goto, Modes
<1>4. HolderInv'
  BY <1>1 DEF HolderInv, Holds, TypeOK, attach_xdp_pinned, Goto, Modes
<1>5. OneDatapath'
  BY <1>1 DEF OneDatapath, TypeOK, HolderInv, Holds, PinInv, attach_xdp_pinned, Goto, Modes
<1>6. PinInv'
  BY DEF PinInv, attach_xdp_pinned, Goto, Modes
<1>7. ReadyInv'
  BY DEF ReadyInv, attach_xdp_pinned, Goto, Modes
<1>8. SweepInv'
  BY DEF SweepInv, attach_xdp_pinned, Goto, Modes
<1> QED
  BY <1>2, <1>3, <1>4, <1>5, <1>6, <1>7, <1>8 DEF IndInv

\* A pin is one of the datapath of the uplink.
LEMMA PinLinkInv ==
    ASSUME IndInv, NEW p \in Procs, PinLink(p)
    PROVE  IndInv'
<1> USE BringupAssumption DEF IndInv
<1>1. /\ Len(AttachOrder(mode[p])) \in 1..(Len(Guests) + 1)
      /\ att[p] \in Nat /\ att[p] < Len(AttachOrder(mode[p]))
      /\ NextDevice(p) \in Devices /\ Uplink \in Devices
      /\ NextDevice(p) = Uplink <=> att[p] = 0
  BY AttachFacts DEF TypeOK, NextDevice, PinLink
<1>2. /\ att' = [att EXCEPT ![p] = att[p] + 1]
      /\ pc' = [pc EXCEPT ![p] =
                  IF att[p] + 1 = Len(AttachOrder(mode[p])) THEN "tail" ELSE "attach"]
  BY OtherFacts DEF TypeOK, PinLink, NextAttach, Goto
<1>3. TypeOK'
  BY <1>1, <1>2 DEF TypeOK, Labels, PinLink
<1>4. ProgressInv'
  BY OtherFacts, <1>1, <1>2 DEF ProgressInv, TypeOK, PinLink
<1>5. HolderInv'
  BY <1>1, <1>2 DEF HolderInv, Holds, TypeOK, PinLink
<1>6. OneDatapath'
  BY DEF OneDatapath, PinLink
<1>7. PinInv'
  BY <1>1 DEF TypeOK, ProgressInv, HolderInv, Holds, PinInv, PinLink
<1>8. ReadyInv'
  BY <1>1, <1>2 DEF ReadyInv, TypeOK, ProgressInv, HolderInv, Holds, PinInv, PinLink
<1>9. SweepInv'
  BY <1>1, <1>2 DEF SweepInv, TypeOK, PinLink
<1> QED
  BY <1>3, <1>4, <1>5, <1>6, <1>7, <1>8, <1>9 DEF IndInv

\* A section adds to the maps of the process that holds the uplink.
LEMMA ProgramInv ==
    ASSUME IndInv, NEW p \in Procs, NEW s \in MapSections \cup {"tail"}, Program(p, s)
    PROVE  IndInv'
<1> USE BringupAssumption DEF IndInv
<1>1. /\ mode[p] \in Modes \ {"adopt"}
      /\ Uplink \in Devices
  BY AttachFacts DEF TypeOK, ProgressInv, Program, MapSections
<1>2. /\ After(mode[p], s) \in MapSections \cup {"pinct", "gc"}
      /\ After(mode[p], s) = "pinct" => mode[p] = "pinned"
      /\ Programmed(mode[p], After(mode[p], s)) \subseteq Programmed(mode[p], s) \cup {s}
  BY <1>1, SectionFacts
<1>3. TypeOK'
  BY <1>1, <1>2 DEF TypeOK, Labels, MapSections, Program, Proceed, Goto
<1>4. ProgressInv'
  BY OtherFacts, <1>1, <1>2 DEF ProgressInv, TypeOK, MapSections, Labels, Program, Proceed, Goto
<1>5. HolderInv'
  BY <1>1, <1>2 DEF HolderInv, Holds, TypeOK, ProgressInv, MapSections, Program, Proceed, Goto
<1>6. OneDatapath'
  BY DEF OneDatapath, Program, Proceed, Goto
<1>7. PinInv'
  BY DEF PinInv, Program, Proceed, Goto
<1>8. ReadyInv'
  BY OtherFacts, <1>1, <1>2 DEF ReadyInv, TypeOK, ProgressInv, HolderInv, Holds, PinInv,
     MapSections, Labels, Program, Proceed, Goto
<1>9. SweepInv'
  BY OtherFacts, <1>1, <1>2 DEF SweepInv, TypeOK, ProgressInv, ReadyInv, HolderInv, Holds,
     PinInv, MapSections, Labels, Program, Proceed, Goto
<1> QED
  BY <1>3, <1>4, <1>5, <1>6, <1>7, <1>8, <1>9 DEF IndInv

\* CONNTRACK is pinned by the process that holds and pinned the uplink.
LEMMA PinMapInv ==
    ASSUME IndInv, NEW p \in Procs, pin_map(p)
    PROVE  IndInv'
<1> USE BringupAssumption DEF IndInv
<1>1. Uplink \in Devices
  BY AttachFacts
<1>2. TypeOK'
  BY OtherFacts, <1>1 DEF TypeOK, Labels, MapSections, pin_map, Proceed, Goto, SectionsOf, Modes
<1>3. ProgressInv'
  BY OtherFacts, <1>1 DEF ProgressInv, TypeOK, pin_map, Proceed, Goto, SectionsOf, Modes
<1>4. HolderInv'
  BY DEF HolderInv, Holds, pin_map, Proceed, Goto, SectionsOf, Modes
<1>5. OneDatapath'
  BY DEF OneDatapath, pin_map, Proceed, Goto, SectionsOf, Modes
<1>6. PinInv'
  BY DEF PinInv, pin_map, Proceed, Goto, SectionsOf, Modes
<1>7. ReadyInv'
  BY OtherFacts, <1>1 DEF ReadyInv, TypeOK, ProgressInv, HolderInv, Holds, PinInv, pin_map,
     Proceed, Goto, SectionsOf, Modes
<1>8. SweepInv'
  BY <1>1 DEF SweepInv, TypeOK, ProgressInv, ReadyInv, HolderInv, Holds, PinInv, pin_map,
     Proceed, Goto, SectionsOf, Modes
<1> QED
  BY <1>2, <1>3, <1>4, <1>5, <1>6, <1>7, <1>8 DEF IndInv

\* The process sweeps the CONNTRACK of its own datapath.
LEMMA StartGcInv ==
    ASSUME IndInv, NEW p \in Procs, StartGc(p)
    PROVE  IndInv'
<1> USE BringupAssumption DEF IndInv
<1>1. Uplink \in Devices /\ mode[p] \in Modes \ {"adopt"}
  BY AttachFacts DEF TypeOK, ProgressInv, StartGc
<1>2. pc' = [pc EXCEPT ![p] = "run"] /\ Programmed(mode[p], "run") = Programmed(mode[p], "gc")
  BY <1>1, OtherFacts DEF StartGc, Proceed, Goto
<1>3. TypeOK'
  BY <1>1, <1>2 DEF TypeOK, Labels, StartGc
<1>4. ProgressInv'
  BY <1>1, <1>2 DEF ProgressInv, TypeOK, StartGc
<1>5. HolderInv'
  BY <1>1, <1>2 DEF HolderInv, Holds, TypeOK, StartGc
<1>6. OneDatapath'
  BY DEF OneDatapath, StartGc
<1>7. PinInv'
  BY DEF PinInv, StartGc
<1>8. ReadyInv'
  BY <1>1, <1>2 DEF ReadyInv, TypeOK, StartGc
<1>9. SweepInv'
  BY <1>1, <1>2 DEF SweepInv, TypeOK, StartGc
<1> QED
  BY <1>3, <1>4, <1>5, <1>6, <1>7, <1>8, <1>9 DEF IndInv

\* Adopting takes the pinned CONNTRACK.
LEMMA AdoptInv ==
    ASSUME IndInv, NEW p \in Procs, Adopt(p)
    PROVE  IndInv'
<1> USE BringupAssumption DEF IndInv
<1>1. Uplink \in Devices
  BY AttachFacts
<1>2. TypeOK'
  BY OtherFacts, <1>1 DEF TypeOK, Labels, MapSections, Adopt, Proceed, Goto, Modes
<1>3. ProgressInv'
  BY OtherFacts, <1>1 DEF ProgressInv, TypeOK, Adopt, Proceed, Goto, Modes
<1>4. HolderInv'
  BY OtherFacts, <1>1 DEF HolderInv, Holds, TypeOK, ProgressInv, MapSections, Adopt, Proceed,
     Goto, Modes
<1>5. OneDatapath'
  BY DEF OneDatapath, Adopt, Proceed, Goto, Modes
<1>6. PinInv'
  BY DEF PinInv, Adopt, Proceed, Goto, Modes
<1>7. ReadyInv'
  BY DEF ReadyInv, Adopt, Proceed, Goto, Modes
<1>8. SweepInv'
  BY OtherFacts, <1>1 DEF SweepInv, TypeOK, ProgressInv, Adopt, Proceed, Goto, Modes
<1> QED
  BY <1>2, <1>3, <1>4, <1>5, <1>6, <1>7, <1>8 DEF IndInv

\* The end of a process takes all its links, or none if its uplink is pinned.
LEMMA ExitInv ==
    ASSUME IndInv, NEW p \in Procs, Exit(p)
    PROVE  IndInv'
<1> USE BringupAssumption DEF IndInv
<1>1. Uplink \in Devices
  BY AttachFacts
<1>2. \A q \in Procs : Programmed(mode[q], "exited") = {}
  BY OtherFacts DEF TypeOK
<1>3. TypeOK'
  BY DEF TypeOK, Labels, Exit, Ended, Goto
<1>4. ProgressInv'
  BY <1>1, <1>2 DEF ProgressInv, TypeOK, Exit, Ended, Goto
<1>5. HolderInv'
  BY <1>1, <1>2 DEF HolderInv, Holds, TypeOK, ProgressInv, MapSections, Exit, Ended, Goto
<1>6. OneDatapath'
  BY <1>1, <1>2 DEF OneDatapath, TypeOK, HolderInv, Holds, PinInv, Exit, Ended, Goto
<1>7. PinInv'
  BY <1>1, <1>2 DEF PinInv, TypeOK, Exit, Ended, Goto
<1>8. ReadyInv'
  BY OtherFacts, <1>1, <1>2 DEF ReadyInv, TypeOK, ProgressInv, HolderInv, Holds, PinInv,
     MapSections, Labels, Exit, Ended, Goto
<1>9. SweepInv'
  BY DEF SweepInv, TypeOK, Exit, Ended, Goto
<1> QED
  BY <1>3, <1>4, <1>5, <1>6, <1>7, <1>8, <1>9 DEF IndInv

\* Losing a guest leaves the uplink alone.
LEMMA LoseInv ==
    ASSUME IndInv, NEW d \in Removable, LoseGuest(d)
    PROVE  IndInv'
<1> USE BringupAssumption DEF IndInv
<1>1. Uplink \in Devices /\ d # Uplink /\ d \in Devices
  BY AttachFacts
<1>2. TypeOK'
  BY DEF TypeOK, Labels, LoseGuest, Modes
<1>3. ProgressInv'
  BY DEF ProgressInv, LoseGuest, Modes
<1>4. HolderInv'
  BY DEF HolderInv, Holds, LoseGuest, Modes
<1>5. OneDatapath'
  BY DEF OneDatapath, LoseGuest, Modes
<1>6. PinInv'
  BY DEF PinInv, LoseGuest, Modes
<1>7. ReadyInv'
  BY DEF ReadyInv, LoseGuest, Modes
<1>8. SweepInv'
  BY DEF SweepInv, LoseGuest, Modes
<1> QED
  BY <1>2, <1>3, <1>4, <1>5, <1>6, <1>7, <1>8 DEF IndInv

\* A cleanup finds no process and leaves no link and no pin.
LEMMA CleanupInv ==
    ASSUME IndInv, Cleanup
    PROVE  IndInv'
<1> USE BringupAssumption DEF IndInv
<1>1. Uplink \in Devices
  BY AttachFacts
<1>2. TypeOK'
  BY DEF TypeOK, Labels, Cleanup, Ended, Modes
<1>3. ProgressInv'
  BY DEF ProgressInv, Cleanup, Ended, Modes
<1>4. HolderInv'
  BY <1>1 DEF HolderInv, Holds, TypeOK, ProgressInv, MapSections, Cleanup, Ended, Modes
<1>5. OneDatapath'
  BY DEF OneDatapath, Cleanup, Ended, Modes
<1>6. PinInv'
  BY DEF PinInv, Cleanup, Ended, Modes
<1>7. ReadyInv'
  BY DEF ReadyInv, Cleanup, Ended, Modes
<1>8. SweepInv'
  BY DEF SweepInv, Cleanup, Ended, Modes
<1> QED
  BY <1>2, <1>3, <1>4, <1>5, <1>6, <1>7, <1>8 DEF IndInv

\* Every step preserves the invariant.
LEMMA NextInv == IndInv /\ [Next]_vars => IndInv'
<1> SUFFICES ASSUME IndInv, [Next]_vars PROVE IndInv'
  OBVIOUS
<1>1. ASSUME NEW p \in Procs, Step(p) PROVE IndInv'
  <2>1. CASE \E m \in Modes : Launch(p, m)
    BY <2>1, LaunchInv
  <2>2. CASE load_ebpf(p)
    BY <2>2, LoadInv
  <2>3. CASE attach_xdp(p)
    BY <2>3, AttachInv
  <2>4. CASE attach_xdp_pinned(p)
    BY <2>4, AttachPinnedInv
  <2>5. CASE PinLink(p)
    BY <2>5, PinLinkInv
  <2>6. CASE \E s \in MapSections \cup {"tail"} : Program(p, s)
    BY <2>6, ProgramInv
  <2>7. CASE pin_map(p)
    BY <2>7, PinMapInv
  <2>8. CASE StartGc(p)
    BY <2>8, StartGcInv
  <2>9. CASE Adopt(p)
    BY <2>9, AdoptInv
  <2>10. CASE Exit(p)
    BY <2>10, ExitInv
  <2> QED
    BY <1>1, <2>1, <2>2, <2>3, <2>4, <2>5, <2>6, <2>7, <2>8, <2>9, <2>10
       DEF Step, register_guest_dhcp, ProgramLocal, ProgramGuests, ProgramRoutes, ProgramServices,
           ProgramFirewall, ProgramNeighbours, ProgramMeters, ProgramDhcp, MapSections
<1>2. ASSUME NEW d \in Removable, LoseGuest(d) PROVE IndInv'
  BY <1>2, LoseInv
<1>3. CASE Cleanup
  BY <1>3, CleanupInv
<1>4. CASE UNCHANGED vars
  BY <1>4 DEF vars, IndInv, TypeOK, ProgressInv, HolderInv, Holds, OneDatapath, PinInv, ReadyInv, SweepInv
<1> QED
  BY <1>1, <1>2, <1>3, <1>4 DEF Next

-----------------------------------------------------------------------------
(* The theorems. *)

\* The invariant holds throughout every behaviour of Bringup.
THEOREM Invariance == Spec => []IndInv
<1> QED
  BY InitInv, NextInv, PTL DEF Spec

\* Type correctness of the bring-up: every variable keeps its type and no
\* process attaches past its last device.
THEOREM TypeCorrect == Spec => []TypeOK
<1>1. IndInv => TypeOK
  BY DEF IndInv
<1> QED
  BY <1>1, Invariance, PTL

\* Overlapping, failing and killed processes never leave a guest attached to
\* another datapath than the uplink.
THEOREM OneDatapathHolds == Spec => []OneDatapath
<1>1. IndInv => OneDatapath
  BY DEF IndInv
<1> QED
  BY <1>1, Invariance, PTL

\* Every conntrack sweep works on the CONNTRACK that the uplink uses.
THEOREM SweptAttachedHolds == Spec => []SweptIsAttached
<1>1. IndInv => SweptIsAttached
  BY AttachFacts DEF IndInv, SweptIsAttached, SweepInv, HolderInv, Holds, ReadyInv, PinInv
<1> QED
  BY <1>1, Invariance, PTL

\* Every datapath that is swept has all its maps programmed.
THEOREM SweptCompleteHolds == Spec => []SweptIsComplete
<1>1. IndInv => SweptIsComplete
  <2> SUFFICES ASSUME IndInv, NEW p \in Procs, ct[p] # NoProc
               PROVE  /\ SectionsOf(mode[ct[p]]) \subseteq done[ct[p]]
                      /\ ~Ended(ct[p]) => "tail" \in done[ct[p]]
    BY DEF SweptIsComplete
  <2>1. CASE mode[p] # "adopt"
    BY <2>1, OtherFacts DEF IndInv, TypeOK, SweepInv, ProgressInv
  <2>2. CASE mode[p] = "adopt"
    <3>1. ct[p] = pinCt /\ pinCt \in Procs /\ mode[pinCt] = "pinned"
      BY <2>2 DEF IndInv, TypeOK, SweepInv, ReadyInv
    <3>2. SectionsOf(mode[pinCt]) \subseteq done[pinCt]
      BY <3>1 DEF IndInv, ReadyInv, SectionsOf
    <3>3. ~Ended(pinCt) => "tail" \in done[pinCt]
      BY <3>1, OtherFacts DEF IndInv, TypeOK, ReadyInv, ProgressInv, Ended, Modes
    <3> QED
      BY <3>1, <3>2, <3>3
  <2> QED
    BY <2>1, <2>2
<1> QED
  BY <1>1, Invariance, PTL

\* From the CONNTRACK pin on, no kill and no launch takes the datapath from
\* the uplink or makes it impossible to adopt.
THEOREM AdoptableHolds == Spec => []StaysAdoptable
<1>1. IndInv => StaysAdoptable
  BY AttachFacts DEF IndInv, StaysAdoptable, ReadyInv, PinInv
<1> QED
  BY <1>1, Invariance, PTL
=============================================================================
