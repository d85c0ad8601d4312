------------------------------- MODULE Meter -------------------------------
(***************************************************************************)
(* The rate limit of an interface: the token buckets of one device in the  *)
(* METER map, the guest programs that read, update and write them back     *)
(* without a lock on every CPU, and the interface created on the device    *)
(* and detached from it.                                                   *)
(*                                                                         *)
(* Time is kept as the age now - last_ns of a bucket, saturated at one     *)
(* second: the code caps the elapsed time there.                           *)
(***************************************************************************)
EXTENDS Integers, FiniteSetsExt

CONSTANTS
    Cpus,       \* CPUs that run the guest program of the device
    Requests,   \* (total, public) rates of requests, in Mbit/s; 0: unlimited
    Unit,       \* bytes per second of one Mbit/s: 125000 in the code
    BurstDiv,   \* a burst is this fraction of a second: 8 in the code
    MinBurst,   \* the smallest burst: 2000 bytes in the code
    Sec,        \* ticks per second: 10^9 in the code
    Width,      \* number of values of a u64
    Lens        \* lengths of the frames considered

ASSUME MeterAssumption ==
    /\ Requests \subseteq Nat \X Nat
    /\ Unit \in Nat /\ MinBurst \in Nat /\ Lens \subseteq Nat
    /\ BurstDiv \in Nat \ {0} /\ Sec \in Nat \ {0} /\ Width \in Nat \ {0}

VARIABLES
    meter,      \* METER: the set that holds the entry of the device, if any
    iface,      \* by_id: the request of the interface on the device, if any
    cpu,        \* what each CPU is doing
    verdict,    \* history: the verdict of the last step, if any
    late        \* history: the interface was detached while a packet was metered

vars == <<meter, iface, cpu, verdict, late>>

Verdict == {"none", "pass", "drop"}

\* credit is a history: what an exact bucket, filled by bps at every tick
\* and charged for passed frames only, has left, in 1/Sec bytes.
Bucket(bps) ==
    LET burst == Max({bps \div BurstDiv, MinBurst})
    IN  [bps |-> bps, burst |-> burst, tokens |-> bps \div BurstDiv, age |-> Sec,
         credit |-> burst * Sec]

meter_state(r) == [total |-> Bucket(r[1] * Unit), public |-> Bucket(r[2] * Unit)]

NoEntry == meter_state(<<0, 0>>)
IdleCpu == [pc |-> "idle", entry |-> NoEntry, len |-> 0, ext |-> FALSE, pass |-> FALSE]

At(c, label) == cpu[c].pc = label
Busy == \E c \in Cpus : ~At(c, "idle")

-----------------------------------------------------------------------------
(* meter_pass. *)

\* Mutant: only whole seconds count.
Refill_WholeSeconds(b) == (b.age \div Sec) * b.bps

\* What the elapsed time is worth, rounded down; u64 arithmetic wraps.
Refill(b) == (b.age \div Sec) * b.bps + (((b.age % Sec) * b.bps) % Width) \div Sec

\* Mutant: the bucket overflows.
Filled_Uncapped(b) == b.tokens + Refill(b)

Filled(b) == Min({b.tokens + Refill(b), b.burst})

Conforms(b, len) == b.bps = 0 \/ Filled(b) >= len

\* Mutant: a frame that does not fit is charged.
take_Unchecked(b, len) == [b EXCEPT !.tokens = Filled(b) - len, !.age = 0]

\* The bucket after a frame was offered; last_ns becomes now in any case.
take(b, len) ==
    [b EXCEPT !.tokens = CASE b.bps = 0 -> @
                           [] b.bps # 0 /\ Filled(b) >= len -> Filled(b) - len
                           [] OTHER -> Filled(b),
              !.age = 0]

\* METER.get; without an entry the frame passes.
MeterGet(c, len, ext) ==
    /\ At(c, "idle") /\ iface # {}
    /\ \/ /\ meter = {}
          /\ verdict' = "pass"
          /\ UNCHANGED cpu
       \/ \E m \in meter :
          /\ cpu' = [cpu EXCEPT ![c] = [IdleCpu EXCEPT !.pc = "take", !.entry = m,
                                                       !.len = len, !.ext = ext]]
          /\ verdict' = "none"
    /\ UNCHANGED <<meter, iface, late>>

Charge(b, len) == [b EXCEPT !.credit = IF b.bps = 0 THEN @ ELSE @ - len * Sec]

\* now is read and both buckets are charged: the public one for an external
\* frame only, the total one even when the public one refuses the frame.
MeterTake(c) ==
    /\ At(c, "take")
    /\ LET s == cpu[c]
           m == s.entry
           pass == Conforms(m.total, s.len) /\ (s.ext => Conforms(m.public, s.len))
           total == take(m.total, s.len)
           public == IF s.ext THEN take(m.public, s.len) ELSE m.public
       IN  cpu' = [cpu EXCEPT ![c] =
                     [s EXCEPT !.pc = "insert", !.pass = pass,
                               !.entry = [total |-> IF pass THEN Charge(total, s.len) ELSE total,
                                          public |-> IF pass /\ s.ext THEN Charge(public, s.len)
                                                                      ELSE public]]]
    /\ verdict' = "none"
    /\ UNCHANGED <<meter, iface, late>>

\* METER.insert, whatever became of the entry in the meantime.
MeterInsert(c) ==
    /\ At(c, "insert")
    /\ meter' = {cpu[c].entry}
    /\ verdict' = IF cpu[c].pass THEN "pass" ELSE "drop"
    /\ cpu' = [cpu EXCEPT ![c] = IdleCpu]
    /\ UNCHANGED <<iface, late>>

-----------------------------------------------------------------------------
(* Time and the control plane. *)

Older(b) ==
    [b EXCEPT !.age = IF @ = Sec THEN @ ELSE @ + 1,
              !.credit = Min({@ + b.bps, b.burst * Sec})]
OlderEntry(m) == [total |-> Older(m.total), public |-> Older(m.public)]

\* The age of a copy counts from the last_ns in it.
Tick ==
    /\ meter' = {OlderEntry(m) : m \in meter}
    /\ cpu' = [c \in Cpus |-> IF At(c, "idle") THEN cpu[c]
                              ELSE [cpu[c] EXCEPT !.entry = OlderEntry(@)]]
    /\ verdict' = "none"
    /\ UNCHANGED <<iface, late>>

\* A request without rates leaves METER alone.
CreateInterface(r) ==
    /\ iface = {}
    /\ iface' = {r}
    /\ meter' = IF r = <<0, 0>> THEN meter ELSE {meter_state(r)}
    /\ verdict' = "none"
    /\ UNCHANGED <<cpu, late>>

\* Mutant: the entry of the device stays.
DetachInterface_KeepsMeter ==
    /\ iface # {}
    /\ iface' = {}
    /\ late' = (late \/ Busy)
    /\ verdict' = "none"
    /\ UNCHANGED <<cpu, meter>>

DetachInterface ==
    /\ iface # {}
    /\ iface' = {}
    /\ meter' = {}
    /\ late' = (late \/ Busy)
    /\ verdict' = "none"
    /\ UNCHANGED cpu

-----------------------------------------------------------------------------
Init ==
    /\ meter = {}
    /\ iface = {}
    /\ cpu = [c \in Cpus |-> IdleCpu]
    /\ verdict = "none"
    /\ late = FALSE

Send(c) == \E len \in Lens, ext \in BOOLEAN : MeterGet(c, len, ext)
CpuStep(c) == MeterTake(c) \/ MeterInsert(c)

Next ==
    \/ \E c \in Cpus : Send(c) \/ CpuStep(c)
    \/ Tick
    \/ \E r \in Requests : CreateInterface(r)
    \/ DetachInterface

Spec == Init /\ [][Next]_vars

\* A BPF program runs to its end and time passes.
Fairness == WF_vars(Tick) /\ \A c \in Cpus : WF_vars(CpuStep(c))

FairSpec == Spec /\ Fairness

-----------------------------------------------------------------------------
(* Properties. *)

BucketOK(b) ==
    /\ b.tokens \in 0 .. b.burst
    /\ b.age \in 0 .. Sec
    /\ b.credit \in 0 .. (b.burst * Sec)
EntryOK(m) == BucketOK(m.total) /\ BucketOK(m.public)

\* Type invariant.
TypeOK ==
    /\ \A m \in meter : EntryOK(m)
    /\ Cardinality(meter) <= 1
    /\ iface \subseteq Requests
    /\ \A c \in Cpus : cpu[c].pc \in {"idle", "take", "insert"} /\ EntryOK(cpu[c].entry)
    /\ verdict \in Verdict
    /\ late \in BOOLEAN

\* What a bucket will admit at once never exceeds what the exact bucket has
\* left, however the truncated refills of take add up and whenever CPUs write
\* their copies back: along each chain of updates no more than burst + rate *
\* time passes.  Bytes admitted beyond that were admitted by an update that
\* another CPU has overwritten.
Affordable ==
    LET Sound(b) == b.bps # 0 =>
            Min({b.tokens * Sec + b.age * b.bps, b.burst * Sec}) <= b.credit
        SoundEntry(m) == Sound(m.total) /\ Sound(m.public)
    IN  /\ \A m \in meter : SoundEntry(m)
        /\ \A c \in Cpus : SoundEntry(cpu[c].entry)

\* The device is limited to what its interface asked for, and to nothing when
\* it asked for no limit or there is none (program_iface_maps and
\* detach_interface against the insert of meter_pass), unless a detach met a
\* packet.
LimitsExact ==
    ~late => {<<m.total.bps, m.public.bps>> : m \in meter}
               = {<<r[1] * Unit, r[2] * Unit>> : r \in iface \ {<<0, 0>>}}

\* A guest that keeps sending under one limit is not starved: some frame of
\* it passes again, although every frame, dropped ones included, restarts the
\* refill interval and rounds it down (take).  Under two limits it may be: a
\* bucket is charged for frames that the other one refuses.
OneLimit == \A m \in meter : m.total.bps = 0 \/ m.public.bps = 0
NoStarvation ==
    <>[]OneLimit /\ []<>(Busy \/ verdict = "pass") => []<>(verdict = "pass")
=============================================================================
