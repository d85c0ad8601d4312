SPECIFICATION Spec
CONSTANTS
    b1 = b1
    b2 = b2
    b3 = b3
    Requests <- MCRequests
    Backends = {b1, b2, b3}
    Guests <- MCGuests
    Packets <- MCPackets
    M = 5
    Offset <- MCOffset
    Skip <- MCSkip
    Hash <- MCHash
    Capacity <- MCCapacity
    Cpus = {c1}
    None = none
    MaxCalls = 5
    MaxPackets = 1
INVARIANTS
    TypeOK
    SlotsExact
    KeysExact
    Balanced
    QuietVerdict
PROPERTY ImplementsPool
CHECK_DEADLOCK FALSE
