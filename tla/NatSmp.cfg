SPECIFICATION Spec
CONSTANTS
    Guests = {g1}
    NatIps = {n1}
    Peers = {p1}
    Inside = {}
    Zero = zero
    GuestPorts = {1}
    PeerPorts = {1}
    UplinkDsts = {n1}
    UplinkPorts = {2}
    PktProtos = {"udp"}
    W = 6
    NatRequests <- MCOneRange
    ProbeLimit = 2
    Hash <- MCHash
    DefaultTimeout = 0
    EstTimeout = 0
    CtCapacity = 100
    Cpus = {c1, c2}
    MaxPackets = 2
    MaxDeletes = 1
    Detachable = {g1}
INVARIANTS
    OwnershipInv
    FlushComplete
SYMMETRY MCSymmetry
CHECK_DEADLOCK FALSE
