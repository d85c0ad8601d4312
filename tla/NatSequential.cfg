SPECIFICATION Spec
CONSTANTS
    Guests = {g1, g2}
    NatIps = {n1}
    Peers = {p1}
    Inside = {}
    Zero = zero
    GuestPorts = {1}
    PeerPorts = {1}
    UplinkDsts = {}
    UplinkPorts = {2}
    PktProtos = {"icmp"}
    W = 6
    NatRequests <- MCRanges
    ProbeLimit = 2
    Hash <- MCHash
    DefaultTimeout = 0
    EstTimeout = 0
    CtCapacity = 100
    Cpus = {c1}
    MaxPackets = 2
    MaxDeletes = 1
    Detachable = {}
INVARIANTS
    NatOwnership
    NatIpsExact

    
SYMMETRY MCSymmetry
CHECK_DEADLOCK FALSE
