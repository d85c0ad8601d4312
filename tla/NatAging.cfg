SPECIFICATION FairSpec
CONSTANTS
    Guests = {g1}
    NatIps = {n1}
    Peers = {p1}
    Inside = {}
    Zero = zero
    GuestPorts = {1}
    PeerPorts = {1}
    UplinkDsts = {}
    UplinkPorts = {2}
    PktProtos = {"tcp"}
    W = 6
    NatRequests <- MCOneRange
    ProbeLimit = 2
    Hash <- MCHash
    DefaultTimeout = 0
    EstTimeout = 0
    CtCapacity = 5
    Cpus = {c1}
    MaxPackets = 2
    MaxDeletes = 0
    Detachable = {}
PROPERTY AgingDrains
CHECK_DEADLOCK FALSE
