SPECIFICATION Spec64
CONSTANTS
    g1 = g1
    n1 = n1
    p1 = p1
    Guests = {g1}
    NatIps = {n1}
    Peers = {p1}
    Inside = {}
    Zero = zero
    GuestPorts = {1}
    PeerPorts = {1}
    UplinkDsts = {n1}
    UplinkPorts = {2}
    PktProtos = {"icmp"}
    W = 6
    NatRequests <- MCOneRange
    ProbeLimit = 2
    Hash <- MCHash
    DefaultTimeout = 0
    EstTimeout = 0
    CtCapacity = 5
    Cpus = {c1}
    MaxPackets = 2
    MaxDeletes = 1
    Detachable = {g1}
    Dual = {g1}
    Payloads <- MCPayloads
    MaxTicks = 1
    Mask = 15
    WordOf <- MCWord
    HostOf <- MCHost
    Prefix64 = 10
    L4Len = 4
INVARIANT EchoAccepted
CHECK_DEADLOCK FALSE
