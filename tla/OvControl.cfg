SPECIFICATION Spec
CONSTANTS
    i1 = i1
    i2 = i2
    d1 = d1
    d2 = d2
    p1 = p1
    Ids = {i1, i2}
    Vnis = {1, 2}
    Addrs = {1, 2, 3, 4, 5, 6, 7}
    Dests = {2, 3, 5, 6}
    Devices = {d1, d2}
    Requests <- MCRequests
    Routes <- MCRoutes
    Aliases <- MCAliases
    Prefixes6 <- MCPrefixes6
    Remotes = {r1}
    Preferred = {p1}
    VipOf <- MCVipOf
    HostMac = h
    GuestMacs = {m1}
    None = none
    Capacity <- MCCapacity
    Cpus = {c1}
    MaxCalls = 4
    MaxPackets = 1
INVARIANTS
    TypeOK
    
    InterfaceProgrammed
    
    RoutesExact
    
    VipPaired
CHECK_DEADLOCK FALSE
