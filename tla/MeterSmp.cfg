SPECIFICATION FairSpec
CONSTANTS
    Cpus = {c1, c2}
    Requests <- MCRequests
    Unit = 3
    BurstDiv = 2
    MinBurst = 2
    Sec = 2
    Width = 1000
    Lens = {2}
INVARIANTS
    TypeOK
    Affordable
    LimitsExact
 
CHECK_DEADLOCK FALSE
