SPECIFICATION Spec
CONSTANTS
    Vnis = {v1, v2}
    NatIps = {n1}
    Underlays = {u1, u2}
    W = 4
    Requests <- MCRequests
    NbMax = 2
    Cpus = {c1}
    MaxOps = 3
INVARIANTS
    LookupSound
    OneOwner
    ListProgrammed
    MissSound
CHECK_DEADLOCK FALSE
