SPECIFICATION Spec
CONSTANTS
    p = p
    q = q
    Ids = {i1, i2}
    Devices = {d1, d2}
    RuleIds = {r1, r2}
    Pkts = {p, q}
    Requests <- MCRequests
    MaxRules = 2
    RulesCapacity = 3
    MetaCapacity = 1
    Cpus = {c1}
    MaxOps = 3
    MaxDetach = 1
INVARIANTS
    AcceptSound
    InstalledExact
    QuietExact
CHECK_DEADLOCK FALSE
