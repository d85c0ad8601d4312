SPECIFICATION Spec
CONSTANTS
    Procs = {p1, p2, p3, p4}
    Uplink = up
    g1 = g1
    g2 = g2
    Guests <- MCGuests
    Removable = {g1}
    NoProc = NoProc
INVARIANT EnforcedByDefault
CHECK_DEADLOCK FALSE
