SPECIFICATION MachineSpec
CONSTANTS
    q1 = q1
    q2 = q2
    p1 = p1
    c1 = c1
    c2 = c2
    Req = {q1, q2, p1}
    Query = {p1}
    Probe = {p1}
    Connection = {c1, c2}
    None = None
    Unwritable = {q2}
    Outages = TRUE
INVARIANTS
    NoConnectionIsShared
    MachineInv
PROPERTIES
    RowLostOnlyIfFull
    EveryWaitEnds
    OutOnlyForCause
    LostDependencyIsNoticed
    ComesBack
CHECK_DEADLOCK FALSE
