SPECIFICATION FairSpec
CONSTANTS
    q1 = q1
    q2 = q2
    q3 = q3
    keyA = keyA
    Req = {q1, q2, q3}
    Scope = {keyA}
    ScopeOf <- MCScopeOf
    Limit <- MCLimit
    WindowSeconds = 2
    RedisMayFail = TRUE
    MaxDelay = 2
    LastWindow = 1
INVARIANTS
    LifetimeBudget
    PunctualWindowBudget
    StretchBudget
    RefusedOverBudget
    IInv
    TimingInv
PROPERTIES
    CountersExpire
CHECK_DEADLOCK FALSE
