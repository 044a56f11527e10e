SPECIFICATION Spec
CONSTANTS
    q1 = q1
    q2 = q2
    q3 = q3
    keyA = keyA
    Req = {q1, q2}
    Scope = {keyA}
    ScopeOf <- MCScopeOf
    Limit <- MCLimit
    WindowSeconds = 2
    RedisMayFail = FALSE
    MaxDelay = 1
    LastWindow = 1
INVARIANTS
    WindowBudget
CHECK_DEADLOCK FALSE
