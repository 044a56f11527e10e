SPECIFICATION GatewaySpec
CONSTANTS
    r1 = r1
    r2 = r2
    m1 = m1
    m2 = m2
    keyA = keyA
    projA = projA
    TapKey = {keyA}
    Project = {projA}
    Machine = {m1, m2}
    Nobody = Nobody
    NoProject = NoProject
    NotAnObject = NotAnObject
    TooDeep = TooDeep
    NoAnswer = NoAnswer
    NoResponse = NoResponse
    Anonymous = Anonymous
    Host <- MCHost
    ProjectOf <- MCProjectOf
    ScopeOf <- MCScopeOf
    Limit <- MCLimit
    Req = {r1, r2}
    Calls <- MCCalls
    Unsendable = {}
    Answers <- MCAnswers
    AuthEnabled = TRUE
    CacheTTL = 1
    Faults = {"redis", "expiry", "db", "crash"}
    WindowSeconds = 1
    MaxDelay = 1
    LastWindow = 1
INVARIANTS
    ServedWithinBudget
    TurnedAwayForCause
CHECK_DEADLOCK FALSE
