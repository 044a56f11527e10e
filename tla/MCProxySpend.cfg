SPECIFICATION Spec
CONSTANTS
    r1 = r1
    r2 = r2
    r3 = r3
    m1 = m1
    m2 = m2
    keyA = keyA
    keyB = keyB
    projA = projA
    projB = projB
    TapKey = {keyA}
    Project = {projA}
    Machine = {m1, m2}
    Nobody = Nobody
    NoProject = NoProject
    NotAnObject = NotAnObject
    TooDeep = TooDeep
    NoAnswer = NoAnswer
    NoResponse = NoResponse
    Host <- MCHost
    ProjectOf <- MCProjectOf
    Req = {r1, r2}
    Calls <- MCCallsOne
    Unsendable = {}
    Answers <- MCAnswersTwo
    AuthEnabled = FALSE
    CacheTTL = 1
    Faults = {}
INVARIANTS
    SpendCountedOnce
CHECK_DEADLOCK FALSE
