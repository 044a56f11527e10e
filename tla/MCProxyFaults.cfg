SPECIFICATION Spec
CONSTANTS
    r1 = r1
    r2 = r2
    r3 = r3
    m1 = m1
    m2 = m2
    keyA = keyA
    keyB = keyB
    projA = projA
    projB = projB
    TapKey = {keyA, keyB}
    Project = {projA, projB}
    Machine = {m1, m2}
    Nobody = Nobody
    NoProject = NoProject
    NotAnObject = NotAnObject
    TooDeep = TooDeep
    NoAnswer = NoAnswer
    NoResponse = NoResponse
    Host <- MCHost
    ProjectOf <- MCProjectOf
    Req = {r1, r2}
    Calls <- MCCalls
    Unsendable <- MCUnsendable
    Answers <- MCAnswers
    AuthEnabled = TRUE
    CacheTTL = 1
    Faults = {"redis", "expiry", "db", "crash", "client"}
INVARIANTS
    TypeOK
    HitReplaysASuccess
    RowTellsWhatTheClientGot
    OneRowOrNone
    IInv
PROPERTIES
    KeepsTheLedger
CHECK_DEADLOCK FALSE
