SPECIFICATION FairSpec
CONSTANTS
    Cap = 4
    NoUsage = NoUsage
    Bodies <- MCBodies
    Unrecordable <- MCUnrecordable
    Faults = {"crash"}
INVARIANTS
    TypeOK
    WatcherObserves
    RowTellsTheStream
    EndedStreamIsSettled
    IInv
PROPERTIES
    KeepsTheLedger
    HangUpEndsTheStream
CHECK_DEADLOCK FALSE
