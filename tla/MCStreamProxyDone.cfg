SPECIFICATION Spec
CONSTANTS
    Cap = 4
    NoUsage = NoUsage
    Bodies <- MCBodiesShort
    Unrecordable = {}
    Faults = {}
INVARIANTS
    ReadToTheEndIsRecorded
CHECK_DEADLOCK FALSE
