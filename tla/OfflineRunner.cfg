SPECIFICATION Spec
CONSTANTS
    Executors = {e1, e2}
    PipeCap = 1
    Limit = 2
    MaxWrites = 2
    MaxFaults = 1
    Nobody = Nobody
INVARIANTS
    EvidenceIsWhole
    NothingLeft
PROPERTIES
    RunEnds
CHECK_DEADLOCK FALSE
