SPECIFICATION FairSpec
CONSTANTS
    a = a
    b = b
    c = c
    Jobs = {a, b, c}
    EpochOf <- MCEpochOf
    Reasons = {"api"}
    NoJob = NoJob
    Torn = Torn
    N = 2
    M = 5
INVARIANTS
    NonceOfBatch
PROPERTIES
    PausedStops
    StopEnds
    CLTakesWork
CHECK_DEADLOCK FALSE
