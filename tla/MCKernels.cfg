SPECIFICATION Spec
CONSTANTS
    Radix = 256
    Parents = 20
    Accesses = 64
    keccak512 <- MCkeccak512
    keccak256 <- MCkeccak256
    EpochSeed <- MCSeed
    LightBound = 6
    DagBound = 6
    Header <- MCHeader
    GroupSize = 4
    Multiples <- MCMultiples
    StartNonce = 252
    Boundaries <- MCBoundaries
    MaxOutputs = 2
INVARIANTS
    DagIsDataset
    MixIsLibrarys
    ReportedAreSolutions
CHECK_DEADLOCK FALSE
