SPECIFICATION Spec
CONSTANTS
    Miners = {m1, m2}
    Io = io
    Null = Null
    EpochLength = 4
    ActivationEpoch = 4
    LightInit = 8
    LightGrowth = 3
    DagInit = 20
    DagGrowth = 9
    Hashes <- MCHashes
    keccak256 <- MCkeccak256
    ZeroSeed = 0
    NumTries = 8
    Blocks <- MCBlocks
    OtherSeeds <- MCOtherSeeds
    MaxJobs = 3
    MaxContexts = 4
SYMMETRY MCSymmetry
INVARIANTS
    UsesLiveContext
    
    SizesOfBlock
CHECK_DEADLOCK FALSE
