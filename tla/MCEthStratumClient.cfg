SPECIFICATION FairSpec
CONSTANTS
    Schemes <- MCSchemes
    MaxEndpoints = 1
    ResponseTimeout = 2
    WorkTimeout = 1
    TxCapacity = 1
    MaxQueue = 2
    MaxPleas = 1
INVARIANTS
    IoDoesNotOverlap
    OneRotationPerClient
    
PROPERTIES
    ImplementsPoolClient
    
CHECK_DEADLOCK FALSE
