CONSTANTS
    A = A
    B = B
    X = X
    Pools = {A, B, X}
    Configured <- TwoPools
    ExitPools = {X}
    ES2Pools = {B}
    MaxRetries = 2
    RetryDelay = TRUE
    FailoverTimeout = TRUE
    Epochs = {0, 1}
SPECIFICATION FairSpec
INVARIANTS
    RetryBound
    MinersRunWhenConnected
PROPERTIES
    
    ReturnsToPrimary
CHECK_DEADLOCK FALSE
