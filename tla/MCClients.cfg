SPECIFICATION FairSpec
CONSTANTS
    MaxEndpoints = 2
    Headers = {"h1", "h2"}
    TxCapacity = 2
    MaxQueue = 3
INVARIANTS
    OneRequestAtATime
    PollPending
PROPERTIES
    ImplementsPoolClient
    SimulationEnds
CHECK_DEADLOCK FALSE
