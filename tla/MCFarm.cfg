CONSTANTS
    Counts = {1, 3}
    WordBits = 8
    Nonces <- MCNonces
    ExtraNonces <- MCExtraNonces
    Randoms <- MCRandoms
    TempStart = 1
    TempStop = 3
    Temps = {1, 3}
    Movers = {1, 2}
    ApiMiners = {1}
    Finders = {2}
    MaxPosts = 1
    MaxSolutions = 1
SPECIFICATION Spec
INVARIANTS SegmentsDisjoint SolutionsAccountedOnce TemperatureControl
PROPERTIES ImplementsFarmFlags
CHECK_DEADLOCK FALSE
