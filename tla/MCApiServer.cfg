SPECIFICATION Spec
CONSTANTS
    Clients = {1, 2}
    LogNext = 4
    Width = 3
    Hex = {"", "f"}
    Uris = {"a", "b", "c", "d"}
    Cases <- MCCases
    InitialMiner <- MCMiner

    
    
PROPERTIES
    OnlyTrustedWrite
    ActiveKept
    
    AcceptsEnd
CHECK_DEADLOCK FALSE
