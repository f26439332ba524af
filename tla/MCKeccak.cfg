SPECIFICATION Spec
CONSTANTS
    Words <- MCWords
    Sizes <- MCSizes
INVARIANT ComputesKeccak
CHECK_DEADLOCK FALSE
