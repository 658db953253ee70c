SPECIFICATION Spec
CONSTANTS
    MAX_HEAP = 120
    CHUNKSIZE = 32
    Ids = {0, 1}
    Sizes = {8, 24}
    MaxEvals = 1
INVARIANT
    NeverRefused
CHECK_DEADLOCK FALSE
