SPECIFICATION Spec
CONSTANTS
    MAX_HEAP = 144
    CHUNKSIZE = 32
    Ids = {0, 1}
    Sizes = {8, 24, 40, 48}
    MaxEvals = 1
INVARIANT
    NoOverlap
CHECK_DEADLOCK FALSE
