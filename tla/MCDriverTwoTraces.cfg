SPECIFICATION Spec
CONSTANTS
    MAX_HEAP = 88
    CHUNKSIZE = 32
    Ids = {0, 1}
    Sizes = {8, 24, 40}
    MaxEvals = 2
PROPERTIES
    BlockSteps
    UsesRangeList
CHECK_DEADLOCK FALSE
