SPECIFICATION Spec
CONSTANTS
    MAX_HEAP = 88
    CHUNKSIZE = 32
    Ids = {127, 128}
    Sizes = {8, 24}
    MaxEvals = 1
INVARIANT
    LossIsReal
CHECK_DEADLOCK FALSE
