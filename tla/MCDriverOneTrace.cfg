SPECIFICATION Spec
CONSTANTS
    MAX_HEAP = 120
    CHUNKSIZE = 32
    Ids = {0, 1}
    Sizes = {8, 24}
    MaxEvals = 1
INVARIANTS
    TypeOK
    EpilogueInArena
    WellFormedHeap
    OwnedBlocks
    DataKept
    RangesMirrorBlocks
    NoFalseAlarm
PROPERTIES
    FailsOnlyWhenFull
CHECK_DEADLOCK FALSE
