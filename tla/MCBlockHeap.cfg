SPECIFICATION Spec
CONSTANTS
    MAX_HEAP = 144
    CHUNKSIZE = 32
    Requests = {8, 24, 33, 40}
INVARIANTS TypeOK Aligned Tiled Disjoint Coalesced PayloadFits PayloadsApart
PROPERTIES KeepsPromise

