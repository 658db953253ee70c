SPECIFICATION Spec
CONSTANTS
    MAX_HEAP = 24
    Requests = {1, 8, 9, 24}
INVARIANTS
    UniqueLo
    NestedOrApart
    InHeap
