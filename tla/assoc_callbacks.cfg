SPECIFICATION CbSpec
CONSTANTS
    NULL = NULL
    LIST_POISON1 = LIST_POISON1
    LIST_POISON2 = LIST_POISON2
    Array = Array
    ListHead = ListHead
    Entry = {e1, e2, e3}
    Data = {d1, d2, d3}
    NumBuckets = 1
    MaxDepth = 2
    Key <- MCKey
    Hash <- MCHash
    Prefix = {}
SYMMETRY Symmetry
INVARIANTS
    NestedHeapExact
    NestedStructures
