SPECIFICATION MainSpec
CONSTANTS
    NULL = NULL
    LIST_POISON1 = LIST_POISON1
    LIST_POISON2 = LIST_POISON2
    Array = Array
    ListHead = ListHead
    Entry = {e1, e2, e3}
    Data = {d1, d2, d3, d4}
    NumBuckets = 1
    Key <- MCKey
    Hash <- MCHash
    Prefix = {}
    CommandLine <- MCCommandLine
SYMMETRY Symmetry
CHECK_DEADLOCK FALSE
INVARIANTS
    UniqueKeys
    KeysLiveInNodes
    CleanWithoutFailures
