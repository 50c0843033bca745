SPECIFICATION FairSpec
CONSTANTS
    NULL = NULL
    LIST_POISON1 = LIST_POISON1
    LIST_POISON2 = LIST_POISON2
    Array = Array
    ListHead = ListHead
    Entry = {e1, e2}
    Data = {d1, d2}
    NumBuckets = 2
    Key <- MCKey
    Hash <- MCHash
    Prefix <- MCPrefix
PROPERTIES
    CallReturns
