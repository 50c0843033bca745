SPECIFICATION Spec
CONSTANTS
    NULL = NULL
    LIST_POISON1 = LIST_POISON1
    LIST_POISON2 = LIST_POISON2
    Deq = Deq
    ListHead = ListHead
    Entry = {e1, e2, e3}
    Data = {d1, d2}
    Garbage <- Cleared
SYMMETRY Symmetry
CHECK_DEADLOCK FALSE
INVARIANTS
    RingBothWays
    SizeExact
    HeapExact
PROPERTIES
    ImplementsDequeSpec
