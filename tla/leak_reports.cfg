SPECIFICATION Spec
CONSTANTS
    NULL = NULL
    LIST_POISON1 = LIST_POISON1
    LIST_POISON2 = LIST_POISON2
    StaticHead = StaticHead
    Node = {n1, n2, n3, n4}
    Block = {b1, b2, b3}
SYMMETRY Symmetry
CHECK_DEADLOCK FALSE
INVARIANTS
    ReportsEveryLeak
