SPECIFICATION Spec
CONSTANTS
    NULL = NULL
    LIST_POISON1 = LIST_POISON1
    LIST_POISON2 = LIST_POISON2
    Node = {n1, n2, n3, n4}
    RingHead = {r1, r2}
    Bucket <- MCBucket
SYMMETRY Symmetry
INVARIANTS
    RingsHoldTheirSequences
    ChainsHoldTheirSequences
    SafeLoopMeetsTheRest
    CarefulMeansDone
