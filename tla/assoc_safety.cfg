SPECIFICATION Spec
CONSTANTS
    NULL = NULL
    LIST_POISON1 = LIST_POISON1
    LIST_POISON2 = LIST_POISON2
    Array = Array
    ListHead = ListHead
    Entry = {e1, e2, e3}
    Data = {d1, d2, d3}
    NumBuckets = 2
    Key <- MCKey
    Hash <- MCHash
    Prefix <- MCPrefix
SYMMETRY Symmetry
INVARIANTS
    TypeOK
    RingInOrder
    ChainsNewestFirst
    SizeExact
    HeapExact
    DataHeldOnce
    NothingLeft
    LookupMissesNothing
    IndInv
    MeasuresAgree
PROPERTIES
    RemovesOnlyTheOneAsked
    ImplementsAssocSpec
