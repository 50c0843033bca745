SPECIFICATION Spec
CONSTANTS
    Input <- MCInput
CHECK_DEADLOCK FALSE
INVARIANTS
    OnlyTheseBytesChooseTheBucket
    ShortcutsAreTheFormulas
    LogsAgree
    EveryByteCounts
