SPECIFICATION UnitySpec
CONSTANTS
    Unit = 2
    Precision = 4
    Suites <- MCSuites
    Program <- MCProgram
    Outcome <- MacroOutcome
    Blocks <- MCBlocks
    PtrVars <- MCPtrVars
    PtrInit <- MCPtrInit
    UNITY_MAX_POINTERS = 2
CHECK_DEADLOCK FALSE
INVARIANTS
    AssertionsDecide
    OneVerdictPerTest
    PointersRestored
    LeaksAreFound
