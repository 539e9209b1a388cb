SPECIFICATION Spec
CONSTANTS
    IfDepth = 3
    MaxScopes = 4
    CatchCalls = TRUE
    LoopReturns = FALSE
    Faults = {}
INVARIANTS TypeOK CallersIntact
PROPERTIES OneBranch ImplementsPrivateBlocks
