SPECIFICATION Spec
CONSTANTS
    IfDepth = 2
    MaxScopes = 5
    CatchCalls = FALSE
    LoopReturns = TRUE
    Faults = {}
INVARIANTS ReturnPending
PROPERTY ImplementsPrivateBlocks
