SPECIFICATION Spec
CONSTANTS
    IfDepth = 3
    MaxScopes = 5
    CatchCalls = FALSE
    LoopReturns = TRUE
    Faults = {}
PROPERTY ReturnLeaves
