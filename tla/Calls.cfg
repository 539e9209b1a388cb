SPECIFICATION Spec
CONSTANTS
    Names = {"m", "n", "s"}
    Series = {"s"}
    Funs = {"f", "g", "h"}
    Params <- MCParams
    None = None
    MaxVars = 4
    MaxDepth = 2
    Faults = {}
INVARIANTS TypeOK OneOfEachName
PROPERTIES ImplementsScopes
