SPECIFICATION Spec
CONSTANTS
    Options = {o1, o2}
    None = None
    MaxActs = 3
    Faults = {}
SYMMETRY Symmetry
INVARIANT TypeOK
PROPERTIES NothingLeftOpen QuietEnds ImplementsOutputs
