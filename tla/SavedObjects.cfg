SPECIFICATION Spec
CONSTANTS
    Obj = {o1, o2, o3, o4, o5}
    Name = {n1, n2}
    MaxDepth = 2
    MaxLoops = 2
    MaxRecords = 1
    Faults = {}
SYMMETRY Symmetry
INVARIANTS TypeOK NoDangling CountsExact NoneLost NamesDesignate ProtectionEnds
PROPERTY CallerKeepsLast
