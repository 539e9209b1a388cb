SPECIFICATION Spec
CONSTANTS
    MaxLoops = 3
    MaxCmds = 2
    MaxReaders = 3
    Faults = {}
INVARIANTS TypeOK NoneLost StateOfReader LoopingExact RenamingHolds
PROPERTY ImplementsBodies
