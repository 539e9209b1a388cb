SPECIFICATION Spec
CONSTANTS
    MaxObs = 3
    NA = NA
    NoSeries = NoSeries
    MaxDepth = 2
    Faults = {}
INVARIANTS TypeOK WithinCallers Cumulates ModelSameRows
PROPERTIES RestoresOnExit ImplementsSample
