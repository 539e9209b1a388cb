SPECIFICATION Spec
CONSTANTS
    MaxObs = 3
    NA = NA
    NoSeries = NoSeries
    MaxDepth = 1
    Faults = {"relinked"}

PROPERTY RestoresOnExit
