SPECIFICATION FairSpec
CONSTANTS
    Pids = {p1, p2}
    MaxNumber = 3
    None = None
    NoFile = NoFile
    Faults = {}
PROPERTY Opened
