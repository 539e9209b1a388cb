SPECIFICATION Spec
CONSTANTS
    Pids = {p1, p2, p3}
    MaxNumber = 3
    None = None
    NoFile = NoFile
    Faults = {}
SYMMETRY Symmetry
INVARIANTS TypeOK AllInFile NumbersDiffer RequestThere
PROPERTIES FindsLatest ImplementsRegistry
