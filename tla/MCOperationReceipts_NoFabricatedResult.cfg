CONSTANTS
    a = a
    b = b
    c = c
    Ops <- MCOps
    JournalLimit = 1
    MaxRevision = 3
    NoOp = NoOp
SPECIFICATION Spec
INVARIANT NoFabricatedResult
SYMMETRY MCSymmetry
