CONSTANTS
    a = a
    b = b
    c = c
    Ops <- MCOps
    JournalLimit = 1
    MaxRevision = 3
    NoOp = NoOp
SPECIFICATION Spec
INVARIANTS
    AtMostOnce
    SettledTruthfully
    ServedStateIsDurable
    GateMatchesDisk
PROPERTIES
    KeepsTheLedger
SYMMETRY MCSymmetry
