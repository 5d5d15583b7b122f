CONSTANTS
    o1 = o1
    o2 = o2
    o3 = o3
    w1 = w1
    w2 = w2
    Conns <- MCConns
    Owners <- MCOwners
    Writes <- MCWrites
    HoldLimit = 2
    MaxRevision = 1
    NoOwner = NoOwner
    NoIntent = NoIntent
SPECIFICATION Spec
INVARIANTS
    NewestControlOnly
PROPERTIES
    ConsentBeforeExternalWrite
    EditorLeavesOnlyExplicitly
SYMMETRY MCSymmetry
