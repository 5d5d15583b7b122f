CONSTANTS
    o1 = o1
    o2 = o2
    w1 = w1
    w2 = w2
    Conns <- MCConns
    Owners <- MCOwners
    Writes <- MCWrites
    HoldLimit = 2
    MaxRevision = 1
    NoOwner = NoOwner
    NoIntent = NoIntent
    Assistant = 4
    FirstNative <- MCFirstNative
    FirstControl <- MCFirstControl
    HostLife = 1
    EditorWait = 2
    Unsteady <- MCUnsteady
SPECIFICATION ConnectedFairSpec
CHECK_DEADLOCK FALSE
INVARIANTS
    NoExternalWriteIsMissed
PROPERTIES
    WrittenWhileInputIsHeld
    EveryFreezeEnds
