CONSTANTS
    c1 = c1
    c2 = c2
    p1 = p1
    p2 = p2
    Contents <- MCContents
    Original = c1
    HistoryLimit = 2
    PruneInterval = 2
    MaxRevision = 3
    None = None
    Plain <- MCPlain
    PreparedLimit = 1
    Collections <- MCCollections
    NoPaint = p1
    MaxPaint = 2
SPECIFICATION ChangeSetsSpec
INVARIANTS
    StoredFollowsSession
PROPERTIES
    ReopenIsFaithful
    KeepsItsPromise
    PreviewedIsCommitted
    StampIsCurrent
