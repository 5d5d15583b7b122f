CONSTANTS
    v = v
    w = w
    Contents <- MCContents
    MaxJobs = 2
    MaxRevision = 1
    MaxSupport = 1
    None = None
    Failed = Failed
SPECIFICATION Spec
INVARIANTS
    ReadyPagesAreTheirOwn
    ReadinessIsNotStale
PROPERTIES
    JobsOnlyMoveOn
    EveryJobIsSettled
CHECK_DEADLOCK FALSE
