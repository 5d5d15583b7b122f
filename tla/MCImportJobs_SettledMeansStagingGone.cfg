CONSTANTS
    c1 = c1
    c2 = c2
    Conns <- MCConns
    Checkpoints = 1
    MaxJobs = 2
    MaxRevision = 1
    NoJob = NoJob
SPECIFICATION Spec
INVARIANT SettledMeansStagingGone
CHECK_DEADLOCK FALSE
