CONSTANTS
    j1 = j1
    j2 = j2
    Jobs <- MCJobs
    Original = Original
    Foreign = Foreign
    MaxFaults = 1
    None = None
SPECIFICATION FairSpec
INVARIANTS
    CommittedTruthfully
    ReplacedAsAuthorized
    TakenIsPutBack
    CancelledInTimeNeverPublishes
PROPERTIES
    ArtifactsAreKept
    OutcomeIsFinal
    EveryJobHasAnOutcome
CHECK_DEADLOCK FALSE
