SPECIFICATION Spec
CONSTANTS
    Host = {h1, h2}
    Operation = {o1, o2, o3}
    None = None
    HistoryLimit = 2
    Retained = 1
    MaxSends = 3
    MaxLag = 0
    MaxCrashes = 1
SYMMETRY Symmetry
INVARIANTS
    NoChangeIsLost
    AnswersAreTrue
    ManifestAlwaysOpens
CHECK_DEADLOCK FALSE
