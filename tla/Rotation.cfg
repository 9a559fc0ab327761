CONSTANTS
    None = None
    MaxCommits = 2
    MaxRotations = 2
    InOrder = TRUE
    Faults = {"io", "crash", "power"}
SPECIFICATION Spec
CHECK_DEADLOCK FALSE
INVARIANTS
    HeadSelectsComplete
    NeverInItsOwnWay
    ReportHolds
    RetiredIsGone
