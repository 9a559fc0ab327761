CONSTANTS
    None = None
    MaxCommits = 1
    MaxRotations = 1
    InOrder = FALSE
    Faults = {"power"}
SPECIFICATION Spec
CHECK_DEADLOCK FALSE
INVARIANTS
    HeadSelectsComplete
