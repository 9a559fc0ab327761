CONSTANTS
    c1 = c1  c2 = c2  c3 = c3
    None = None
    Calls = {c1, c2, c3}
    Mode <- OneOfEach
    Faults = {"io", "crash", "power"}
SPECIFICATION Spec
CHECK_DEADLOCK FALSE
INVARIANTS
    HeadIsComplete
    LockIsOwned
    EstablishedSurvives
    ModeRespected
