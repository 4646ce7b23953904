SPECIFICATION Spec
CONSTANTS
    Run = {r1}
    Instance = {i1, i2}
    Request = {q1, q2, q3}
    Roles = 4
    Limits <- SomeLimits
    MaxCrashes = 1
    NULL = NULL
SYMMETRY CallSymmetry
INVARIANTS
    OutcomeExplained
    AnnouncedIsStored
PROPERTIES
    KeepsLifecycle
    CallsWindDown
CHECK_DEADLOCK FALSE
