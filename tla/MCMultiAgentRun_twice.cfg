SPECIFICATION Spec
CONSTANTS
    Run = {r1}
    Instance = {i1}
    Request = {q1, q2, q3, q4}
    Roles = 4
    Limits <- SomeLimits
    MaxCrashes = 0
    NULL = NULL
SYMMETRY RequestSymmetry
INVARIANT
    OneDecisionPerPause
CHECK_DEADLOCK FALSE
