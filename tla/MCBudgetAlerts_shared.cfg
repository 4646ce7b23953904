\* Two processes that may die, one threshold, one change of the ceiling whose audit write may be
\* refused, one failed fan-out and the turn of a month: a spend of 4 crosses 80% of 5, not of 10.
SPECIFICATION Spec
CONSTANTS
    Process = {p1, p2}
    Slot = {a}
    Mortal = {p1, p2}
    Threshold = {80}
    Limit = {5, 10}
    SpendLevel = {0, 4}
    MaxQueued = 1
    AuditRequired = TRUE
    LastPeriod = 2
    MaxEdits = 1
    MaxFailures = 1
    NULL = NULL
INVARIANTS
    RepeatedOnlyForCause
    StrayClaimHasCause
SYMMETRY ProcessSymmetry
