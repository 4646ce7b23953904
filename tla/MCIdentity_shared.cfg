SPECIFICATION Spec
CONSTANTS
    User = {1, 2}
    Org = {o1, o2}
    Team = {t1}
    Key = {k1}
    Role = {"owner", "member"}
    Request = {q1, q2}
    Offered <- AllOps
    Rosters <- SomeRosters
    AuditRequired = TRUE
    NULL = NULL
SYMMETRY IdSymmetry
INVARIANTS
    OwnedWhereInhabited
    LockersNeverStuck
    TrailMatchesChanges
PROPERTIES
    KeepsStore
CHECK_DEADLOCK FALSE
