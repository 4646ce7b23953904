\* Three calls of every kind, and two statements that fail.
SPECIFICATION Spec
CONSTANTS
    n1 = n1
    Request = {1, 2, 3}
    Offered = {"add_webhook", "add_connection", "update_webhook", "delete_webhook", "update_connection", "delete_connection", "prompt", "dataset", "evaluate", "read_trail"}
    Name = {n1}
    Cap = 1
    AuditRequired = TRUE
    Size = 2
    PageLimit = 1
    LastMoment = 1
    MaxFaults = 2
INVARIANTS CapOverrunByRivals  VersionsContiguous RunMissesForCause TrailReadComplete
\* every call may be over
CHECK_DEADLOCK FALSE
