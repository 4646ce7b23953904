\* Two delivery threads on one PostgreSQL queue whose pass may outlast its lease:
\* both work on one row and settle it over each other, neither checking that it is still its own.
SPECIFICATION Spec
CONSTANTS
    Subscription = {s1}
    Occurrence = {o1}
    Worker = {w1, w2}
    Mortal = {}
    BatchSize = 1
    MaxAttempts = 2
    Backoff = 1
    MaxAttemptDelay = 2
    Lease = 2
    Retention = 1
    PruneInterval = 9
    AttemptTicks = 2
    Skew = 0
    Horizon = 4
    NULL = NULL
INVARIANTS
    AttemptsWithinSchedule
    AbandonedForCause
SYMMETRY WorkerSymmetry
