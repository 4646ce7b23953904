\* Two instances share one PostgreSQL queue and one may die at any step, also
\* holding a lease; the store may refuse any call. An attempt is shorter than its lease.
\* Horizon: a full schedule and a lease to expire. No symmetry: liveness.
SPECIFICATION FairSpec
CONSTANTS
    Subscription = {s1}
    Occurrence = {o1}
    Worker = {w1, w2}
    Mortal = {w2}
    BatchSize = 1
    MaxAttempts = 2
    Backoff = 1
    MaxAttemptDelay = 2
    Lease = 2
    Retention = 1
    PruneInterval = 2
    AttemptTicks = 1
    Skew = 0
    Horizon = 4
    NULL = NULL
INVARIANTS
    ExclusiveClaim
    DuplicateOnlyAfterLostSettle
PROPERTIES
    KeepsPromise
    DueIsAttempted
