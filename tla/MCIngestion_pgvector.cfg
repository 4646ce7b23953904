\* One upload in the production profile, with stores that do not fail.
SPECIFICATION Spec
CONSTANTS
    o1 = o1
    o2 = o2
    x = x
    y = y
    NULL = NULL
    Request = {q1}
    Org = {o1, o2}
    Content = {x}
    Size <- MCSize
    K = 1
    VectorStore = "pgvector"
    MaxFaults = 0
    MaxRestarts = 0
SYMMETRY CallSymmetry
INVARIANT UploadFailsForCause
\* every call may be over
CHECK_DEADLOCK FALSE
