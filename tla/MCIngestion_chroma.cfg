\* Four calls of two organisations with the same bytes over Chroma, two failing store
\* calls and a restart.
SPECIFICATION Spec
CONSTANTS
    o1 = o1
    o2 = o2
    x = x
    y = y
    NULL = NULL
    Request = {q1, q2, q3, q4}
    Org = {o1, o2}
    Content = {x}
    Size <- MCSize
    K = 1
    VectorStore = "chroma"
    MaxFaults = 2
    MaxRestarts = 1
SYMMETRY CallSymmetry
INVARIANTS ListedIsSearchable OrphansForCause NothingFoundForCause AnswersStayHome
\* every call may be over
CHECK_DEADLOCK FALSE
