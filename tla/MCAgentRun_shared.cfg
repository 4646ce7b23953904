SPECIFICATION Spec
CONSTANTS
    q1 = q1
    q2 = q2
    o1 = o1
    o2 = o2
    c1 = c1
    NULL = NULL
    Request <- MCRequest
    Org <- MCOrg
    Conversation <- MCConversation
    Configured <- MCConfigured
    DefaultLimit = 2
    MaxLimit = 2
INVARIANTS OneTerminalFrame AnswerIsStored OutcomeMatchesTrace
PROPERTIES KeepsConversations RunEnds
\* every call may be over
CHECK_DEADLOCK FALSE
