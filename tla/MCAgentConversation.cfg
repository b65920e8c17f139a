SPECIFICATION ConversationSpec

CONSTANTS
    SessionIds = {s1}
    Session = s1
    TurnIds = {t1, t2}
    Inputs = {i1, i2}
    Contents = {c1}
    MAX_CALLS = 3

SYMMETRY RetrySymmetry

INVARIANTS
    OutcomesAgree
    PromiseKept
    ServedIsRunning

\* The client stops calling at MAX_CALLS.
CHECK_DEADLOCK FALSE
