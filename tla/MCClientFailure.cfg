SPECIFICATION ClientSpec

CONSTANTS
    SessionIds = {s1}
    Session = s1
    TurnIds = {t1}
    Inputs = {i1}
    Contents = {c1}
    MAX_CALLS = 0
    MAX_FRAMES = 0

INVARIANTS
    FailureIsTheAdapters

\* The application exits.
CHECK_DEADLOCK FALSE
