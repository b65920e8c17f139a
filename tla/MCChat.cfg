SPECIFICATION ChatFairSpec

CONSTANTS
    SessionIds = {s1}
    Session = s1
    TurnIds = {t1, t2}
    Inputs = {i1}
    Contents = {c1}
    MAX_CALLS = 4
    MAX_UI_MESSAGES = 3

INVARIANTS
    ToldAsSealed
    NoTurnAbandoned

PROPERTIES
    QuitExits

\* The program exits.
CHECK_DEADLOCK FALSE
