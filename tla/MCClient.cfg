SPECIFICATION ClientFairSpec

CONSTANTS
    SessionIds = {s1}
    Session = s1
    TurnIds = {t1, t2}
    FirstUuid = t1
    Inputs = {i1}
    Contents = {c1}
    MAX_CALLS = 0
    MAX_FRAMES = 0

CONSTRAINT UuidsInOrder

INVARIANTS
    ShownIsSealed
    CleanExitSettles

PROPERTIES
    TurnsShown
    QuitExits

\* The application exits.
CHECK_DEADLOCK FALSE
