SPECIFICATION StdioFairSpec

CONSTANTS
    SessionIds = {s1}
    Session = s1
    TurnIds = {t1, t2}
    Inputs = {i1}
    Contents = {c1}
    MAX_CALLS = 0
    MAX_FRAMES = 3

INVARIANTS
    OneOutcome
    TerminalIsSealed
    NoTurnLeftRunning

PROPERTIES
    TurnsSettled

\* The adapter exits.
CHECK_DEADLOCK FALSE
