SPECIFICATION Spec

CONSTANTS
    SessionIds = {s1, s2}
    TurnIds = {t1, t2}
    Inputs = {i1, i2}
    Contents = {c1}
    Cards = {card}
    Tasks = {k1}
    MAX_SESSIONS = 1
    MAX_RETAINED_TURNS = 2
    MAX_CONTEXT = 3
    PROMPT_BYTES = 1
    Bytes <- Sizes
    Long = {}
    Oversized = {}
    ProviderResults <- OnlyReplies
    NoTurn = NoTurn
    NoProfile = NoProfile

SYMMETRY ClientSymmetry

INVARIANTS
    ActiveTurnOwned

PROPERTIES
    ImplementsContract

\* The service may be dropped for good.
CHECK_DEADLOCK FALSE
