SPECIFICATION FairSpec

CONSTANTS
    SessionIds = {s1}
    TurnIds = {t1, t2, t3}
    Inputs = {i1}
    Contents = {c1}
    Cards = {card}
    Tasks = {k1, k2}
    MAX_SESSIONS = 1
    MAX_RETAINED_TURNS = 2
    MAX_CONTEXT = 4
    PROMPT_BYTES = 1
    Bytes <- Sizes
    Long = {}
    Oversized = {}
    ProviderResults <- OnlyReplies
    NoTurn = NoTurn
    NoProfile = NoProfile

PROPERTIES
    TurnsEnd
    StopsReturn

\* The service may be dropped for good.
CHECK_DEADLOCK FALSE
