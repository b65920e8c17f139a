SPECIFICATION Spec

CONSTANTS
    SessionIds = {s1}
    TurnIds = {t1, t2, t3, t4}
    Inputs = {i1, i2}
    Contents = {c1, c2, c3}
    Cards = {card}
    Tasks = {k1, k2}
    MAX_SESSIONS = 1
    MAX_RETAINED_TURNS = 3
    MAX_CONTEXT = 7
    PROMPT_BYTES = 1
    Bytes <- Sizes
    Long = {c1}
    Oversized = {c3}
    ProviderResults <- ReplyOrFail
    NoTurn = NoTurn
    NoProfile = NoProfile

SYMMETRY ClientSymmetry

VIEW WithoutAnswers

INVARIANTS
    TypeOK
    LedgerBounded
    UnownedTurnCancelled
    StoppedIsDrained
    ContextIsHistory

\* The service may be dropped for good.
CHECK_DEADLOCK FALSE
