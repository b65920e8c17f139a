SPECIFICATION FairSpec

CONSTANTS
    ServiceCount = 2
    CardCount = 3
    HasDeck = TRUE
    MAX_CORE_SERVICES = 3

INVARIANTS
    DependentsFirst
    NothingLeftBehind
    FailuresReported

PROPERTIES
    CallsReturn

\* A host that has stopped is not started again.
CHECK_DEADLOCK FALSE
