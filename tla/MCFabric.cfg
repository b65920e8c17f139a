SPECIFICATION FairSpec

CONSTANTS
    Queries = {q1, q2}
    Requests = {r1}
    BindingCount = 2
    INGRESS_CAPACITY = 1
    MAX_IN_FLIGHT_REQUESTS = 1
    MAX_QUERY_BINDINGS = 2

INVARIANTS
    FailedStartServesNobody
    StopOutlastsHandlers
    CleanStopIsQuiet
    LostOnlyByForce

PROPERTIES
    StopEndsQueries
    QueriesEnd

\* A service that was dropped, or was stopped for good, rests.
CHECK_DEADLOCK FALSE
