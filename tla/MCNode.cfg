SPECIFICATION NodeSpec

CONSTANTS
    ServiceCount = 2
    CardCount = 1
    HasDeck = TRUE
    MAX_CORE_SERVICES = 3
    HasPeer = TRUE
    MAX_INCARNATIONS = 2

INVARIANTS
    ReturnLeavesNothing
    ProbeSawReady
