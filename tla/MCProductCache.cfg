CONSTANTS
    Requests = {x1, x2}
    NoRequest = NoRequest
    TTL = 1
    HttpTimeout = 1
    MaxCatalog = 2
    MaxClock = 3
SPECIFICATION FairSpec
INVARIANTS
    TypeOK
    OneFetchForGets
    StampHonest
    ListAgeBounded
    FailureVisible
PROPERTY EveryRequestAnswered
