CONSTANTS
    Requests = {x1, x2}
    NoRequest = NoRequest
    TTL = 2
    HttpTimeout = 1
    MaxCatalog = 1
    MaxClock = 3
SPECIFICATION Spec
INVARIANT LastGoodListShown
