CONSTANTS
    Callers = {c1, c2}
    Keys = {k1}
    Values = {v1}
    None = None
    NoCaller = NoCaller
    NegativeTTL = 2
    RetryMaxAttempts = 3
    HttpTimeout = 1
SPECIFICATION FairSpec
INVARIANTS
    TypeOK
    OneUpstreamCallPerKey
    WaitersHaveLeader
    NoCallWhileNegative
    FlightFresh
    NegativeStalenessBounded
    BlipTolerance
PROPERTIES
    ImplementsLookup
    EveryLookupReturns
