CONSTANTS
    Configurers = {a1, a2}
    Patchers = {b}
    Pools = {q1, q2, q3, q4}
    GateValues = {Unset, g1, raw}
    Canon <- MCCanon
    BadGate = BadGate
    Unset = Unset
    NoPool = NoPool
    NoConfig = NoConfig
    NoSecret = NoSecret
    HostConfigs <- MCHostConfigs
    MaxCrashes = 1
    g1 = g1
    raw = raw
    secret = secret
SYMMETRY OpSymmetry
SPECIFICATION Spec
INVARIANTS
    SecretsReachLive
