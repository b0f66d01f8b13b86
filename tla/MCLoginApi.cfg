CONSTANTS
    Rpcs = {r1}
    Servers = {s1, s2}
    Clients = {c1}
    Emails = {e1}
    ProductLists <- MCTwoLists
    Configs <- MCTwoServers
    Appliers = {o1}
    NoServer = NoServer
    NoClient = NoClient
    NoEmail = NoEmail
    MaxStale = 1
    s1 = s1
    s2 = s2
    c1 = c1
    c2 = c2
    e1 = e1
    p1 = p1
    p2 = p2
SPECIFICATION Spec
INVARIANTS
    ApiForOwnConfig
