CONSTANTS
    NoClient = NoClient
    NoEmail = NoEmail
    Clients = {c1, c2}
    MaxFound = 2
    Emails = {e1, e2}
    EmailOf <- MCEmailOf
    ProductLists <- MCProductLists
    HostAllowed <- MCHostAllowed
    HostMappings <- MCHostMappings
    SentIDs <- MCSentIDs
    SentMappings <- MCSentMappings
    Paths <- MCPaths
    Mount <- MCMount
    c1 = c1
    c2 = c2
    e1 = e1
    e2 = e2
SPECIFICATION Spec
INVARIANTS
    OpenOnlyWhenEmpty
