\* A transaction and a connection request of one site, with the UI acting.
SPECIFICATION Spec
CONSTANTS
    r1 = r1
    r2 = r2
    site = site
    a1 = a1
    a2 = a2
    c1 = c1
    c2 = c2
    Requests = {r1, r2}
    Kind <- MCSendConnect
    Origins = {site}
    OriginOf <- MCOrigin
    Accounts = {a1, a2}
    Chains = {c1, c2}
    TargetOf <- MCTarget
    InitSelection <- MCSelection
    InitGranted <- MCConnected
    MaxRevision = 2
    None = None
INVARIANTS
    RevocationStands
PROPERTIES
    StaleWorkIsCancelled
    SignsUnderPermission
    ResultMeansGranted
\* Every request is used once and the context changes boundedly often.
CHECK_DEADLOCK FALSE
