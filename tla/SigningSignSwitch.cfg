\* A message and a network switch of one site, two accounts; storage and the network answer.
SPECIFICATION FairSpec
CONSTANTS
    r1 = r1
    r2 = r2
    site = site
    a1 = a1
    a2 = a2
    c1 = c1
    c2 = c2
    Requests = {r1, r2}
    Kind <- MCSignSwitch
    Origins = {site}
    OriginOf <- MCOrigin
    Accounts = {a1, a2}
    Chains = {c1, c2}
    TargetOf <- MCTarget
    InitSelection <- MCSelection
    InitGranted <- MCConnected
    MaxRevision = 1
    None = None
INVARIANTS
    SignsWhatWasShown
PROPERTIES
    ExecutionEnds
\* Every request is used once and the context changes boundedly often.
CHECK_DEADLOCK FALSE
