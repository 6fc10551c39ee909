\* As DappBridge, for an account of the other family.
SPECIFICATION Spec
CONSTANTS
    o1 = o1
    w1 = w1
    Tabs = {t1}
    Origins = {o1, o2}
    Wallets = {w1}
    Families = {"evm"}
    Signs = {s1}
    Connects = {k1}
    Links = {k1}
    Named <- MCNamed
    InitGranted <- MCGranted
    Approvals = {p1, p2}
    MaxOpens = 2
    MaxEvents = 1
    None = None
SYMMETRY ApprovalSymmetry
INVARIANTS
    DisconnectionsWork
\* Every request is made once and what interferes is bounded.
CHECK_DEADLOCK FALSE
