\* A tab opened twice, one request of it to sign and a link that asks to connect; one lock,
\* navigation, closing or disconnection.
SPECIFICATION Spec
CONSTANTS
    o1 = o1
    w1 = w1
    Tabs = {t1}
    Origins = {o1, o2}
    Wallets = {w1}
    Families = {"solana"}
    Signs = {s1}
    Connects = {k1}
    Links = {k1}
    Named <- MCNamed
    InitGranted <- MCGranted
    Approvals = {p1, p2}
    MaxOpens = 2
    MaxEvents = 1
    None = None
SYMMETRY ApprovalSymmetry
INVARIANTS
    SignedOnce
    DisconnectStands
    PausedAtRest
PROPERTIES
    PauseStopsClaims
\* Every request is made once and what interferes is bounded.
CHECK_DEADLOCK FALSE
