\* Two requests over two ports of one site, all events of the queue; promises settle
\* and timers fire, the user and the pages need do nothing.
SPECIFICATION FairSpec
CONSTANTS
    r1 = r1
    r2 = r2
    r3 = r3
    r4 = r4
    p1 = p1
    p2 = p2
    site = site
    Requests = {r1, r2}
    Ids = {1, 2}
    IdOf <- MCTwoIdOf
    Ports = {p1, p2}
    PortOf <- MCTwoPortOf
    Origins = {site}
    OriginOf <- MCTwoPorts
    MaxPending = 20
    MaxPendingPerOrigin = 3
    MaxRevision = 1
    NoRequest = NoRequest
INVARIANTS
    TypeOK
    NeverDeclinedAndExecuted
    NoOrphanPopup
    BadgeAgreesWhenIdle
PROPERTIES
    DecidedOnce
    EveryRequestAnswered
\* Every request is used once, so the system stops when all are over.
CHECK_DEADLOCK FALSE
