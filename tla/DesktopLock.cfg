\* Three commands, two locks, two wallets; neither the backend nor the commands owe
\* anything.
SPECIFICATION FairSpec
CONSTANTS
    password = password
    touch = touch
    sign = sign
    Requests = {password, touch, sign}
    Kind <- MCKind
    Wallets = {1, 2}
    MaxEpoch = 2
    None = None
INVARIANTS
    LockedMeansLocked
    NoWorkOutlivesLock
PROPERTIES
    LockEnds
    NoneStaysQueued
\* Every command is used once and the locks are bounded.
CHECK_DEADLOCK FALSE
