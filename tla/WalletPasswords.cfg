\* A password change, another request and a verification, over two wallets and two passwords.
SPECIFICATION Spec
CONSTANTS
    None = None
    c1 = c1
    c2 = c2
    c3 = c3
    Calls = {c1, c2, c3}
    OpsOf <- MCOps
    Wallets = {w1, w2}
    Passwords = {p1, p2}
    FreeFailures = 1
    Permits = 2
    MaxGone = 1
SYMMETRY MCSymmetry
INVARIANTS
    NoRewriteLost
    FailedRewritesNothing
    PasswordChangeStands
    UnlockAllOrNothing
    AttemptsAreSerial
CHECK_DEADLOCK FALSE
