\* A password change, a renaming and a call with the old password.
SPECIFICATION Spec
CONSTANTS
    None = None
    c1 = c1
    c2 = c2
    c3 = c3
    Calls = {c1, c2, c3}
    OpsOf <- MCRenameOps
    Wallets = {w1, w2}
    Passwords = {p1, p2}
    FreeFailures = 3
    Permits = 2
    MaxGone = 0
SYMMETRY MCSymmetry
INVARIANTS
    OldPasswordIsDead
CHECK_DEADLOCK FALSE
