\* A vault of the old format, and two windows that ask for its password.
SPECIFICATION Spec
CONSTANTS
    popup = popup
    approval = approval
    e1 = e1
    e2 = e2
    e3 = e3
    Edits = {e1, e2}
    Unlockers = {popup, approval}
    Legacy = TRUE
    MaxRevision = 1
    MaxCrashes = 0
    None = None
SYMMETRY EditSymmetry
INVARIANTS
    WalletsDurable
CHECK_DEADLOCK FALSE
