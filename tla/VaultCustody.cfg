\* A vault of the old format, or none; one unlocking window; the worker dies once; two
\* wallets; storage may fail now and then.
SPECIFICATION FairSpec
CONSTANTS
    popup = popup
    approval = approval
    e1 = e1
    e2 = e2
    e3 = e3
    Edits = {e1, e2}
    Unlockers = {popup}
    Legacy = TRUE
    MaxRevision = 1
    MaxCrashes = 1
    None = None
INVARIANTS
    WalletsDurable
    SigningIsProtected
PROPERTIES
    LockStands
    CleanupCompletes
CHECK_DEADLOCK FALSE
