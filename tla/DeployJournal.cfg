\* Recovery from crashes, lost transactions, lagging reads and forks of one deployment.
SPECIFICATION FairSpec
CONSTANTS
    None = None
    Artifacts = {a1}
    NumChunks = 3
    MaxTx = 9
    MaxFaults = 4
    Forks = TRUE
INVARIANTS
    TypeOK
    OneLivePerPurpose
    EvidenceIsTrue
    JournalLoads
    ProgressIsReal
    DeploysWholeBuffer
PROPERTIES
    DeployEnds
CHECK_DEADLOCK FALSE
