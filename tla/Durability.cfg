SPECIFICATION Spec
CONSTANTS
    Settings <- AllSettings
    Trigger = 1
    MemtableLimit = 2
    UserFlush = TRUE
    MaxBatches = 3
    MaxId = 5
INVARIANTS
    TypeOK
    RecoverySucceeds
    SyncedRecovered
    SyncPersists
    NothingLost
    ManifestMatches
    LatestFirst
    CompactedFilesDurable
PROPERTY ImplementsDurableLog
