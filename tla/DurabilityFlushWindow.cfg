SPECIFICATION Spec
CONSTANTS
    Settings <- FlushWindow
    Trigger = 1
    MemtableLimit = 2
    UserFlush = TRUE
    MaxBatches = 3
    MaxId = 5
INVARIANT SyncedRecovered
CHECK_DEADLOCK FALSE
