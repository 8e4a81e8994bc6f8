SPECIFICATION FairSpec
CONSTANTS
    c1 = c1
    c2 = c2
    Client = {c1, c2}
    Flusher = Flusher
    Compactor = Compactor
    Nobody = Nobody
    MaxKey = 2
    Settings <- AllSettings
    TableLimit = 1
    MemLimit = 1
    Trigger = 1
    MaxLevels = 2
    MaxBatch = 2
    Ranges <- SomeRanges
INVARIANTS
    TypeOK
    ContentPreserved
    ReadsInWindow
    OpenSucceeds
    RestartKeepsReturned
    PanicsExplained
PROPERTIES
    FrozenUnchanged
    CallsReturn
CHECK_DEADLOCK FALSE
