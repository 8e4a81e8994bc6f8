SPECIFICATION FairSpec
CONSTANTS
    k1 = k1
    Key = {k1}
    Value = {v1}
    Empty = Empty
    NoWrite = NoWrite
    NotRead = NotRead
    c1 = c1
    c2 = c2
    Client = {c1, c2}
    NoClient = NoClient
    HashVal = {k1}
    Hash <- HashToOne
    Serializable = TRUE
    MemtableLimit = 1
    MaxTs = 2
    MaxBatch = 2
    MaxTables = 0
    MaxWriteErrors = 1

PROPERTIES
    CommitReturns
