SPECIFICATION Spec
CONSTANTS
    k1 = k1
    k2 = k2
    Key = {k1, k2}
    Value = {v1}
    Empty = Empty
    NoWrite = NoWrite
    NotRead = NotRead
    c1 = c1
    c2 = c2
    Client = {c1, c2}
    NoClient = NoClient
    HashVal = {k1, k2}
    Hash <- HashById
    Serializable = FALSE
    MemtableLimit = 2
    MaxTs = 2
    MaxBatch = 2
    MaxTables = 0
    MaxWriteErrors = 1

INVARIANT OnlyCommittedVisible
