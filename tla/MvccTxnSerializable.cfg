SPECIFICATION Spec
CONSTANTS
    k1 = k1
    k2 = k2
    Key = {k1, k2}
    Value = {v1}
    Empty = Empty
    NoWrite = NoWrite
    NotRead = NotRead
    c1 = c1
    c2 = c2
    Client = {c1, c2}
    NoClient = NoClient
    HashVal = {k1, k2}
    Hash <- HashById
    Serializable = TRUE
    MemtableLimit = 1
    MaxTs = 3
    MaxBatch = 1
    MaxTables = 0
    MaxWriteErrors = 0
SYMMETRY Symmetry
INVARIANTS
    Serializability
    ValidationComplete
