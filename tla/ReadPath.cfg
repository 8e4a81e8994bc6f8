SPECIFICATION Spec
CONSTANTS
    HashBits = 12
    RotateBits = 7
    Text <- MCText
    Fingerprint <- MCFingerprint
    BlockSize = 48
    Cases <- MCCases
    MaxWrites = 1
INVARIANTS
    TypeOK
    ScanExact
    ScanInBounds
    GetExact
    MergeOrdered
    TablesSound
PROPERTY MovesForward
