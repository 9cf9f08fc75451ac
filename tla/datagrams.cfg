SPECIFICATION Spec
CONSTANTS
    d1 = d1
    d2 = d2
    d3 = d3
    d4 = d4
    d5 = d5
    w1 = w1
    w2 = w2
    NoDatagram = NoDatagram
    Sent <- MCSent
    Format <- MCFormat
    Workers = {w1, w2}
    Modulus = 32
    Half = 4
    ExclusiveOr <- MCXor
    HashOffsets <- MCOffsets
    SocketCount = 2
    BatchSize = 2
    QueueSize = 1
    HeaderSize = 2
    RecordSize = 4
    LegacySize = 3
    SmallSize = 6
    LargeSize = 10
    MaxBuffers = 4
    MaxWords = 2
    FirstRead = 5
SYMMETRY Symmetry
INVARIANTS
    TypeOK
    SelectorMirrors
    BuffersOwnedOnce
    RowsOfOneDatagram
    RowsComplete
CHECK_DEADLOCK FALSE
