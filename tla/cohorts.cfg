SPECIFICATION Spec
CONSTANTS
    w1 = w1
    w2 = w2
    i1 = i1
    Workers = {w1, w2}
    Inserters = {i1}
    Retention = 4
    Window = 1
    Sla = 1
    Lookback = 1
    PacketRows = {1, 2}
    MaxLag = 4
    FirstEvaluation = 6
    MaxSecond = 6
    MaxRows = 2
SYMMETRY Symmetry
INVARIANTS
    TypeOK
    CountsExact
    SnapshotExact
    UnfinishedNotOverstated
    CohortsKeepRows
