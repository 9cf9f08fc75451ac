SPECIFICATION FairSpec
CONSTANTS
    p1 = p1
    p2 = p2
    p3 = p3
    p4 = p4
    t1 = t1
    t2 = t2
    NoPacket = NoPacket
    NoBatch = NoBatch
    Packets = {p1}
    Tables = {t1}
    Records <- OneDay
    EmptyDatagrams = {}
    NumReceivers = 1
    SharedSocket = FALSE
    UdpBatchSize = 1
    PacketChannelSize = 1
    PacketWorkers = 1
    MaxPacketWorkers = 1
    InsertBatchRows = 2
    InsertBatchChanSize = 1
    InsertWorkers = 2
    MaxInsertWorkers = 2
    InsertMaxRetries = 2
    RawOnly = TRUE
    QueueHighWatermarkPct = 80
    TimedSend = TRUE
    AutoTuneEnabled = FALSE
    AutoTuneHighPct = 70
    AutoTuneCriticalPct = 90
    ParseOnly = FALSE
INVARIANTS
    RowBalance
    FailureBalance
    TablesCreatedOnce
PROPERTIES
    ContractSpec
    AcceptedRowsSettle
    StopDrains
