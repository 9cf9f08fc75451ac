SPECIFICATION FairSpec
CONSTANTS
    p1 = p1
    p2 = p2
    p3 = p3
    p4 = p4
    t1 = t1
    t2 = t2
    NoPacket = NoPacket
    NoBatch = NoBatch
    Packets = {p1, p2, p3, p4}
    Tables = {t1, t2}
    Records <- MixedTraffic
    EmptyDatagrams = {p4}
    NumReceivers = 2
    SharedSocket = TRUE
    UdpBatchSize = 2
    PacketChannelSize = 1
    PacketWorkers = 1
    MaxPacketWorkers = 2
    InsertBatchRows = 2
    InsertBatchChanSize = 1
    InsertWorkers = 1
    MaxInsertWorkers = 1
    InsertMaxRetries = 2
    RawOnly = FALSE
    QueueHighWatermarkPct = 80
    TimedSend = FALSE
    AutoTuneEnabled = TRUE
    AutoTuneHighPct = 70
    AutoTuneCriticalPct = 90
    ParseOnly = TRUE
INVARIANTS
    PacketBalance
PROPERTIES
    StopDrains
