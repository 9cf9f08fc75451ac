SPECIFICATION StalledSpec
CONSTANTS
    p1 = p1
    p2 = p2
    p3 = p3
    p4 = p4
    t1 = t1
    t2 = t2
    NoPacket = NoPacket
    NoBatch = NoBatch
    Packets = {p1, p2}
    Tables = {t1, t2}
    Records <- TwoDays
    EmptyDatagrams = {}
    NumReceivers = 1
    SharedSocket = FALSE
    UdpBatchSize = 1
    PacketChannelSize = 1
    PacketWorkers = 2
    MaxPacketWorkers = 2
    InsertBatchRows = 1
    InsertBatchChanSize = 1
    InsertWorkers = 1
    MaxInsertWorkers = 1
    InsertMaxRetries = 1
    RawOnly = TRUE
    QueueHighWatermarkPct = 80
    TimedSend = FALSE
    AutoTuneEnabled = FALSE
    AutoTuneHighPct = 70
    AutoTuneCriticalPct = 90
    ParseOnly = FALSE
PROPERTIES
    OverloadKeepsCapturing
