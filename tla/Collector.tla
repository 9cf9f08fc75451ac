------------------------------ MODULE Collector ------------------------------
(***************************************************************************)
(* The live pipeline of the collector (main.go): UDP receivers read        *)
(* datagrams from the kernel and put them on packetChannel; packet workers *)
(* parse them into rows, build one pending batch per daily table and put   *)
(* full batches on insertBatches; insert workers write the batches to      *)
(* ClickHouse with retries and spool to disk the ones they cannot insert.  *)
(* autoTuneSupervisor starts more workers under load, and main drains the  *)
(* stages in order once a signal closes the stop channel.                  *)
(*                                                                         *)
(* One process per goroutine; one action per blocking or shared-state      *)
(* step.  A datagram is an element of Packets and Records[p] is what       *)
(* parsePacket makes of it: the daily table of each of its entries, in     *)
(* order, or <<>> when it returns an error.  A row is <<p, k>>: the k-th   *)
(* entry of datagram p.                                                    *)
(***************************************************************************)
EXTENDS Integers, Sequences, FiniteSets

CONSTANTS
    Packets,                \* the datagrams the routers may send
    Tables,                 \* the daily tables their entries belong to
    Records,                \* [Packets -> Seq(Tables)], see above
    EmptyDatagrams,         \* the datagrams of length zero
    NumReceivers,           \* UDP_RECEIVERS
    SharedSocket,           \* UDP_RECEIVE_MODE = shared_socket
    UdpBatchSize,           \* UDP_BATCH_SIZE
    PacketChannelSize,      \* PACKET_CHANNEL_SIZE
    PacketWorkers,          \* PACKET_WORKERS
    MaxPacketWorkers,       \* AUTO_TUNE_MAX_PACKET_WORKERS
    InsertBatchRows,        \* rows at which a batch is flushed
    InsertBatchChanSize,    \* INSERT_BATCH_CHANNEL_SIZE
    InsertWorkers,          \* INSERT_WORKERS
    MaxInsertWorkers,       \* AUTO_TUNE_MAX_INSERT_WORKERS
    InsertMaxRetries,       \* INSERT_MAX_RETRIES
    RawOnly,                \* LIVE_INSERT_OVERLOAD_POLICY = raw_only, else block
    QueueHighWatermarkPct,  \* LIVE_INSERT_QUEUE_HIGH_WATERMARK_PCT
    TimedSend,              \* LIVE_INSERT_SEND_TIMEOUT_MS > 0
    AutoTuneEnabled,        \* AUTO_TUNE_ENABLED
    AutoTuneHighPct,        \* AUTO_TUNE_HIGH_WATERMARK_PCT
    AutoTuneCriticalPct,    \* AUTO_TUNE_CRITICAL_WATERMARK_PCT
    ParseOnly,              \* PARSE_ONLY
    NoPacket, NoBatch       \* a goroutine that holds none

(* What validateConfig lets through, and that the traffic is finite.        *)
ASSUME TrafficAssumption ==
    /\ IsFiniteSet(Packets) /\ IsFiniteSet(Tables)
    /\ Records \in [Packets -> Seq(Tables)]
    /\ EmptyDatagrams \subseteq {p \in Packets : Records[p] = <<>>}
    /\ NoPacket \notin Packets
    /\ NoBatch \notin [table : Tables, rows : SUBSET (Packets \X (Nat \ {0}))]

ASSUME ConfigAssumption ==
    /\ NumReceivers \in Nat \ {0} /\ UdpBatchSize \in Nat \ {0}
    /\ PacketChannelSize \in Nat \ {0} /\ InsertBatchChanSize \in Nat \ {0}
    /\ InsertBatchRows \in Nat \ {0} /\ InsertMaxRetries \in Nat \ {0}
    /\ PacketWorkers \in Nat \ {0} /\ InsertWorkers \in Nat \ {0}
    /\ MaxPacketWorkers \in Nat /\ PacketWorkers <= MaxPacketWorkers
    /\ MaxInsertWorkers \in Nat /\ InsertWorkers <= MaxInsertWorkers
    /\ QueueHighWatermarkPct \in 1..100
    /\ AutoTuneHighPct \in 1..100 /\ AutoTuneCriticalPct \in AutoTuneHighPct..100
    /\ SharedSocket \in BOOLEAN /\ RawOnly \in BOOLEAN /\ TimedSend \in BOOLEAN
    /\ AutoTuneEnabled \in BOOLEAN /\ ParseOnly \in BOOLEAN

VARIABLES
    stopRequested,    \* the stop channel is closed
    closedSockets,    \* how many receivers closeUDPReceivers has closed
    mainPc,           \* where main waits
    wire,             \* datagrams no receiver has read (still to come, or dropped)
    reader,           \* udpReadLoop of each receiver
    packetChannel,
    worker,           \* packetWorker goroutines
    insertBatches,
    inserter,         \* insertWorker goroutines
    createdTablesMu,  \* the insert worker that holds the mutex, or 0
    createdTables,    \* the cache of tables already created
    tuner,            \* autoTuneSupervisor: the spawns it has decided on
    currentPacketWorkers,
    currentInsertWorkers,
    discarded,        \* datagrams read, then abandoned by a stopping receiver
    stored,           \* ClickHouse: how many times each row was stored
    inserted,         \* rows of the batches ClickHouse confirmed
    spooled,          \* rows spooled with their JSON metadata
    orphaned,         \* rows in a .done file whose JSON could not be written
    spoolLost,        \* rows whose spool file could not be written
    total             \* the total... counters, by name

inputVars == <<wire, reader, packetChannel, discarded>>
insertVars == <<inserter, createdTablesMu, createdTables, stored, inserted>>
spoolVars == <<spooled, orphaned, spoolLost>>
tuneVars == <<tuner, currentPacketWorkers, currentInsertWorkers>>
mainVars == <<stopRequested, closedSockets, mainPc>>
vars == <<inputVars, worker, insertBatches, insertVars, spoolVars, tuneVars,
          mainVars, total>>

Receivers == 1..NumReceivers
WorkerIds == 1..MaxPacketWorkers
InserterIds == 1..MaxInsertWorkers

RowsOf(p) == {p} \X (1..Len(Records[p]))
Rows == UNION {RowsOf(p) : p \in Packets}
Batch == [table : Tables, rows : SUBSET Rows]

(* close(packetChannel) and close(insertBatches) are main's own steps, so   *)
(* where main stands says which channels are closed.                        *)
MainPcs == {"readWG", "autoTuneWG", "packetWG", "insertWG", "stopped"}
PacketChannelClosed == mainPc \in {"packetWG", "insertWG", "stopped"}
InsertBatchesClosed == mainPc \in {"insertWG", "stopped"}

IdleReader == [pc |-> "read", batch |-> <<>>]
IdleWorker == [pc |-> "select", pkt |-> NoPacket, k |-> 1,
               pending |-> [t \in Tables |-> {}], sweep |-> {}, flush |-> {}]
IdleInserter == [pc |-> "recv", batch |-> NoBatch, attempt |-> 1]
QuietTuner == [pc |-> "wait", packet |-> 0, insert |-> 0]

Counters == {"Received", "PacketProcessed", "ParseErrors", "Parsed", "Inserted",
             "InsertDroppedRows", "LiveSkippedRows", "FailedRowsSpooled",
             "FailedSpoolErrors", "TablesCreated"}

Init ==
    /\ stopRequested = FALSE /\ closedSockets = 0 /\ mainPc = "readWG"
    /\ wire = Packets
    /\ reader = [r \in Receivers |-> IdleReader]
    /\ packetChannel = <<>> /\ insertBatches = <<>>
    /\ worker = [w \in WorkerIds |->
                   [IdleWorker EXCEPT !.pc = IF w <= PacketWorkers THEN "select" ELSE "unspawned"]]
    /\ inserter = [i \in InserterIds |->
                   [IdleInserter EXCEPT !.pc = IF i <= InsertWorkers /\ ~ParseOnly
                                               THEN "recv" ELSE "unspawned"]]
    /\ createdTablesMu = 0 /\ createdTables = {}
    /\ tuner = QuietTuner
    /\ currentPacketWorkers = PacketWorkers
    /\ currentInsertWorkers = IF ParseOnly THEN 0 ELSE InsertWorkers
    /\ discarded = {}
    /\ stored = [row \in Rows |-> 0]
    /\ inserted = {} /\ spooled = {} /\ orphaned = {} /\ spoolLost = {}
    /\ total = [c \in Counters |-> 0]

-----------------------------------------------------------------------------
(* Shutdown: requestStop closes the stop channel, then the sockets in order. *)

RequestStop ==
    /\ ~stopRequested
    /\ stopRequested' = TRUE
    /\ UNCHANGED <<inputVars, worker, insertBatches, insertVars, spoolVars,
                   tuneVars, closedSockets, mainPc, total>>

(* Faulty variants, here and below: each is a plausible slip in the          *)
(* definition that follows it, and the runs show that a property breaks.    *)
CloseAtReturnOnly ==          \* only main's deferred closeUDPReceivers
    /\ mainPc = "stopped" /\ closedSockets < NumReceivers
    /\ closedSockets' = closedSockets + 1
    /\ UNCHANGED <<inputVars, worker, insertBatches, insertVars, spoolVars,
                   tuneVars, stopRequested, mainPc, total>>

CloseNextReceiver ==
    /\ stopRequested /\ closedSockets < NumReceivers
    /\ closedSockets' = closedSockets + 1
    /\ UNCHANGED <<inputVars, worker, insertBatches, insertVars, spoolVars,
                   tuneVars, stopRequested, mainPc, total>>

SocketOfClone(r) ==           \* a clone has a socket of its own, which it does not own
    /\ closedSockets >= r
    /\ ~(SharedSocket /\ r > 1)

(* In shared_socket mode every clone reads receiver 1's connection, which   *)
(* only receiver 1 closes.                                                  *)
SocketClosed(r) == closedSockets >= IF SharedSocket THEN 1 ELSE r

MainAfterReaders ==
    /\ mainPc = "readWG"
    /\ \A r \in Receivers : reader[r].pc = "exited"
    /\ mainPc' = "autoTuneWG"

ClosePacketChannelAtOnce ==   \* no autoTuneWG.Wait()
    /\ mainPc = "autoTuneWG"
    /\ mainPc' = "packetWG"

MainClosePacketChannel ==
    /\ mainPc = "autoTuneWG"
    /\ tuner.pc = "exited"
    /\ mainPc' = "packetWG"

CloseInsertBatchesEarly ==    \* waits for the packets, not for the workers
    /\ mainPc = "packetWG" /\ packetChannel = <<>>
    /\ mainPc' = "insertWG"

MainCloseInsertBatches ==
    /\ mainPc = "packetWG"
    /\ \A w \in WorkerIds : worker[w].pc \in {"unspawned", "exited"}
    /\ mainPc' = "insertWG"

MainReturn ==
    /\ mainPc = "insertWG"
    /\ \A i \in InserterIds : inserter[i].pc \in {"unspawned", "exited"}
    /\ mainPc' = "stopped"

MainStep ==
    /\ \/ MainAfterReaders \/ MainClosePacketChannel
       \/ MainCloseInsertBatches \/ MainReturn
    /\ UNCHANGED <<inputVars, worker, insertBatches, insertVars, spoolVars,
                   tuneVars, stopRequested, closedSockets, total>>

-----------------------------------------------------------------------------
(* udpReadLoop.  A read error before the stop only counts and loops, so it  *)
(* is a stuttering step here.                                               *)

readUnchanged == <<worker, insertBatches, insertVars, spoolVars, tuneVars, mainVars>>

ReadBatch(r) ==
    /\ reader[r].pc = "read" /\ ~SocketClosed(r)
    /\ \E n \in 1..UdpBatchSize : \E b \in [1..n -> wire] :
         /\ \A i, j \in 1..n : b[i] = b[j] => i = j
         /\ reader' = [reader EXCEPT ![r] = [pc |-> "loop", batch |-> b]]
         /\ wire' = wire \ {b[i] : i \in 1..n}
    /\ UNCHANGED <<packetChannel, discarded, total, readUnchanged>>

(* The first error once stop is closed ends the loop.                       *)
LeaveAtStop(r) ==
    /\ reader[r].pc = "read" /\ stopRequested
    /\ reader' = [reader EXCEPT ![r].pc = "exited"]
    /\ UNCHANGED <<wire, packetChannel, discarded, total, readUnchanged>>

(* ReadBatch, which otherwise waits for datagrams, fails on a closed socket. *)
ReadErrorAtStop(r) == SocketClosed(r) /\ LeaveAtStop(r)

(* Any other error, which nothing forces, leaves as well.                   *)
TransientErrorAtStop(r) == ~SocketClosed(r) /\ LeaveAtStop(r)

(* The reader moves past the head of its batch.                             *)
Advance(r) == [pc |-> IF Len(reader[r].batch) = 1 THEN "read" ELSE "loop",
               batch |-> Tail(reader[r].batch)]

SkipEmpty(r) ==
    /\ reader[r].pc = "loop" /\ Head(reader[r].batch) \in EmptyDatagrams
    /\ reader' = [reader EXCEPT ![r] = Advance(r)]
    /\ UNCHANGED <<wire, packetChannel, discarded, total, readUnchanged>>

CountReceived(r) ==
    /\ reader[r].pc = "loop" /\ Head(reader[r].batch) \notin EmptyDatagrams
    /\ reader' = [reader EXCEPT ![r].pc = "send"]
    /\ total' = [total EXCEPT !["Received"] = @ + 1]
    /\ UNCHANGED <<wire, packetChannel, discarded, readUnchanged>>

SendPacket(r) ==
    /\ reader[r].pc = "send" /\ Len(packetChannel) < PacketChannelSize
    /\ packetChannel' = Append(packetChannel, Head(reader[r].batch))
    /\ reader' = [reader EXCEPT ![r] = Advance(r)]
    /\ UNCHANGED <<wire, discarded, total, readUnchanged>>

(* case <-stop: the datagram in hand and the rest of the batch are dropped. *)
DiscardAtStop(r) ==
    /\ reader[r].pc = "send" /\ stopRequested
    /\ discarded' = discarded \cup {reader[r].batch[n] : n \in DOMAIN reader[r].batch}
    /\ reader' = [reader EXCEPT ![r] = [pc |-> "exited", batch |-> <<>>]]
    /\ UNCHANGED <<wire, packetChannel, total, readUnchanged>>

ReaderStep(r) == \/ ReadErrorAtStop(r) \/ SkipEmpty(r) \/ CountReceived(r)
                 \/ SendPacket(r) \/ DiscardAtStop(r)

-----------------------------------------------------------------------------
(* packetWorker                                                             *)

UsagePct(channel, capacity) == (Len(channel) * 100) \div capacity

takeUnchanged == <<wire, reader, discarded, insertBatches, insertVars, spoolVars,
                   tuneVars, mainVars>>

RejectPacketUncounted(w) ==   \* continues before totalPacketProcessed
    /\ worker[w].pc = "select" /\ packetChannel # <<>>
    /\ Records[Head(packetChannel)] = <<>>
    /\ packetChannel' = Tail(packetChannel)
    /\ total' = [total EXCEPT !["ParseErrors"] = @ + 1]
    /\ UNCHANGED <<worker, takeUnchanged>>

(* parsePacket fails: the packet is counted twice and its buffer released.  *)
RejectPacket(w) ==
    /\ worker[w].pc = "select" /\ packetChannel # <<>>
    /\ Records[Head(packetChannel)] = <<>>
    /\ packetChannel' = Tail(packetChannel)
    /\ total' = [total EXCEPT !["ParseErrors"] = @ + 1, !["PacketProcessed"] = @ + 1]
    /\ UNCHANGED <<worker, takeUnchanged>>

CountPacketOnly(w) ==
    /\ ParseOnly
    /\ worker[w].pc = "select" /\ packetChannel # <<>>
    /\ Records[Head(packetChannel)] # <<>>
    /\ packetChannel' = Tail(packetChannel)
    /\ total' = [total EXCEPT !["Parsed"] = @ + Len(Records[Head(packetChannel)]),
                              !["PacketProcessed"] = @ + 1]
    /\ UNCHANGED <<worker, takeUnchanged>>

TakePacket(w) ==
    /\ ~ParseOnly
    /\ worker[w].pc = "select" /\ packetChannel # <<>>
    /\ Records[Head(packetChannel)] # <<>>
    /\ packetChannel' = Tail(packetChannel)
    /\ worker' = [worker EXCEPT ![w] = [@ EXCEPT !.pc = "append", !.pkt = Head(packetChannel)]]
    /\ UNCHANGED <<total, takeUnchanged>>

(* sendInsertBatch: block sends at once, raw_only looks at the queue first. *)
FlushPc == IF RawOnly THEN "watermark" ELSE "send"

(* The worker's state with its next entry put in the pending batch of the   *)
(* entry's table, on its way to flushTable if that batch is now full.       *)
WithEntry(w) ==
    LET row == <<worker[w].pkt, worker[w].k>>
        t == Records[worker[w].pkt][worker[w].k]
        rows == worker[w].pending[t] \cup {row}
        full == Cardinality(rows) >= InsertBatchRows
    IN  [worker[w] EXCEPT !.pending[t] = rows, !.k = worker[w].k + 1,
                          !.pc = IF full THEN FlushPc ELSE "append",
                          !.flush = IF full THEN {t} ELSE {}]

AppendEntry(w) ==
    /\ worker[w].pc = "append" /\ worker[w].k <= Len(Records[worker[w].pkt])
    /\ worker' = [worker EXCEPT ![w] = WithEntry(w)]
    /\ total' = [total EXCEPT !["Parsed"] = @ + 1]
    /\ UNCHANGED <<packetChannel, takeUnchanged>>

FinishPacketPerRecord(w) ==   \* counts every record as a packet
    /\ worker[w].pc = "append" /\ worker[w].k > Len(Records[worker[w].pkt])
    /\ worker' = [worker EXCEPT ![w] = [@ EXCEPT !.pc = "select", !.pkt = NoPacket, !.k = 1]]
    /\ total' = [total EXCEPT !["PacketProcessed"] = @ + Len(Records[worker[w].pkt])]
    /\ UNCHANGED <<packetChannel, takeUnchanged>>

FinishPacket(w) ==
    /\ worker[w].pc = "append" /\ worker[w].k > Len(Records[worker[w].pkt])
    /\ worker' = [worker EXCEPT ![w] = [@ EXCEPT !.pc = "select", !.pkt = NoPacket, !.k = 1]]
    /\ total' = [total EXCEPT !["PacketProcessed"] = @ + 1]
    /\ UNCHANGED <<packetChannel, takeUnchanged>>

(* flushAll: on a tick, and on the closed channel.  It visits the tables in *)
(* map order, that is in any order; flushTable skips the empty ones.  The   *)
(* worker that has flushed after the close selects again, finds the channel *)
(* still closed and nothing pending, and returns.                           *)
NonEmpty(w) == {t \in Tables : worker[w].pending[t] # {}}

FlushAllOnClose(w) ==         \* no flush ticker
    /\ worker[w].pc = "select" /\ NonEmpty(w) # {}
    /\ PacketChannelClosed /\ packetChannel = <<>>
    /\ worker' = [worker EXCEPT ![w] = [@ EXCEPT !.pc = "sweep", !.sweep = NonEmpty(w)]]
    /\ UNCHANGED <<packetChannel, total, takeUnchanged>>

FlushAll(w) ==
    /\ worker[w].pc = "select" /\ NonEmpty(w) # {}
    /\ worker' = [worker EXCEPT ![w] = [@ EXCEPT !.pc = "sweep", !.sweep = NonEmpty(w)]]
    /\ UNCHANGED <<packetChannel, total, takeUnchanged>>

Sweeping(w, t) == [worker[w] EXCEPT !.pc = FlushPc, !.sweep = worker[w].sweep \ {t},
                                    !.flush = {t}]

SweepTable(w) ==
    /\ worker[w].pc = "sweep"
    /\ \E t \in worker[w].sweep : worker' = [worker EXCEPT ![w] = Sweeping(w, t)]
    /\ UNCHANGED <<packetChannel, total, takeUnchanged>>

WorkerReturnUnflushed(w) ==   \* returns on the closed channel without flushAll
    /\ worker[w].pc = "select"
    /\ PacketChannelClosed /\ packetChannel = <<>>
    /\ worker' = [worker EXCEPT ![w].pc = "exited"]
    /\ UNCHANGED <<packetChannel, total, takeUnchanged>>

WorkerReturn(w) ==
    /\ worker[w].pc = "select" /\ NonEmpty(w) = {}
    /\ PacketChannelClosed /\ packetChannel = <<>>
    /\ worker' = [worker EXCEPT ![w].pc = "exited"]
    /\ UNCHANGED <<packetChannel, total, takeUnchanged>>

-----------------------------------------------------------------------------
(* flushTable, for the table in worker[w].flush                             *)

flushUnchanged == <<inputVars, insertVars, tuneVars, mainVars>>

AdmitBatch(w) ==
    /\ worker[w].pc = "watermark"
    /\ UsagePct(insertBatches, InsertBatchChanSize) < QueueHighWatermarkPct
    /\ worker' = [worker EXCEPT ![w].pc = "send"]
    /\ UNCHANGED <<insertBatches, spoolVars, total, flushUnchanged>>

ResumeKeepingBatch(w, t) ==   \* pending[tableName] keeps the batch it sent
    [worker[w] EXCEPT !.flush = {},
                      !.pc = IF worker[w].pkt # NoPacket THEN "append"
                             ELSE IF worker[w].sweep # {} THEN "sweep" ELSE "select"]

(* Where flushTable returns to, with a fresh pending batch for table t.     *)
Resume(w, t) ==
    [worker[w] EXCEPT !.pending[t] = {}, !.flush = {},
                      !.pc = IF worker[w].pkt # NoPacket THEN "append"
                             ELSE IF worker[w].sweep # {} THEN "sweep" ELSE "select"]

SendBatch(w) ==
    /\ worker[w].pc = "send" /\ Len(insertBatches) < InsertBatchChanSize
    /\ \E t \in worker[w].flush :
         /\ insertBatches' = Append(insertBatches, [table |-> t, rows |-> worker[w].pending[t]])
         /\ worker' = [worker EXCEPT ![w] = Resume(w, t)]
    /\ UNCHANGED <<spoolVars, total, flushUnchanged>>

RefuseAtWatermarkOnly(w) ==   \* a plain send after the watermark check
    /\ worker[w].pc = "watermark"
    /\ UsagePct(insertBatches, InsertBatchChanSize) >= QueueHighWatermarkPct
    /\ \E t \in worker[w].flush :
         total' = [total EXCEPT !["LiveSkippedRows"] = @ + Cardinality(worker[w].pending[t])]
    /\ worker' = [worker EXCEPT ![w].pc = "spool"]
    /\ UNCHANGED <<insertBatches, spoolVars, flushUnchanged>>

(* raw_only gives up: watermark reached, channel full without a timeout, or *)
(* the timer fires (also when the channel has room again: select is fair    *)
(* to both).                                                                *)
RefuseBatch(w) ==
    /\ \/ /\ worker[w].pc = "watermark"
          /\ UsagePct(insertBatches, InsertBatchChanSize) >= QueueHighWatermarkPct
       \/ /\ worker[w].pc = "send" /\ RawOnly
          /\ (TimedSend \/ Len(insertBatches) = InsertBatchChanSize)
    /\ \E t \in worker[w].flush :
         total' = [total EXCEPT !["LiveSkippedRows"] = @ + Cardinality(worker[w].pending[t])]
    /\ worker' = [worker EXCEPT ![w].pc = "spool"]
    /\ UNCHANGED <<insertBatches, spoolVars, flushUnchanged>>

SpoolCountedEarly(rows) ==    \* counts the rows before the JSON is written
    \/ /\ spooled' = spooled \cup rows
       /\ total' = [total EXCEPT !["FailedRowsSpooled"] = @ + Cardinality(rows)]
       /\ UNCHANGED <<orphaned, spoolLost>>
    \/ /\ orphaned' = orphaned \cup rows
       /\ total' = [total EXCEPT !["FailedRowsSpooled"] = @ + Cardinality(rows),
                                 !["FailedSpoolErrors"] = @ + 1]
       /\ UNCHANGED <<spooled, spoolLost>>

(* spoolFailedInsertBatch: the .done file with its JSON; or an error before *)
(* the rename, which leaves nothing in done; or an error writing the JSON,  *)
(* which leaves the .done file alone.                                       *)
Spool(rows) ==
    \/ /\ spooled' = spooled \cup rows
       /\ total' = [total EXCEPT !["FailedRowsSpooled"] = @ + Cardinality(rows)]
       /\ UNCHANGED <<orphaned, spoolLost>>
    \/ /\ orphaned' = orphaned \cup rows
       /\ total' = [total EXCEPT !["FailedSpoolErrors"] = @ + 1]
       /\ UNCHANGED <<spooled, spoolLost>>
    \/ /\ spoolLost' = spoolLost \cup rows
       /\ total' = [total EXCEPT !["FailedSpoolErrors"] = @ + 1]
       /\ UNCHANGED <<spooled, orphaned>>

SpoolRefused(w) ==
    /\ worker[w].pc = "spool"
    /\ \E t \in worker[w].flush :
         /\ Spool(worker[w].pending[t])
         /\ worker' = [worker EXCEPT ![w] = Resume(w, t)]
    /\ UNCHANGED <<insertBatches, flushUnchanged>>

WorkerStep(w) ==
    \/ RejectPacket(w) \/ CountPacketOnly(w) \/ TakePacket(w) \/ AppendEntry(w)
    \/ FinishPacket(w) \/ FlushAll(w) \/ SweepTable(w) \/ WorkerReturn(w)
    \/ AdmitBatch(w) \/ SendBatch(w) \/ RefuseBatch(w) \/ SpoolRefused(w)

-----------------------------------------------------------------------------
(* insertWorker.  Every attempt first makes sure the table exists, holding  *)
(* createdTablesMu across the CREATE TABLE request.                         *)

insertUnchanged == <<inputVars, worker, tuneVars, mainVars>>

ReceiveBatch(i) ==
    /\ inserter[i].pc = "recv" /\ insertBatches # <<>>
    /\ inserter' = [inserter EXCEPT ![i] = [pc |-> "ensure", batch |-> Head(insertBatches),
                                           attempt |-> 1]]
    /\ insertBatches' = Tail(insertBatches)
    /\ UNCHANGED <<createdTablesMu, createdTables, stored, inserted, spoolVars, total,
                   insertUnchanged>>

EnsureTableUnlocked(i) ==     \* checks the cache without the mutex
    /\ inserter[i].pc = "ensure"
    /\ inserter' = [inserter EXCEPT ![i].pc = IF inserter[i].batch.table \in createdTables
                                             THEN "insert" ELSE "create"]
    /\ UNCHANGED <<insertBatches, createdTablesMu, createdTables, stored, inserted, spoolVars,
                   total, insertUnchanged>>

EnsureTable(i) ==
    /\ inserter[i].pc = "ensure" /\ createdTablesMu = 0
    /\ \/ /\ inserter[i].batch.table \in createdTables
          /\ inserter' = [inserter EXCEPT ![i].pc = "insert"]
          /\ UNCHANGED createdTablesMu
       \/ /\ inserter[i].batch.table \notin createdTables
          /\ inserter' = [inserter EXCEPT ![i].pc = "create"]
          /\ createdTablesMu' = i
    /\ UNCHANGED <<insertBatches, createdTables, stored, inserted, spoolVars, total,
                   insertUnchanged>>

CreateTable(i) ==
    /\ inserter[i].pc = "create"
    /\ createdTables' = createdTables \cup {inserter[i].batch.table}
    /\ createdTablesMu' = 0
    /\ inserter' = [inserter EXCEPT ![i].pc = "insert"]
    /\ total' = [total EXCEPT !["TablesCreated"] = @ + 1]
    /\ UNCHANGED <<insertBatches, stored, inserted, spoolVars, insertUnchanged>>

NextAttempt(i) == [inserter[i] EXCEPT !.pc = "ensure", !.attempt = inserter[i].attempt + 1]

AttemptFailedCounted(i) ==    \* counts the rows as dropped at every attempt
    /\ inserter' = IF inserter[i].attempt < InsertMaxRetries
                   THEN [inserter EXCEPT ![i] = NextAttempt(i)]
                   ELSE [inserter EXCEPT ![i].pc = "spool"]
    /\ total' = [total EXCEPT !["InsertDroppedRows"] = @ + Cardinality(inserter[i].batch.rows)]

(* After a failed attempt: sleep and try again, or give the batch up.       *)
AttemptFailed(i) ==
    IF inserter[i].attempt < InsertMaxRetries
    THEN /\ inserter' = [inserter EXCEPT ![i] = NextAttempt(i)]
         /\ UNCHANGED total
    ELSE /\ inserter' = [inserter EXCEPT ![i].pc = "spool"]
         /\ total' = [total EXCEPT !["InsertDroppedRows"] =
                                        @ + Cardinality(inserter[i].batch.rows)]

CreateTableFails(i) ==
    /\ inserter[i].pc = "create"
    /\ createdTablesMu' = 0
    /\ AttemptFailed(i)
    /\ UNCHANGED <<insertBatches, createdTables, stored, inserted, spoolVars,
                   insertUnchanged>>

StoredOnceMore(rows) ==
    [row \in Rows |-> IF row \in rows THEN stored[row] + 1 ELSE stored[row]]

InsertSucceedsNoBreak(i) ==   \* stays in the retry loop after a success
    /\ inserter[i].pc = "insert"
    /\ LET rows == inserter[i].batch.rows IN
         /\ stored' = StoredOnceMore(rows)
         /\ inserted' = inserted \cup rows
         /\ total' = [total EXCEPT !["Inserted"] = @ + Cardinality(rows)]
    /\ inserter' = IF inserter[i].attempt < InsertMaxRetries
                   THEN [inserter EXCEPT ![i] = NextAttempt(i)]
                   ELSE [inserter EXCEPT ![i] = IdleInserter]
    /\ UNCHANGED <<insertBatches, createdTablesMu, createdTables, spoolVars,
                   insertUnchanged>>

InsertSucceeds(i) ==
    /\ inserter[i].pc = "insert"
    /\ LET rows == inserter[i].batch.rows IN
         /\ stored' = StoredOnceMore(rows)
         /\ inserted' = inserted \cup rows
         /\ total' = [total EXCEPT !["Inserted"] = @ + Cardinality(rows)]
    /\ inserter' = [inserter EXCEPT ![i] = IdleInserter]
    /\ UNCHANGED <<insertBatches, createdTablesMu, createdTables, spoolVars,
                   insertUnchanged>>

(* An error or a timeout: ClickHouse may have stored the batch or not.      *)
InsertFails(i) ==
    /\ inserter[i].pc = "insert"
    /\ stored' \in {stored, StoredOnceMore(inserter[i].batch.rows)}
    /\ AttemptFailed(i)
    /\ UNCHANGED <<insertBatches, createdTablesMu, createdTables, inserted, spoolVars,
                   insertUnchanged>>

SpoolExhausted(i) ==
    /\ inserter[i].pc = "spool"
    /\ Spool(inserter[i].batch.rows)
    /\ inserter' = [inserter EXCEPT ![i] = IdleInserter]
    /\ UNCHANGED <<insertBatches, createdTablesMu, createdTables, stored, inserted,
                   insertUnchanged>>

InserterReturn(i) ==
    /\ inserter[i].pc = "recv" /\ insertBatches = <<>> /\ InsertBatchesClosed
    /\ inserter' = [inserter EXCEPT ![i].pc = "exited"]
    /\ UNCHANGED <<insertBatches, createdTablesMu, createdTables, stored, inserted,
                   spoolVars, total, insertUnchanged>>

InserterStep(i) ==
    \/ ReceiveBatch(i) \/ EnsureTable(i) \/ CreateTable(i) \/ CreateTableFails(i)
    \/ InsertSucceeds(i) \/ InsertFails(i) \/ SpoolExhausted(i) \/ InserterReturn(i)

-----------------------------------------------------------------------------
(* autoTuneSupervisor                                                       *)

ScaleStepUncapped(current, max, critical) ==   \* forgets the maximum
    IF critical \/ current < 2 THEN current ELSE current \div 2

ScaleStep(current, max, critical) ==
    LET half == IF critical THEN current ELSE current \div 2
        step == IF half < 1 THEN 1 ELSE half
    IN  IF current >= max THEN 0
        ELSE IF step > max - current THEN max - current ELSE step

tuneUnchanged == <<inputVars, insertBatches, insertVars, spoolVars, mainVars, total>>

(* A tick reads both queues and settles how many workers to add; a tick     *)
(* that adds none is a stuttering step.                                     *)
SampleQueues ==
    /\ AutoTuneEnabled /\ tuner.pc = "wait"
    /\ LET packetUsage == UsagePct(packetChannel, PacketChannelSize)
           batchUsage == UsagePct(insertBatches, InsertBatchChanSize)
           packetStep == IF packetUsage >= AutoTuneHighPct /\ batchUsage < AutoTuneCriticalPct
                         THEN ScaleStep(currentPacketWorkers, MaxPacketWorkers,
                                        packetUsage >= AutoTuneCriticalPct)
                         ELSE 0
           insertStep == IF batchUsage >= AutoTuneHighPct
                         THEN ScaleStep(currentInsertWorkers, MaxInsertWorkers,
                                        batchUsage >= AutoTuneCriticalPct)
                         ELSE 0
       IN /\ packetStep + insertStep > 0
          /\ tuner' = [pc |-> "spawn", packet |-> packetStep, insert |-> insertStep]
    /\ UNCHANGED <<currentPacketWorkers, currentInsertWorkers, worker, tuneUnchanged>>

(* spawnPacketWorkers and spawnInsertWorkers, after the samples were taken. *)
SpawnWorkers ==
    /\ tuner.pc = "spawn"
    /\ worker' = [w \in WorkerIds |->
                    IF w \in currentPacketWorkers + 1 .. currentPacketWorkers + tuner.packet
                    THEN [worker[w] EXCEPT !.pc = "select"] ELSE worker[w]]
    /\ inserter' = [i \in InserterIds |->
                    IF i \in currentInsertWorkers + 1 .. currentInsertWorkers + tuner.insert
                    THEN [inserter[i] EXCEPT !.pc = "recv"] ELSE inserter[i]]
    /\ currentPacketWorkers' = currentPacketWorkers + tuner.packet
    /\ currentInsertWorkers' = currentInsertWorkers + tuner.insert
    /\ tuner' = QuietTuner
    /\ UNCHANGED <<inputVars, insertBatches, createdTablesMu, createdTables, stored,
                   inserted, spoolVars, mainVars, total>>

TunerReturn ==
    /\ tuner.pc = "wait"
    /\ stopRequested \/ ~AutoTuneEnabled
    /\ tuner' = [tuner EXCEPT !.pc = "exited"]
    /\ UNCHANGED <<currentPacketWorkers, currentInsertWorkers, worker, tuneUnchanged>>

-----------------------------------------------------------------------------

Shutdown == CloseNextReceiver \/ MainStep

(* main has returned: the process is gone, and this is not a deadlock.      *)
Terminated == mainPc = "stopped" /\ UNCHANGED vars

Next ==
    \/ RequestStop \/ Shutdown
    \/ \E r \in Receivers : ReadBatch(r) \/ TransientErrorAtStop(r) \/ ReaderStep(r)
    \/ \E w \in WorkerIds : WorkerStep(w)
    \/ \E i \in InserterIds : InserterStep(i)
    \/ SampleQueues \/ SpawnWorkers \/ TunerReturn \/ Terminated

Spec == Init /\ [][Next]_vars

(* Every goroutine that can run does: the Go scheduler is preemptive, the   *)
(* flush ticker and send timers fire, an HTTP request ends with its client  *)
(* timeout, a file operation returns.  Nothing forces a signal, a datagram, *)
(* an autotune tick, or a read error on an open socket.                     *)
CaptureFairness ==
    /\ WF_vars(Shutdown) /\ WF_vars(SpawnWorkers) /\ WF_vars(TunerReturn)
    /\ \A r \in Receivers : WF_vars(ReaderStep(r))
    /\ \A w \in WorkerIds : WF_vars(WorkerStep(w))

InsertFairness == \A i \in InserterIds : WF_vars(InserterStep(i))

FairSpec == Spec /\ CaptureFairness /\ InsertFairness

(* ClickHouse stalls: no insert worker is ever sure to make progress.       *)
StalledSpec == Spec /\ CaptureFairness
-----------------------------------------------------------------------------
(* Properties                                                               *)

ReaderState == [pc : {"read", "loop", "send", "exited"}, batch : Seq(Packets)]
WorkerState ==
    [pc : {"unspawned", "select", "append", "sweep", "watermark", "send", "spool", "exited"},
     pkt : Packets \cup {NoPacket}, k : Nat \ {0},
     pending : [Tables -> SUBSET Rows], sweep : SUBSET Tables, flush : SUBSET Tables]
InserterState ==
    [pc : {"unspawned", "recv", "ensure", "create", "insert", "spool", "exited"},
     batch : Batch \cup {NoBatch}, attempt : 1..InsertMaxRetries]

(* The types of the state: worker counts stay within the configured maxima, *)
(* channels within their capacity, attempts within INSERT_MAX_RETRIES.      *)
TypeOK ==
    /\ stopRequested \in BOOLEAN /\ closedSockets \in 0..NumReceivers /\ mainPc \in MainPcs
    /\ wire \subseteq Packets /\ discarded \subseteq Packets
    /\ reader \in [Receivers -> ReaderState]
    /\ packetChannel \in Seq(Packets) /\ Len(packetChannel) <= PacketChannelSize
    /\ worker \in [WorkerIds -> WorkerState]
    /\ insertBatches \in Seq(Batch) /\ Len(insertBatches) <= InsertBatchChanSize
    /\ inserter \in [InserterIds -> InserterState]
    /\ createdTablesMu \in {0} \cup InserterIds /\ createdTables \subseteq Tables
    /\ tuner \in [pc : {"wait", "spawn", "exited"},
                  packet : 0..MaxPacketWorkers, insert : 0..MaxInsertWorkers]
    /\ currentPacketWorkers \in 0..MaxPacketWorkers
    /\ currentInsertWorkers \in 0..MaxInsertWorkers
    /\ stored \in [Rows -> Nat]
    /\ inserted \subseteq Rows /\ spooled \subseteq Rows
    /\ orphaned \subseteq Rows /\ spoolLost \subseteq Rows
    /\ total \in [Counters -> Nat]

(* What each goroutine and each channel holds.                              *)
ReaderHolds(r) == {reader[r].batch[n] : n \in DOMAIN reader[r].batch}
WorkerHolds(w) == IF worker[w].pkt = NoPacket THEN {}
                  ELSE {row \in RowsOf(worker[w].pkt) : row[2] >= worker[w].k}
InserterHolds(i) == IF inserter[i].batch = NoBatch THEN {} ELSE inserter[i].batch.rows
FatedRows == inserted \cup spooled \cup orphaned \cup spoolLost

(* In how many places of the pipeline a row is.                             *)
One(b) == IF b THEN 1 ELSE 0
Copies(row) ==
    One(row[1] \in wire) + One(row[1] \in discarded)
    + Cardinality({r \in Receivers : row[1] \in ReaderHolds(r)})
    + Cardinality({n \in DOMAIN packetChannel : row[1] = packetChannel[n]})
    + Cardinality({w \in WorkerIds : row \in WorkerHolds(w)})
    + Cardinality({wt \in WorkerIds \X Tables : row \in worker[wt[1]].pending[wt[2]]})
    + Cardinality({n \in DOMAIN insertBatches : row \in insertBatches[n].rows})
    + Cardinality({i \in InserterIds : row \in InserterHolds(i)})
    + One(row \in inserted) + One(row \in spooled)
    + One(row \in orphaned) + One(row \in spoolLost)

(* No row is ever lost from, or duplicated in, the pipeline: from the       *)
(* receivers to its fate it is in exactly one place, whatever flushes,      *)
(* refusals, retries and spools happen on the way (packetWorker's pending   *)
(* map, sendInsertBatch, insertWorker, spoolFailedInsertBatch).             *)
EveryRowInOnePlace == ~ParseOnly => \A row \in Rows : Copies(row) = 1

(* main closes a channel only when nobody can send on it any more (a Go     *)
(* program that does panics): packetChannel after every receiver returned,  *)
(* insertBatches after every packet worker did, one that autoTuneSupervisor *)
(* started during the shutdown included.                                    *)
NoSendOnClosedChannel ==
    /\ PacketChannelClosed => \A r \in Receivers : reader[r].pc = "exited"
    /\ InsertBatchesClosed =>
          \A w \in WorkerIds : worker[w].pc \in {"unspawned", "exited"}

(* When main returns, every row of every datagram a receiver delivered has  *)
(* met its fate: no pending batch, channel or worker still holds one.       *)
DrainLosesNothing ==
    mainPc = "stopped" /\ ~ParseOnly =>
        \A row \in Rows : row[1] \in wire \cup discarded \/ row \in FatedRows

(* The packet balance of docs/runbooks/captura-metricas-15-minutos.md:      *)
(* total_received - total_packet_processed is what the channel, the workers *)
(* and the receivers hold, plus at most one datagram per receiver that      *)
(* abandoned its batch at the stop.                                         *)
PacketBalance ==
    LET held == Len(packetChannel)
                + Cardinality({w \in WorkerIds : worker[w].pkt # NoPacket})
                + Cardinality({r \in Receivers : reader[r].pc = "send"})
        abandoned == total["Received"] - total["PacketProcessed"] - held
    IN  abandoned \in 0..Cardinality({r \in Receivers : reader[r].pc = "exited"})

(* The row balance of the same document: total_parsed - total_inserted -    *)
(* total_failed_rows_spooled is the rows being batched, queued or inserted, *)
(* plus those of the batches whose spool failed.                            *)
RowBalance ==
    ~ParseOnly =>
      total["Parsed"] - total["Inserted"] - total["FailedRowsSpooled"] =
        Cardinality(UNION {worker[w].pending[t] : w \in WorkerIds, t \in Tables})
        + Cardinality(UNION {insertBatches[n].rows : n \in DOMAIN insertBatches})
        + Cardinality(UNION {InserterHolds(i) : i \in InserterIds})
        + Cardinality(orphaned \cup spoolLost)

(* Rows counted as dropped or skipped by the live path are exactly those    *)
(* that were spooled, failed to be, or are about to be: no row is counted   *)
(* as failed twice, and none is spooled uncounted.                          *)
FailureBalance ==
    total["InsertDroppedRows"] + total["LiveSkippedRows"] =
        total["FailedRowsSpooled"] + Cardinality(orphaned \cup spoolLost)
        + Cardinality(UNION {InserterHolds(i) : i \in {j \in InserterIds : inserter[j].pc = "spool"}})
        + Cardinality(UNION {UNION {worker[w].pending[t] : t \in worker[w].flush} :
                             w \in {v \in WorkerIds : worker[v].pc = "spool"}})

(* createdTablesMu covers the check, the request and the update, so that    *)
(* insert workers create each daily table once, and insert only into tables *)
(* that exist.                                                              *)
TablesCreatedOnce ==
    /\ total["TablesCreated"] = Cardinality(createdTables)
    /\ \A i \in InserterIds :
          inserter[i].pc = "insert" => inserter[i].batch.table \in createdTables

(* packetWG and insertWG are never added to once main waits for them:       *)
(* autoTuneSupervisor starts no worker after close(packetChannel).          *)
NoSpawnWhileDraining ==
    [][PacketChannelClosed =>
         UNCHANGED <<currentPacketWorkers, currentInsertWorkers>>]_vars

(* A signal ends in the end of the process: every stage drains.             *)
StopDrains == stopRequested ~> mainPc = "stopped"

(* raw_only keeps the capture going while ClickHouse does not answer: a      *)
(* packet worker comes back to its packet channel again and again, though   *)
(* no insert ends; also when two workers pass the watermark check for the   *)
(* same free place (sendInsertBatch).                                       *)
OverloadKeepsCapturing ==
    \A w \in WorkerIds : []<>(worker[w].pc \in {"unspawned", "select", "exited"})

(* The pipeline implements RowFate: a row is held from the moment its       *)
(* datagram is on packetChannel.                                            *)
Refused(p) == p \in wire \cup discarded \/ \E r \in Receivers : p \in ReaderHolds(r)

FateOf(row) ==
    CASE row \in inserted -> "inserted"
      [] row \in spooled -> "spooled"
      [] row \in orphaned -> "orphaned"
      [] row \in spoolLost -> "lost"
      [] Refused(row[1]) -> "absent"
      [] OTHER -> "held"

Contract == INSTANCE RowFate WITH fate <- [row \in Rows |-> FateOf(row)]

(* Each row meets one final fate, and ClickHouse is written only before it. *)
ContractSpec == Contract!Spec

(* Under fair scheduling every accepted row does meet it.                   *)
AcceptedRowsSettle == Contract!EveryHeldRowSettles
=============================================================================
