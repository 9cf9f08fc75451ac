--------------------------- MODULE CollectorProofs ---------------------------
(***************************************************************************)
(* Collector is type correct, never sends on a closed channel, starts no   *)
(* worker while it drains, and returns only when every row it accepted has *)
(* met a fate: for any traffic, any number of receivers and workers, and   *)
(* any sizes.  The inductive invariant is IInv.                            *)
(***************************************************************************)
EXTENDS Collector, TLAPS, FiniteSetTheorems, SequenceTheorems

(* A goroutine holds something exactly where its program counter says so,   *)
(* and the spawned workers are the first ones.                              *)
ReaderShape(r) == reader[r].pc \in {"loop", "send"} <=> reader[r].batch # <<>>

WorkerShape(w) ==
    /\ worker[w].pc = "append" => worker[w].pkt # NoPacket
    /\ worker[w].pc \in {"unspawned", "select", "exited"} => worker[w].pkt = NoPacket
    /\ worker[w].pkt = NoPacket => worker[w].k = 1
    /\ worker[w].pc \in {"unspawned", "exited"} => \A t \in Tables : worker[w].pending[t] = {}
    /\ worker[w].pc = "unspawned" <=> w > currentPacketWorkers

InserterShape(i) ==
    /\ inserter[i].pc \in {"ensure", "create", "insert", "spool"} <=> inserter[i].batch # NoBatch
    /\ inserter[i].pc = "unspawned" <=> i > currentInsertWorkers

SpawnRoom ==
    /\ tuner.pc = "spawn" => /\ currentPacketWorkers + tuner.packet <= MaxPacketWorkers
                             /\ currentInsertWorkers + tuner.insert <= MaxInsertWorkers
    /\ currentPacketWorkers >= 1
    /\ ~ParseOnly => currentInsertWorkers >= 1

Shape ==
    /\ \A r \in Receivers : ReaderShape(r)
    /\ \A w \in WorkerIds : WorkerShape(w)
    /\ \A i \in InserterIds : InserterShape(i)
    /\ SpawnRoom

(* The stages close in order, each empty behind the next.                   *)
DrainOrder ==
    /\ mainPc # "readWG" => \A r \in Receivers : reader[r].pc = "exited"
    /\ PacketChannelClosed => tuner.pc = "exited"
    /\ InsertBatchesClosed => \A w \in WorkerIds : worker[w].pc \in {"unspawned", "exited"}
    /\ mainPc = "stopped" => \A i \in InserterIds : inserter[i].pc \in {"unspawned", "exited"}
    /\ \A w \in WorkerIds :
         worker[w].pc = "exited" => PacketChannelClosed /\ packetChannel = <<>>
    /\ \A i \in InserterIds :
         inserter[i].pc = "exited" => InsertBatchesClosed /\ insertBatches = <<>>

(* A row is still somewhere: at least the half of EveryRowInOnePlace that   *)
(* says that none vanishes.                                                 *)
Kept(row) ==
    \/ row[1] \in wire \/ row[1] \in discarded
    \/ \E r \in Receivers : row[1] \in ReaderHolds(r)
    \/ \E n \in DOMAIN packetChannel : row[1] = packetChannel[n]
    \/ \E w \in WorkerIds : row \in WorkerHolds(w)
    \/ \E w \in WorkerIds, t \in Tables : row \in worker[w].pending[t]
    \/ \E n \in DOMAIN insertBatches : row \in insertBatches[n].rows
    \/ \E i \in InserterIds : row \in InserterHolds(i)
    \/ row \in FatedRows

EveryRowKept == ~ParseOnly => \A row \in Rows : Kept(row)

IInv == TypeOK /\ Shape /\ DrainOrder /\ EveryRowKept

-----------------------------------------------------------------------------
(* Sequences and rows.                                                      *)

(* Taking the head of a channel leaves a channel with the other elements.   *)
LEMMA TakeHead ==
    ASSUME NEW S, NEW s \in Seq(S), s # <<>>
    PROVE  /\ Head(s) \in S /\ Tail(s) \in Seq(S) /\ Len(Tail(s)) = Len(s) - 1
           /\ Len(s) >= 1
           /\ \A n \in DOMAIN s : s[n] = Head(s) \/ \E m \in DOMAIN Tail(s) : Tail(s)[m] = s[n]
  <1>1. Len(s) \in Nat /\ Len(s) >= 1 /\ DOMAIN s = 1..Len(s)
    BY SMT
  <1>2. Head(s) \in S /\ Tail(s) \in Seq(S) /\ Len(Tail(s)) = Len(s) - 1
    BY <1>1, SMT
  <1>3. DOMAIN Tail(s) = 1..(Len(s) - 1)
    BY <1>2, <1>1, SMT
  <1>4. ASSUME NEW n \in DOMAIN s, n # 1
        PROVE  n - 1 \in DOMAIN Tail(s) /\ Tail(s)[n - 1] = s[n]
    BY <1>1, <1>3, <1>4, SMT
  <1>5. s[1] = Head(s)
    BY <1>1, SMT
  <1> QED
    BY <1>1, <1>2, <1>4, <1>5

(* Putting an element on a channel keeps the others.                        *)
LEMMA PutLast ==
    ASSUME NEW S, NEW s \in Seq(S), NEW e \in S
    PROVE  /\ Append(s, e) \in Seq(S) /\ Len(Append(s, e)) = Len(s) + 1
           /\ \A n \in DOMAIN s : n \in DOMAIN Append(s, e) /\ Append(s, e)[n] = s[n]
           /\ Len(s) + 1 \in DOMAIN Append(s, e) /\ Append(s, e)[Len(s) + 1] = e
  BY SMT

(* There are finitely many rows, so every set of rows has a size.           *)
LEMMA RowsFinite == IsFiniteSet(Rows) /\ \A S \in SUBSET Rows : Cardinality(S) \in Nat
  <1>1. ASSUME NEW p \in Packets PROVE IsFiniteSet(RowsOf(p))
    <2>1. Len(Records[p]) \in Nat
      BY TrafficAssumption
    <2>2. 1 \in Int /\ Len(Records[p]) \in Int
      BY <2>1
    <2>3. IsFiniteSet(1..Len(Records[p]))
      BY <2>2, FS_Interval
    <2>4. IsFiniteSet({p})
      BY FS_Singleton
    <2> QED
      BY <2>3, <2>4, FS_Product DEF RowsOf
  <1>2. IsFiniteSet({RowsOf(p) : p \in Packets})
    <2> DEFINE T == {RowsOf(p) : p \in Packets}
               f == [p \in Packets |-> RowsOf(p)]
    <2>1. f \in Surjection(Packets, T)
      BY DEF Surjection
    <2> QED
      BY <2>1, TrafficAssumption, FS_Surjection
  <1>3. IsFiniteSet(Rows)
    BY <1>1, <1>2, FS_UNION DEF Rows
  <1> QED
    BY <1>3, FS_Subset, FS_CardinalityType

(* A row belongs to the datagram it was parsed from.                        *)
LEMMA RowOfPacket ==
    ASSUME NEW p \in Packets, NEW k \in Nat \ {0}, k <= Len(Records[p])
    PROVE  <<p, k>> \in Rows /\ Records[p][k] \in Tables
  <1>1. Records[p] \in Seq(Tables) /\ Len(Records[p]) \in Nat
    BY TrafficAssumption
  <1>2. <<p, k>> \in RowsOf(p)
    BY <1>1 DEF RowsOf
  <1> QED
    BY <1>1, <1>2 DEF Rows

(* The absence of a batch is not a batch.                                   *)
LEMMA NoBatchIsNone == NoBatch \notin Batch
  <1>1. Rows \subseteq Packets \X (Nat \ {0})
    BY TrafficAssumption DEF Rows, RowsOf
  <1> QED
    BY <1>1, TrafficAssumption DEF Batch

-----------------------------------------------------------------------------
(* The initial state.                                                       *)

LEMMA InitIInv == Init => IInv
  <1> SUFFICES ASSUME Init PROVE IInv
    OBVIOUS
  <1> USE ConfigAssumption
  <1>1. reader \in [Receivers -> ReaderState]
    BY DEF Init, IdleReader, ReaderState
  <1>2. worker \in [WorkerIds -> WorkerState]
    <2> DEFINE idle == [t \in Tables |-> {}]
    <2>1. idle \in [Tables -> SUBSET Rows]
      OBVIOUS
    <2>2. IdleWorker = [pc |-> "select", pkt |-> NoPacket, k |-> 1, pending |-> idle,
                        sweep |-> {}, flush |-> {}]
      BY DEF IdleWorker
    <2> HIDE DEF idle
    <2>3. \A pc \in {"select", "unspawned"} : [IdleWorker EXCEPT !.pc = pc] \in WorkerState
      BY <2>1, <2>2 DEF WorkerState
    <2> HIDE DEF IdleWorker
    <2> QED
      BY <2>3 DEF Init
  <1>3. inserter \in [InserterIds -> InserterState]
    BY DEF Init, IdleInserter, InserterState
  <1>4. TypeOK
    <2>1. /\ packetChannel \in Seq(Packets) /\ Len(packetChannel) <= PacketChannelSize
          /\ insertBatches \in Seq(Batch) /\ Len(insertBatches) <= InsertBatchChanSize
      BY DEF Init
    <2>2. tuner \in [pc : {"wait", "spawn", "exited"},
                    packet : 0..MaxPacketWorkers, insert : 0..MaxInsertWorkers]
      BY DEF Init, QuietTuner
    <2>3. /\ currentPacketWorkers \in 0..MaxPacketWorkers
          /\ currentInsertWorkers \in 0..MaxInsertWorkers
          /\ closedSockets \in 0..NumReceivers
      BY DEF Init
    <2>4. stored \in [Rows -> Nat] /\ total \in [Counters -> Nat]
      BY DEF Init
    <2> QED
      BY <1>1, <1>2, <1>3, <2>1, <2>2, <2>3, <2>4 DEF Init, TypeOK, MainPcs
  <1>5. Shape
    <2>1. ASSUME NEW w \in WorkerIds PROVE WorkerShape(w)
      <3>1. worker[w] = [IdleWorker EXCEPT !.pc = IF w <= PacketWorkers THEN "select"
                                                  ELSE "unspawned"]
        BY DEF Init
      <3>2. /\ worker[w].pkt = NoPacket /\ worker[w].pending = [t \in Tables |-> {}]
            /\ worker[w].k = 1
            /\ worker[w].pc = IF w <= PacketWorkers THEN "select" ELSE "unspawned"
        BY <3>1 DEF IdleWorker
      <3>3. \A t \in Tables : worker[w].pending[t] = {}
        BY <3>2
      <3>4. w \in Int /\ currentPacketWorkers = PacketWorkers
        BY DEF Init, WorkerIds
      <3> QED
        BY <3>2, <3>3, <3>4 DEF WorkerShape
    <2>2. \A i \in InserterIds : InserterShape(i)
      BY DEF Init, IdleInserter, InserterIds, InserterShape
    <2>3. \A r \in Receivers : ReaderShape(r)
      BY DEF Init, IdleReader, ReaderShape
    <2>4. SpawnRoom
      BY DEF Init, QuietTuner, SpawnRoom
    <2> QED
      BY <2>1, <2>2, <2>3, <2>4 DEF Shape
  <1>6. DrainOrder
    BY DEF Init, DrainOrder, PacketChannelClosed, InsertBatchesClosed, IdleWorker, IdleInserter
  <1>7. EveryRowKept
    BY DEF Init, EveryRowKept, Kept, Rows, RowsOf
  <1> QED
    BY <1>4, <1>5, <1>6, <1>7 DEF IInv

-----------------------------------------------------------------------------
(* The steps keep the types.                                                *)

(* Adding to a counter.                                                     *)
LEMMA CountMore ==
    ASSUME NEW t \in [Counters -> Nat], NEW c \in Counters, NEW n \in Nat
    PROVE  [t EXCEPT ![c] = @ + n] \in [Counters -> Nat]
  OBVIOUS

(* Two counters are raised in one step.                                     *)
LEMMA CountMore2 ==
    ASSUME NEW t \in [Counters -> Nat], NEW c \in Counters, NEW n \in Nat,
           NEW d \in Counters, NEW m \in Nat
    PROVE  [t EXCEPT ![c] = @ + n, ![d] = @ + m] \in [Counters -> Nat]
  OBVIOUS

(* The steps of main keep the types.                                        *)
LEMMA MainType == TypeOK /\ (RequestStop \/ Shutdown) => TypeOK'
  <1> SUFFICES ASSUME TypeOK, RequestStop \/ Shutdown PROVE TypeOK'
    OBVIOUS
  <1> USE ConfigAssumption DEF TypeOK, inputVars, insertVars, spoolVars, tuneVars
  <1>1. CASE RequestStop
    BY <1>1 DEF RequestStop
  <1>2. CASE CloseNextReceiver
    BY <1>2 DEF CloseNextReceiver
  <1>3. CASE MainStep
    BY <1>3 DEF MainStep, MainAfterReaders, MainClosePacketChannel, MainCloseInsertBatches,
                MainReturn, MainPcs
  <1> QED
    BY <1>1, <1>2, <1>3 DEF Shutdown

(* So do those of a receiver,                                               *)
LEMMA ReaderType ==
    ASSUME TypeOK, Shape, NEW r \in Receivers, ReadBatch(r) \/ TransientErrorAtStop(r) \/ ReaderStep(r)
    PROVE  TypeOK'
  <1> USE ConfigAssumption
      DEF readUnchanged, insertVars, spoolVars, tuneVars, mainVars
  <1>1. reader[r] \in ReaderState /\ reader[r].batch \in Seq(Packets)
    BY DEF TypeOK, ReaderState
  <1>2. CASE ReadBatch(r)
    <2>0. PICK n \in 1..UdpBatchSize : \E b \in [1..n -> wire] :
             /\ reader' = [reader EXCEPT ![r] = [pc |-> "loop", batch |-> b]]
             /\ wire' = wire \ {b[i] : i \in 1..n}
      BY <1>2 DEF ReadBatch
    <2>1. PICK b \in [1..n -> wire] :
             /\ reader' = [reader EXCEPT ![r] = [pc |-> "loop", batch |-> b]]
             /\ wire' = wire \ {b[i] : i \in 1..n}
      BY <2>0
    <2>2. b \in Seq(Packets)
      <3>1. n \in Nat
        OBVIOUS
      <3>2. wire \subseteq Packets
        BY DEF TypeOK
      <3>3. b \in [1..n -> Packets]
        BY <3>2
      <3> QED
        BY <3>1, <3>3
    <2>3. reader' \in [Receivers -> ReaderState] /\ wire' \subseteq Packets
      BY <2>1, <2>2 DEF TypeOK, ReaderState
    <2> QED
      BY <1>2, <2>3 DEF ReadBatch, TypeOK
  <1>3. CASE LeaveAtStop(r)
    <2>1. reader' \in [Receivers -> ReaderState]
      BY <1>1, <1>3 DEF LeaveAtStop, TypeOK, ReaderState
    <2> QED
      BY <1>3, <2>1 DEF LeaveAtStop, TypeOK
  <1>4. reader[r].pc \in {"loop", "send"} => Advance(r) \in ReaderState /\ Head(reader[r].batch) \in Packets
    BY <1>1, TakeHead DEF Shape, ReaderShape, Advance, ReaderState
  <1>5. CASE SkipEmpty(r)
    <2>1. reader' \in [Receivers -> ReaderState]
      BY <1>4, <1>5 DEF SkipEmpty, TypeOK
    <2> QED
      BY <1>5, <2>1 DEF SkipEmpty, TypeOK
  <1>6. CASE CountReceived(r)
    <2>1. reader' \in [Receivers -> ReaderState]
      BY <1>1, <1>6 DEF CountReceived, TypeOK, ReaderState
    <2>2. total' \in [Counters -> Nat]
      BY <1>6, CountMore DEF CountReceived, TypeOK, Counters
    <2> QED
      BY <1>6, <2>1, <2>2 DEF CountReceived, TypeOK
  <1>7. CASE SendPacket(r)
    <2>1. reader' \in [Receivers -> ReaderState]
      BY <1>4, <1>7 DEF SendPacket, TypeOK
    <2>2. packetChannel' \in Seq(Packets) /\ Len(packetChannel') <= PacketChannelSize
      BY <1>4, <1>7, PutLast DEF SendPacket, TypeOK
    <2> QED
      BY <1>7, <2>1, <2>2 DEF SendPacket, TypeOK
  <1>8. CASE DiscardAtStop(r)
    <2>1. reader' \in [Receivers -> ReaderState]
      BY <1>8 DEF DiscardAtStop, TypeOK, ReaderState
    <2>2. discarded' \subseteq Packets
      BY <1>1, <1>8 DEF DiscardAtStop, TypeOK
    <2> QED
      BY <1>8, <2>1, <2>2 DEF DiscardAtStop, TypeOK
  <1> QED
    BY <1>2, <1>3, <1>5, <1>6, <1>7, <1>8 DEF ReaderStep, ReadErrorAtStop, TransientErrorAtStop

(* Records of packet workers with some fields changed.                      *)
LEMMA WorkerFields ==
    ASSUME NEW x \in WorkerState
    PROVE  /\ x.pkt \in Packets \cup {NoPacket} /\ x.k \in Nat \ {0}
           /\ x.pending \in [Tables -> SUBSET Rows]
           /\ x.sweep \subseteq Tables /\ x.flush \subseteq Tables
  BY DEF WorkerState

(* A worker without a packet is typed, whatever table it flushes.           *)
LEMMA BetweenPackets ==
    ASSUME NEW x \in WorkerState, NEW k \in Nat \ {0}, NEW pkt \in Packets \cup {NoPacket}
    PROVE  [x EXCEPT !.pc = "select", !.pkt = pkt, !.k = k] \in WorkerState
  BY DEF WorkerState

(* Changing one pending batch keeps a worker's type.                        *)
LEMMA WithPending ==
    ASSUME NEW x \in WorkerState, NEW t \in Tables, NEW rows \in SUBSET Rows, NEW k \in Nat \ {0},
           NEW pc \in {"append", "send", "watermark"}, NEW flush \in SUBSET Tables
    PROVE  [x EXCEPT !.pending[t] = rows, !.k = k, !.pc = pc, !.flush = flush] \in WorkerState
  <1>1. /\ x.pkt \in Packets \cup {NoPacket} /\ x.k \in Nat \ {0}
        /\ x.pending \in [Tables -> SUBSET Rows]
        /\ x.sweep \subseteq Tables /\ x.flush \subseteq Tables
    BY WorkerFields
  <1> QED
    BY <1>1 DEF WorkerState

(* The three outcomes of the spool keep the types of what they change.      *)
LEMMA SpoolType ==
    ASSUME TypeOK, NEW rows \in SUBSET Rows, Spool(rows)
    PROVE  /\ spooled' \subseteq Rows /\ orphaned' \subseteq Rows /\ spoolLost' \subseteq Rows
           /\ total' \in [Counters -> Nat]
  <1>1. Cardinality(rows) \in Nat
    BY RowsFinite
  <1>2. "FailedRowsSpooled" \in Counters /\ "FailedSpoolErrors" \in Counters
    BY DEF Counters
  <1>3. total \in [Counters -> Nat]
    BY DEF TypeOK
  <1>4. /\ [total EXCEPT !["FailedRowsSpooled"] = @ + Cardinality(rows)] \in [Counters -> Nat]
        /\ [total EXCEPT !["FailedSpoolErrors"] = @ + 1] \in [Counters -> Nat]
    BY <1>1, <1>2, <1>3, CountMore
  <1>5. /\ total' \in [Counters -> Nat]
    BY <1>4 DEF Spool
  <1> QED
    BY <1>5 DEF Spool, TypeOK

(* The steps of a packet worker keep the types,                             *)
LEMMA WorkerType ==
    ASSUME TypeOK, Shape, NEW w \in WorkerIds, WorkerStep(w)
    PROVE  TypeOK'
  <1> USE ConfigAssumption
      DEF takeUnchanged, flushUnchanged, inputVars, insertVars, spoolVars, tuneVars, mainVars
  <1>1. /\ worker[w] \in WorkerState /\ worker[w].pkt \in Packets \cup {NoPacket}
        /\ worker[w].k \in Nat \ {0} /\ worker[w].pending \in [Tables -> SUBSET Rows]
        /\ worker[w].sweep \subseteq Tables /\ worker[w].flush \subseteq Tables
    BY DEF TypeOK, WorkerState
  <1>2. packetChannel # <<>> =>
          /\ Head(packetChannel) \in Packets /\ Tail(packetChannel) \in Seq(Packets)
          /\ Len(Tail(packetChannel)) <= PacketChannelSize
          /\ Len(Records[Head(packetChannel)]) \in Nat
    <2> SUFFICES ASSUME packetChannel # <<>>
                 PROVE  /\ Head(packetChannel) \in Packets /\ Tail(packetChannel) \in Seq(Packets)
                        /\ Len(Tail(packetChannel)) <= PacketChannelSize
                        /\ Len(Records[Head(packetChannel)]) \in Nat
      OBVIOUS
    <2>1. packetChannel \in Seq(Packets) /\ Len(packetChannel) <= PacketChannelSize
      BY DEF TypeOK
    <2>2. /\ Head(packetChannel) \in Packets /\ Tail(packetChannel) \in Seq(Packets)
          /\ Len(Tail(packetChannel)) = Len(packetChannel) - 1
      BY <2>1, TakeHead
    <2>3. Len(packetChannel) \in Nat
      BY <2>1
    <2> QED
      BY <2>1, <2>2, <2>3, TrafficAssumption
  <1>3. CASE RejectPacket(w)
    <2>1. total' \in [Counters -> Nat]
      <3>1. "ParseErrors" \in Counters /\ "PacketProcessed" \in Counters
        BY DEF Counters
      <3> QED
        BY <1>3, <3>1, CountMore2 DEF RejectPacket, TypeOK
    <2> QED
      BY <1>2, <1>3, <2>1 DEF RejectPacket, TypeOK
  <1>4. CASE CountPacketOnly(w)
    <2>1. total' \in [Counters -> Nat]
      <3>1. "Parsed" \in Counters /\ "PacketProcessed" \in Counters
        BY DEF Counters
      <3>2. Len(Records[Head(packetChannel)]) \in Nat
        BY <1>2, <1>4 DEF CountPacketOnly
      <3> QED
        BY <1>4, <3>1, <3>2, CountMore2 DEF CountPacketOnly, TypeOK
    <2> QED
      BY <1>2, <1>4, <2>1 DEF CountPacketOnly, TypeOK
  <1>5. CASE TakePacket(w)
    <2>1. worker' \in [WorkerIds -> WorkerState]
      BY <1>1, <1>2, <1>5 DEF TakePacket, TypeOK, WorkerState
    <2> QED
      BY <1>2, <1>5, <2>1 DEF TakePacket, TypeOK
  <1>6. CASE AppendEntry(w)
    <2>1. worker[w].pkt \in Packets
      BY <1>1, <1>6 DEF AppendEntry, Shape, WorkerShape
    <2>2. WithEntry(w) \in WorkerState
      <3> DEFINE row == <<worker[w].pkt, worker[w].k>>
                 t == Records[worker[w].pkt][worker[w].k]
                 rows == worker[w].pending[t] \cup {row}
                 full == Cardinality(rows) >= InsertBatchRows
                 pc == IF full THEN FlushPc ELSE "append"
                 flush == IF full THEN {t} ELSE {}
                 k == worker[w].k + 1
      <3>1. row \in Rows /\ t \in Tables
        BY <1>1, <1>6, <2>1, RowOfPacket DEF AppendEntry
      <3>2. rows \in SUBSET Rows /\ flush \in SUBSET Tables /\ k \in Nat \ {0}
        BY <1>1, <3>1
      <3>3. pc \in {"append", "send", "watermark"}
        BY DEF FlushPc
      <3>4. WithEntry(w) = [worker[w] EXCEPT !.pending[t] = rows, !.k = k, !.pc = pc,
                                             !.flush = flush]
        BY Zenon DEF WithEntry
      <3> HIDE DEF row, t, rows, k, pc, flush
      <3>5. \A x \in WorkerState :
              [x EXCEPT !.pending[t] = rows, !.k = k, !.pc = pc, !.flush = flush] \in WorkerState
        BY <3>1, <3>2, <3>3, WithPending
      <3> QED
        BY <1>1, <3>4, <3>5, Zenon
    <2>3. worker' \in [WorkerIds -> WorkerState]
      BY <1>6, <2>2 DEF AppendEntry, TypeOK
    <2>4. total' \in [Counters -> Nat]
      BY <1>6, CountMore DEF AppendEntry, TypeOK, Counters
    <2> QED
      BY <1>6, <2>3, <2>4 DEF AppendEntry, TypeOK
  <1>7. CASE FinishPacket(w)
    <2>1. [worker[w] EXCEPT !.pc = "select", !.pkt = NoPacket, !.k = 1] \in WorkerState
      <3>1. 1 \in Nat \ {0} /\ NoPacket \in Packets \cup {NoPacket}
        OBVIOUS
      <3> QED
        BY <1>1, <3>1, BetweenPackets
    <2>2. worker' \in [WorkerIds -> WorkerState]
      BY <1>7, <2>1 DEF FinishPacket, TypeOK
    <2>3. total' \in [Counters -> Nat]
      BY <1>7, CountMore DEF FinishPacket, TypeOK, Counters
    <2> QED
      BY <1>7, <2>2, <2>3 DEF FinishPacket, TypeOK
  <1>8. CASE FlushAll(w)
    <2>1. NonEmpty(w) \in SUBSET Tables
      BY DEF NonEmpty
    <2>2. [worker[w] EXCEPT !.pc = "sweep", !.sweep = NonEmpty(w)] \in WorkerState
      BY <1>1, <2>1 DEF WorkerState
    <2>3. worker' \in [WorkerIds -> WorkerState]
      BY <1>8, <2>2 DEF FlushAll, TypeOK
    <2> QED
      BY <1>8, <2>3 DEF FlushAll, TypeOK
  <1>9. CASE SweepTable(w)
    <2>1. PICK t \in worker[w].sweep : worker' = [worker EXCEPT ![w] = Sweeping(w, t)]
      BY <1>9 DEF SweepTable
    <2> DEFINE sweep == worker[w].sweep \ {t}
               flush == {t}
    <2>2. sweep \in SUBSET Tables /\ flush \in SUBSET Tables
      BY <1>1
    <2>3. FlushPc \in {"watermark", "send"}
      BY DEF FlushPc
    <2>4. Sweeping(w, t) = [worker[w] EXCEPT !.pc = FlushPc, !.sweep = sweep, !.flush = flush]
      BY DEF Sweeping
    <2>5. Sweeping(w, t) \in WorkerState
      <3> HIDE DEF sweep, flush
      <3> QED
        BY <1>1, <2>2, <2>3, <2>4 DEF WorkerState
    <2>6. worker' \in [WorkerIds -> WorkerState]
      BY <2>1, <2>5 DEF TypeOK
    <2> QED
      BY <1>9, <2>6 DEF SweepTable, TypeOK
  <1>10. CASE WorkerReturn(w)
    <2>1. worker' \in [WorkerIds -> WorkerState]
      BY <1>1, <1>10 DEF WorkerReturn, TypeOK, WorkerState
    <2> QED
      BY <1>10, <2>1 DEF WorkerReturn, TypeOK
  <1>11. CASE AdmitBatch(w)
    <2>1. worker' \in [WorkerIds -> WorkerState]
      BY <1>1, <1>11 DEF AdmitBatch, TypeOK, WorkerState
    <2> QED
      BY <1>11, <2>1 DEF AdmitBatch, TypeOK
  <1>12. ASSUME NEW t \in Tables PROVE Resume(w, t) \in WorkerState
    BY <1>1 DEF Resume, WorkerState
  <1>13. CASE SendBatch(w)
    <2>1. PICK t \in worker[w].flush :
             /\ insertBatches' = Append(insertBatches, [table |-> t, rows |-> worker[w].pending[t]])
             /\ worker' = [worker EXCEPT ![w] = Resume(w, t)]
      BY <1>13 DEF SendBatch
    <2>2. t \in Tables
      BY <1>1
    <2>3. [table |-> t, rows |-> worker[w].pending[t]] \in Batch
      BY <1>1, <2>2 DEF Batch
    <2>4. insertBatches' \in Seq(Batch) /\ Len(insertBatches') <= InsertBatchChanSize
      BY <1>13, <2>1, <2>3, PutLast DEF SendBatch, TypeOK
    <2>5. worker' \in [WorkerIds -> WorkerState]
      BY <1>12, <2>1, <2>2 DEF TypeOK
    <2> QED
      BY <1>13, <2>4, <2>5 DEF SendBatch, TypeOK
  <1>14. CASE RefuseBatch(w)
    <2>1. worker' \in [WorkerIds -> WorkerState]
      BY <1>1, <1>14 DEF RefuseBatch, TypeOK, WorkerState
    <2>2. PICK t \in worker[w].flush :
             total' = [total EXCEPT !["LiveSkippedRows"] = @ + Cardinality(worker[w].pending[t])]
      BY <1>14 DEF RefuseBatch
    <2>3. Cardinality(worker[w].pending[t]) \in Nat
      BY <1>1, RowsFinite
    <2>4. total' \in [Counters -> Nat]
      BY <2>2, <2>3, CountMore DEF TypeOK, Counters
    <2> QED
      BY <1>14, <2>1, <2>4 DEF RefuseBatch, TypeOK
  <1>15. CASE SpoolRefused(w)
    <2>1. PICK t \in worker[w].flush :
             /\ Spool(worker[w].pending[t])
             /\ worker' = [worker EXCEPT ![w] = Resume(w, t)]
      BY <1>15 DEF SpoolRefused
    <2>2. t \in Tables /\ worker[w].pending[t] \in SUBSET Rows
      BY <1>1
    <2>3. worker' \in [WorkerIds -> WorkerState]
      BY <1>12, <2>1, <2>2 DEF TypeOK
    <2>4. /\ spooled' \subseteq Rows /\ orphaned' \subseteq Rows /\ spoolLost' \subseteq Rows
          /\ total' \in [Counters -> Nat]
      BY <2>1, <2>2, SpoolType
    <2> QED
      BY <1>15, <2>3, <2>4 DEF SpoolRefused, TypeOK
  <1> QED
    BY <1>3, <1>4, <1>5, <1>6, <1>7, <1>8, <1>9, <1>10, <1>11, <1>13, <1>14, <1>15
    DEF WorkerStep

(* those of an insert worker too,                                           *)
LEMMA InserterType ==
    ASSUME TypeOK, Shape, NEW i \in InserterIds, InserterStep(i)
    PROVE  TypeOK'
  <1> USE ConfigAssumption
      DEF insertUnchanged, inputVars, tuneVars, mainVars
  <1>1. /\ inserter[i] \in InserterState /\ inserter[i].batch \in Batch \cup {NoBatch}
        /\ inserter[i].attempt \in 1..InsertMaxRetries
    BY DEF TypeOK, InserterState
  <1>2. ASSUME inserter[i].pc \in {"ensure", "create", "insert", "spool"}
        PROVE  /\ inserter[i].batch \in Batch /\ inserter[i].batch.table \in Tables
               /\ inserter[i].batch.rows \in SUBSET Rows
               /\ Cardinality(inserter[i].batch.rows) \in Nat
    <2>1. inserter[i].batch \in Batch
      BY <1>1, <1>2 DEF Shape, InserterShape
    <2>2. inserter[i].batch.table \in Tables /\ inserter[i].batch.rows \in SUBSET Rows
      BY <2>1 DEF Batch
    <2> QED
      BY <2>1, <2>2, RowsFinite
  <1>3. IdleInserter \in InserterState
    BY DEF IdleInserter, InserterState
  <1>4. \A pc \in {"recv", "ensure", "create", "insert", "spool", "exited"} :
          [inserter[i] EXCEPT !.pc = pc] \in InserterState
    BY <1>1 DEF InserterState
  <1>5. ASSUME inserter[i].pc \in {"create", "insert"}, AttemptFailed(i)
        PROVE  inserter' \in [InserterIds -> InserterState] /\ total' \in [Counters -> Nat]
    <2>1. CASE inserter[i].attempt < InsertMaxRetries
      <3>1. inserter[i].attempt + 1 \in 1..InsertMaxRetries
        BY <1>1, <2>1
      <3>2. NextAttempt(i) \in InserterState
        BY <1>1, <3>1 DEF NextAttempt, InserterState
      <3> QED
        BY <1>5, <2>1, <3>2 DEF AttemptFailed, TypeOK
    <2>2. CASE ~(inserter[i].attempt < InsertMaxRetries)
      <3>1. inserter' = [inserter EXCEPT ![i] = [inserter[i] EXCEPT !.pc = "spool"]]
        BY <1>5, <2>2 DEF AttemptFailed
      <3>2. "InsertDroppedRows" \in Counters
        BY DEF Counters
      <3>3. total' = [total EXCEPT !["InsertDroppedRows"] =
                                        @ + Cardinality(inserter[i].batch.rows)]
        BY <1>5, <2>2 DEF AttemptFailed
      <3>4. total' \in [Counters -> Nat]
        BY <1>2, <1>5, <3>2, <3>3, CountMore DEF TypeOK
      <3> QED
        BY <1>4, <3>1, <3>4 DEF TypeOK
    <2> QED
      BY <2>1, <2>2
  <1>6. ASSUME NEW rows \in SUBSET Rows PROVE StoredOnceMore(rows) \in [Rows -> Nat]
    BY DEF StoredOnceMore, TypeOK
  <1>7. CASE ReceiveBatch(i)
    <2>1. insertBatches \in Seq(Batch) /\ insertBatches # <<>>
      BY <1>7 DEF ReceiveBatch, TypeOK
    <2>2. /\ Head(insertBatches) \in Batch /\ Tail(insertBatches) \in Seq(Batch)
          /\ Len(Tail(insertBatches)) = Len(insertBatches) - 1
          /\ Len(insertBatches) \in Nat
      BY <2>1, TakeHead
    <2>3. [pc |-> "ensure", batch |-> Head(insertBatches), attempt |-> 1] \in InserterState
      BY <2>2 DEF InserterState
    <2>4. inserter' \in [InserterIds -> InserterState]
      BY <1>7, <2>3 DEF ReceiveBatch, TypeOK
    <2>5. insertBatches' \in Seq(Batch) /\ Len(insertBatches') <= InsertBatchChanSize
      BY <1>7, <2>2 DEF ReceiveBatch, TypeOK
    <2> QED
      BY <1>7, <2>4, <2>5 DEF ReceiveBatch, TypeOK, spoolVars
  <1>8. CASE EnsureTable(i)
    <2>1. inserter' \in [InserterIds -> InserterState]
      BY <1>4, <1>8 DEF EnsureTable, TypeOK
    <2>2. createdTablesMu' \in {0} \cup InserterIds
      BY <1>8 DEF EnsureTable, TypeOK
    <2> QED
      BY <1>8, <2>1, <2>2 DEF EnsureTable, TypeOK, spoolVars
  <1>9. CASE CreateTable(i)
    <2>1. inserter' \in [InserterIds -> InserterState]
      BY <1>4, <1>9 DEF CreateTable, TypeOK
    <2>2. total' \in [Counters -> Nat]
      BY <1>9, CountMore DEF CreateTable, TypeOK, Counters
    <2>3. createdTables' \subseteq Tables
      BY <1>2, <1>9 DEF CreateTable, TypeOK
    <2> QED
      BY <1>9, <2>1, <2>2, <2>3 DEF CreateTable, TypeOK, spoolVars
  <1>10. CASE CreateTableFails(i)
    <2>1. inserter' \in [InserterIds -> InserterState] /\ total' \in [Counters -> Nat]
      BY <1>5, <1>10 DEF CreateTableFails
    <2> QED
      BY <1>10, <2>1 DEF CreateTableFails, TypeOK, spoolVars
  <1>11. CASE InsertSucceeds(i)
    <2>1. inserter' \in [InserterIds -> InserterState]
      BY <1>3, <1>11 DEF InsertSucceeds, TypeOK
    <2>2. stored' \in [Rows -> Nat] /\ inserted' \subseteq Rows
      BY <1>2, <1>6, <1>11 DEF InsertSucceeds, TypeOK
    <2>3. total' \in [Counters -> Nat]
      BY <1>2, <1>11, CountMore DEF InsertSucceeds, TypeOK, Counters
    <2> QED
      BY <1>11, <2>1, <2>2, <2>3 DEF InsertSucceeds, TypeOK, spoolVars
  <1>12. CASE InsertFails(i)
    <2>1. inserter' \in [InserterIds -> InserterState] /\ total' \in [Counters -> Nat]
      BY <1>5, <1>12 DEF InsertFails
    <2>2. stored' \in [Rows -> Nat]
      BY <1>2, <1>6, <1>12 DEF InsertFails, TypeOK
    <2> QED
      BY <1>12, <2>1, <2>2 DEF InsertFails, TypeOK, spoolVars
  <1>13. CASE SpoolExhausted(i)
    <2>1. inserter' \in [InserterIds -> InserterState]
      BY <1>3, <1>13 DEF SpoolExhausted, TypeOK
    <2>2. inserter[i].batch.rows \in SUBSET Rows /\ Spool(inserter[i].batch.rows)
      BY <1>2, <1>13 DEF SpoolExhausted
    <2>3. /\ spooled' \subseteq Rows /\ orphaned' \subseteq Rows /\ spoolLost' \subseteq Rows
          /\ total' \in [Counters -> Nat]
      BY <2>2, SpoolType
    <2> QED
      BY <1>13, <2>1, <2>3 DEF SpoolExhausted, TypeOK
  <1>14. CASE InserterReturn(i)
    <2>1. inserter' \in [InserterIds -> InserterState]
      BY <1>4, <1>14 DEF InserterReturn, TypeOK
    <2> QED
      BY <1>14, <2>1 DEF InserterReturn, TypeOK, spoolVars
  <1> QED
    BY <1>7, <1>8, <1>9, <1>10, <1>11, <1>12, <1>13, <1>14 DEF InserterStep

(* scaleStep never asks for more workers than the maximum leaves room for.  *)
LEMMA ScaleStepRoom ==
    ASSUME NEW current \in Nat, NEW max \in Nat, current <= max, NEW critical \in BOOLEAN
    PROVE  ScaleStep(current, max, critical) \in 0..(max - current)
  <1> DEFINE half == IF critical THEN current ELSE current \div 2
  <1>1. half \in Nat
    OBVIOUS
  <1> QED
    BY <1>1 DEF ScaleStep

(* and those of the autotune supervisor.                                    *)
LEMMA TunerType ==
    ASSUME TypeOK, Shape, SampleQueues \/ SpawnWorkers \/ TunerReturn
    PROVE  TypeOK'
  <1> USE ConfigAssumption
      DEF tuneUnchanged, inputVars, spoolVars, mainVars
  <1>1. /\ currentPacketWorkers \in Nat /\ currentPacketWorkers <= MaxPacketWorkers
        /\ currentInsertWorkers \in Nat /\ currentInsertWorkers <= MaxInsertWorkers
        /\ tuner.packet \in Nat /\ tuner.insert \in Nat
    BY DEF TypeOK
  <1>2. CASE SampleQueues
    <2>1. \A critical \in BOOLEAN :
            ScaleStep(currentPacketWorkers, MaxPacketWorkers, critical) \in 0..MaxPacketWorkers
      <3>1. \A critical \in BOOLEAN :
              ScaleStep(currentPacketWorkers, MaxPacketWorkers, critical)
                 \in 0..(MaxPacketWorkers - currentPacketWorkers)
        BY <1>1, ScaleStepRoom
      <3> QED
        BY <1>1, <3>1
    <2>2. \A critical \in BOOLEAN :
            ScaleStep(currentInsertWorkers, MaxInsertWorkers, critical) \in 0..MaxInsertWorkers
      <3>1. \A critical \in BOOLEAN :
              ScaleStep(currentInsertWorkers, MaxInsertWorkers, critical)
                 \in 0..(MaxInsertWorkers - currentInsertWorkers)
        BY <1>1, ScaleStepRoom
      <3> QED
        BY <1>1, <3>1
    <2>3. \E packet \in 0..MaxPacketWorkers, insert \in 0..MaxInsertWorkers :
             tuner' = [pc |-> "spawn", packet |-> packet, insert |-> insert]
      <3> DEFINE packetUsage == UsagePct(packetChannel, PacketChannelSize)
                 batchUsage == UsagePct(insertBatches, InsertBatchChanSize)
                 packetCritical == packetUsage >= AutoTuneCriticalPct
                 batchCritical == batchUsage >= AutoTuneCriticalPct
                 packetStep == IF packetUsage >= AutoTuneHighPct /\ batchUsage < AutoTuneCriticalPct
                               THEN ScaleStep(currentPacketWorkers, MaxPacketWorkers, packetCritical)
                               ELSE 0
                 insertStep == IF batchUsage >= AutoTuneHighPct
                               THEN ScaleStep(currentInsertWorkers, MaxInsertWorkers, batchCritical)
                               ELSE 0
      <3>1. packetCritical \in BOOLEAN /\ batchCritical \in BOOLEAN
        OBVIOUS
      <3>2. tuner' = [pc |-> "spawn", packet |-> packetStep, insert |-> insertStep]
        BY <1>2, Zenon DEF SampleQueues
      <3> HIDE DEF packetUsage, batchUsage, packetCritical, batchCritical
      <3>3. packetStep \in 0..MaxPacketWorkers
        BY <2>1, <3>1
      <3>4. insertStep \in 0..MaxInsertWorkers
        BY <2>2, <3>1
      <3> QED
        BY <3>2, <3>3, <3>4
    <2>4. tuner' \in [pc : {"wait", "spawn", "exited"},
                     packet : 0..MaxPacketWorkers, insert : 0..MaxInsertWorkers]
      BY <2>3
    <2> QED
      BY <1>2, <2>4 DEF SampleQueues, TypeOK, insertVars
  <1>3. CASE SpawnWorkers
    <2>1. \A w \in WorkerIds :
            worker[w] \in WorkerState /\ [worker[w] EXCEPT !.pc = "select"] \in WorkerState
      BY DEF TypeOK, WorkerState
    <2>2. worker' \in [WorkerIds -> WorkerState]
      <3> QED
        BY <1>3, <2>1 DEF SpawnWorkers
    <2>3. \A i \in InserterIds :
            inserter[i] \in InserterState /\ [inserter[i] EXCEPT !.pc = "recv"] \in InserterState
      BY DEF TypeOK, InserterState
    <2>4. inserter' \in [InserterIds -> InserterState]
      BY <1>3, <2>3 DEF SpawnWorkers
    <2>5. /\ currentPacketWorkers + tuner.packet <= MaxPacketWorkers
          /\ currentInsertWorkers + tuner.insert <= MaxInsertWorkers
      BY <1>3 DEF SpawnWorkers, Shape, SpawnRoom
    <2>6. /\ currentPacketWorkers' = currentPacketWorkers + tuner.packet
          /\ currentInsertWorkers' = currentInsertWorkers + tuner.insert
      BY <1>3 DEF SpawnWorkers
    <2>7. /\ currentPacketWorkers' \in 0..MaxPacketWorkers
          /\ currentInsertWorkers' \in 0..MaxInsertWorkers
      BY <1>1, <2>5, <2>6
    <2>8. tuner' \in [pc : {"wait", "spawn", "exited"},
                     packet : 0..MaxPacketWorkers, insert : 0..MaxInsertWorkers]
      BY <1>3 DEF SpawnWorkers, QuietTuner
    <2> QED
      BY <1>3, <2>2, <2>4, <2>7, <2>8 DEF SpawnWorkers, TypeOK
  <1>4. CASE TunerReturn
    <2>1. tuner' \in [pc : {"wait", "spawn", "exited"},
                     packet : 0..MaxPacketWorkers, insert : 0..MaxInsertWorkers]
      BY <1>4 DEF TunerReturn, TypeOK
    <2> QED
      BY <1>4, <2>1 DEF TunerReturn, TypeOK, insertVars
  <1> QED
    BY <1>2, <1>3, <1>4
-----------------------------------------------------------------------------
(* The steps keep the shape.                                                *)

LEMMA ReaderKeepsShape ==
    ASSUME TypeOK, Shape, NEW r \in Receivers, ReadBatch(r) \/ TransientErrorAtStop(r) \/ ReaderStep(r)
    PROVE  Shape'
  <1>1. reader[r] \in ReaderState /\ reader[r].batch \in Seq(Packets)
    BY DEF TypeOK, ReaderState
  <1>2. ASSUME reader[r].batch # <<>>
        PROVE  Advance(r).pc \in {"loop", "send"} <=> Advance(r).batch # <<>>
    <2>1. Len(Tail(reader[r].batch)) = Len(reader[r].batch) - 1 /\ Tail(reader[r].batch) \in Seq(Packets)
          /\ Len(reader[r].batch) \in Nat
      BY <1>1, <1>2, TakeHead
    <2>2. Len(Tail(reader[r].batch)) = 0 <=> Tail(reader[r].batch) = <<>>
      <3> DEFINE rest == Tail(reader[r].batch)
      <3>1. rest \in Seq(Packets)
        BY <2>1
      <3> HIDE DEF rest
      <3>2. Len(rest) = 0 <=> rest = <<>>
        BY <3>1, EmptySeq
      <3> QED
        BY <3>2 DEF rest
    <2>3. Tail(reader[r].batch) = <<>> <=> Len(reader[r].batch) = 1
      BY <2>1, <2>2
    <2> QED
      BY <2>3 DEF Advance
  <1>3. ASSUME NEW v, reader' = [reader EXCEPT ![r] = v],
               v.pc \in {"loop", "send"} <=> v.batch # <<>>
        PROVE  \A q \in Receivers : ReaderShape(q)'
    BY <1>3 DEF TypeOK, Shape, ReaderShape
  <1>4. \A q \in Receivers : ReaderShape(q)'
    <2>1. CASE ReadBatch(r)
      <3>1. PICK n \in 1..UdpBatchSize : \E b \in [1..n -> wire] :
               reader' = [reader EXCEPT ![r] = [pc |-> "loop", batch |-> b]]
        BY <2>1 DEF ReadBatch
      <3>2. PICK b \in [1..n -> wire] :
               reader' = [reader EXCEPT ![r] = [pc |-> "loop", batch |-> b]]
        BY <3>1
      <3>3. n \in Nat /\ n >= 1 /\ b \in Seq(wire) /\ Len(b) = n
        BY ConfigAssumption
      <3>4. b # <<>>
        BY <3>3
      <3> QED
        BY <1>3, <3>2, <3>4
    <2>2. CASE LeaveAtStop(r)
      BY <1>1, <2>2 DEF LeaveAtStop, TypeOK, Shape, ReaderShape, ReaderState
    <2>3. CASE SkipEmpty(r)
      BY <1>2, <1>3, <2>3 DEF SkipEmpty, Shape, ReaderShape
    <2>4. CASE CountReceived(r)
      BY <1>1, <2>4 DEF CountReceived, TypeOK, Shape, ReaderShape, ReaderState
    <2>5. CASE SendPacket(r)
      BY <1>2, <1>3, <2>5 DEF SendPacket, Shape, ReaderShape
    <2>6. CASE DiscardAtStop(r)
      BY <1>3, <2>6 DEF DiscardAtStop
    <2> QED
      BY <2>1, <2>2, <2>3, <2>4, <2>5, <2>6 DEF ReaderStep, ReadErrorAtStop, TransientErrorAtStop
  <1>5. UNCHANGED <<worker, inserter, tuner, currentPacketWorkers, currentInsertWorkers>>
    BY DEF ReadBatch, ReaderStep, ReadErrorAtStop, TransientErrorAtStop, LeaveAtStop, SkipEmpty, CountReceived, SendPacket,
           DiscardAtStop, readUnchanged, insertVars, tuneVars
  <1> QED
    BY <1>4, <1>5 DEF Shape, WorkerShape, InserterShape, SpawnRoom

(* What a step of a packet worker may make of its record.                   *)
LEMMA WorkerKeepsShape ==
    ASSUME TypeOK, Shape, NEW w \in WorkerIds, WorkerStep(w)
    PROVE  Shape'
  <1> DEFINE Fits(v) ==
        /\ v.pc = "append" => v.pkt # NoPacket
        /\ v.pc \in {"select", "exited"} => v.pkt = NoPacket
        /\ v.pkt = NoPacket => v.k = 1
        /\ v.pc = "exited" => \A t \in Tables : v.pending[t] = {}
        /\ v.pc # "unspawned"
  <1>1. worker[w] \in WorkerState /\ worker[w].pkt \in Packets \cup {NoPacket}
    BY DEF TypeOK, WorkerState
  <1>2. worker[w].pc # "unspawned"
    BY DEF WorkerStep, RejectPacket, CountPacketOnly, TakePacket, AppendEntry, FinishPacket,
           FlushAll, SweepTable, WorkerReturn, AdmitBatch, SendBatch, RefuseBatch, SpoolRefused
  <1>3. UNCHANGED <<reader, inserter, tuner, currentPacketWorkers, currentInsertWorkers>>
    BY DEF WorkerStep, RejectPacket, CountPacketOnly, TakePacket, AppendEntry, FinishPacket,
           FlushAll, SweepTable, WorkerReturn, AdmitBatch, SendBatch, RefuseBatch, SpoolRefused,
           takeUnchanged, flushUnchanged, inputVars, insertVars, tuneVars
  <1>4. WorkerShape(w)
    BY DEF Shape
  <1>5. \E v : Fits(v) /\ worker' = [worker EXCEPT ![w] = v]
    <2>1. ASSUME UNCHANGED worker PROVE Fits(worker[w]) /\ worker' = [worker EXCEPT ![w] = worker[w]]
      BY <1>2, <1>4, <2>1 DEF WorkerShape, TypeOK
    <2>2. CASE RejectPacket(w) \/ CountPacketOnly(w)
      BY <2>1, <2>2 DEF RejectPacket, CountPacketOnly
    <2>3. CASE TakePacket(w)
      <3> DEFINE v == [worker[w] EXCEPT !.pc = "append", !.pkt = Head(packetChannel)]
      <3>1. worker' = [worker EXCEPT ![w] = v]
        BY <2>3 DEF TakePacket
      <3>2. Head(packetChannel) \in Packets
        BY <2>3, TakeHead DEF TakePacket, TypeOK
      <3>3. v.pc = "append" /\ v.pkt = Head(packetChannel)
        BY <1>1 DEF WorkerState
      <3>4. Fits(v)
        BY <3>2, <3>3, TrafficAssumption
      <3> QED
        BY <3>1, <3>4
    <2>4. CASE AppendEntry(w)
      <3>1. WithEntry(w).pc \in {"append", "watermark", "send"} /\ WithEntry(w).pkt = worker[w].pkt
        BY <1>1 DEF WithEntry, WorkerState, FlushPc
      <3>2. worker[w].pkt # NoPacket
        BY <1>4, <2>4 DEF AppendEntry, WorkerShape
      <3>3. Fits(WithEntry(w))
        BY <3>1, <3>2
      <3> QED
        BY <2>4, <3>3 DEF AppendEntry
    <2>5. CASE FinishPacket(w)
      <3> DEFINE v == [worker[w] EXCEPT !.pc = "select", !.pkt = NoPacket, !.k = 1]
      <3>1. worker' = [worker EXCEPT ![w] = v]
        BY <2>5 DEF FinishPacket
      <3>2. v.pc = "select" /\ v.pkt = NoPacket /\ v.k = 1
        BY <1>1 DEF WorkerState
      <3> QED
        BY <3>1, <3>2
    <2>6. CASE FlushAll(w)
      <3> DEFINE v == [worker[w] EXCEPT !.pc = "sweep", !.sweep = NonEmpty(w)]
      <3>1. worker' = [worker EXCEPT ![w] = v]
        BY <2>6 DEF FlushAll
      <3>2. v.pc = "sweep" /\ v.pkt = worker[w].pkt /\ v.k = worker[w].k
        BY <1>1 DEF WorkerState
      <3>3. Fits(v)
        BY <1>4, <3>2 DEF WorkerShape
      <3> QED
        BY <3>1, <3>3
    <2>7. CASE SweepTable(w)
      <3>1. PICK t \in worker[w].sweep : worker' = [worker EXCEPT ![w] = Sweeping(w, t)]
        BY <2>7 DEF SweepTable
      <3>2. /\ Sweeping(w, t).pc \in {"watermark", "send"}
            /\ Sweeping(w, t).pkt = worker[w].pkt /\ Sweeping(w, t).k = worker[w].k
        BY <1>1 DEF Sweeping, WorkerState, FlushPc
      <3>3. Fits(Sweeping(w, t))
        BY <1>4, <3>2 DEF WorkerShape
      <3> QED
        BY <3>1, <3>3
    <2>8. CASE WorkerReturn(w)
      <3> DEFINE v == [worker[w] EXCEPT !.pc = "exited"]
      <3>1. worker' = [worker EXCEPT ![w] = v]
        BY <2>8 DEF WorkerReturn
      <3>2. /\ v.pc = "exited" /\ v.pkt = worker[w].pkt /\ v.k = worker[w].k
            /\ v.pending = worker[w].pending
        BY <1>1 DEF WorkerState
      <3>3. \A t \in Tables : worker[w].pending[t] = {}
        BY <2>8 DEF WorkerReturn, NonEmpty
      <3>4. Fits(v)
        BY <1>4, <2>8, <3>2, <3>3 DEF WorkerShape, WorkerReturn
      <3> QED
        BY <3>1, <3>4
    <2>9. ASSUME NEW pc \in {"send", "spool"} PROVE Fits([worker[w] EXCEPT !.pc = pc])
      <3> DEFINE v == [worker[w] EXCEPT !.pc = pc]
      <3>1. v.pc = pc /\ v.pkt = worker[w].pkt /\ v.k = worker[w].k
        BY <1>1 DEF WorkerState
      <3> QED
        BY <1>4, <3>1 DEF WorkerShape
    <2>10. CASE AdmitBatch(w) \/ RefuseBatch(w)
      BY <2>9, <2>10 DEF AdmitBatch, RefuseBatch
    <2>11. ASSUME NEW t \in Tables PROVE Fits(Resume(w, t))
      <3>1. /\ Resume(w, t).pc = (IF worker[w].pkt # NoPacket THEN "append"
                                  ELSE IF worker[w].sweep # {} THEN "sweep" ELSE "select")
            /\ Resume(w, t).pkt = worker[w].pkt /\ Resume(w, t).k = worker[w].k
        BY <1>1 DEF Resume, WorkerState
      <3> QED
        BY <1>4, <3>1 DEF WorkerShape
    <2>12. CASE SendBatch(w) \/ SpoolRefused(w)
      <3>1. \E t \in worker[w].flush : worker' = [worker EXCEPT ![w] = Resume(w, t)]
        BY <2>12 DEF SendBatch, SpoolRefused
      <3>2. worker[w].flush \subseteq Tables
        BY <1>1, WorkerFields
      <3> QED
        BY <2>11, <3>1, <3>2
    <2> QED
      BY <2>2, <2>3, <2>4, <2>5, <2>6, <2>7, <2>8, <2>10, <2>12 DEF WorkerStep
  <1>6. \A v \in WorkerIds : WorkerShape(v)'
    BY <1>2, <1>3, <1>5 DEF Shape, WorkerShape, TypeOK
  <1> QED
    BY <1>3, <1>6 DEF Shape, ReaderShape, InserterShape, SpawnRoom

(* An insert worker holds a batch exactly while its program counter says    *)
(* so.                                                                      *)
LEMMA InserterKeepsShape ==
    ASSUME TypeOK, Shape, NEW i \in InserterIds, InserterStep(i)
    PROVE  Shape'
  <1> DEFINE Fits(v) ==
        /\ v.pc \in {"ensure", "create", "insert", "spool"} <=> v.batch # NoBatch
        /\ v.pc # "unspawned"
  <1>1. inserter[i] \in InserterState
    BY DEF TypeOK
  <1>2. inserter[i].pc # "unspawned" /\ InserterShape(i)
    BY DEF Shape, InserterStep, ReceiveBatch, EnsureTable, CreateTable, CreateTableFails,
           InsertSucceeds, InsertFails, SpoolExhausted, InserterReturn
  <1>3. UNCHANGED <<reader, worker, tuner, currentPacketWorkers, currentInsertWorkers>>
    BY DEF InserterStep, ReceiveBatch, EnsureTable, CreateTable, CreateTableFails,
           InsertSucceeds, InsertFails, SpoolExhausted, InserterReturn,
           insertUnchanged, inputVars, tuneVars
  <1>4. \E v : Fits(v) /\ inserter' = [inserter EXCEPT ![i] = v]
    <2>1. CASE ReceiveBatch(i)
      <3>1. Head(insertBatches) \in Batch
        BY <2>1, TakeHead DEF ReceiveBatch, TypeOK
      <3>2. Fits([pc |-> "ensure", batch |-> Head(insertBatches), attempt |-> 1])
        BY <3>1, NoBatchIsNone
      <3> QED
        BY <2>1, <3>2 DEF ReceiveBatch
    <2>2. ASSUME inserter[i].pc \in {"ensure", "create", "insert"},
                 NEW pc \in {"create", "insert", "spool"}
          PROVE  Fits([inserter[i] EXCEPT !.pc = pc])
      BY <1>1, <1>2, <2>2 DEF InserterShape, InserterState
    <2>3. CASE EnsureTable(i) \/ CreateTable(i)
      BY <2>2, <2>3 DEF EnsureTable, CreateTable
    <2>4. CASE CreateTableFails(i) \/ InsertFails(i)
      <3>1. inserter[i].pc \in {"create", "insert"} /\ AttemptFailed(i)
        BY <2>4 DEF CreateTableFails, InsertFails
      <3>2. NextAttempt(i).pc = "ensure" /\ NextAttempt(i).batch = inserter[i].batch
        BY <1>1 DEF NextAttempt, InserterState
      <3>3. Fits(NextAttempt(i))
        BY <1>2, <3>1, <3>2 DEF InserterShape
      <3>4. Fits([inserter[i] EXCEPT !.pc = "spool"])
        BY <2>2, <3>1
      <3> QED
        BY <3>1, <3>3, <3>4 DEF AttemptFailed
    <2>5. CASE InsertSucceeds(i) \/ SpoolExhausted(i)
      <3>1. Fits(IdleInserter)
        BY DEF IdleInserter
      <3> QED
        BY <2>5, <3>1 DEF InsertSucceeds, SpoolExhausted
    <2>6. CASE InserterReturn(i)
      <3> DEFINE v == [inserter[i] EXCEPT !.pc = "exited"]
      <3>1. v.pc = "exited" /\ v.batch = inserter[i].batch
        BY <1>1 DEF InserterState
      <3>2. Fits(v)
        BY <1>2, <2>6, <3>1 DEF InserterShape, InserterReturn
      <3> QED
        BY <2>6, <3>2 DEF InserterReturn
    <2> QED
      BY <2>1, <2>3, <2>4, <2>5, <2>6 DEF InserterStep
  <1>5. \A j \in InserterIds : InserterShape(j)'
    BY <1>2, <1>3, <1>4 DEF Shape, InserterShape, TypeOK
  <1> QED
    BY <1>3, <1>5 DEF Shape, ReaderShape, WorkerShape, SpawnRoom

(* The supervisor spawns workers with nothing in their hands, below the     *)
(* maximum.                                                                 *)
LEMMA TunerKeepsShape ==
    ASSUME TypeOK, Shape, SampleQueues \/ SpawnWorkers \/ TunerReturn
    PROVE  Shape'
  <1>1. /\ currentPacketWorkers \in Nat /\ currentPacketWorkers <= MaxPacketWorkers
        /\ currentInsertWorkers \in Nat /\ currentInsertWorkers <= MaxInsertWorkers
        /\ tuner.packet \in Nat /\ tuner.insert \in Nat
        /\ MaxPacketWorkers \in Nat /\ MaxInsertWorkers \in Nat
    BY ConfigAssumption DEF TypeOK
  <1>2. UNCHANGED reader
    BY DEF SampleQueues, SpawnWorkers, TunerReturn, tuneUnchanged, inputVars
  <1>3. CASE SampleQueues
    <2>1. ASSUME NEW critical \in BOOLEAN
          PROVE  /\ ScaleStep(currentPacketWorkers, MaxPacketWorkers, critical)
                       \in 0..(MaxPacketWorkers - currentPacketWorkers)
                 /\ ScaleStep(currentInsertWorkers, MaxInsertWorkers, critical)
                       \in 0..(MaxInsertWorkers - currentInsertWorkers)
      BY <1>1, ScaleStepRoom
    <2>2. \E packet \in 0..(MaxPacketWorkers - currentPacketWorkers),
             insert \in 0..(MaxInsertWorkers - currentInsertWorkers) :
             tuner' = [pc |-> "spawn", packet |-> packet, insert |-> insert]
      <3> DEFINE packetUsage == UsagePct(packetChannel, PacketChannelSize)
                 batchUsage == UsagePct(insertBatches, InsertBatchChanSize)
                 packetCritical == packetUsage >= AutoTuneCriticalPct
                 batchCritical == batchUsage >= AutoTuneCriticalPct
                 packetStep == IF packetUsage >= AutoTuneHighPct /\ batchUsage < AutoTuneCriticalPct
                               THEN ScaleStep(currentPacketWorkers, MaxPacketWorkers, packetCritical)
                               ELSE 0
                 insertStep == IF batchUsage >= AutoTuneHighPct
                               THEN ScaleStep(currentInsertWorkers, MaxInsertWorkers, batchCritical)
                               ELSE 0
      <3>1. packetCritical \in BOOLEAN /\ batchCritical \in BOOLEAN
        OBVIOUS
      <3>2. tuner' = [pc |-> "spawn", packet |-> packetStep, insert |-> insertStep]
        BY <1>3, Zenon DEF SampleQueues
      <3> HIDE DEF packetUsage, batchUsage, packetCritical, batchCritical
      <3>3. packetStep \in 0..(MaxPacketWorkers - currentPacketWorkers)
        BY <1>1, <2>1, <3>1
      <3>4. insertStep \in 0..(MaxInsertWorkers - currentInsertWorkers)
        BY <1>1, <2>1, <3>1
      <3> QED
        BY <3>2, <3>3, <3>4
    <2>3. UNCHANGED <<worker, inserter, currentPacketWorkers, currentInsertWorkers>>
      BY <1>3 DEF SampleQueues, tuneUnchanged, insertVars
    <2>4. SpawnRoom'
      BY <1>1, <2>2, <2>3 DEF Shape, SpawnRoom
    <2> QED
      BY <1>2, <2>3, <2>4 DEF Shape, ReaderShape, WorkerShape, InserterShape
  <1>4. CASE SpawnWorkers
    <2>1. /\ tuner.pc = "spawn" /\ tuner' = QuietTuner
          /\ currentPacketWorkers' = currentPacketWorkers + tuner.packet
          /\ currentInsertWorkers' = currentInsertWorkers + tuner.insert
      BY <1>4 DEF SpawnWorkers
    <2>2. SpawnRoom'
      BY <1>1, <2>1 DEF Shape, SpawnRoom, QuietTuner
    <2>3. ASSUME NEW w \in WorkerIds PROVE WorkerShape(w)'
      <3>1. w \in Int /\ worker[w] \in WorkerState /\ WorkerShape(w)
        BY DEF Shape, TypeOK, WorkerIds
      <3>2. CASE w > currentPacketWorkers /\ w <= currentPacketWorkers + tuner.packet
        <4>1. worker'[w] = [worker[w] EXCEPT !.pc = "select"]
          BY <1>1, <1>4, <3>1, <3>2 DEF SpawnWorkers
        <4>2. /\ worker'[w].pc = "select" /\ worker'[w].pkt = worker[w].pkt
              /\ worker'[w].k = worker[w].k
          BY <3>1, <4>1 DEF WorkerState
        <4> QED
          BY <1>1, <2>1, <3>1, <3>2, <4>2 DEF WorkerShape
      <3>3. CASE ~(w > currentPacketWorkers /\ w <= currentPacketWorkers + tuner.packet)
        <4>1. worker'[w] = worker[w]
          BY <1>1, <1>4, <3>1, <3>3 DEF SpawnWorkers
        <4> QED
          BY <1>1, <2>1, <3>1, <3>3, <4>1 DEF WorkerShape
      <3> QED
        BY <3>2, <3>3
    <2>4. ASSUME NEW i \in InserterIds PROVE InserterShape(i)'
      <3>1. i \in Int /\ inserter[i] \in InserterState /\ InserterShape(i)
        BY DEF Shape, TypeOK, InserterIds
      <3>2. CASE i > currentInsertWorkers /\ i <= currentInsertWorkers + tuner.insert
        <4>1. inserter'[i] = [inserter[i] EXCEPT !.pc = "recv"]
          BY <1>1, <1>4, <3>1, <3>2 DEF SpawnWorkers
        <4>2. inserter'[i].pc = "recv" /\ inserter'[i].batch = inserter[i].batch
          BY <3>1, <4>1 DEF InserterState
        <4> QED
          BY <1>1, <2>1, <3>1, <3>2, <4>2 DEF InserterShape
      <3>3. CASE ~(i > currentInsertWorkers /\ i <= currentInsertWorkers + tuner.insert)
        <4>1. inserter'[i] = inserter[i]
          BY <1>1, <1>4, <3>1, <3>3 DEF SpawnWorkers
        <4> QED
          BY <1>1, <2>1, <3>1, <3>3, <4>1 DEF InserterShape
      <3> QED
        BY <3>2, <3>3
    <2> QED
      BY <1>2, <2>2, <2>3, <2>4 DEF Shape, ReaderShape
  <1>5. CASE TunerReturn
    <2>1. /\ tuner' = [tuner EXCEPT !.pc = "exited"]
          /\ UNCHANGED <<worker, inserter, currentPacketWorkers, currentInsertWorkers>>
      BY <1>5 DEF TunerReturn, tuneUnchanged, insertVars
    <2>2. tuner'.pc = "exited"
      BY <2>1 DEF TypeOK
    <2> QED
      BY <1>2, <2>1, <2>2 DEF Shape, ReaderShape, WorkerShape, InserterShape, SpawnRoom
  <1> QED
    BY <1>3, <1>4, <1>5

(* Every step keeps types and shape.                                        *)
LEMMA NextKeepsShape == TypeOK /\ Shape /\ [Next]_vars => TypeOK' /\ Shape'
  <1> SUFFICES ASSUME TypeOK, Shape, [Next]_vars PROVE TypeOK' /\ Shape'
    OBVIOUS
  <1>1. CASE RequestStop \/ Shutdown
    <2>1. UNCHANGED <<reader, worker, inserter, tuner, currentPacketWorkers, currentInsertWorkers>>
      BY <1>1 DEF RequestStop, Shutdown, CloseNextReceiver, MainStep, inputVars, insertVars, tuneVars
    <2>2. Shape'
      BY <2>1 DEF Shape, ReaderShape, WorkerShape, InserterShape, SpawnRoom
    <2> QED
      BY <1>1, <2>2, MainType
  <1>2. CASE \E r \in Receivers : ReadBatch(r) \/ TransientErrorAtStop(r) \/ ReaderStep(r)
    BY <1>2, ReaderType, ReaderKeepsShape
  <1>3. CASE \E w \in WorkerIds : WorkerStep(w)
    BY <1>3, WorkerType, WorkerKeepsShape
  <1>4. CASE \E i \in InserterIds : InserterStep(i)
    BY <1>4, InserterType, InserterKeepsShape
  <1>5. CASE SampleQueues \/ SpawnWorkers \/ TunerReturn
    BY <1>5, TunerType, TunerKeepsShape
  <1>6. CASE UNCHANGED vars
    BY <1>6 DEF vars, inputVars, insertVars, spoolVars, tuneVars, mainVars, TypeOK, Shape,
                ReaderShape, WorkerShape, InserterShape, SpawnRoom
  <1> QED
    BY <1>1, <1>2, <1>3, <1>4, <1>5, <1>6 DEF Next, Terminated

-----------------------------------------------------------------------------
(* The stages close in order.                                               *)

LEMMA DrainStep ==
    TypeOK /\ Shape /\ DrainOrder /\ [Next]_vars => DrainOrder'
  <1> SUFFICES ASSUME TypeOK, Shape, DrainOrder, [Next]_vars PROVE DrainOrder'
    OBVIOUS
  <1> USE DEF PacketChannelClosed, InsertBatchesClosed
  <1>1. CASE RequestStop \/ CloseNextReceiver
    BY <1>1 DEF RequestStop, CloseNextReceiver, inputVars, insertVars, tuneVars, DrainOrder
  <1>2. CASE MainStep
    BY <1>2 DEF MainStep, MainAfterReaders, MainClosePacketChannel, MainCloseInsertBatches,
                MainReturn, inputVars, insertVars, tuneVars, DrainOrder
  <1>3. ASSUME NEW r \in Receivers, ReadBatch(r) \/ TransientErrorAtStop(r) \/ ReaderStep(r) PROVE DrainOrder'
    <2>1. UNCHANGED <<worker, insertBatches, inserter, tuner, mainPc>>
      BY <1>3 DEF ReadBatch, ReaderStep, ReadErrorAtStop, TransientErrorAtStop, LeaveAtStop, SkipEmpty, CountReceived, SendPacket,
                  DiscardAtStop, readUnchanged, insertVars, tuneVars, mainVars
    <2>2. reader[r].pc # "exited"
      BY <1>3 DEF ReadBatch, ReaderStep, ReadErrorAtStop, TransientErrorAtStop, LeaveAtStop, SkipEmpty, CountReceived, SendPacket,
                  DiscardAtStop
    <2>3. mainPc = "readWG"
      BY <2>2 DEF DrainOrder
    <2> QED
      BY <2>1, <2>3 DEF DrainOrder
  <1>4. ASSUME NEW w \in WorkerIds, WorkerStep(w) PROVE DrainOrder'
    <2>1. UNCHANGED <<reader, inserter, tuner, mainPc>>
      BY <1>4 DEF WorkerStep, RejectPacket, CountPacketOnly, TakePacket, AppendEntry, FinishPacket,
             FlushAll, SweepTable, WorkerReturn, AdmitBatch, SendBatch, RefuseBatch, SpoolRefused,
             takeUnchanged, flushUnchanged, inputVars, insertVars, tuneVars, mainVars
    <2>2. worker[w].pc \notin {"unspawned", "exited"}
      BY <1>4 DEF WorkerStep, RejectPacket, CountPacketOnly, TakePacket, AppendEntry, FinishPacket,
             FlushAll, SweepTable, WorkerReturn, AdmitBatch, SendBatch, RefuseBatch, SpoolRefused
    <2>3. mainPc \notin {"insertWG", "stopped"}
      BY <2>2 DEF DrainOrder
    <2>4. \A i \in InserterIds : inserter[i].pc # "exited"
      BY <2>3 DEF DrainOrder
    <2>5. \E v : worker' = [worker EXCEPT ![w] = v]
                /\ (v.pc = "exited" => PacketChannelClosed /\ packetChannel = <<>>)
      <3>1. worker[w] \in WorkerState
        BY DEF TypeOK
      <3>2. CASE RejectPacket(w) \/ CountPacketOnly(w)
        <4>1. worker' = [worker EXCEPT ![w] = worker[w]]
          BY <3>2 DEF RejectPacket, CountPacketOnly, TypeOK
        <4> QED
          BY <2>2, <4>1
      <3>3. CASE TakePacket(w)
        <4> DEFINE v == [worker[w] EXCEPT !.pc = "append", !.pkt = Head(packetChannel)]
        <4>1. worker' = [worker EXCEPT ![w] = v] /\ v.pc = "append"
          BY <3>1, <3>3 DEF TakePacket, WorkerState
        <4> QED
          BY <4>1
      <3>4. CASE AppendEntry(w)
        <4>1. worker' = [worker EXCEPT ![w] = WithEntry(w)] /\ WithEntry(w).pc # "exited"
          BY <3>1, <3>4 DEF AppendEntry, WithEntry, WorkerState, FlushPc
        <4> QED
          BY <4>1
      <3>5. CASE FinishPacket(w)
        <4> DEFINE v == [worker[w] EXCEPT !.pc = "select", !.pkt = NoPacket, !.k = 1]
        <4>1. worker' = [worker EXCEPT ![w] = v] /\ v.pc = "select"
          BY <3>1, <3>5 DEF FinishPacket, WorkerState
        <4> QED
          BY <4>1
      <3>6. CASE FlushAll(w)
        <4> DEFINE v == [worker[w] EXCEPT !.pc = "sweep", !.sweep = NonEmpty(w)]
        <4>1. worker' = [worker EXCEPT ![w] = v] /\ v.pc = "sweep"
          BY <3>1, <3>6 DEF FlushAll, WorkerState
        <4> QED
          BY <4>1
      <3>7. CASE SweepTable(w)
        <4>1. PICK t \in worker[w].sweep : worker' = [worker EXCEPT ![w] = Sweeping(w, t)]
          BY <3>7 DEF SweepTable
        <4>2. Sweeping(w, t).pc # "exited"
          BY <3>1 DEF Sweeping, WorkerState, FlushPc
        <4> QED
          BY <4>1, <4>2
      <3>8. CASE WorkerReturn(w)
        BY <3>8 DEF WorkerReturn
      <3>9. CASE AdmitBatch(w) \/ RefuseBatch(w)
        <4>1. \A pc \in {"send", "spool"} : [worker[w] EXCEPT !.pc = pc].pc # "exited"
          BY <3>1 DEF WorkerState
        <4> QED
          BY <3>9, <4>1 DEF AdmitBatch, RefuseBatch
      <3>10. CASE SendBatch(w) \/ SpoolRefused(w)
        <4>1. PICK t : worker' = [worker EXCEPT ![w] = Resume(w, t)]
          BY <3>10 DEF SendBatch, SpoolRefused
        <4>2. Resume(w, t).pc # "exited"
          BY <3>1 DEF Resume, WorkerState
        <4> QED
          BY <4>1, <4>2
      <3> QED
        BY <1>4, <3>2, <3>3, <3>4, <3>5, <3>6, <3>7, <3>8, <3>9, <3>10 DEF WorkerStep
    <2>6. packetChannel = <<>> => packetChannel' = <<>>
      BY <1>4 DEF WorkerStep, RejectPacket, CountPacketOnly, TakePacket, AppendEntry, FinishPacket,
             FlushAll, SweepTable, WorkerReturn, AdmitBatch, SendBatch, RefuseBatch, SpoolRefused,
             takeUnchanged, flushUnchanged, inputVars
    <2> QED
      BY <2>1, <2>3, <2>4, <2>5, <2>6 DEF DrainOrder, TypeOK
  <1>5. ASSUME NEW i \in InserterIds, InserterStep(i) PROVE DrainOrder'
    <2>1. UNCHANGED <<reader, packetChannel, worker, tuner, mainPc>>
      BY <1>5 DEF InserterStep, ReceiveBatch, EnsureTable, CreateTable, CreateTableFails,
             InsertSucceeds, InsertFails, SpoolExhausted, InserterReturn,
             insertUnchanged, inputVars, tuneVars, mainVars
    <2>2. inserter[i].pc \notin {"unspawned", "exited"}
      BY <1>5 DEF InserterStep, ReceiveBatch, EnsureTable, CreateTable, CreateTableFails,
             InsertSucceeds, InsertFails, SpoolExhausted, InserterReturn
    <2>3. mainPc # "stopped"
      BY <2>2 DEF DrainOrder
    <2>4. CASE InserterReturn(i)
      BY <2>1, <2>3, <2>4 DEF InserterReturn, DrainOrder, TypeOK
    <2>5. CASE ~InserterReturn(i)
      <3>1. \E v : inserter' = [inserter EXCEPT ![i] = v] /\ v.pc # "exited"
        <4>1. inserter[i] \in InserterState
          BY DEF TypeOK
        <4>2. \A pc \in {"create", "insert", "spool"} : [inserter[i] EXCEPT !.pc = pc].pc # "exited"
          BY <4>1 DEF InserterState
        <4>3. NextAttempt(i).pc # "exited" /\ IdleInserter.pc # "exited"
          BY <4>1 DEF NextAttempt, IdleInserter, InserterState
        <4>4. CASE ReceiveBatch(i)
          <5> DEFINE v == [pc |-> "ensure", batch |-> Head(insertBatches), attempt |-> 1]
          <5>1. inserter' = [inserter EXCEPT ![i] = v] /\ v.pc # "exited"
            BY <4>4 DEF ReceiveBatch
          <5> QED
            BY <5>1
        <4>5. CASE EnsureTable(i) \/ CreateTable(i)
          BY <4>2, <4>5 DEF EnsureTable, CreateTable
        <4>6. CASE CreateTableFails(i) \/ InsertFails(i)
          BY <4>2, <4>3, <4>6 DEF CreateTableFails, InsertFails, AttemptFailed
        <4>7. CASE InsertSucceeds(i) \/ SpoolExhausted(i)
          BY <4>3, <4>7 DEF InsertSucceeds, SpoolExhausted
        <4> QED
          BY <1>5, <2>5, <4>4, <4>5, <4>6, <4>7 DEF InserterStep
      <3>2. insertBatches = <<>> => insertBatches' = <<>>
        BY <1>5 DEF InserterStep, ReceiveBatch, EnsureTable, CreateTable, CreateTableFails,
               InsertSucceeds, InsertFails, SpoolExhausted, InserterReturn
      <3> QED
        BY <2>1, <2>3, <3>1, <3>2 DEF DrainOrder, TypeOK
    <2> QED
      BY <2>4, <2>5
  <1>6. CASE SampleQueues \/ TunerReturn
    <2>1. UNCHANGED <<reader, packetChannel, worker, insertBatches, inserter, mainPc>>
      BY <1>6 DEF SampleQueues, TunerReturn, tuneUnchanged, inputVars, insertVars, mainVars
    <2>2. tuner.pc # "exited"
      BY <1>6 DEF SampleQueues, TunerReturn
    <2> QED
      BY <2>1, <2>2 DEF DrainOrder
  <1>7. CASE SpawnWorkers
    <2>1. UNCHANGED <<reader, packetChannel, insertBatches, mainPc>> /\ tuner.pc = "spawn"
      BY <1>7 DEF SpawnWorkers, inputVars, mainVars
    <2>2. mainPc \notin {"packetWG", "insertWG", "stopped"}
      BY <2>1 DEF DrainOrder
    <2>3. /\ \A w \in WorkerIds : worker[w].pc # "exited"
          /\ \A i \in InserterIds : inserter[i].pc # "exited"
      BY <2>2 DEF DrainOrder
    <2>4. ASSUME NEW w \in WorkerIds PROVE worker'[w].pc # "exited"
      <3>1. worker[w].pc # "exited" /\ [worker[w] EXCEPT !.pc = "select"].pc # "exited"
        BY <2>3 DEF TypeOK, WorkerState
      <3> QED
        BY <1>7, <3>1 DEF SpawnWorkers
    <2>5. ASSUME NEW i \in InserterIds PROVE inserter'[i].pc # "exited"
      <3>1. inserter[i].pc # "exited" /\ [inserter[i] EXCEPT !.pc = "recv"].pc # "exited"
        BY <2>3 DEF TypeOK, InserterState
      <3> QED
        BY <1>7, <3>1 DEF SpawnWorkers
    <2> QED
      BY <2>1, <2>2, <2>4, <2>5 DEF DrainOrder
  <1>8. CASE UNCHANGED vars
    BY <1>8 DEF vars, inputVars, insertVars, tuneVars, mainVars, DrainOrder
  <1> QED
    BY <1>1, <1>2, <1>3, <1>4, <1>5, <1>6, <1>7, <1>8 DEF Next, Shutdown, Terminated

-----------------------------------------------------------------------------
(* No step loses a row.                                                     *)

LEMMA RowParts ==
    ASSUME NEW row \in Rows
    PROVE  /\ row[1] \in Packets /\ row[2] \in 1..Len(Records[row[1]])
           /\ row = <<row[1], row[2]>> /\ row \in RowsOf(row[1])
           /\ Records[row[1]] # <<>>
  <1>1. PICK p \in Packets : row \in RowsOf(p)
    BY DEF Rows
  <1>2. row[1] = p /\ row[2] \in 1..Len(Records[p]) /\ row = <<row[1], row[2]>>
    BY <1>1 DEF RowsOf
  <1>3. Records[p] # <<>>
    BY <1>2
  <1> QED
    BY <1>1, <1>2, <1>3

(* No step of a receiver loses a row,                                       *)
LEMMA ReaderKeepsRows ==
    ASSUME TypeOK, Shape, NEW r \in Receivers, ReadBatch(r) \/ TransientErrorAtStop(r) \/ ReaderStep(r),
           NEW row \in Rows, Kept(row)
    PROVE  Kept(row)'
  <1> DEFINE Read(p) == \/ p \in wire \/ p \in discarded
                        \/ \E q \in Receivers : p \in ReaderHolds(q)
                        \/ \E n \in DOMAIN packetChannel : p = packetChannel[n]
  <1>1. UNCHANGED <<worker, insertBatches, inserter, inserted, spooled, orphaned, spoolLost>>
    BY DEF ReadBatch, ReaderStep, ReadErrorAtStop, TransientErrorAtStop, LeaveAtStop, SkipEmpty, CountReceived, SendPacket,
           DiscardAtStop, readUnchanged, insertVars, spoolVars
  <1>2. reader \in [Receivers -> ReaderState] /\ reader[r] \in ReaderState
        /\ reader[r].batch \in Seq(Packets) /\ ReaderShape(r)
    BY DEF TypeOK, Shape, ReaderState
  <1>3. ASSUME NEW p \in Packets, Records[p] # <<>>, Read(p) PROVE Read(p)'
    <2>1. ASSUME NEW v, reader' = [reader EXCEPT ![r] = v],
                 UNCHANGED <<discarded>>, wire \subseteq wire' \/ p \notin wire,
                 \A n \in DOMAIN packetChannel :
                    n \in DOMAIN packetChannel' /\ packetChannel'[n] = packetChannel[n],
                 p \in ReaderHolds(r) =>
                    \/ \E n \in DOMAIN v.batch : p = v.batch[n]
                    \/ \E n \in DOMAIN packetChannel' : p = packetChannel'[n]
          PROVE  Read(p)'
      BY <1>2, <1>3, <2>1 DEF ReaderHolds
    <2>2. CASE ReadBatch(r)
      <3>1. PICK n \in 1..UdpBatchSize : \E b \in [1..n -> wire] :
               /\ reader' = [reader EXCEPT ![r] = [pc |-> "loop", batch |-> b]]
               /\ wire' = wire \ {b[i] : i \in 1..n}
        BY <2>2 DEF ReadBatch
      <3>2. PICK b \in [1..n -> wire] :
               /\ reader' = [reader EXCEPT ![r] = [pc |-> "loop", batch |-> b]]
               /\ wire' = wire \ {b[i] : i \in 1..n}
        BY <3>1
      <3>3. UNCHANGED <<packetChannel, discarded>> /\ reader[r].batch = <<>>
        BY <1>2, <2>2 DEF ReadBatch, ReaderShape
      <3>4. CASE p \in wire /\ p \notin wire'
        <4>1. \E i \in 1..n : p = b[i]
          BY <3>2, <3>4
        <4>2. p \in ReaderHolds(r)'
          BY <1>2, <3>2, <4>1 DEF ReaderHolds
        <4> QED
          BY <4>2
      <3>5. CASE p \in wire'
        BY <3>5
      <3>6. CASE p \notin wire
        <4>1. p \notin ReaderHolds(r)
          BY <3>3 DEF ReaderHolds
        <4> QED
          BY <1>2, <1>3, <3>2, <3>3, <3>6, <4>1 DEF ReaderHolds
      <3> QED
        BY <3>4, <3>5, <3>6
    <2>3. CASE LeaveAtStop(r) \/ CountReceived(r)
      <3>1. UNCHANGED <<wire, packetChannel, discarded>>
        BY <2>3 DEF LeaveAtStop, CountReceived
      <3>2. PICK pc : reader' = [reader EXCEPT ![r] = [reader[r] EXCEPT !.pc = pc]]
        BY <2>3 DEF LeaveAtStop, CountReceived
      <3>3. [reader[r] EXCEPT !.pc = pc].batch = reader[r].batch
        BY <1>2 DEF ReaderState
      <3>4. \A q \in Receivers : reader'[q].batch = reader[q].batch
        BY <1>2, <3>2, <3>3
      <3>5. \A q \in Receivers : ReaderHolds(q)' = ReaderHolds(q)
        BY <3>4 DEF ReaderHolds
      <3> QED
        BY <1>3, <3>1, <3>5
    <2>4. ASSUME reader[r].batch # <<>>
          PROVE  \A n \in DOMAIN reader[r].batch :
                    \/ reader[r].batch[n] = Head(reader[r].batch)
                    \/ \E m \in DOMAIN Advance(r).batch : Advance(r).batch[m] = reader[r].batch[n]
      BY <1>2, <2>4, TakeHead DEF Advance
    <2>5. CASE SkipEmpty(r)
      <3>1. reader[r].batch # <<>> /\ Head(reader[r].batch) # p
        BY <1>2, <1>3, <2>5, TrafficAssumption DEF SkipEmpty, ReaderShape
      <3>2. /\ reader' = [reader EXCEPT ![r] = Advance(r)]
            /\ UNCHANGED <<wire, packetChannel, discarded>>
        BY <2>5 DEF SkipEmpty
      <3>3. p \in ReaderHolds(r) =>
              \E n \in DOMAIN Advance(r).batch : p = Advance(r).batch[n]
        BY <2>4, <3>1 DEF ReaderHolds
      <3> QED
        BY <2>1, <3>2, <3>3
    <2>6. CASE SendPacket(r)
      <3>1. reader[r].batch # <<>> /\ Head(reader[r].batch) \in Packets
        BY <1>2, <2>6, TakeHead DEF SendPacket, ReaderShape
      <3>2. /\ reader' = [reader EXCEPT ![r] = Advance(r)]
            /\ packetChannel' = Append(packetChannel, Head(reader[r].batch))
            /\ UNCHANGED <<wire, discarded>>
        BY <2>6 DEF SendPacket
      <3>3. /\ \A n \in DOMAIN packetChannel :
                  n \in DOMAIN packetChannel' /\ packetChannel'[n] = packetChannel[n]
            /\ \E n \in DOMAIN packetChannel' : packetChannel'[n] = Head(reader[r].batch)
        BY <3>1, <3>2, PutLast DEF TypeOK
      <3>4. p \in ReaderHolds(r) =>
              \/ \E n \in DOMAIN Advance(r).batch : p = Advance(r).batch[n]
              \/ \E n \in DOMAIN packetChannel' : p = packetChannel'[n]
        BY <2>4, <3>1, <3>3 DEF ReaderHolds
      <3> QED
        BY <2>1, <3>2, <3>3, <3>4
    <2>7. CASE DiscardAtStop(r)
      <3>1. /\ reader' = [reader EXCEPT ![r] = [pc |-> "exited", batch |-> <<>>]]
            /\ discarded' = discarded \cup ReaderHolds(r)
            /\ UNCHANGED <<wire, packetChannel>>
        BY <2>7 DEF DiscardAtStop, ReaderHolds
      <3>2. \A q \in Receivers : q # r => ReaderHolds(q)' = ReaderHolds(q)
        BY <1>2, <3>1 DEF ReaderHolds
      <3> QED
        BY <1>3, <3>1, <3>2
    <2> QED
      BY <2>2, <2>3, <2>5, <2>6, <2>7 DEF ReaderStep, ReadErrorAtStop, TransientErrorAtStop
  <1>4. Read(row[1]) => Read(row[1])'
    BY <1>3, RowParts
  <1>5. CASE Read(row[1])
    BY <1>4, <1>5 DEF Kept
  <1>6. CASE ~Read(row[1])
    BY <1>1, <1>6 DEF Kept, WorkerHolds, InserterHolds, FatedRows
  <1> QED
    BY <1>5, <1>6

(* of a packet worker neither,                                              *)
LEMMA WorkerKeepsRows ==
    ASSUME TypeOK, Shape, NEW w \in WorkerIds, WorkerStep(w), ~ParseOnly,
           NEW row \in Rows, Kept(row)
    PROVE  Kept(row)'
  <1> DEFINE Packet == \E n \in DOMAIN packetChannel : row[1] = packetChannel[n]
             Held == \E v \in WorkerIds : row \in WorkerHolds(v)
             Pending == \E v \in WorkerIds, t \in Tables : row \in worker[v].pending[t]
             Queued == \E n \in DOMAIN insertBatches : row \in insertBatches[n].rows
  <1>1. UNCHANGED <<wire, reader, discarded, inserter, inserted>>
    BY DEF WorkerStep, RejectPacket, CountPacketOnly, TakePacket, AppendEntry, FinishPacket,
           FlushAll, SweepTable, WorkerReturn, AdmitBatch, SendBatch, RefuseBatch, SpoolRefused,
           takeUnchanged, flushUnchanged, inputVars, insertVars
  <1>2. /\ worker \in [WorkerIds -> WorkerState] /\ worker[w] \in WorkerState
        /\ worker[w].pkt \in Packets \cup {NoPacket} /\ worker[w].k \in Nat \ {0}
        /\ worker[w].pending \in [Tables -> SUBSET Rows]
        /\ worker[w].sweep \subseteq Tables /\ worker[w].flush \subseteq Tables
        /\ WorkerShape(w)
    BY WorkerFields DEF TypeOK, Shape
  <1>3. FatedRows \subseteq FatedRows'
    BY <1>1 DEF FatedRows, WorkerStep, RejectPacket, CountPacketOnly, TakePacket, AppendEntry,
           FinishPacket, FlushAll, SweepTable, WorkerReturn, AdmitBatch, SendBatch, RefuseBatch,
           SpoolRefused, Spool, takeUnchanged, spoolVars
  <1>4. ASSUME Packet \/ Held \/ Pending \/ Queued => Kept(row)'
        PROVE  Kept(row)'
    BY <1>1, <1>3, <1>4 DEF Kept, ReaderHolds, InserterHolds
  <1>5. Queued => Queued'
    <2>1. CASE SendBatch(w)
      <3>1. PICK t \in worker[w].flush :
              insertBatches' = Append(insertBatches, [table |-> t, rows |-> worker[w].pending[t]])
        BY <2>1 DEF SendBatch
      <3>2. t \in Tables /\ [table |-> t, rows |-> worker[w].pending[t]] \in Batch
        BY <1>2 DEF Batch
      <3>3. \A n \in DOMAIN insertBatches :
              n \in DOMAIN insertBatches' /\ insertBatches'[n] = insertBatches[n]
        BY <3>1, <3>2, PutLast DEF TypeOK
      <3> QED
        BY <3>3
    <2>2. CASE ~SendBatch(w)
      <3>1. UNCHANGED insertBatches
        BY <2>2 DEF WorkerStep, RejectPacket, CountPacketOnly, TakePacket, AppendEntry,
             FinishPacket, FlushAll, SweepTable, WorkerReturn, AdmitBatch, RefuseBatch,
             SpoolRefused, takeUnchanged
      <3> QED
        BY <3>1
    <2> QED
      BY <2>1, <2>2
  <1>6. ASSUME NEW v, worker' = [worker EXCEPT ![w] = v],
               v.pkt = worker[w].pkt, v.k = worker[w].k
        PROVE  Held => Held'
    <2>1. \A x \in WorkerIds : worker'[x].pkt = worker[x].pkt /\ worker'[x].k = worker[x].k
      BY <1>2, <1>6
    <2>2. \A x \in WorkerIds : WorkerHolds(x)' = WorkerHolds(x)
      BY <2>1 DEF WorkerHolds
    <2> QED
      BY <2>2
  <1>7. ASSUME NEW v, worker' = [worker EXCEPT ![w] = v], v.pending = worker[w].pending
        PROVE  Pending => Pending'
    <2>1. \A x \in WorkerIds : worker'[x].pending = worker[x].pending
      BY <1>2, <1>7
    <2> QED
      BY <2>1
  <1>8. CASE RejectPacket(w)
    <2>1. packetChannel \in Seq(Packets) /\ packetChannel # <<>>
      BY <1>8 DEF RejectPacket, TypeOK
    <2>2. row[1] # Head(packetChannel)
      BY <1>8, RowParts DEF RejectPacket
    <2>3. Packet => Packet'
      BY <1>8, <2>1, <2>2, TakeHead DEF RejectPacket
    <2>4. UNCHANGED worker
      BY <1>8 DEF RejectPacket
    <2> QED
      BY <1>4, <1>5, <2>3, <2>4 DEF Kept, WorkerHolds
  <1>9. CASE TakePacket(w)
    <2> DEFINE v == [worker[w] EXCEPT !.pc = "append", !.pkt = Head(packetChannel)]
    <2>1. packetChannel \in Seq(Packets) /\ packetChannel # <<>> /\ Head(packetChannel) \in Packets
      BY <1>9, TakeHead DEF TakePacket, TypeOK
    <2>2. worker' = [worker EXCEPT ![w] = v] /\ packetChannel' = Tail(packetChannel)
      BY <1>9 DEF TakePacket
    <2>3. worker[w].pkt = NoPacket /\ worker[w].k = 1
      BY <1>2, <1>9 DEF TakePacket, WorkerShape
    <2>4. v.pkt = Head(packetChannel) /\ v.k = 1 /\ v.pending = worker[w].pending
      BY <1>2, <2>3 DEF WorkerState
    <2> HIDE DEF v
    <2>5. Pending => Pending'
      BY <1>7, <2>2, <2>4
    <2>6. row[1] = Head(packetChannel) => Held'
      <3> SUFFICES ASSUME row[1] = Head(packetChannel) PROVE Held'
        OBVIOUS
      <3>1. worker'[w] = v /\ v.pkt # NoPacket
        BY <1>2, <2>1, <2>2, <2>4, TrafficAssumption
      <3>2. row \in RowsOf(v.pkt) /\ row[2] >= v.k
        <4>1. row \in RowsOf(row[1]) /\ row[2] \in 1..Len(Records[row[1]])
          BY RowParts
        <4>2. row[2] >= 1
          BY <4>1
        <4> QED
          BY <2>4, <4>1, <4>2
      <3>3. row \in WorkerHolds(w)'
        BY <3>1, <3>2 DEF WorkerHolds, RowsOf
      <3> QED
        BY <3>3
    <2>7. Packet => Packet' \/ row[1] = Head(packetChannel)
      BY <2>1, <2>2, TakeHead
    <2>8. Held => Held'
      <3> SUFFICES ASSUME NEW x \in WorkerIds, row \in WorkerHolds(x) PROVE Held'
        OBVIOUS
      <3>1. x # w
        BY <2>3 DEF WorkerHolds
      <3>2. worker'[x] = worker[x]
        BY <1>2, <2>2, <3>1
      <3>3. row \in WorkerHolds(x)'
        BY <3>2 DEF WorkerHolds
      <3> QED
        BY <3>3
    <2> QED
      BY <1>4, <1>5, <2>5, <2>6, <2>7, <2>8 DEF Kept
  <1>10. CASE AppendEntry(w)
    <2> DEFINE t == Records[worker[w].pkt][worker[w].k]
    <2>1. worker[w].pkt \in Packets
      BY <1>2, <1>10 DEF AppendEntry, WorkerShape
    <2>2. <<worker[w].pkt, worker[w].k>> \in Rows /\ t \in Tables
      BY <1>2, <1>10, <2>1, RowOfPacket DEF AppendEntry
    <2>3. /\ worker' = [worker EXCEPT ![w] = WithEntry(w)]
          /\ WithEntry(w).pkt = worker[w].pkt /\ WithEntry(w).k = worker[w].k + 1
          /\ UNCHANGED packetChannel
      BY <1>2, <1>10 DEF AppendEntry, WithEntry, WorkerState
    <2>4. WithEntry(w).pending = [worker[w].pending EXCEPT ![t] =
                                    worker[w].pending[t] \cup {<<worker[w].pkt, worker[w].k>>}]
      BY <1>2 DEF WithEntry, WorkerState
    <2>5. worker'[w] = WithEntry(w) /\ \A x \in WorkerIds : x # w => worker'[x] = worker[x]
      BY <1>2, <2>3
    <2> HIDE DEF t
    <2>6. Pending => Pending'
      <3>1. \A u \in Tables : worker[w].pending[u] \subseteq WithEntry(w).pending[u]
        BY <1>2, <2>4
      <3>2. \A x \in WorkerIds, u \in Tables : worker[x].pending[u] \subseteq worker'[x].pending[u]
        BY <2>5, <3>1
      <3> QED
        BY <3>2
    <2>7. Held => Held' \/ Pending'
      <3> SUFFICES ASSUME NEW x \in WorkerIds, row \in WorkerHolds(x) PROVE Held' \/ Pending'
        OBVIOUS
      <3>1. CASE x # w
        <4>1. row \in WorkerHolds(x)'
          BY <2>5, <3>1 DEF WorkerHolds
        <4> QED
          BY <4>1
      <3>2. CASE x = w
        <4>1. row \in RowsOf(worker[w].pkt) /\ row[2] >= worker[w].k /\ worker[w].pkt # NoPacket
          BY <3>2 DEF WorkerHolds
        <4>2. row = <<row[1], row[2]>> /\ row[1] = worker[w].pkt /\ row[2] \in Nat
          BY <4>1, RowParts DEF RowsOf
        <4>3. CASE row[2] = worker[w].k
          <5>1. row = <<worker[w].pkt, worker[w].k>>
            BY <4>2, <4>3
          <5>2. row \in WithEntry(w).pending[t]
            BY <1>2, <2>2, <2>4, <5>1
          <5> QED
            BY <2>2, <2>5, <5>2
        <4>4. CASE row[2] # worker[w].k
          <5>1. row[2] >= worker[w].k + 1
            BY <1>2, <4>1, <4>2, <4>4
          <5>2. row \in WorkerHolds(w)'
            BY <2>3, <2>5, <4>1, <5>1 DEF WorkerHolds, RowsOf
          <5> QED
            BY <5>2
        <4> QED
          BY <4>3, <4>4
      <3> QED
        BY <3>1, <3>2
    <2> QED
      BY <1>4, <1>5, <2>3, <2>6, <2>7 DEF Kept
  <1>11. CASE FinishPacket(w)
    <2> DEFINE v == [worker[w] EXCEPT !.pc = "select", !.pkt = NoPacket, !.k = 1]
    <2>1. worker' = [worker EXCEPT ![w] = v] /\ UNCHANGED packetChannel
      BY <1>11 DEF FinishPacket
    <2>2. v.pending = worker[w].pending
      BY <1>2 DEF WorkerState
    <2>3. row \notin WorkerHolds(w)
      <3>1. worker[w].k > Len(Records[worker[w].pkt]) /\ worker[w].pkt \in Packets
        BY <1>2, <1>11 DEF FinishPacket, WorkerShape
      <3>2. Len(Records[worker[w].pkt]) \in Nat
        BY <3>1, TrafficAssumption
      <3> QED
        BY <1>2, <3>1, <3>2 DEF WorkerHolds, RowsOf
    <2> HIDE DEF v
    <2>4. Held => Held'
      <3> SUFFICES ASSUME NEW x \in WorkerIds, row \in WorkerHolds(x) PROVE Held'
        OBVIOUS
      <3>1. worker'[x] = worker[x]
        BY <1>2, <2>1, <2>3
      <3>2. row \in WorkerHolds(x)'
        BY <3>1 DEF WorkerHolds
      <3> QED
        BY <3>2
    <2>5. Pending => Pending'
      BY <1>7, <2>1, <2>2
    <2> QED
      BY <1>4, <1>5, <2>1, <2>4, <2>5 DEF Kept
  <1>12. ASSUME NEW v, worker' = [worker EXCEPT ![w] = v], UNCHANGED packetChannel,
                v.pkt = worker[w].pkt, v.k = worker[w].k, v.pending = worker[w].pending
         PROVE  Kept(row)'
    <2>1. (Held => Held') /\ (Pending => Pending') /\ (Packet => Packet')
      BY <1>6, <1>7, <1>12
    <2> QED
      BY <1>4, <1>5, <2>1 DEF Kept
  <1>13. CASE FlushAll(w)
    <2> DEFINE v == [worker[w] EXCEPT !.pc = "sweep", !.sweep = NonEmpty(w)]
    <2>1. worker' = [worker EXCEPT ![w] = v] /\ UNCHANGED packetChannel
      BY <1>13 DEF FlushAll
    <2>2. v.pkt = worker[w].pkt /\ v.k = worker[w].k /\ v.pending = worker[w].pending
      BY <1>2 DEF WorkerState
    <2> HIDE DEF v
    <2> QED
      BY <1>12, <2>1, <2>2
  <1>14. CASE SweepTable(w)
    <2>1. PICK t \in worker[w].sweep : worker' = [worker EXCEPT ![w] = Sweeping(w, t)]
      BY <1>14 DEF SweepTable
    <2>2. /\ Sweeping(w, t).pkt = worker[w].pkt /\ Sweeping(w, t).k = worker[w].k
          /\ Sweeping(w, t).pending = worker[w].pending
      BY <1>2 DEF Sweeping, WorkerState
    <2>3. UNCHANGED packetChannel
      BY <1>14 DEF SweepTable
    <2> QED
      BY <1>12, <2>1, <2>2, <2>3
  <1>15. CASE WorkerReturn(w) \/ AdmitBatch(w) \/ RefuseBatch(w)
    <2>1. UNCHANGED packetChannel
      BY <1>15 DEF WorkerReturn, AdmitBatch, RefuseBatch, flushUnchanged, inputVars
    <2>2. PICK pc : worker' = [worker EXCEPT ![w] = [worker[w] EXCEPT !.pc = pc]]
      BY <1>15 DEF WorkerReturn, AdmitBatch, RefuseBatch
    <2> DEFINE v == [worker[w] EXCEPT !.pc = pc]
    <2>3. v.pkt = worker[w].pkt /\ v.k = worker[w].k /\ v.pending = worker[w].pending
      BY <1>2 DEF WorkerState
    <2> QED
      BY <1>12, <2>1, <2>2, <2>3
  <1>16. ASSUME NEW t \in Tables, worker' = [worker EXCEPT ![w] = Resume(w, t)],
                UNCHANGED packetChannel, row \in worker[w].pending[t] => Kept(row)'
         PROVE  Kept(row)'
    <2>1. /\ Resume(w, t).pkt = worker[w].pkt /\ Resume(w, t).k = worker[w].k
          /\ Resume(w, t).pending = [worker[w].pending EXCEPT ![t] = {}]
      BY <1>2 DEF Resume, WorkerState
    <2>2. Held => Held'
      BY <1>6, <1>16, <2>1
    <2>3. Pending => Pending' \/ row \in worker[w].pending[t]
      <3> SUFFICES ASSUME NEW x \in WorkerIds, NEW u \in Tables, row \in worker[x].pending[u]
                   PROVE  Pending' \/ row \in worker[w].pending[t]
        OBVIOUS
      <3>1. CASE x # w
        <4>1. worker'[x] = worker[x]
          BY <1>2, <1>16, <3>1
        <4> QED
          BY <4>1
      <3>2. CASE x = w /\ u # t
        <4>1. worker'[w].pending[u] = worker[w].pending[u]
          BY <1>2, <1>16, <2>1, <3>2
        <4> QED
          BY <3>2, <4>1
      <3> QED
        BY <3>1, <3>2
    <2> QED
      BY <1>4, <1>5, <1>16, <2>2, <2>3 DEF Kept
  <1>17. CASE SendBatch(w)
    <2>1. PICK t \in worker[w].flush :
             /\ insertBatches' = Append(insertBatches, [table |-> t, rows |-> worker[w].pending[t]])
             /\ worker' = [worker EXCEPT ![w] = Resume(w, t)]
      BY <1>17 DEF SendBatch
    <2>2. t \in Tables /\ [table |-> t, rows |-> worker[w].pending[t]] \in Batch
      BY <1>2 DEF Batch
    <2>3. \E n \in DOMAIN insertBatches' :
             insertBatches'[n] = [table |-> t, rows |-> worker[w].pending[t]]
      BY <2>1, <2>2, PutLast DEF TypeOK
    <2>4. row \in worker[w].pending[t] => Queued'
      BY <2>3
    <2>5. UNCHANGED packetChannel
      BY <1>17 DEF SendBatch, flushUnchanged, inputVars
    <2> QED
      BY <1>16, <2>1, <2>2, <2>4, <2>5 DEF Kept
  <1>18. CASE SpoolRefused(w)
    <2>1. PICK t \in worker[w].flush :
             Spool(worker[w].pending[t]) /\ worker' = [worker EXCEPT ![w] = Resume(w, t)]
      BY <1>18 DEF SpoolRefused
    <2>2. t \in Tables
      BY <1>2
    <2>3. row \in worker[w].pending[t] => row \in FatedRows'
      BY <2>1 DEF Spool, FatedRows
    <2>4. UNCHANGED packetChannel
      BY <1>18 DEF SpoolRefused, flushUnchanged, inputVars
    <2> QED
      BY <1>16, <2>1, <2>2, <2>3, <2>4 DEF Kept
  <1> QED
    BY <1>8, <1>9, <1>10, <1>11, <1>13, <1>14, <1>15, <1>17, <1>18 DEF WorkerStep, CountPacketOnly

(* of an insert worker neither,                                             *)
LEMMA InserterKeepsRows ==
    ASSUME TypeOK, Shape, NEW i \in InserterIds, InserterStep(i), NEW row \in Rows, Kept(row)
    PROVE  Kept(row)'
  <1> DEFINE Queued == \E n \in DOMAIN insertBatches : row \in insertBatches[n].rows
             Inserting == \E j \in InserterIds : row \in InserterHolds(j)
             Fated == row \in FatedRows
  <1>1. UNCHANGED <<wire, reader, discarded, packetChannel, worker>>
    BY DEF InserterStep, ReceiveBatch, EnsureTable, CreateTable, CreateTableFails,
           InsertSucceeds, InsertFails, SpoolExhausted, InserterReturn, insertUnchanged, inputVars
  <1>2. /\ inserter \in [InserterIds -> InserterState] /\ inserter[i] \in InserterState
        /\ InserterShape(i)
    BY DEF TypeOK, Shape
  <1>3. ASSUME Queued \/ Inserting \/ Fated => Queued' \/ Inserting' \/ Fated'
        PROVE  Kept(row)'
    BY <1>1, <1>3 DEF Kept, ReaderHolds, WorkerHolds
  <1>4. Fated => Fated'
    BY DEF FatedRows, InserterStep, ReceiveBatch, EnsureTable, CreateTable, CreateTableFails,
           InsertSucceeds, InsertFails, SpoolExhausted, InserterReturn, Spool, spoolVars
  <1>5. ASSUME NEW v, inserter' = [inserter EXCEPT ![i] = v], v.batch = inserter[i].batch
        PROVE  Inserting => Inserting'
    <2>1. \A j \in InserterIds : inserter'[j].batch = inserter[j].batch
      BY <1>2, <1>5
    <2>2. \A j \in InserterIds : InserterHolds(j)' = InserterHolds(j)
      BY <2>1 DEF InserterHolds
    <2> QED
      BY <2>2
  <1>6. ASSUME NEW v, inserter' = [inserter EXCEPT ![i] = v],
               row \in InserterHolds(i) => Inserting' \/ Fated'
        PROVE  Inserting => Inserting' \/ Fated'
    <2> SUFFICES ASSUME NEW j \in InserterIds, row \in InserterHolds(j) PROVE Inserting' \/ Fated'
      OBVIOUS
    <2>1. CASE j = i
      BY <1>6, <2>1
    <2>2. CASE j # i
      <3>1. inserter'[j] = inserter[j]
        BY <1>2, <1>6, <2>2
      <3>2. row \in InserterHolds(j)'
        BY <3>1 DEF InserterHolds
      <3> QED
        BY <3>2
    <2> QED
      BY <2>1, <2>2
  <1>7. CASE ReceiveBatch(i)
    <2> DEFINE v == [pc |-> "ensure", batch |-> Head(insertBatches), attempt |-> 1]
    <2>1. /\ inserter' = [inserter EXCEPT ![i] = v] /\ insertBatches' = Tail(insertBatches)
          /\ insertBatches \in Seq(Batch) /\ insertBatches # <<>>
      BY <1>7 DEF ReceiveBatch, TypeOK
    <2>2. Head(insertBatches) \in Batch
      BY <2>1, TakeHead
    <2>3. row \notin InserterHolds(i)
      BY <1>2, <1>7 DEF ReceiveBatch, InserterShape, InserterHolds
    <2>4. Inserting => Inserting' \/ Fated'
      BY <1>6, <2>1, <2>3
    <2>5. row \in Head(insertBatches).rows => Inserting'
      <3>1. inserter'[i] = v
        BY <1>2, <2>1
      <3>2. InserterHolds(i)' = Head(insertBatches).rows
        BY <2>2, <3>1, NoBatchIsNone DEF InserterHolds
      <3> QED
        BY <3>2
    <2>6. Queued => Queued' \/ row \in Head(insertBatches).rows
      BY <2>1, TakeHead
    <2> QED
      BY <1>3, <1>4, <2>4, <2>5, <2>6
  <1>8. CASE ~ReceiveBatch(i)
    <2>1. UNCHANGED insertBatches
      BY <1>8 DEF InserterStep, EnsureTable, CreateTable, CreateTableFails,
           InsertSucceeds, InsertFails, SpoolExhausted, InserterReturn, insertUnchanged
    <2>2. Queued => Queued'
      BY <2>1
    <2>3. CASE \E pc : inserter' = [inserter EXCEPT ![i] = [inserter[i] EXCEPT !.pc = pc]]
      <3>1. PICK pc : inserter' = [inserter EXCEPT ![i] = [inserter[i] EXCEPT !.pc = pc]]
        BY <2>3
      <3>2. [inserter[i] EXCEPT !.pc = pc].batch = inserter[i].batch
        BY <1>2 DEF InserterState
      <3> QED
        BY <1>3, <1>4, <1>5, <2>2, <3>1, <3>2
    <2>4. CASE EnsureTable(i) \/ CreateTable(i) \/ InserterReturn(i)
      <3>1. \E pc : inserter' = [inserter EXCEPT ![i] = [inserter[i] EXCEPT !.pc = pc]]
        BY <2>4 DEF EnsureTable, CreateTable, InserterReturn
      <3> QED
        BY <2>3, <3>1
    <2>5. CASE CreateTableFails(i) \/ InsertFails(i)
      <3>1. AttemptFailed(i)
        BY <2>5 DEF CreateTableFails, InsertFails
      <3>2. CASE inserter' = [inserter EXCEPT ![i] = NextAttempt(i)]
        <4>1. NextAttempt(i).batch = inserter[i].batch
          BY <1>2 DEF NextAttempt, InserterState
        <4> QED
          BY <1>3, <1>4, <1>5, <2>2, <3>2, <4>1
      <3>3. CASE inserter' = [inserter EXCEPT ![i] = [inserter[i] EXCEPT !.pc = "spool"]]
        BY <2>3, <3>3
      <3> QED
        BY <3>1, <3>2, <3>3 DEF AttemptFailed
    <2>6. CASE InsertSucceeds(i) \/ SpoolExhausted(i)
      <3>1. inserter' = [inserter EXCEPT ![i] = IdleInserter]
        BY <2>6 DEF InsertSucceeds, SpoolExhausted
      <3>2. inserter[i].batch # NoBatch
        BY <1>2, <2>6 DEF InsertSucceeds, SpoolExhausted, InserterShape
      <3>3. row \in InserterHolds(i) => Fated'
        BY <2>6, <3>2 DEF InsertSucceeds, SpoolExhausted, InserterHolds, Spool, FatedRows
      <3>4. Inserting => Inserting' \/ Fated'
        BY <1>6, <3>1, <3>3
      <3> QED
        BY <1>3, <1>4, <2>2, <3>4
    <2> QED
      BY <1>8, <2>4, <2>5, <2>6 DEF InserterStep
  <1> QED
    BY <1>7, <1>8

(* and the supervisor touches none.                                         *)
LEMMA TunerKeepsRows ==
    ASSUME TypeOK, Shape, SampleQueues \/ SpawnWorkers \/ TunerReturn, NEW row \in Rows, Kept(row)
    PROVE  Kept(row)'
  <1>1. UNCHANGED <<wire, reader, discarded, packetChannel, insertBatches,
                    inserted, spooled, orphaned, spoolLost>>
    BY DEF SampleQueues, SpawnWorkers, TunerReturn, tuneUnchanged, inputVars, insertVars, spoolVars
  <1>2. /\ \A w \in WorkerIds : /\ worker'[w].pkt = worker[w].pkt /\ worker'[w].k = worker[w].k
                                /\ worker'[w].pending = worker[w].pending
        /\ \A i \in InserterIds : inserter'[i].batch = inserter[i].batch
    <2>1. CASE SpawnWorkers
      <3>1. ASSUME NEW w \in WorkerIds
            PROVE  /\ worker'[w].pkt = worker[w].pkt /\ worker'[w].k = worker[w].k
                   /\ worker'[w].pending = worker[w].pending
        <4> DEFINE v == [worker[w] EXCEPT !.pc = "select"]
        <4>1. v.pkt = worker[w].pkt /\ v.k = worker[w].k /\ v.pending = worker[w].pending
          BY DEF TypeOK, WorkerState
        <4>2. worker'[w] \in {v, worker[w]}
          BY <2>1 DEF SpawnWorkers
        <4> HIDE DEF v
        <4> QED
          BY <4>1, <4>2
      <3>2. ASSUME NEW i \in InserterIds PROVE inserter'[i].batch = inserter[i].batch
        <4> DEFINE v == [inserter[i] EXCEPT !.pc = "recv"]
        <4>1. v.batch = inserter[i].batch
          BY DEF TypeOK, InserterState
        <4>2. inserter'[i] \in {v, inserter[i]}
          BY <2>1 DEF SpawnWorkers
        <4> HIDE DEF v
        <4> QED
          BY <4>1, <4>2
      <3> QED
        BY <3>1, <3>2
    <2>2. CASE SampleQueues \/ TunerReturn
      BY <2>2 DEF SampleQueues, TunerReturn, tuneUnchanged, insertVars
    <2> QED
      BY <2>1, <2>2
  <1>3. /\ \A w \in WorkerIds : WorkerHolds(w)' = WorkerHolds(w)
        /\ \A i \in InserterIds : InserterHolds(i)' = InserterHolds(i)
    BY <1>2 DEF WorkerHolds, InserterHolds
  <1> QED
    BY <1>1, <1>2, <1>3 DEF Kept, ReaderHolds, FatedRows

(* Every step keeps every row.                                              *)
LEMMA NextKeepsRows == TypeOK /\ Shape /\ EveryRowKept /\ [Next]_vars => EveryRowKept'
  <1> SUFFICES ASSUME TypeOK, Shape, [Next]_vars, ~ParseOnly, NEW row \in Rows, Kept(row)
               PROVE  Kept(row)'
    BY DEF EveryRowKept, Rows, RowsOf
  <1>1. CASE RequestStop \/ Shutdown \/ UNCHANGED vars
    <2>1. UNCHANGED <<wire, reader, discarded, packetChannel, worker, insertBatches, inserter,
                      inserted, spooled, orphaned, spoolLost>>
      BY <1>1 DEF RequestStop, Shutdown, CloseNextReceiver, MainStep, vars, inputVars,
                  insertVars, spoolVars
    <2> QED
      BY <2>1 DEF Kept, ReaderHolds, WorkerHolds, InserterHolds, FatedRows
  <1>2. CASE \E r \in Receivers : ReadBatch(r) \/ TransientErrorAtStop(r) \/ ReaderStep(r)
    BY <1>2, ReaderKeepsRows
  <1>3. CASE \E w \in WorkerIds : WorkerStep(w)
    BY <1>3, WorkerKeepsRows
  <1>4. CASE \E i \in InserterIds : InserterStep(i)
    BY <1>4, InserterKeepsRows
  <1>5. CASE SampleQueues \/ SpawnWorkers \/ TunerReturn
    BY <1>5, TunerKeepsRows
  <1> QED
    BY <1>1, <1>2, <1>3, <1>4, <1>5 DEF Next, Terminated

-----------------------------------------------------------------------------
(* The theorems.                                                            *)

LEMMA Inductive == Spec => []IInv
  <1>1. IInv /\ [Next]_vars => IInv'
    BY NextKeepsShape, DrainStep, NextKeepsRows DEF IInv
  <1> QED
    BY <1>1, InitIInv, PTL DEF Spec

(* Every variable keeps its type, for any traffic and any sizes: worker     *)
(* counts stay within their maxima (scaleStep), channels within capacity,   *)
(* attempts within INSERT_MAX_RETRIES.                                      *)
THEOREM TypeCorrect == Spec => []TypeOK
  <1>1. IInv => TypeOK
    BY DEF IInv
  <1> QED
    BY <1>1, Inductive, PTL

(* main never closes a channel that a goroutine may still send on.          *)
THEOREM ChannelsCloseSafely == Spec => []NoSendOnClosedChannel
  <1>1. IInv => NoSendOnClosedChannel
    BY DEF IInv, DrainOrder, NoSendOnClosedChannel, PacketChannelClosed, InsertBatchesClosed
  <1> QED
    BY <1>1, Inductive, PTL

(* No worker starts once main waits for the workers.                        *)
THEOREM NoLateSpawn == Spec => NoSpawnWhileDraining
  <1>1. IInv /\ [Next]_vars =>
          [PacketChannelClosed => UNCHANGED <<currentPacketWorkers, currentInsertWorkers>>]_vars
    <2> SUFFICES ASSUME IInv, [Next]_vars, PacketChannelClosed
                 PROVE  UNCHANGED <<currentPacketWorkers, currentInsertWorkers>>
      OBVIOUS
    <2>1. tuner.pc = "exited"
      BY DEF IInv, DrainOrder
    <2>2. ~SpawnWorkers
      BY <2>1 DEF SpawnWorkers
    <2>3. CASE RequestStop \/ Shutdown
      BY <2>3 DEF RequestStop, Shutdown, CloseNextReceiver, MainStep, tuneVars
    <2>4. CASE \E r \in Receivers : ReadBatch(r) \/ TransientErrorAtStop(r) \/ ReaderStep(r)
      BY <2>4 DEF ReadBatch, ReaderStep, ReadErrorAtStop, TransientErrorAtStop, LeaveAtStop, SkipEmpty, CountReceived, SendPacket,
                  DiscardAtStop, readUnchanged, tuneVars
    <2>5. CASE \E w \in WorkerIds : WorkerStep(w)
      BY <2>5 DEF WorkerStep, RejectPacket, CountPacketOnly, TakePacket, AppendEntry,
             FinishPacket, FlushAll, SweepTable, WorkerReturn, AdmitBatch, SendBatch,
             RefuseBatch, SpoolRefused, takeUnchanged, flushUnchanged, tuneVars
    <2>6. CASE \E i \in InserterIds : InserterStep(i)
      BY <2>6 DEF InserterStep, ReceiveBatch, EnsureTable, CreateTable, CreateTableFails,
             InsertSucceeds, InsertFails, SpoolExhausted, InserterReturn, insertUnchanged, tuneVars
    <2>7. CASE SampleQueues \/ TunerReturn
      BY <2>7 DEF SampleQueues, TunerReturn
    <2>8. CASE UNCHANGED vars
      BY <2>8 DEF vars, tuneVars
    <2> QED
      BY <2>2, <2>3, <2>4, <2>5, <2>6, <2>7, <2>8 DEF Next, Terminated
  <1> QED
    BY <1>1, Inductive, PTL DEF Spec, NoSpawnWhileDraining

(* main returns only when every row of every delivered datagram has met its *)
(* fate: the shutdown drains channels, batches and workers completely.      *)
THEOREM DrainComplete == Spec => []DrainLosesNothing
  <1>1. IInv => DrainLosesNothing
    <2> SUFFICES ASSUME IInv, mainPc = "stopped", ~ParseOnly, NEW row \in Rows
                 PROVE  row[1] \in wire \cup discarded \/ row \in FatedRows
      BY DEF DrainLosesNothing, Rows, RowsOf
    <2>1. Kept(row)
      BY DEF IInv, EveryRowKept
    <2>2. \A r \in Receivers : row[1] \notin ReaderHolds(r)
      <3>1. \A r \in Receivers : reader[r].pc = "exited" /\ ReaderShape(r)
        BY DEF IInv, DrainOrder, Shape
      <3> QED
        BY <3>1 DEF ReaderShape, ReaderHolds
    <2>3. /\ \A w \in WorkerIds : worker[w].pc \in {"unspawned", "exited"} /\ WorkerShape(w)
          /\ \A i \in InserterIds : inserter[i].pc \in {"unspawned", "exited"} /\ InserterShape(i)
      BY DEF IInv, DrainOrder, Shape, InsertBatchesClosed
    <2>4. \A w \in WorkerIds : row \notin WorkerHolds(w) /\
             \A t \in Tables : row \notin worker[w].pending[t]
      BY <2>3 DEF WorkerShape, WorkerHolds
    <2>5. \A i \in InserterIds : row \notin InserterHolds(i)
      BY <2>3 DEF InserterShape, InserterHolds
    <2>6. packetChannel = <<>>
      <3>1. 1 \in WorkerIds /\ ~(1 > currentPacketWorkers)
        BY ConfigAssumption DEF IInv, TypeOK, Shape, SpawnRoom, WorkerIds
      <3>2. worker[1].pc = "exited"
        BY <2>3, <3>1 DEF WorkerShape
      <3> QED
        BY <3>1, <3>2 DEF IInv, DrainOrder
    <2>7. insertBatches = <<>>
      <3>1. 1 \in InserterIds /\ ~(1 > currentInsertWorkers)
        BY ConfigAssumption DEF IInv, TypeOK, Shape, SpawnRoom, InserterIds
      <3>2. inserter[1].pc = "exited"
        BY <2>3, <3>1 DEF InserterShape
      <3> QED
        BY <3>1, <3>2 DEF IInv, DrainOrder
    <2> QED
      BY <2>1, <2>2, <2>4, <2>5, <2>6, <2>7 DEF Kept
  <1> QED
    BY <1>1, Inductive, PTL
=============================================================================
