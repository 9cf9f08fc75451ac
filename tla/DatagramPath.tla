---------------------------- MODULE DatagramPath ----------------------------
(***************************************************************************)
(* The bytes of a datagram on their way to rows: the kernel runs the       *)
(* reuseport program to choose a socket; the receiver of that socket reads *)
(* batches into its own slots, copies each datagram to a buffer from a     *)
(* pool and sends it to the packet workers; a worker parses it, record by  *)
(* record, and gives the buffer back.                                      *)
(*                                                                         *)
(* A byte is modelled by the datagram it comes from, so that a row shows   *)
(* which datagrams its bytes belong to.  What the kernel hashes are the    *)
(* datagram's words, which are forgotten once it is queued.                *)
(***************************************************************************)
EXTENDS ReusePortHash, FiniteSets

CONSTANTS
    Sent,        \* the datagrams, in the order of their arrival
    Format,      \* [datagram -> [kind, records, length]]
    Workers,     \* the packet workers
    BatchSize,   \* UDP_BATCH_SIZE
    QueueSize,   \* the capacity of packetChannel
    HeaderSize,  \* generalHeaderSize
    RecordSize,  \* recordSize
    LegacySize,  \* the 42 bytes of a legacy datagram that are read
    SmallSize,   \* the sizes of pooled buffers, 512
    LargeSize,   \* and 2048
    MaxBuffers,  \* bound: the buffers ever made
    MaxWords,    \* bound: the words of a datagram that are hashed
    FirstRead,   \* bound: the datagrams that arrive before the first is read
    NoDatagram

Datagrams == {Sent[k] : k \in DOMAIN Sent}
Length(d) == Format[d].length

(* A legacy datagram is never as long as a header and whole records, and    *)
(* one that is neither is too short for either.                             *)
ASSUME PathAssumption ==
    /\ Sent \in Seq(Datagrams) /\ IsInjective(Sent) /\ NoDatagram \notin Datagrams
    /\ Format \in [Datagrams -> [kind : {"multi", "legacy", "neither"},
                                 records : Nat, length : Nat]]
    /\ {BatchSize, QueueSize, HeaderSize, RecordSize, LegacySize, SmallSize, LargeSize}
         \subseteq Nat \ {0}
    /\ {MaxBuffers, MaxWords, FirstRead} \subseteq Nat
    /\ HeaderSize < LegacySize /\ LegacySize < HeaderSize + RecordSize
    /\ SmallSize < LargeSize
    /\ \A d \in Datagrams :
         CASE Format[d].kind = "multi" ->
                Format[d].records > 0 /\ Length(d) = HeaderSize + Format[d].records * RecordSize
           [] Format[d].kind = "legacy" ->
                /\ Format[d].records = 1 /\ Length(d) >= LegacySize
                /\ Length(d) < HeaderSize + RecordSize \/ (Length(d) - HeaderSize) % RecordSize # 0
           [] OTHER -> Format[d].records = 0 /\ Length(d) \in 0..LegacySize-1

VARIABLES
    kernel,   \* the datagram in the kernel, its words and the program's machine
    arrived,  \* how many datagrams have been queued
    socket,   \* [socket -> the datagrams queued]
    reader,   \* [socket -> the receiver's place, slots, next slot and buffer]
    heap,     \* the buffers: their capacity, and the datagram of each byte
    pool,     \* the free buffers of both pools
    channel,  \* packetChannel
    worker,   \* [worker -> its packet and the next record, or none]
    stopped,  \* the stop channel is closed
    rows,     \* history: how many rows have bytes of which datagrams
    parsed    \* history: the datagrams whose packet is finished

kernelVars == <<kernel, arrived>>
vars == <<kernelVars, socket, reader, heap, pool, channel, worker, stopped, rows, parsed>>

Sockets == 0..SocketCount-1
NoBuffer == 0
IdleReader == [at |-> "read", slots |-> <<>>, buffer |-> NoBuffer]
NoPacket == [buffer |-> NoBuffer, length |-> 0, of |-> NoDatagram]
IdleWorker == [at |-> "idle", packet |-> NoPacket, record |-> 0]
IdleKernel == [at |-> "idle", words |-> <<>>, machine |-> Fresh]

Init ==
    /\ kernel = IdleKernel /\ arrived = 0
    /\ socket = [s \in Sockets |-> <<>>] /\ reader = [s \in Sockets |-> IdleReader]
    /\ heap = <<>> /\ pool = {} /\ channel = <<>>
    /\ worker = [w \in Workers |-> IdleWorker]
    /\ stopped = FALSE /\ parsed = {}
    /\ rows = [D \in SUBSET (Datagrams \cup {NoDatagram}) |-> 0]

-----------------------------------------------------------------------------
(* The kernel                                                               *)

pipelineVars == <<reader, heap, pool, channel, worker, stopped, rows, parsed>>
program == buildReusePortCBPF(SocketCount, HashOffsets)

(* The next datagram, with any words, too few for an offset or none.        *)
Arrive ==
    /\ kernel.at = "idle" /\ arrived < Len(Sent)
    /\ \E n \in 0..MaxWords : \E words \in [1..n -> Words] :
         kernel' = [at |-> "run", words |-> words, machine |-> Fresh]
    /\ UNCHANGED <<arrived, socket, pipelineVars>>

RunProgram ==
    /\ kernel.at = "run" /\ ~kernel.machine.returned
    /\ kernel' = [kernel EXCEPT !.machine =
         Execute(@, program[kernel.machine.pc], kernel.words)]
    /\ UNCHANGED <<arrived, socket, pipelineVars>>

Queue ==
    /\ kernel.at = "run" /\ kernel.machine.returned
    /\ socket' = [socket EXCEPT ![kernel.machine.a] = Append(@, Sent[arrived + 1])]
    /\ arrived' = arrived + 1
    /\ kernel' = IdleKernel
    /\ UNCHANGED pipelineVars

-----------------------------------------------------------------------------
(* The pools                                                                *)

Capacity(size) ==
    IF size <= SmallSize THEN SmallSize ELSE IF size <= LargeSize THEN LargeSize ELSE size

(* sync.Pool gives a free buffer or a new one; a buffer for more than       *)
(* LargeSize bytes is always new.  The datagram is copied into it.          *)
Copy(cells, d) == [k \in DOMAIN cells |-> IF k <= Length(d) THEN d ELSE cells[k]]

acquirePacketBuffer(s, d) ==
    LET capacity == Capacity(Length(d))
        blank == [k \in 1..capacity |-> NoDatagram]
    IN \/ \E b \in pool :
            /\ capacity <= LargeSize /\ Len(heap[b]) = capacity
            /\ pool' = pool \ {b}
            /\ heap' = [heap EXCEPT ![b] = Copy(@, d)]
            /\ reader' = [reader EXCEPT ![s].at = "send", ![s].buffer = b]
       \/ /\ Len(heap) < MaxBuffers
          /\ heap' = Append(heap, Copy(blank, d))
          /\ reader' = [reader EXCEPT ![s].at = "send", ![s].buffer = Len(heap) + 1]
          /\ UNCHANGED pool

(* Faulty variant: any buffer goes back to a pool.                          *)
releaseAnyBuffer(b) == pool' = pool \cup {b}

releasePacketBuffer(b) ==
    pool' = IF Len(heap[b]) \in {SmallSize, LargeSize} THEN pool \cup {b} ELSE pool

-----------------------------------------------------------------------------
(* udpReadLoop.  Bound: the first FirstRead datagrams arrive before one is  *)
(* read.                                                                    *)

readerUnchanged == <<kernelVars, worker, stopped, rows, parsed>>

ReadBatch(s) ==
    /\ arrived >= FirstRead
    /\ reader[s].at = "read" /\ reader[s].slots = <<>> /\ socket[s] # <<>>
    /\ LET n == Min({BatchSize, Len(socket[s])})
       IN
         /\ reader' = [reader EXCEPT ![s].slots = SubSeq(socket[s], 1, n)]
         /\ socket' = [socket EXCEPT ![s] = SubSeq(@, n + 1, Len(@))]
    /\ UNCHANGED <<readerUnchanged, heap, pool, channel>>

(* A closed socket ends the loop.                                           *)
ReadFails(s) ==
    /\ stopped /\ reader[s].at = "read" /\ reader[s].slots = <<>>
    /\ reader' = [reader EXCEPT ![s].at = "gone"]
    /\ UNCHANGED <<readerUnchanged, socket, heap, pool, channel>>

SkipEmpty(s) ==
    /\ reader[s].at = "read" /\ reader[s].slots # <<>> /\ Length(Head(reader[s].slots)) = 0
    /\ reader' = [reader EXCEPT ![s].slots = Tail(@)]
    /\ UNCHANGED <<readerUnchanged, socket, heap, pool, channel>>

CopyDatagram(s) ==
    /\ reader[s].at = "read" /\ reader[s].slots # <<>> /\ Length(Head(reader[s].slots)) > 0
    /\ acquirePacketBuffer(s, Head(reader[s].slots))
    /\ UNCHANGED <<readerUnchanged, socket, channel>>

SendPacket(s) ==
    /\ reader[s].at = "send" /\ Len(channel) < QueueSize
    /\ LET d == Head(reader[s].slots)
       IN channel' = Append(channel, [buffer |-> reader[s].buffer, length |-> Length(d), of |-> d])
    /\ reader' = [reader EXCEPT ![s] = [IdleReader EXCEPT !.slots = Tail(reader[s].slots)]]
    /\ UNCHANGED <<readerUnchanged, socket, heap, pool>>

StopSending(s) ==
    /\ reader[s].at = "send" /\ stopped
    /\ releasePacketBuffer(reader[s].buffer)
    /\ reader' = [reader EXCEPT ![s] = [IdleReader EXCEPT !.at = "gone"]]
    /\ UNCHANGED <<readerUnchanged, socket, heap, channel>>

RequestStop ==
    /\ ~stopped /\ arrived >= FirstRead
    /\ stopped' = TRUE
    /\ UNCHANGED <<kernelVars, socket, reader, heap, pool, channel, worker, rows, parsed>>

-----------------------------------------------------------------------------
(* packetWorker and parsePacket                                             *)

workerUnchanged == <<kernelVars, socket, reader, heap, stopped>>

(* Faulty variant: any datagram of that length is taken for records.        *)
MultiRecordAnyLength(length) == length >= HeaderSize + RecordSize

MultiRecord(length) ==
    length >= HeaderSize + RecordSize /\ (length - HeaderSize) % RecordSize = 0

Records(length) ==
    IF MultiRecord(length) THEN (length - HeaderSize) \div RecordSize
    ELSE IF length >= LegacySize THEN 1 ELSE 0

(* The bytes read for a record: its own and the header's timestamp, or the  *)
(* fixed places of the legacy format.                                       *)
BytesRead(length, record) ==
    IF MultiRecord(length)
    THEN 1..HeaderSize \cup
         (HeaderSize + record * RecordSize + 1)..(HeaderSize + (record + 1) * RecordSize)
    ELSE 1..LegacySize

(* Faulty variant: all of the pooled buffer is taken for the datagram.      *)
DataOfBuffer(p) == Len(heap[p.buffer])

Data(p) == p.length

(* Faulty variant: the buffer is released as soon as the packet is taken.   *)
TakePacketReleasing(w) ==
    /\ worker[w].at = "idle" /\ channel # <<>>
    /\ worker' = [worker EXCEPT ![w] = [at |-> "parse", packet |-> Head(channel), record |-> 0]]
    /\ channel' = Tail(channel)
    /\ releasePacketBuffer(Head(channel).buffer)
    /\ UNCHANGED <<workerUnchanged, rows, parsed>>

TakePacket(w) ==
    /\ worker[w].at = "idle" /\ channel # <<>>
    /\ worker' = [worker EXCEPT ![w] = [at |-> "parse", packet |-> Head(channel), record |-> 0]]
    /\ channel' = Tail(channel)
    /\ UNCHANGED <<workerUnchanged, pool, rows, parsed>>

ParseRecord(w) ==
    /\ worker[w].at = "parse"
    /\ LET p == worker[w].packet
           k == worker[w].record
           bytes == {heap[p.buffer][j] : j \in BytesRead(Data(p), k)}
       IN /\ k < Records(Data(p))
          /\ rows' = [rows EXCEPT ![bytes] = @ + 1]
    /\ worker' = [worker EXCEPT ![w].record = @ + 1]
    /\ UNCHANGED <<workerUnchanged, pool, channel, parsed>>

(* With its rows, or with the error of a datagram that is neither format.   *)
FinishPacket(w) ==
    /\ worker[w].at = "parse" /\ worker[w].record = Records(Data(worker[w].packet))
    /\ releasePacketBuffer(worker[w].packet.buffer)
    /\ parsed' = parsed \cup {worker[w].packet.of}
    /\ worker' = [worker EXCEPT ![w] = IdleWorker]
    /\ UNCHANGED <<workerUnchanged, channel, rows>>

-----------------------------------------------------------------------------
Next ==
    \/ Arrive \/ RunProgram \/ Queue \/ RequestStop
    \/ \E s \in Sockets :
          \/ ReadBatch(s) \/ ReadFails(s) \/ SkipEmpty(s) \/ CopyDatagram(s)
          \/ SendPacket(s) \/ StopSending(s)
    \/ \E w \in Workers : TakePacket(w) \/ ParseRecord(w) \/ FinishPacket(w)

Spec == Init /\ [][Next]_vars

-----------------------------------------------------------------------------
(* Properties                                                               *)

Packets == [buffer : 0..MaxBuffers, length : Nat, of : Datagrams \cup {NoDatagram}]

(* Types; the pools hold buffers of their two sizes only.                   *)
TypeOK ==
    /\ kernel.at \in {"idle", "run"} /\ kernel.machine \in Machine
    /\ kernel.machine.pc \in DOMAIN program /\ arrived \in 0..Len(Sent)
    /\ socket \in [Sockets -> Seq(Datagrams)]
    /\ \A s \in Sockets :
         /\ reader[s] \in [at : {"read", "send", "gone"}, slots : Seq(Datagrams),
                           buffer : 0..Len(heap)]
         /\ Len(reader[s].slots) <= BatchSize
    /\ Len(heap) <= MaxBuffers
    /\ \A b \in pool : b \in DOMAIN heap /\ Len(heap[b]) \in {SmallSize, LargeSize}
    /\ channel \in Seq(Packets) /\ Len(channel) <= QueueSize
    /\ worker \in [Workers -> [at : {"idle", "parse"}, packet : Packets, record : Nat]]
    /\ stopped \in BOOLEAN /\ parsed \subseteq Datagrams

(* The BPF program chooses the socket that reusePortPayloadHash computes    *)
(* ("mirrors the CBPF selector", reuseport_hash.go:63), for every payload   *)
(* and modulo the width of a word; a payload too short for an offset goes   *)
(* to the first socket.                                                     *)
SelectorMirrors ==
    kernel.at = "run" /\ kernel.machine.returned =>
        LET hash == reusePortPayloadHash(kernel.words, HashOffsets, SocketCount)
        IN kernel.machine.a = IF hash = HashError THEN 0 ELSE hash

(* The holders of a buffer: a receiver, a packet in the channel, a worker,  *)
(* the pool.                                                                *)
Holders(b) ==
    Cardinality({s \in Sockets : reader[s].buffer = b})
        + Cardinality({k \in DOMAIN channel : channel[k].buffer = b})
        + Cardinality({w \in Workers : worker[w].packet.buffer = b})
        + Cardinality({f \in pool : f = b})

(* No buffer is ever in two hands, through the stop as well.                *)
BuffersOwnedOnce == \A b \in DOMAIN heap : Holders(b) <= 1

(* Every row is made of the bytes of one datagram: nothing of an earlier    *)
(* user of the buffer, nothing written over it while it is parsed, nothing  *)
(* beyond the datagram's end.                                               *)
RowsOfOneDatagram ==
    \A D \in DOMAIN rows : rows[D] > 0 => \E d \in Datagrams : D = {d}

(* A datagram that a worker has finished gave as many rows as it has        *)
(* records, of either format, and never more.                               *)
RowsComplete ==
    \A d \in Datagrams :
        /\ rows[{d}] <= Format[d].records
        /\ d \in parsed => rows[{d}] = Format[d].records
=============================================================================
