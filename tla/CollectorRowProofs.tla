------------------------- MODULE CollectorRowProofs -------------------------
(***************************************************************************)
(* Every row the collector parses is in one place of the pipeline, and the *)
(* pipeline implements RowFate: for any traffic, any number of receivers   *)
(* and workers, and any sizes.  A row is at a stage (on the wire, in a     *)
(* worker's pending batch, spooled, ...); the inductive invariant RowInv   *)
(* says that it is at one stage at most, and once there.  Each step of the *)
(* program moves the rows of one set from one stage to another: Moves.     *)
(***************************************************************************)
EXTENDS CollectorProofs

Refusing == {"wire", "discarded", "reader"}
Holding == {"channel", "worker", "pending", "queued", "inserter"}
Failing == {"spooled", "orphaned", "lost"}
Stages == Refusing \cup Holding \cup Failing \cup {"inserted"}

(* A row of a datagram that PARSE_ONLY has counted is nowhere.              *)
Nowhere == "nowhere"

AtStage(row, c) ==
    \/ c = "wire" /\ row[1] \in wire
    \/ c = "discarded" /\ row[1] \in discarded
    \/ c = "reader" /\ \E r \in Receivers : row[1] \in ReaderHolds(r)
    \/ c = "channel" /\ \E n \in DOMAIN packetChannel : row[1] = packetChannel[n]
    \/ c = "worker" /\ \E w \in WorkerIds : row \in WorkerHolds(w)
    \/ c = "pending" /\ \E w \in WorkerIds, t \in Tables : row \in worker[w].pending[t]
    \/ c = "queued" /\ \E n \in DOMAIN insertBatches : row \in insertBatches[n].rows
    \/ c = "inserter" /\ \E i \in InserterIds : row \in InserterHolds(i)
    \/ c = "inserted" /\ row \in inserted
    \/ c = "spooled" /\ row \in spooled
    \/ c = "orphaned" /\ row \in orphaned
    \/ c = "lost" /\ row \in spoolLost

OneStage(row) == \A c, d \in Stages : AtStage(row, c) /\ AtStage(row, d) => c = d

(* At its stage a row is held by one goroutine, or by one place of a        *)
(* channel.                                                                 *)
OneReader(row) ==
    \A q, r \in Receivers : row[1] \in ReaderHolds(q) /\ row[1] \in ReaderHolds(r) => q = r
OnePacket(row) ==
    \A m, n \in DOMAIN packetChannel :
        row[1] = packetChannel[m] /\ row[1] = packetChannel[n] => m = n
OneWorker(row) ==
    \A v, w \in WorkerIds : row \in WorkerHolds(v) /\ row \in WorkerHolds(w) => v = w
OnePending(row) ==
    \A v, w \in WorkerIds, s, t \in Tables :
        row \in worker[v].pending[s] /\ row \in worker[w].pending[t] => v = w /\ s = t
OneQueued(row) ==
    \A m, n \in DOMAIN insertBatches :
        row \in insertBatches[m].rows /\ row \in insertBatches[n].rows => m = n
OneInserter(row) ==
    \A h, i \in InserterIds : row \in InserterHolds(h) /\ row \in InserterHolds(i) => h = i

OnceThere(row) ==
    /\ OneReader(row) /\ OnePacket(row) /\ OneWorker(row)
    /\ OnePending(row) /\ OneQueued(row) /\ OneInserter(row)

(* A receiver reads no datagram twice in one batch.                         *)
BatchOnce(r) ==
    \A m, n \in DOMAIN reader[r].batch : reader[r].batch[m] = reader[r].batch[n] => m = n

RowInv ==
    /\ \A r \in Receivers : BatchOnce(r)
    /\ \A row \in Rows : OneStage(row) /\ OnceThere(row)

-----------------------------------------------------------------------------
(* Moves                                                                    *)

(* The rows of S move from one stage to another, and no other row moves.    *)
Moves(S, from, to) ==
    /\ \A row \in S : AtStage(row, from)
    /\ \A row \in Rows, c \in Stages :
          AtStage(row, c)' <=> IF row \in S THEN c = to ELSE AtStage(row, c)

(* Moving a set of rows from one stage to another keeps each row at one     *)
(* stage.                                                                   *)
LEMMA MovesKeepOneStage ==
    ASSUME NEW S \in SUBSET Rows, NEW from, NEW to, Moves(S, from, to),
           \A row \in Rows : OneStage(row)
    PROVE  \A row \in Rows : OneStage(row)'
  <1> SUFFICES ASSUME NEW row \in Rows, NEW c \in Stages, NEW d \in Stages,
                      AtStage(row, c)', AtStage(row, d)'
               PROVE  c = d
    BY DEF OneStage, Stages, Refusing, Holding, Failing
  <1> QED
    BY DEF Moves, OneStage

(* What a step has to show of the two stages it concerns.                   *)
LEMMA MovesBetween ==
    ASSUME NEW S \in SUBSET Rows, NEW from \in Stages, NEW to \in Stages \cup {Nowhere},
           from # to, \A row \in Rows : OneStage(row), \A row \in S : AtStage(row, from),
           \A row \in Rows, c \in Stages \ {from, to} : AtStage(row, c)' <=> AtStage(row, c),
           \A row \in Rows : AtStage(row, from)' <=> AtStage(row, from) /\ row \notin S,
           to \in Stages => \A row \in Rows : AtStage(row, to)' <=> AtStage(row, to) \/ row \in S
    PROVE  Moves(S, from, to)
  <1> SUFFICES ASSUME NEW row \in Rows, NEW c \in Stages
               PROVE  AtStage(row, c)' <=> IF row \in S THEN c = to ELSE AtStage(row, c)
    BY DEF Moves
  <1>1. row \in S => (AtStage(row, c) <=> c = from)
    BY DEF OneStage
  <1>2. CASE c = from
    BY <1>1, <1>2
  <1>3. CASE c = to
    BY <1>1, <1>3
  <1>4. CASE c \notin {from, to}
    BY <1>1, <1>4
  <1> QED
    BY <1>2, <1>3, <1>4

(* A step that changes no stage moves the empty set.                        *)
LEMMA NothingMoves ==
    ASSUME \A row \in Rows, c \in Stages : AtStage(row, c)' <=> AtStage(row, c)
    PROVE  Moves({}, "wire", "wire")
  BY DEF Moves

(* The fate of a row at a stage, and the moves RowFate allows.              *)
StageFate(c) ==
    IF c \in Failing \cup {"inserted"} THEN c ELSE IF c \in Refusing THEN "absent" ELSE "held"

Allowed(S, from, to) ==
    \/ /\ stored' = stored
       /\ \/ StageFate(from) = StageFate(to)
          \/ StageFate(from) = "absent" /\ StageFate(to) = "held"
          \/ StageFate(from) = "held" /\ to \in Failing
    \/ from = "inserter" /\ to \in {"inserter", "inserted"} /\ stored' = StoredOnceMore(S)

AllowedMove ==
    \E S \in SUBSET Rows, from \in Stages, to \in Stages \cup {Nowhere} :
        Moves(S, from, to) /\ Allowed(S, from, to)

(* What a step has to show.                                                 *)
RowsMove ==
    /\ AllowedMove
    /\ \A row \in Rows : OnceThere(row)'
    /\ \A r \in Receivers : BatchOnce(r)'

(* The invariant survives any step that moves rows.                         *)
LEMMA RowsMoveKeeps == RowInv /\ RowsMove => RowInv'
  <1> SUFFICES ASSUME RowInv, RowsMove
               PROVE  RowInv'
    OBVIOUS
  <1>1. PICK S \in SUBSET Rows, from \in Stages, to \in Stages \cup {Nowhere} : Moves(S, from, to)
    BY DEF RowsMove, AllowedMove
  <1>2. \A row \in Rows : OneStage(row)
    BY DEF RowInv
  <1>3. \A row \in Rows : OneStage(row)'
    BY <1>1, <1>2, MovesKeepOneStage
  <1>4. Rows' = Rows /\ Receivers' = Receivers
    BY DEF Rows, RowsOf, Receivers
  <1> QED
    BY <1>3, <1>4 DEF RowsMove, RowInv

-----------------------------------------------------------------------------
(* Fates                                                                    *)

LEMMA FateByStage ==
    ASSUME NEW row \in Rows, OneStage(row)
    PROVE  /\ \A c \in Stages : AtStage(row, c) => FateOf(row) = StageFate(c)
           /\ (\A c \in Stages : ~AtStage(row, c)) => FateOf(row) = "held"
  <1>1. /\ AtStage(row, "inserted") <=> row \in inserted
        /\ AtStage(row, "spooled") <=> row \in spooled
        /\ AtStage(row, "orphaned") <=> row \in orphaned
        /\ AtStage(row, "lost") <=> row \in spoolLost
        /\ AtStage(row, "wire") \/ AtStage(row, "discarded") \/ AtStage(row, "reader")
              <=> Refused(row[1])
    BY DEF AtStage, Refused
  <1>2. \A c, d \in Stages : AtStage(row, c) /\ AtStage(row, d) => c = d
    BY DEF OneStage
  <1> QED
    BY <1>1, <1>2 DEF FateOf, StageFate, Stages, Refusing, Holding, Failing

(* The fate of a row after a step, by the stage it is at then.              *)
LEMMA FateByStageAfter ==
    ASSUME NEW row \in Rows, OneStage(row)'
    PROVE  /\ \A c \in Stages : AtStage(row, c)' => FateOf(row)' = StageFate(c)
           /\ (\A c \in Stages : ~AtStage(row, c)') => FateOf(row)' = "held"
  <1>1. /\ AtStage(row, "inserted")' <=> row \in inserted'
        /\ AtStage(row, "spooled")' <=> row \in spooled'
        /\ AtStage(row, "orphaned")' <=> row \in orphaned'
        /\ AtStage(row, "lost")' <=> row \in spoolLost'
        /\ AtStage(row, "wire")' \/ AtStage(row, "discarded")' \/ AtStage(row, "reader")'
              <=> Refused(row[1])'
    BY DEF AtStage, Refused
  <1>2. \A c, d \in Stages : AtStage(row, c)' /\ AtStage(row, d)' => c = d
    BY DEF OneStage, Stages, Refusing, Holding, Failing
  <1> QED
    BY <1>1, <1>2 DEF FateOf, StageFate, Stages, Refusing, Holding, Failing

(* A move that is allowed is a step of RowFate, or changes none of it.      *)
LEMMA AllowedMoveImplements ==
    ASSUME RowInv, AllowedMove, TypeOK
    PROVE  [Contract!Next]_<<[row \in Rows |-> FateOf(row)], stored>>
  <1> DEFINE fate == [row \in Rows |-> FateOf(row)]
  <1>1. PICK S \in SUBSET Rows, from \in Stages, to \in Stages \cup {Nowhere} :
           Moves(S, from, to) /\ Allowed(S, from, to)
    BY DEF AllowedMove
  <1>2. \A row \in Rows : OneStage(row) /\ OneStage(row)'
    BY <1>1, MovesKeepOneStage DEF RowInv
  <1>3. ASSUME NEW row \in Rows
        PROVE  /\ row \in S => FateOf(row) = StageFate(from) /\ FateOf(row)' = StageFate(to)
               /\ row \notin S => FateOf(row)' = FateOf(row)
    <2>1. CASE row \in S
      <3>1. FateOf(row) = StageFate(from)
        BY <1>1, <1>2, <2>1, FateByStage DEF Moves
      <3>2. \A c \in Stages : AtStage(row, c)' <=> c = to
        BY <1>1, <2>1 DEF Moves
      <3>3. CASE to \in Stages
        BY <1>2, <2>1, <3>1, <3>2, <3>3, FateByStageAfter
      <3>4. CASE to = Nowhere
        <4>1. Nowhere \notin Stages /\ StageFate(Nowhere) = "held"
          BY DEF Nowhere, Stages, Refusing, Holding, Failing, StageFate
        <4>2. \A c \in Stages : ~AtStage(row, c)'
          BY <3>2, <3>4, <4>1
        <4> QED
          BY <1>2, <2>1, <3>1, <3>4, <4>1, <4>2, FateByStageAfter
      <3> QED
        BY <3>3, <3>4
    <2>2. CASE row \notin S
      <3>1. \A c \in Stages : AtStage(row, c)' <=> AtStage(row, c)
        BY <1>1, <2>2 DEF Moves
      <3>2. CASE \E c \in Stages : AtStage(row, c)
        BY <1>2, <2>2, <3>1, <3>2, FateByStage, FateByStageAfter
      <3>3. CASE \A c \in Stages : ~AtStage(row, c)
        BY <1>2, <2>2, <3>1, <3>3, FateByStage, FateByStageAfter
      <3> QED
        BY <3>2, <3>3
    <2> QED
      BY <2>1, <2>2
  <1>4. fate' = [row \in Rows |-> FateOf(row)']
    BY DEF Rows, RowsOf
  <1>5. fate' = [row \in Rows |-> IF row \in S THEN StageFate(to) ELSE fate[row]]
    BY <1>3, <1>4
  <1>6. \A row \in S : fate[row] = StageFate(from)
    BY <1>3
  <1>7. Contract!Move(S, StageFate(from), StageFate(to))
    BY <1>5, <1>6 DEF Contract!Move
  <1>8. CASE stored' = stored /\ StageFate(from) = StageFate(to)
    <2>1. fate' = fate
      BY <1>5, <1>6, <1>8
    <2> QED
      BY <1>8, <2>1
  <1>9. CASE stored' = stored /\ StageFate(from) = "absent" /\ StageFate(to) = "held"
    BY <1>7, <1>9 DEF Contract!Next, Contract!Accept
  <1>10. CASE stored' = stored /\ StageFate(from) = "held" /\ to \in Failing
    <2>1. StageFate(to) = to /\ to \in Contract!Failed
      BY <1>10 DEF StageFate, Failing, Contract!Failed
    <2> QED
      BY <1>7, <1>10, <2>1 DEF Contract!Next, Contract!GiveUp
  <1>11. CASE from = "inserter" /\ to \in {"inserter", "inserted"} /\ stored' = StoredOnceMore(S)
    <2>1. Contract!Write(S)
      BY <1>11 DEF Contract!Write, StoredOnceMore
    <2>2. StageFate(from) = "held" /\ StageFate("inserted") = "inserted"
      BY <1>11 DEF StageFate, Failing, Refusing
    <2>3. CASE to = "inserted"
      BY <1>7, <2>1, <2>2, <2>3 DEF Contract!Next, Contract!Confirm
    <2>4. CASE to = "inserter"
      <3>1. fate' = fate
        BY <1>5, <1>6, <1>11, <2>4
      <3>2. \A row \in S : fate[row] = "held"
        BY <1>6, <2>2
      <3> QED
        BY <2>1, <3>1, <3>2 DEF Contract!Next, Contract!WriteUnconfirmed
    <2> QED
      BY <1>11, <2>3, <2>4
  <1> QED
    BY <1>1, <1>8, <1>9, <1>10, <1>11 DEF Allowed

-----------------------------------------------------------------------------
(* What sequences hold, and how often                                       *)

Has(s, x) == \E n \in DOMAIN s : x = s[n]
Once(s, x) == \A m, n \in DOMAIN s : x = s[m] /\ x = s[n] => m = n

(* A datagram leaves a channel at its head, once.                           *)
LEMMA TailHas ==
    ASSUME NEW S, NEW s \in Seq(S), s # <<>>, NEW x, Once(s, x)
    PROVE  (Has(Tail(s), x) <=> Has(s, x) /\ x # Head(s)) /\ Once(Tail(s), x)
  <1>1. /\ Len(s) \in Nat /\ Len(s) >= 1 /\ DOMAIN s = 1..Len(s) /\ Head(s) = s[1]
        /\ DOMAIN Tail(s) = 1..Len(s)-1
        /\ \A n \in 1..Len(s)-1 : Tail(s)[n] = s[n + 1]
    BY HeadTailProperties, LenProperties, EmptySeq
  <1>2. \A n \in 1..Len(s) : n # 1 => n - 1 \in 1..Len(s)-1 /\ s[n] = Tail(s)[n - 1]
    BY <1>1
  <1>3. \A n \in 1..Len(s)-1 : n + 1 \in 1..Len(s) /\ n + 1 # 1
    BY <1>1
  <1>4. 1 \in DOMAIN s
    BY <1>1
  <1>5. Once(Tail(s), x)
    <2> SUFFICES ASSUME NEW m \in DOMAIN Tail(s), NEW n \in DOMAIN Tail(s),
                        x = Tail(s)[m], x = Tail(s)[n]
                 PROVE  m = n
      BY DEF Once
    <2>1. m + 1 = n + 1
      BY <1>1, <1>3 DEF Once
    <2> QED
      BY <1>1, <2>1
  <1>6. Has(Tail(s), x) => Has(s, x) /\ x # Head(s)
    BY <1>1, <1>3, <1>4 DEF Has, Once
  <1>7. Has(s, x) /\ x # Head(s) => Has(Tail(s), x)
    BY <1>1, <1>2 DEF Has
  <1> QED
    BY <1>5, <1>6, <1>7

(* A datagram enters a channel at its end, once.                            *)
LEMMA AppendHas ==
    ASSUME NEW S, NEW s \in Seq(S), NEW e \in S, NEW x
    PROVE  /\ Has(Append(s, e), x) <=> Has(s, x) \/ x = e
           /\ Once(s, x) /\ (x = e => ~Has(s, x)) => Once(Append(s, e), x)
  <1> DEFINE t == Append(s, e)
  <1>1. /\ Len(s) \in Nat /\ DOMAIN s = 1..Len(s) /\ DOMAIN t = 1..Len(s)+1
        /\ t[Len(s) + 1] = e /\ \A n \in 1..Len(s) : t[n] = s[n]
    BY AppendProperties, LenProperties
  <1>2. \A n \in 1..Len(s)+1 : n \in 1..Len(s) \/ n = Len(s) + 1
    BY <1>1
  <1>3. \A n \in 1..Len(s) : n \in 1..Len(s)+1
    BY <1>1
  <1>4. Len(s) + 1 \in 1..Len(s)+1
    BY <1>1
  <1> HIDE DEF t
  <1>5. Has(t, x) <=> Has(s, x) \/ x = e
    BY <1>1, <1>2, <1>3, <1>4 DEF Has
  <1>6. Once(s, x) /\ (x = e => ~Has(s, x)) => Once(t, x)
    BY <1>1, <1>2 DEF Has, Once
  <1> QED
    BY <1>5, <1>6 DEF t

(* The rows of a sequence of batches.                                       *)
HasRow(s, row) == \E n \in DOMAIN s : row \in s[n].rows
OnceRow(s, row) == \A m, n \in DOMAIN s : row \in s[m].rows /\ row \in s[n].rows => m = n

(* The same for the rows of a queued batch that leaves,                     *)
LEMMA TailHasRow ==
    ASSUME NEW S, NEW s \in Seq(S), s # <<>>, NEW row, OnceRow(s, row)
    PROVE  /\ HasRow(Tail(s), row) <=> HasRow(s, row) /\ row \notin Head(s).rows
           /\ OnceRow(Tail(s), row)
           /\ row \in Head(s).rows => HasRow(s, row)
  <1>1. /\ Len(s) \in Nat /\ Len(s) >= 1 /\ DOMAIN s = 1..Len(s) /\ Head(s) = s[1]
        /\ DOMAIN Tail(s) = 1..Len(s)-1
        /\ \A n \in 1..Len(s)-1 : Tail(s)[n] = s[n + 1]
    BY HeadTailProperties, LenProperties, EmptySeq
  <1>2. \A n \in 1..Len(s) : n # 1 => n - 1 \in 1..Len(s)-1 /\ s[n] = Tail(s)[n - 1]
    BY <1>1
  <1>3. \A n \in 1..Len(s)-1 : n + 1 \in 1..Len(s) /\ n + 1 # 1
    BY <1>1
  <1>4. 1 \in DOMAIN s
    BY <1>1
  <1>5. OnceRow(Tail(s), row)
    <2> SUFFICES ASSUME NEW m \in DOMAIN Tail(s), NEW n \in DOMAIN Tail(s),
                        row \in Tail(s)[m].rows, row \in Tail(s)[n].rows
                 PROVE  m = n
      BY DEF OnceRow
    <2>1. m + 1 = n + 1
      BY <1>1, <1>3 DEF OnceRow
    <2> QED
      BY <1>1, <2>1
  <1>6. HasRow(Tail(s), row) => HasRow(s, row) /\ row \notin Head(s).rows
    BY <1>1, <1>3, <1>4 DEF HasRow, OnceRow
  <1>7. HasRow(s, row) /\ row \notin Head(s).rows => HasRow(Tail(s), row)
    BY <1>1, <1>2 DEF HasRow
  <1> QED
    BY <1>1, <1>4, <1>5, <1>6, <1>7 DEF HasRow

(* and that enters.                                                         *)
LEMMA AppendHasRow ==
    ASSUME NEW S, NEW s \in Seq(S), NEW e \in S, NEW row
    PROVE  /\ HasRow(Append(s, e), row) <=> HasRow(s, row) \/ row \in e.rows
           /\ OnceRow(s, row) /\ (row \in e.rows => ~HasRow(s, row)) => OnceRow(Append(s, e), row)
  <1> DEFINE t == Append(s, e)
  <1>1. /\ Len(s) \in Nat /\ DOMAIN s = 1..Len(s) /\ DOMAIN t = 1..Len(s)+1
        /\ t[Len(s) + 1] = e /\ \A n \in 1..Len(s) : t[n] = s[n]
    BY AppendProperties, LenProperties
  <1>2. \A n \in 1..Len(s)+1 : n \in 1..Len(s) \/ n = Len(s) + 1
    BY <1>1
  <1>3. \A n \in 1..Len(s) : n \in 1..Len(s)+1
    BY <1>1
  <1>4. Len(s) + 1 \in 1..Len(s)+1
    BY <1>1
  <1> HIDE DEF t
  <1>5. HasRow(t, row) <=> HasRow(s, row) \/ row \in e.rows
    BY <1>1, <1>2, <1>3, <1>4 DEF HasRow
  <1>6. OnceRow(s, row) /\ (row \in e.rows => ~HasRow(s, row)) => OnceRow(t, row)
    BY <1>1, <1>2 DEF HasRow, OnceRow
  <1> QED
    BY <1>5, <1>6 DEF t

(* The stages, one by one.                                                  *)
LEMMA StagesAre ==
    /\ Stages = {"wire", "discarded", "reader", "channel", "worker", "pending", "queued",
                 "inserter", "inserted", "spooled", "orphaned", "lost"}
    /\ Nowhere \notin Stages
    /\ StageFate("wire") = "absent" /\ StageFate("discarded") = "absent"
    /\ StageFate("reader") = "absent" /\ StageFate("channel") = "held"
    /\ StageFate("worker") = "held" /\ StageFate("pending") = "held"
    /\ StageFate("queued") = "held" /\ StageFate("inserter") = "held"
    /\ StageFate(Nowhere) = "held"
  BY DEF Stages, Refusing, Holding, Failing, Nowhere, StageFate

-----------------------------------------------------------------------------
(* The receivers                                                            *)

(* What a receiver's step leaves alone.                                     *)
LEMMA ReaderFrame ==
    ASSUME UNCHANGED <<worker, insertBatches, inserter, inserted, spooled, orphaned, spoolLost>>,
           NEW row \in Rows
    PROVE  /\ \A c \in Stages \ {"wire", "discarded", "reader", "channel"} :
                 AtStage(row, c)' <=> AtStage(row, c)
           /\ OnceThere(row) =>
                 OneWorker(row)' /\ OnePending(row)' /\ OneQueued(row)' /\ OneInserter(row)'
  <1>1. \A w \in WorkerIds : WorkerHolds(w)' = WorkerHolds(w)
    BY DEF WorkerHolds, RowsOf
  <1>2. \A i \in InserterIds : InserterHolds(i)' = InserterHolds(i)
    BY DEF InserterHolds
  <1> QED
    BY <1>1, <1>2
       DEF Stages, Refusing, Holding, Failing, AtStage, OnceThere, OneWorker, OnePending,
           OneQueued, OneInserter, WorkerIds, InserterIds

(* The rows in a receiver's hands are those of its read batch.              *)
LEMMA ReaderHoldsHas ==
    \A r \in Receivers : \A p :
        (p \in ReaderHolds(r) <=> Has(reader[r].batch, p))
        /\ (p \in ReaderHolds(r)' <=> Has(reader'[r].batch, p))
  BY DEF ReaderHolds, Has

(* One receiver's batch changes.                                            *)
LEMMA ReaderChanges ==
    ASSUME NEW r \in Receivers, NEW b, reader'[r].batch = b,
           \A q \in Receivers \ {r} : reader'[q] = reader[q]
    PROVE  /\ \A p : p \in ReaderHolds(r)' <=> Has(b, p)
           /\ \A q \in Receivers \ {r} : \A p : p \in ReaderHolds(q)' <=> p \in ReaderHolds(q)
           /\ (\A q \in Receivers : BatchOnce(q)) /\ (\A p : Once(b, p)) =>
                 \A q \in Receivers : BatchOnce(q)'
  <1>1. /\ \A p : p \in ReaderHolds(r)' <=> Has(b, p)
        /\ \A q \in Receivers \ {r} : \A p : p \in ReaderHolds(q)' <=> p \in ReaderHolds(q)
    BY ReaderHoldsHas
  <1>2. ASSUME \A q \in Receivers : BatchOnce(q), \A p : Once(b, p), NEW q \in Receivers
        PROVE  BatchOnce(q)'
    <2>1. CASE q = r
      BY <1>2, <2>1 DEF BatchOnce, Once
    <2>2. CASE q # r
      BY <1>2, <2>2 DEF BatchOnce
    <2> QED
      BY <2>1, <2>2
  <1> QED
    BY <1>1, <1>2

(* A step that changes what no receiver holds, nor any row's stage.         *)
LEMMA ReaderStays ==
    ASSUME RowInv, NEW r \in Receivers, \A q \in Receivers \ {r} : reader'[q] = reader[q],
           \A p : Once(reader'[r].batch, p),
           \A row \in Rows : row[1] \in ReaderHolds(r)' <=> row[1] \in ReaderHolds(r),
           UNCHANGED <<wire, discarded, packetChannel, stored>>,
           UNCHANGED <<worker, insertBatches, inserter, inserted, spooled, orphaned, spoolLost>>
    PROVE  RowsMove
  <1>1. \A q \in Receivers, row \in Rows : row[1] \in ReaderHolds(q)' <=> row[1] \in ReaderHolds(q)
    BY ReaderChanges
  <1>2. ASSUME NEW row \in Rows, NEW c \in Stages
        PROVE  AtStage(row, c)' <=> AtStage(row, c)
    <2>1. CASE c \in {"wire", "discarded", "reader", "channel"}
      BY <1>1, <2>1 DEF AtStage, Receivers
    <2>2. CASE c \notin {"wire", "discarded", "reader", "channel"}
      BY <2>2, ReaderFrame
    <2> QED
      BY <2>1, <2>2
  <1>3. ASSUME NEW row \in Rows
        PROVE  OnceThere(row)'
    <2>1. OneWorker(row)' /\ OnePending(row)' /\ OneQueued(row)' /\ OneInserter(row)'
      BY ReaderFrame DEF RowInv
    <2>2. OneReader(row)' /\ OnePacket(row)'
      BY <1>1 DEF RowInv, OnceThere, OneReader, OnePacket, Receivers
    <2> QED
      BY <2>1, <2>2 DEF OnceThere
  <1>4. AllowedMove
    <2>1. Allowed({}, "wire", "wire") /\ Moves({}, "wire", "wire")
      BY <1>2, NothingMoves DEF Allowed
    <2> QED
      BY <2>1, StagesAre DEF AllowedMove
  <1>5. \A q \in Receivers : BatchOnce(q)'
    BY ReaderChanges DEF RowInv
  <1> QED
    BY <1>3, <1>4, <1>5 DEF RowsMove

(* A receiver's batch becomes b, and the rows of the datagrams it gains or  *)
(* loses move.                                                              *)
LEMMA ReadBatchMoves ==
    ASSUME TypeOK, Shape, RowInv, NEW r \in Receivers, ReadBatch(r)
    PROVE  RowsMove
  <1>1. reader \in [Receivers -> ReaderState] /\ reader[r].pc = "read" /\ reader[r].batch = <<>>
    BY DEF TypeOK, ReadBatch, Shape, ReaderShape
  <1>2. PICK n \in 1..UdpBatchSize : \E b \in [1..n -> wire] :
           /\ \A i, j \in 1..n : b[i] = b[j] => i = j
           /\ reader' = [reader EXCEPT ![r] = [pc |-> "loop", batch |-> b]]
           /\ wire' = wire \ {b[i] : i \in 1..n}
    BY DEF ReadBatch
  <1>3. PICK b \in [1..n -> wire] :
           /\ \A i, j \in 1..n : b[i] = b[j] => i = j
           /\ reader' = [reader EXCEPT ![r] = [pc |-> "loop", batch |-> b]]
           /\ wire' = wire \ {b[i] : i \in 1..n}
    BY <1>2
  <1>4. /\ UNCHANGED <<packetChannel, discarded, stored>>
        /\ UNCHANGED <<worker, insertBatches, inserter, inserted, spooled, orphaned, spoolLost>>
    BY DEF ReadBatch, readUnchanged, insertVars, spoolVars
  <1>5. reader'[r].batch = b /\ \A q \in Receivers \ {r} : reader'[q] = reader[q]
    BY <1>1, <1>3
  <1>6. /\ \A p : Once(b, p) /\ (Has(b, p) => p \in wire)
        /\ \A p : p \in wire' <=> p \in wire /\ ~Has(b, p)
    BY <1>3 DEF Once, Has
  <1>7. /\ \A p : p \in ReaderHolds(r)' <=> Has(b, p)
        /\ \A q \in Receivers \ {r} : \A p : p \in ReaderHolds(q)' <=> p \in ReaderHolds(q)
        /\ \A p : p \notin ReaderHolds(r)
    BY <1>1, <1>5, ReaderChanges DEF ReaderHolds
  <1> DEFINE S == {row \in Rows : Has(b, row[1])}
  <1>8. Moves(S, "wire", "reader")
    <2>1. \A row \in Rows : AtStage(row, "wire") <=> row[1] \in wire
      BY DEF AtStage
    <2>2. \A row \in Rows : AtStage(row, "wire")' <=> row[1] \in wire'
      BY DEF AtStage
    <2>3. \A row \in Rows : AtStage(row, "reader")' <=> AtStage(row, "reader") \/ row \in S
      BY <1>7 DEF AtStage, Receivers
    <2>4. \A row \in Rows, c \in Stages \ {"wire", "reader"} :
             AtStage(row, c)' <=> AtStage(row, c)
      <3> SUFFICES ASSUME NEW row \in Rows, NEW c \in Stages \ {"wire", "reader"}
                   PROVE  AtStage(row, c)' <=> AtStage(row, c)
        OBVIOUS
      <3>1. CASE c \in {"discarded", "channel"}
        BY <1>4, <3>1 DEF AtStage
      <3>2. CASE c \notin {"discarded", "channel"}
        BY <1>4, <3>2, ReaderFrame
      <3> QED
        BY <3>1, <3>2
    <2>5. \A row \in Rows : OneStage(row)
      BY DEF RowInv
    <2> QED
      BY <1>6, <2>1, <2>2, <2>3, <2>4, <2>5, StagesAre, MovesBetween
  <1>9. ASSUME NEW row \in Rows
        PROVE  OnceThere(row)'
    <2>1. OneWorker(row)' /\ OnePending(row)' /\ OneQueued(row)' /\ OneInserter(row)'
      BY <1>4, ReaderFrame DEF RowInv
    <2>2. OnePacket(row)'
      BY <1>4 DEF RowInv, OnceThere, OnePacket
    <2>3. row \in S => \A q \in Receivers : row[1] \notin ReaderHolds(q)
      <3>1. row \in S => AtStage(row, "wire")
        BY <1>6 DEF AtStage
      <3>2. row \in S => ~AtStage(row, "reader")
        BY <3>1, StagesAre DEF RowInv, OneStage
      <3> QED
        BY <3>2 DEF AtStage
    <2>4. OneReader(row)
      BY DEF RowInv, OnceThere
    <2>5. OneReader(row)'
      BY <1>7, <2>3, <2>4 DEF OneReader, Receivers
    <2> QED
      BY <2>1, <2>2, <2>5 DEF OnceThere
  <1>10. AllowedMove
    <2>1. Allowed(S, "wire", "reader")
      BY <1>4, StagesAre DEF Allowed
    <2> QED
      BY <1>8, <2>1, StagesAre DEF AllowedMove
  <1>11. \A q \in Receivers : BatchOnce(q)'
    BY <1>5, <1>6, ReaderChanges DEF RowInv
  <1> QED
    BY <1>9, <1>10, <1>11 DEF RowsMove

(* The head of a receiver's batch is gone.                                  *)
LEMMA AdvanceHolds ==
    ASSUME TypeOK, RowInv, NEW r \in Receivers, reader[r].batch # <<>>,
           reader' = [reader EXCEPT ![r] = Advance(r)]
    PROVE  /\ \A q \in Receivers \ {r} : reader'[q] = reader[q]
           /\ \A p : Once(reader'[r].batch, p)
           /\ \A p : p \in ReaderHolds(r)' <=> p \in ReaderHolds(r) /\ p # Head(reader[r].batch)
           /\ Head(reader[r].batch) \in ReaderHolds(r) /\ Head(reader[r].batch) \in Packets
  <1> DEFINE b == reader[r].batch
  <1>1. reader \in [Receivers -> ReaderState] /\ b \in Seq(Packets)
    BY DEF TypeOK, ReaderState
  <1>2. \A p : Once(b, p)
    BY DEF RowInv, BatchOnce, Once
  <1>3. reader'[r].batch = Tail(b) /\ \A q \in Receivers \ {r} : reader'[q] = reader[q]
    BY <1>1 DEF Advance
  <1>4. \A p : (Has(Tail(b), p) <=> Has(b, p) /\ p # Head(b)) /\ Once(Tail(b), p)
    BY <1>1, <1>2, TailHas
  <1>5. \A p : p \in ReaderHolds(r)' <=> Has(Tail(b), p)
    BY <1>3, ReaderChanges
  <1>6. \A p : p \in ReaderHolds(r) <=> Has(b, p)
    BY ReaderHoldsHas
  <1>7. Has(b, Head(b)) /\ Head(b) \in Packets
    <2>1. 1 \in DOMAIN b /\ Head(b) = b[1] /\ Head(b) \in Packets
      BY <1>1, HeadTailProperties, LenProperties, EmptySeq
    <2> QED
      BY <2>1 DEF Has
  <1> QED
    BY <1>3, <1>4, <1>5, <1>6, <1>7

(* An empty datagram has no row to move.                                    *)
LEMMA SkipEmptyMoves ==
    ASSUME TypeOK, Shape, RowInv, NEW r \in Receivers, SkipEmpty(r)
    PROVE  RowsMove
  <1>1. /\ reader[r].batch # <<>> /\ Head(reader[r].batch) \in EmptyDatagrams
        /\ reader' = [reader EXCEPT ![r] = Advance(r)]
        /\ UNCHANGED <<wire, discarded, packetChannel, stored>>
        /\ UNCHANGED <<worker, insertBatches, inserter, inserted, spooled, orphaned, spoolLost>>
    BY DEF SkipEmpty, Shape, ReaderShape, readUnchanged, insertVars, spoolVars
  <1>2. \A row \in Rows : row[1] # Head(reader[r].batch)
    BY <1>1, TrafficAssumption, RowParts
  <1> QED
    BY <1>1, <1>2, AdvanceHolds, ReaderStays

(* Counting a read batch, or leaving at the stop with none, moves no row.   *)
LEMMA ReaderWaitMoves ==
    ASSUME TypeOK, RowInv, NEW r \in Receivers, CountReceived(r) \/ LeaveAtStop(r)
    PROVE  RowsMove
  <1>1. PICK pc \in {"send", "exited"} : reader' = [reader EXCEPT ![r].pc = pc]
    BY DEF CountReceived, LeaveAtStop
  <1>2. reader \in [Receivers -> ReaderState]
    BY DEF TypeOK
  <1>3. reader'[r].batch = reader[r].batch /\ \A q \in Receivers \ {r} : reader'[q] = reader[q]
    BY <1>1, <1>2 DEF ReaderState
  <1>4. /\ UNCHANGED <<wire, discarded, packetChannel, stored>>
        /\ UNCHANGED <<worker, insertBatches, inserter, inserted, spooled, orphaned, spoolLost>>
    BY DEF CountReceived, LeaveAtStop, readUnchanged, insertVars, spoolVars
  <1>5. \A p : Once(reader[r].batch, p)
    BY DEF RowInv, BatchOnce, Once
  <1>6. ReaderHolds(r)' = ReaderHolds(r)
    BY <1>3 DEF ReaderHolds
  <1> QED
    BY <1>3, <1>4, <1>5, <1>6, ReaderStays

(* The rows of a sent datagram go from the receiver to the channel.         *)
LEMMA SendPacketMoves ==
    ASSUME TypeOK, Shape, RowInv, NEW r \in Receivers, SendPacket(r)
    PROVE  RowsMove
  <1> DEFINE p == Head(reader[r].batch)
             S == {row \in Rows : row[1] = p}
  <1>1. /\ reader[r].batch # <<>>
        /\ reader' = [reader EXCEPT ![r] = Advance(r)]
        /\ packetChannel' = Append(packetChannel, p)
        /\ UNCHANGED <<wire, discarded, stored>>
        /\ UNCHANGED <<worker, insertBatches, inserter, inserted, spooled, orphaned, spoolLost>>
    BY DEF SendPacket, Shape, ReaderShape, readUnchanged, insertVars, spoolVars
  <1>2. /\ \A q \in Receivers \ {r} : reader'[q] = reader[q]
        /\ \A x : Once(reader'[r].batch, x)
        /\ \A x : x \in ReaderHolds(r)' <=> x \in ReaderHolds(r) /\ x # p
        /\ p \in ReaderHolds(r) /\ p \in Packets
    BY <1>1, AdvanceHolds
  <1>3. \A q \in Receivers \ {r} : \A x : x \in ReaderHolds(q)' <=> x \in ReaderHolds(q)
    BY <1>2, ReaderChanges
  <1>4. packetChannel \in Seq(Packets)
    BY DEF TypeOK
  <1>5. \A x : Has(packetChannel', x) <=> Has(packetChannel, x) \/ x = p
    BY <1>1, <1>2, <1>4, AppendHas
  <1> HIDE DEF p
  <1>6. \A row \in Rows : (AtStage(row, "channel") <=> Has(packetChannel, row[1]))
                          /\ (AtStage(row, "channel")' <=> Has(packetChannel', row[1]))
    BY DEF AtStage, Has
  <1>7. \A row \in Rows : OneStage(row) /\ OnceThere(row)
    BY DEF RowInv
  <1>8. \A row \in S : AtStage(row, "reader")
    BY <1>2 DEF AtStage
  <1>9. \A row \in S : ~Has(packetChannel, row[1])
    BY <1>6, <1>7, <1>8, StagesAre DEF OneStage
  <1>10. Moves(S, "reader", "channel")
    <2>1. ASSUME NEW row \in Rows
          PROVE  AtStage(row, "reader")' <=> AtStage(row, "reader") /\ row \notin S
      <3>1. OneReader(row)
        BY <1>7 DEF OnceThere
      <3>2. row[1] = p => \A q \in Receivers \ {r} : row[1] \notin ReaderHolds(q)
        BY <1>2, <3>1 DEF OneReader
      <3> QED
        BY <1>2, <1>3, <3>2 DEF AtStage, Receivers
    <2>2. \A row \in Rows : AtStage(row, "channel")' <=> AtStage(row, "channel") \/ row \in S
      BY <1>5, <1>6
    <2>3. \A row \in Rows, c \in Stages \ {"reader", "channel"} :
             AtStage(row, c)' <=> AtStage(row, c)
      <3> SUFFICES ASSUME NEW row \in Rows, NEW c \in Stages \ {"reader", "channel"}
                   PROVE  AtStage(row, c)' <=> AtStage(row, c)
        OBVIOUS
      <3>1. CASE c \in {"wire", "discarded"}
        BY <1>1, <3>1 DEF AtStage
      <3>2. CASE c \notin {"wire", "discarded"}
        BY <1>1, <3>2, ReaderFrame
      <3> QED
        BY <3>1, <3>2
    <2> QED
      BY <1>7, <1>8, <2>1, <2>2, <2>3, StagesAre, MovesBetween
  <1>11. ASSUME NEW row \in Rows
         PROVE  OnceThere(row)'
    <2>1. OneWorker(row)' /\ OnePending(row)' /\ OneQueued(row)' /\ OneInserter(row)'
      BY <1>1, <1>7, ReaderFrame
    <2>2. OnePacket(row)'
      <3>1. Once(packetChannel, row[1])
        BY <1>7 DEF OnceThere, OnePacket, Once
      <3>2. Once(packetChannel', row[1])
        BY <1>1, <1>2, <1>4, <1>9, <3>1, AppendHas DEF p
      <3> QED
        BY <3>2 DEF OnePacket, Once
    <2>3. OneReader(row)'
      BY <1>2, <1>3, <1>7 DEF OnceThere, OneReader, Receivers
    <2> QED
      BY <2>1, <2>2, <2>3 DEF OnceThere
  <1>12. AllowedMove
    <2>1. Allowed(S, "reader", "channel")
      BY <1>1, StagesAre DEF Allowed
    <2> QED
      BY <1>10, <2>1, StagesAre DEF AllowedMove
  <1>13. \A q \in Receivers : BatchOnce(q)'
    BY <1>2, ReaderChanges DEF RowInv
  <1> QED
    BY <1>11, <1>12, <1>13 DEF RowsMove

(* At the stop those of the rest of a read batch are discarded.             *)
LEMMA DiscardMoves ==
    ASSUME TypeOK, Shape, RowInv, NEW r \in Receivers, DiscardAtStop(r)
    PROVE  RowsMove
  <1> DEFINE S == {row \in Rows : row[1] \in ReaderHolds(r)}
  <1>1. /\ reader' = [reader EXCEPT ![r] = [pc |-> "exited", batch |-> <<>>]]
        /\ discarded' = discarded \cup ReaderHolds(r)
        /\ UNCHANGED <<wire, packetChannel, stored>>
        /\ UNCHANGED <<worker, insertBatches, inserter, inserted, spooled, orphaned, spoolLost>>
    BY DEF DiscardAtStop, ReaderHolds, readUnchanged, insertVars, spoolVars
  <1>2. reader'[r].batch = <<>> /\ \A q \in Receivers \ {r} : reader'[q] = reader[q]
    BY <1>1 DEF TypeOK
  <1>3. \A x : Once(<<>>, x) /\ ~Has(<<>>, x)
    BY DEF Once, Has
  <1>4. /\ \A x : x \notin ReaderHolds(r)'
        /\ \A q \in Receivers \ {r} : \A x : x \in ReaderHolds(q)' <=> x \in ReaderHolds(q)
        /\ \A q \in Receivers : BatchOnce(q)'
    BY <1>2, <1>3, ReaderChanges DEF RowInv
  <1>5. \A row \in Rows : OneStage(row) /\ OnceThere(row)
    BY DEF RowInv
  <1>6. \A row \in S : AtStage(row, "reader")
    BY DEF AtStage
  <1>7. Moves(S, "reader", "discarded")
    <2>1. ASSUME NEW row \in Rows
          PROVE  AtStage(row, "reader")' <=> AtStage(row, "reader") /\ row \notin S
      <3>1. OneReader(row)
        BY <1>5 DEF OnceThere
      <3>2. row \in S => \A q \in Receivers \ {r} : row[1] \notin ReaderHolds(q)
        BY <3>1 DEF OneReader
      <3> QED
        BY <1>4, <3>2 DEF AtStage, Receivers
    <2>2. \A row \in Rows : AtStage(row, "discarded")' <=> AtStage(row, "discarded") \/ row \in S
      BY <1>1 DEF AtStage
    <2>3. \A row \in Rows, c \in Stages \ {"reader", "discarded"} :
             AtStage(row, c)' <=> AtStage(row, c)
      <3> SUFFICES ASSUME NEW row \in Rows, NEW c \in Stages \ {"reader", "discarded"}
                   PROVE  AtStage(row, c)' <=> AtStage(row, c)
        OBVIOUS
      <3>1. CASE c \in {"wire", "channel"}
        BY <1>1, <3>1 DEF AtStage
      <3>2. CASE c \notin {"wire", "channel"}
        BY <1>1, <3>2, ReaderFrame
      <3> QED
        BY <3>1, <3>2
    <2> QED
      BY <1>5, <1>6, <2>1, <2>2, <2>3, StagesAre, MovesBetween
  <1>8. ASSUME NEW row \in Rows
        PROVE  OnceThere(row)'
    <2>1. OneWorker(row)' /\ OnePending(row)' /\ OneQueued(row)' /\ OneInserter(row)'
      BY <1>1, <1>5, ReaderFrame
    <2>2. OnePacket(row)'
      BY <1>1, <1>5 DEF OnceThere, OnePacket
    <2>3. OneReader(row)'
      BY <1>4, <1>5 DEF OnceThere, OneReader, Receivers
    <2> QED
      BY <2>1, <2>2, <2>3 DEF OnceThere
  <1>9. AllowedMove
    <2>1. Allowed(S, "reader", "discarded")
      BY <1>1, StagesAre DEF Allowed
    <2> QED
      BY <1>7, <2>1, StagesAre DEF AllowedMove
  <1> QED
    BY <1>4, <1>8, <1>9 DEF RowsMove

(* Every step of a receiver moves rows between two stages.                  *)
LEMMA ReaderMovesRows ==
    ASSUME TypeOK, Shape, RowInv, NEW r \in Receivers, ReadBatch(r) \/ TransientErrorAtStop(r) \/ ReaderStep(r)
    PROVE  RowsMove
  BY ReadBatchMoves, SkipEmptyMoves, ReaderWaitMoves, SendPacketMoves, DiscardMoves
     DEF ReaderStep, ReadErrorAtStop, TransientErrorAtStop

-----------------------------------------------------------------------------
(* The packet workers                                                       *)

LEMMA WorkerFrame ==
    ASSUME UNCHANGED <<wire, discarded, reader, inserter, inserted>>, RowInv
    PROVE  /\ \A row \in Rows, c \in {"wire", "discarded", "reader", "inserter", "inserted"} :
                 AtStage(row, c)' <=> AtStage(row, c)
           /\ \A row \in Rows : OneReader(row)' /\ OneInserter(row)'
           /\ \A r \in Receivers : BatchOnce(r)'
  <1>1. \A i \in InserterIds : InserterHolds(i)' = InserterHolds(i)
    BY DEF InserterHolds
  <1>2. \A r \in Receivers : ReaderHolds(r)' = ReaderHolds(r)
    BY DEF ReaderHolds
  <1>3. \A row \in Rows : OneReader(row)' /\ OneInserter(row)'
    BY <1>1, <1>2 DEF RowInv, OnceThere, OneReader, OneInserter, Receivers, InserterIds
  <1>4. \A r \in Receivers : BatchOnce(r)'
    BY DEF RowInv, BatchOnce
  <1>5. \A row \in Rows, c \in {"wire", "discarded", "reader", "inserter", "inserted"} :
           AtStage(row, c)' <=> AtStage(row, c)
    BY <1>1, <1>2 DEF AtStage, Receivers, InserterIds
  <1> QED
    BY <1>3, <1>4, <1>5

(* The spool's outcomes leave everything but its fates alone.               *)
LEMMA SpoolFrame ==
    ASSUME UNCHANGED <<spooled, orphaned, spoolLost>>
    PROVE  \A row \in Rows, c \in Failing : AtStage(row, c)' <=> AtStage(row, c)
  BY DEF AtStage, Failing

(* The stages that are channels depend on the channels only.                *)
LEMMA StageOfSequences ==
    ASSUME NEW row \in Rows
    PROVE  /\ AtStage(row, "channel") <=> Has(packetChannel, row[1])
           /\ AtStage(row, "channel")' <=> Has(packetChannel', row[1])
           /\ AtStage(row, "queued") <=> HasRow(insertBatches, row)
           /\ AtStage(row, "queued")' <=> HasRow(insertBatches', row)
           /\ OnePacket(row) <=> Once(packetChannel, row[1])
           /\ OnePacket(row)' <=> Once(packetChannel', row[1])
           /\ OneQueued(row) <=> OnceRow(insertBatches, row)
           /\ OneQueued(row)' <=> OnceRow(insertBatches', row)
  BY DEF AtStage, Has, HasRow, OnePacket, Once, OneQueued, OnceRow

(* What the workers hold, as it was and as it is.                           *)
LEMMA StageOfWorkers ==
    ASSUME NEW row \in Rows
    PROVE  /\ AtStage(row, "worker") <=> \E v \in WorkerIds : row \in WorkerHolds(v)
           /\ AtStage(row, "worker")' <=> \E v \in WorkerIds : row \in WorkerHolds(v)'
           /\ AtStage(row, "pending") <=>
                 \E v \in WorkerIds, t \in Tables : row \in worker[v].pending[t]
           /\ AtStage(row, "pending")' <=>
                 \E v \in WorkerIds, t \in Tables : row \in worker'[v].pending[t]
  BY DEF AtStage, WorkerIds

(* No worker takes or gives rows.                                           *)
LEMMA WorkersKeepRows ==
    ASSUME \A v \in WorkerIds : WorkerHolds(v)' = WorkerHolds(v), RowInv
    PROVE  \A row \in Rows : (AtStage(row, "worker")' <=> AtStage(row, "worker"))
                             /\ OneWorker(row)'
  BY StageOfWorkers DEF RowInv, OnceThere, OneWorker, WorkerIds

(* The pending rows of the other workers stay where they are.               *)
LEMMA WorkersKeepPending ==
    ASSUME \A v \in WorkerIds : worker'[v].pending = worker[v].pending, RowInv
    PROVE  \A row \in Rows : (AtStage(row, "pending")' <=> AtStage(row, "pending"))
                             /\ OnePending(row)'
  BY StageOfWorkers DEF RowInv, OnceThere, OnePending, WorkerIds

(* A step that leaves a worker's packet and batches alone moves none of its *)
(* rows.                                                                    *)
LEMMA SameWork ==
    ASSUME NEW v \in WorkerIds, worker'[v].pkt = worker[v].pkt, worker'[v].k = worker[v].k
    PROVE  WorkerHolds(v)' = WorkerHolds(v)
  BY DEF WorkerHolds, RowsOf

(* A step of a worker that moves no row.                                    *)
LEMMA WorkerStays ==
    ASSUME RowInv, UNCHANGED <<wire, discarded, reader, inserter, inserted, insertBatches>>,
           UNCHANGED <<stored, spooled, orphaned, spoolLost>>,
           \A row \in Rows : (Has(packetChannel', row[1]) <=> Has(packetChannel, row[1]))
                             /\ Once(packetChannel', row[1]),
           \A v \in WorkerIds : WorkerHolds(v)' = WorkerHolds(v)
                                /\ worker'[v].pending = worker[v].pending
    PROVE  RowsMove
  <1>1. ASSUME NEW row \in Rows
        PROVE  OnceThere(row)'
    <2>1. OneQueued(row)' /\ OnePacket(row)'
      BY StageOfSequences DEF RowInv, OnceThere
    <2> QED
      BY <2>1, WorkerFrame, WorkersKeepRows, WorkersKeepPending DEF OnceThere
  <1>2. ASSUME NEW row \in Rows, NEW c \in Stages
        PROVE  AtStage(row, c)' <=> AtStage(row, c)
    <2>1. CASE c \in {"channel", "queued"}
      BY <2>1, StageOfSequences
    <2>2. CASE c = "worker"
      BY <2>2, WorkersKeepRows
    <2>3. CASE c = "pending"
      BY <2>3, WorkersKeepPending
    <2>4. CASE c \in Failing
      BY <2>4, SpoolFrame
    <2>5. CASE c \in {"wire", "discarded", "reader", "inserter", "inserted"}
      BY <2>5, WorkerFrame
    <2> QED
      BY <2>1, <2>2, <2>3, <2>4, <2>5, StagesAre DEF Failing
  <1>3. AllowedMove
    <2>1. Allowed({}, "wire", "wire") /\ Moves({}, "wire", "wire")
      BY <1>2, NothingMoves DEF Allowed
    <2> QED
      BY <2>1, StagesAre DEF AllowedMove
  <1> QED
    BY <1>1, <1>3, WorkerFrame DEF RowsMove

(* Flushing changes where a worker stands, and no row.                      *)
LEMMA WorkerWaitMoves ==
    ASSUME TypeOK, RowInv, NEW w \in WorkerIds,
           FlushAll(w) \/ SweepTable(w) \/ WorkerReturn(w) \/ AdmitBatch(w) \/ RefuseBatch(w)
    PROVE  RowsMove
  <1>1. worker \in [WorkerIds -> WorkerState]
    BY DEF TypeOK
  <1>2. \A v \in WorkerIds : /\ worker'[v].pkt = worker[v].pkt /\ worker'[v].k = worker[v].k
                             /\ worker'[v].pending = worker[v].pending
    <2>1. CASE FlushAll(w)
      BY <1>1, <2>1 DEF FlushAll, WorkerState
    <2>2. CASE SweepTable(w)
      <3>1. PICK t : worker' = [worker EXCEPT ![w] = Sweeping(w, t)]
        BY <2>2 DEF SweepTable
      <3>2. /\ Sweeping(w, t).pkt = worker[w].pkt /\ Sweeping(w, t).k = worker[w].k
            /\ Sweeping(w, t).pending = worker[w].pending
        BY <1>1 DEF Sweeping, WorkerState
      <3> QED
        BY <1>1, <3>1, <3>2
    <2>3. CASE WorkerReturn(w) \/ AdmitBatch(w) \/ RefuseBatch(w)
      <3>1. PICK pc : worker' = [worker EXCEPT ![w].pc = pc]
        BY <2>3 DEF WorkerReturn, AdmitBatch, RefuseBatch
      <3> QED
        BY <1>1, <3>1 DEF WorkerState
    <2> QED
      BY <2>1, <2>2, <2>3
  <1>3. \A v \in WorkerIds : WorkerHolds(v)' = WorkerHolds(v)
    BY <1>2, SameWork
  <1>4. /\ UNCHANGED <<wire, discarded, reader, inserter, inserted, insertBatches>>
        /\ UNCHANGED <<stored, spooled, orphaned, spoolLost, packetChannel>>
    BY DEF FlushAll, SweepTable, WorkerReturn, AdmitBatch, RefuseBatch, takeUnchanged,
           flushUnchanged, inputVars, insertVars, spoolVars
  <1>5. \A row \in Rows : Once(packetChannel, row[1])
    BY StageOfSequences DEF RowInv, OnceThere
  <1> QED
    BY <1>2, <1>3, <1>4, <1>5, WorkerStays

(* A finished packet has no row left to append.                             *)
LEMMA FinishPacketMoves ==
    ASSUME TypeOK, Shape, RowInv, NEW w \in WorkerIds, FinishPacket(w)
    PROVE  RowsMove
  <1>1. worker \in [WorkerIds -> WorkerState]
    BY DEF TypeOK
  <1>2. /\ worker'[w].pkt = NoPacket /\ worker'[w].pending = worker[w].pending
        /\ \A v \in WorkerIds \ {w} : worker'[v] = worker[v]
    BY <1>1 DEF FinishPacket, WorkerState
  <1>3. WorkerHolds(w)' = {}
    BY <1>2 DEF WorkerHolds
  <1>4. WorkerHolds(w) = {}
    <2> SUFFICES ASSUME worker[w].pkt # NoPacket, NEW row \in RowsOf(worker[w].pkt),
                        row[2] >= worker[w].k
                 PROVE  FALSE
      BY DEF WorkerHolds
    <2>1. worker[w].pkt \in Packets /\ worker[w].k \in Nat
      BY <1>1 DEF WorkerState
    <2>2. row[2] \in 1..Len(Records[worker[w].pkt]) /\ Len(Records[worker[w].pkt]) \in Nat
      BY <2>1, TrafficAssumption DEF RowsOf
    <2> QED
      BY <2>1, <2>2 DEF FinishPacket
  <1>5. \A v \in WorkerIds : /\ WorkerHolds(v)' = WorkerHolds(v)
                             /\ worker'[v].pending = worker[v].pending
    BY <1>2, <1>3, <1>4, SameWork
  <1>6. /\ UNCHANGED <<wire, discarded, reader, inserter, inserted, insertBatches>>
        /\ UNCHANGED <<stored, spooled, orphaned, spoolLost, packetChannel>>
    BY DEF FinishPacket, takeUnchanged, inputVars, insertVars, spoolVars
  <1>7. \A row \in Rows : Once(packetChannel, row[1])
    BY StageOfSequences DEF RowInv, OnceThere
  <1> QED
    BY <1>5, <1>6, <1>7, WorkerStays

(* A packet is taken from the channel.                                      *)
LEMMA HeadTaken ==
    ASSUME TypeOK, RowInv, packetChannel # <<>>, packetChannel' = Tail(packetChannel),
           NEW row \in Rows
    PROVE  /\ Has(packetChannel', row[1]) <=>
                 Has(packetChannel, row[1]) /\ row[1] # Head(packetChannel)
           /\ Once(packetChannel', row[1])
           /\ Has(packetChannel, Head(packetChannel)) /\ Head(packetChannel) \in Packets
  <1>1. packetChannel \in Seq(Packets)
    BY DEF TypeOK
  <1>2. Once(packetChannel, row[1])
    BY StageOfSequences DEF RowInv, OnceThere
  <1>3. 1 \in DOMAIN packetChannel /\ Head(packetChannel) = packetChannel[1]
        /\ Head(packetChannel) \in Packets
    BY <1>1, HeadTailProperties, LenProperties, EmptySeq
  <1> QED
    BY <1>1, <1>2, <1>3, TailHas DEF Has

(* A packet that cannot be parsed has no rows.                              *)
LEMMA RejectMoves ==
    ASSUME TypeOK, RowInv, NEW w \in WorkerIds, RejectPacket(w)
    PROVE  RowsMove
  <1>1. /\ packetChannel # <<>> /\ packetChannel' = Tail(packetChannel)
        /\ Records[Head(packetChannel)] = <<>> /\ UNCHANGED worker
        /\ UNCHANGED <<wire, discarded, reader, inserter, inserted, insertBatches>>
        /\ UNCHANGED <<stored, spooled, orphaned, spoolLost>>
    BY DEF RejectPacket, takeUnchanged, inputVars, insertVars, spoolVars
  <1>2. \A row \in Rows : row[1] # Head(packetChannel)
    BY <1>1, RowParts
  <1>3. \A row \in Rows : /\ Has(packetChannel', row[1]) <=> Has(packetChannel, row[1])
                          /\ Once(packetChannel', row[1])
    BY <1>1, <1>2, HeadTaken
  <1>4. \A v \in WorkerIds : WorkerHolds(v)' = WorkerHolds(v)
    BY <1>1, SameWork
  <1> QED
    BY <1>1, <1>3, <1>4, WorkerStays

(* Under PARSE_ONLY the rows of a counted packet leave the pipeline.        *)
LEMMA CountOnlyMoves ==
    ASSUME TypeOK, RowInv, NEW w \in WorkerIds, CountPacketOnly(w)
    PROVE  RowsMove
  <1> DEFINE p == Head(packetChannel)
             S == {row \in Rows : row[1] = p}
  <1>1. /\ packetChannel # <<>> /\ packetChannel' = Tail(packetChannel) /\ UNCHANGED worker
        /\ UNCHANGED <<wire, discarded, reader, inserter, inserted, insertBatches>>
        /\ UNCHANGED <<stored, spooled, orphaned, spoolLost>>
    BY DEF CountPacketOnly, takeUnchanged, inputVars, insertVars, spoolVars
  <1>2. \A row \in Rows : /\ Has(packetChannel', row[1]) <=> Has(packetChannel, row[1]) /\ row[1] # p
                          /\ Once(packetChannel', row[1]) /\ Has(packetChannel, p)
    BY <1>1, HeadTaken
  <1> HIDE DEF p
  <1>3. \A v \in WorkerIds : /\ WorkerHolds(v)' = WorkerHolds(v)
                             /\ worker'[v].pending = worker[v].pending
    BY <1>1, SameWork
  <1>4. \A row \in Rows, c \in Stages \ {"channel"} : AtStage(row, c)' <=> AtStage(row, c)
    <2> SUFFICES ASSUME NEW row \in Rows, NEW c \in Stages \ {"channel"}
                 PROVE  AtStage(row, c)' <=> AtStage(row, c)
      OBVIOUS
    <2>1. CASE c = "queued"
      BY <1>1, <2>1, StageOfSequences
    <2>2. CASE c \in {"worker", "pending"}
      BY <1>3, <2>2, WorkersKeepRows, WorkersKeepPending
    <2>3. CASE c \in Failing
      BY <1>1, <2>3, SpoolFrame
    <2>4. CASE c \in {"wire", "discarded", "reader", "inserter", "inserted"}
      BY <1>1, <2>4, WorkerFrame
    <2> QED
      BY <2>1, <2>2, <2>3, <2>4, StagesAre DEF Failing
  <1>5. Moves(S, "channel", Nowhere)
    <2>1. \A row \in Rows : AtStage(row, "channel")' <=> AtStage(row, "channel") /\ row \notin S
      BY <1>2, StageOfSequences
    <2>2. \A row \in S : AtStage(row, "channel")
      BY <1>2, StageOfSequences
    <2>3. \A row \in Rows : OneStage(row)
      BY DEF RowInv
    <2>4. \A row \in Rows, c \in Stages \ {"channel", Nowhere} : AtStage(row, c)' <=> AtStage(row, c)
      BY <1>4
    <2>5. "channel" \in Stages /\ Nowhere \in Stages \cup {Nowhere} /\ Nowhere \notin Stages
          /\ Nowhere # "channel"
      BY StagesAre
    <2> QED
      BY <2>1, <2>2, <2>3, <2>4, <2>5, MovesBetween
  <1>6. ASSUME NEW row \in Rows
        PROVE  OnceThere(row)'
    <2>1. OneQueued(row)' /\ OnePacket(row)'
      BY <1>1, <1>2, StageOfSequences DEF RowInv, OnceThere
    <2> QED
      BY <1>1, <1>3, <2>1, WorkerFrame, WorkersKeepRows, WorkersKeepPending DEF OnceThere
  <1>7. AllowedMove
    <2>1. Allowed(S, "channel", Nowhere)
      BY <1>1, StagesAre DEF Allowed
    <2> QED
      BY <1>5, <2>1, StagesAre DEF AllowedMove
  <1> QED
    BY <1>1, <1>6, <1>7, WorkerFrame DEF RowsMove

(* The rows of a packet go from the channel to the worker.                  *)
LEMMA TakePacketMoves ==
    ASSUME TypeOK, Shape, RowInv, NEW w \in WorkerIds, TakePacket(w)
    PROVE  RowsMove
  <1> DEFINE p == Head(packetChannel)
             S == {row \in Rows : row[1] = p}
  <1>1. /\ packetChannel # <<>> /\ packetChannel' = Tail(packetChannel)
        /\ UNCHANGED <<wire, discarded, reader, inserter, inserted, insertBatches>>
        /\ UNCHANGED <<stored, spooled, orphaned, spoolLost>>
        /\ worker' = [worker EXCEPT ![w] = [@ EXCEPT !.pc = "append", !.pkt = p]]
        /\ worker[w].pc = "select"
    BY DEF TakePacket, takeUnchanged, inputVars, insertVars, spoolVars
  <1>2. \A row \in Rows : /\ Has(packetChannel', row[1]) <=> Has(packetChannel, row[1]) /\ row[1] # p
                          /\ Once(packetChannel', row[1]) /\ Has(packetChannel, p)
    BY <1>1, HeadTaken
  <1>3. p \in Packets
    <2>1. packetChannel \in Seq(Packets)
      BY DEF TypeOK
    <2> QED
      BY <1>1, <2>1, HeadTailProperties
  <1>4. /\ worker \in [WorkerIds -> WorkerState] /\ worker[w].pkt = NoPacket /\ worker[w].k = 1
    BY <1>1 DEF TypeOK, Shape, WorkerShape
  <1> HIDE DEF p
  <1>5. /\ worker'[w].pkt = p /\ worker'[w].k = 1
        /\ \A v \in WorkerIds \ {w} : worker'[v] = worker[v]
        /\ \A v \in WorkerIds : worker'[v].pending = worker[v].pending
    BY <1>1, <1>4 DEF WorkerState
  <1>6. WorkerHolds(w) = {} /\ \A row \in Rows : row \in WorkerHolds(w)' <=> row \in S
    <2>1. WorkerHolds(w) = {}
      BY <1>4 DEF WorkerHolds
    <2>2. p # NoPacket
      BY <1>3, TrafficAssumption
    <2>3. ASSUME NEW row \in Rows
          PROVE  row \in WorkerHolds(w)' <=> row \in S
      <3>1. row[2] >= 1 /\ row \in RowsOf(row[1])
        <4>1. Len(Records[row[1]]) \in Nat
          BY RowParts, TrafficAssumption
        <4> QED
          BY <4>1, RowParts
      <3>2. row \in WorkerHolds(w)' <=> row \in RowsOf(p) /\ row[2] >= 1
        BY <1>5, <2>2 DEF WorkerHolds, RowsOf
      <3>3. row \in RowsOf(p) => row[1] = p
        BY DEF RowsOf
      <3> QED
        BY <3>1, <3>2, <3>3
    <2> QED
      BY <2>1, <2>3
  <1>7. \A v \in WorkerIds \ {w} : WorkerHolds(v)' = WorkerHolds(v)
    BY <1>5, SameWork
  <1>8. \A row \in Rows : OneStage(row) /\ OnceThere(row)
    BY DEF RowInv
  <1>9. \A row \in S : AtStage(row, "channel") /\ ~AtStage(row, "worker")
    BY <1>2, <1>8, StagesAre, StageOfSequences DEF OneStage
  <1>10. \A row \in Rows, c \in Stages \ {"channel", "worker"} : AtStage(row, c)' <=> AtStage(row, c)
    <2> SUFFICES ASSUME NEW row \in Rows, NEW c \in Stages \ {"channel", "worker"}
                 PROVE  AtStage(row, c)' <=> AtStage(row, c)
      OBVIOUS
    <2>1. CASE c = "queued"
      BY <1>1, <2>1, StageOfSequences
    <2>2. CASE c = "pending"
      BY <1>5, <2>2, WorkersKeepPending
    <2>3. CASE c \in Failing
      BY <1>1, <2>3, SpoolFrame
    <2>4. CASE c \in {"wire", "discarded", "reader", "inserter", "inserted"}
      BY <1>1, <2>4, WorkerFrame
    <2> QED
      BY <2>1, <2>2, <2>3, <2>4, StagesAre DEF Failing
  <1>11. Moves(S, "channel", "worker")
    <2>1. \A row \in Rows : AtStage(row, "channel")' <=> AtStage(row, "channel") /\ row \notin S
      BY <1>2, StageOfSequences
    <2>2. \A row \in Rows : AtStage(row, "worker")' <=> AtStage(row, "worker") \/ row \in S
      BY <1>6, <1>7, StageOfWorkers
    <2> QED
      BY <1>8, <1>9, <1>10, <2>1, <2>2, StagesAre, MovesBetween
  <1>12. ASSUME NEW row \in Rows
         PROVE  OnceThere(row)'
    <2>1. OneQueued(row)' /\ OnePacket(row)'
      BY <1>1, <1>2, <1>8, StageOfSequences DEF OnceThere
    <2>2. OneWorker(row)
      BY <1>8 DEF OnceThere
    <2>3. row \in S => \A v \in WorkerIds : row \notin WorkerHolds(v)
      BY <1>9, StageOfWorkers
    <2>4. OneWorker(row)'
      BY <1>6, <1>7, <2>2, <2>3 DEF OneWorker, WorkerIds
    <2>5. OnePending(row)'
      BY <1>5, WorkersKeepPending
    <2> QED
      BY <1>1, <2>1, <2>4, <2>5, WorkerFrame DEF OnceThere
  <1>13. AllowedMove
    <2>1. Allowed(S, "channel", "worker")
      BY <1>1, StagesAre DEF Allowed
    <2> QED
      BY <1>11, <2>1, StagesAre DEF AllowedMove
  <1> QED
    BY <1>1, <1>12, <1>13, WorkerFrame DEF RowsMove

(* A worker's pending batch becomes rows.                                   *)
LEMMA PendingChanges ==
    ASSUME TypeOK, NEW w \in WorkerIds, NEW t \in Tables, NEW rows,
           worker'[w].pending = [worker[w].pending EXCEPT ![t] = rows],
           \A v \in WorkerIds \ {w} : worker'[v] = worker[v]
    PROVE  /\ worker'[w].pending[t] = rows
           /\ \A v \in WorkerIds, s \in Tables :
                 v # w \/ s # t => worker'[v].pending[s] = worker[v].pending[s]
  <1>1. worker[w].pending \in [Tables -> SUBSET Rows]
    BY DEF TypeOK, WorkerState
  <1> QED
    BY <1>1

(* A parsed row goes from the packet to the pending batch of its table.     *)
LEMMA AppendEntryMoves ==
    ASSUME TypeOK, Shape, RowInv, NEW w \in WorkerIds, AppendEntry(w)
    PROVE  RowsMove
  <1> DEFINE e == <<worker[w].pkt, worker[w].k>>
             t == Records[worker[w].pkt][worker[w].k]
             S == {e}
  <1>1. /\ UNCHANGED <<wire, discarded, reader, inserter, inserted, insertBatches, packetChannel>>
        /\ UNCHANGED <<stored, spooled, orphaned, spoolLost>>
        /\ worker' = [worker EXCEPT ![w] = WithEntry(w)]
        /\ worker[w].pc = "append" /\ worker[w].k <= Len(Records[worker[w].pkt])
    BY DEF AppendEntry, takeUnchanged, inputVars, insertVars, spoolVars
  <1>2. /\ worker \in [WorkerIds -> WorkerState] /\ worker[w].pkt \in Packets
        /\ worker[w].pkt # NoPacket /\ worker[w].k \in Nat \ {0}
        /\ worker[w].pending \in [Tables -> SUBSET Rows]
    <2>1. worker \in [WorkerIds -> WorkerState] /\ worker[w].pkt # NoPacket
      BY <1>1 DEF TypeOK, Shape, WorkerShape
    <2> QED
      BY <2>1 DEF WorkerState
  <1>3. e \in Rows /\ t \in Tables
    BY <1>1, <1>2, RowOfPacket
  <1>4. /\ worker'[w].pkt = worker[w].pkt /\ worker'[w].k = worker[w].k + 1
        /\ worker'[w].pending = [worker[w].pending EXCEPT ![t] = worker[w].pending[t] \cup {e}]
        /\ \A v \in WorkerIds \ {w} : worker'[v] = worker[v]
    <2>1. /\ WithEntry(w).pkt = worker[w].pkt /\ WithEntry(w).k = worker[w].k + 1
          /\ WithEntry(w).pending = [worker[w].pending EXCEPT ![t] = worker[w].pending[t] \cup {e}]
      BY <1>2 DEF WithEntry, WorkerState
    <2> QED
      BY <1>1, <1>2, <2>1
  <1>5. \A row \in Rows : /\ row \in WorkerHolds(w)' <=> row \in WorkerHolds(w) /\ row # e
                          /\ e \in WorkerHolds(w)
    <2>1. ASSUME NEW row \in Rows
          PROVE  /\ row \in WorkerHolds(w) <=> row[1] = worker[w].pkt /\ row[2] >= worker[w].k
                 /\ row \in WorkerHolds(w)' <=> row[1] = worker[w].pkt /\ row[2] >= worker[w].k + 1
                 /\ row = e <=> row[1] = worker[w].pkt /\ row[2] = worker[w].k
                 /\ row[2] \in Nat
      <3>1. row \in RowsOf(row[1]) /\ row = <<row[1], row[2]>>
        BY RowParts
      <3>2. row \in RowsOf(worker[w].pkt) <=> row[1] = worker[w].pkt
        BY <3>1 DEF RowsOf
      <3>3. /\ row \in WorkerHolds(w) <=> row \in RowsOf(worker[w].pkt) /\ row[2] >= worker[w].k
            /\ row \in WorkerHolds(w)' <=>
                  row \in RowsOf(worker[w].pkt) /\ row[2] >= worker[w].k + 1
        BY <1>2, <1>4 DEF WorkerHolds, RowsOf
      <3>4. row = e <=> row[1] = worker[w].pkt /\ row[2] = worker[w].k
        BY <3>1
      <3>5. row[2] \in Nat
        <4>1. Len(Records[row[1]]) \in Nat /\ row[2] \in 1..Len(Records[row[1]])
          BY RowParts, TrafficAssumption
        <4> QED
          BY <4>1
      <3> QED
        BY <3>2, <3>3, <3>4, <3>5
    <2>2. e \in WorkerHolds(w)
      BY <1>2, <1>3, <2>1
    <2>3. ASSUME NEW row \in Rows
          PROVE  row \in WorkerHolds(w)' <=> row \in WorkerHolds(w) /\ row # e
      BY <1>2, <2>1
    <2> QED
      BY <2>2, <2>3
  <1>6. \A v \in WorkerIds \ {w} : WorkerHolds(v)' = WorkerHolds(v)
    BY <1>4, SameWork
  <1> HIDE DEF e, t
  <1>7. /\ worker'[w].pending[t] = worker[w].pending[t] \cup {e}
        /\ \A v \in WorkerIds, s \in Tables :
              v # w \/ s # t => worker'[v].pending[s] = worker[v].pending[s]
    <2> DEFINE rows == worker[w].pending[t] \cup {e}
    <2>1. worker'[w].pending = [worker[w].pending EXCEPT ![t] = rows]
      BY <1>4
    <2> HIDE DEF rows
    <2>2. /\ worker'[w].pending[t] = rows
          /\ \A v \in WorkerIds, s \in Tables :
                v # w \/ s # t => worker'[v].pending[s] = worker[v].pending[s]
      BY ONLY TypeOK, <1>3, <1>4, <2>1, w \in WorkerIds, PendingChanges
    <2> QED
      BY <2>2 DEF rows
  <1>8. \A row \in Rows : OneStage(row) /\ OnceThere(row)
    BY DEF RowInv
  <1>9. AtStage(e, "worker") /\ ~AtStage(e, "pending")
    BY <1>3, <1>5, <1>8, StagesAre, StageOfWorkers DEF OneStage
  <1>10. \A row \in Rows, c \in Stages \ {"worker", "pending"} : AtStage(row, c)' <=> AtStage(row, c)
    <2> SUFFICES ASSUME NEW row \in Rows, NEW c \in Stages \ {"worker", "pending"}
                 PROVE  AtStage(row, c)' <=> AtStage(row, c)
      OBVIOUS
    <2>1. CASE c \in {"channel", "queued"}
      BY <1>1, <2>1, StageOfSequences
    <2>3. CASE c \in Failing
      BY <1>1, <2>3, SpoolFrame
    <2>4. CASE c \in {"wire", "discarded", "reader", "inserter", "inserted"}
      BY <1>1, <2>4, WorkerFrame
    <2> QED
      BY <2>1, <2>3, <2>4, StagesAre DEF Failing
  <1>11. Moves(S, "worker", "pending")
    <2>1. ASSUME NEW row \in Rows
          PROVE  AtStage(row, "worker")' <=> AtStage(row, "worker") /\ row \notin S
      <3>1. OneWorker(row)
        BY <1>8 DEF OnceThere
      <3>2. row = e => \A v \in WorkerIds \ {w} : row \notin WorkerHolds(v)
        BY <1>5, <3>1 DEF OneWorker
      <3> QED
        BY <1>5, <1>6, <3>2, StageOfWorkers
    <2>2. \A row \in Rows : AtStage(row, "pending")' <=> AtStage(row, "pending") \/ row \in S
      BY <1>3, <1>7, StageOfWorkers
    <2> QED
      BY <1>3, <1>8, <1>9, <1>10, <2>1, <2>2, StagesAre, MovesBetween
  <1>12. ASSUME NEW row \in Rows
         PROVE  OnceThere(row)'
    <2>1. OneQueued(row)' /\ OnePacket(row)'
      BY <1>1, <1>8, StageOfSequences DEF OnceThere
    <2>2. OneWorker(row) /\ OnePending(row)
      BY <1>8 DEF OnceThere
    <2>3. OneWorker(row)'
      BY <1>5, <1>6, <2>2 DEF OneWorker, WorkerIds
    <2>4. row = e => \A v \in WorkerIds, s \in Tables : row \notin worker[v].pending[s]
      BY <1>9, StageOfWorkers
    <2>5. OnePending(row)'
      BY <1>7, <2>2, <2>4 DEF OnePending, WorkerIds
    <2> QED
      BY <1>1, <2>1, <2>3, <2>5, WorkerFrame DEF OnceThere
  <1>13. AllowedMove
    <2>1. Allowed(S, "worker", "pending") /\ S \in SUBSET Rows
      BY <1>1, <1>3, StagesAre DEF Allowed
    <2> QED
      BY <1>11, <2>1, StagesAre DEF AllowedMove
  <1> QED
    BY <1>1, <1>12, <1>13, WorkerFrame DEF RowsMove

(* A table's pending batch leaves its worker, which starts a fresh one.     *)
LEMMA PendingLeaves ==
    ASSUME TypeOK, RowInv, NEW w \in WorkerIds, NEW t \in Tables,
           worker' = [worker EXCEPT ![w] = Resume(w, t)]
    PROVE  /\ worker[w].pending[t] \in SUBSET Rows
           /\ \A v \in WorkerIds : WorkerHolds(v)' = WorkerHolds(v)
           /\ \A row \in worker[w].pending[t] : AtStage(row, "pending")
           /\ \A row \in Rows :
                 /\ AtStage(row, "pending")' <=>
                       AtStage(row, "pending") /\ row \notin worker[w].pending[t]
                 /\ OnePending(row)'
  <1>1. /\ worker \in [WorkerIds -> WorkerState]
        /\ worker[w].pending \in [Tables -> SUBSET Rows]
    BY DEF TypeOK, WorkerState
  <1>2. /\ Resume(w, t).pkt = worker[w].pkt /\ Resume(w, t).k = worker[w].k
        /\ Resume(w, t).pending = [worker[w].pending EXCEPT ![t] = {}]
    BY <1>1 DEF Resume, WorkerState
  <1>3. /\ worker'[w].pkt = worker[w].pkt /\ worker'[w].k = worker[w].k
        /\ worker'[w].pending = [worker[w].pending EXCEPT ![t] = {}]
        /\ \A v \in WorkerIds \ {w} : worker'[v] = worker[v]
    BY <1>1, <1>2
  <1>4. /\ worker'[w].pending[t] = {}
        /\ \A v \in WorkerIds, s \in Tables :
              v # w \/ s # t => worker'[v].pending[s] = worker[v].pending[s]
    <2> DEFINE none == {}
    <2>1. worker'[w].pending = [worker[w].pending EXCEPT ![t] = none]
      BY <1>3
    <2> HIDE DEF none
    <2>2. /\ worker'[w].pending[t] = none
          /\ \A v \in WorkerIds, s \in Tables :
                v # w \/ s # t => worker'[v].pending[s] = worker[v].pending[s]
      BY ONLY TypeOK, <1>3, <2>1, w \in WorkerIds, t \in Tables, PendingChanges
    <2> QED
      BY <2>2 DEF none
  <1>5. \A v \in WorkerIds : WorkerHolds(v)' = WorkerHolds(v)
    BY <1>3, SameWork
  <1>6. \A row \in worker[w].pending[t] : row \in Rows /\ AtStage(row, "pending")
    BY <1>1, StageOfWorkers
  <1>7. ASSUME NEW row \in Rows
        PROVE  /\ AtStage(row, "pending")' <=>
                     AtStage(row, "pending") /\ row \notin worker[w].pending[t]
               /\ OnePending(row)'
    <2>1. OnePending(row)
      BY DEF RowInv, OnceThere
    <2>2. OnePending(row)'
      BY <1>4, <2>1 DEF OnePending, WorkerIds
    <2>3. ASSUME AtStage(row, "pending")'
          PROVE  AtStage(row, "pending") /\ row \notin worker[w].pending[t]
      <3>1. PICK v \in WorkerIds : \E s \in Tables : row \in worker'[v].pending[s]
        BY <2>3, StageOfWorkers
      <3>2. PICK s \in Tables : row \in worker'[v].pending[s]
        BY <3>1
      <3>3. (v # w \/ s # t) /\ row \in worker[v].pending[s]
        BY <1>4, <3>2
      <3> QED
        BY <2>1, <3>3, StageOfWorkers DEF OnePending
    <2>4. ASSUME AtStage(row, "pending"), row \notin worker[w].pending[t]
          PROVE  AtStage(row, "pending")'
      <3>1. PICK v \in WorkerIds : \E s \in Tables : row \in worker[v].pending[s]
        BY <2>4, StageOfWorkers
      <3>2. PICK s \in Tables : row \in worker[v].pending[s]
        BY <3>1
      <3>3. row \in worker'[v].pending[s]
        BY <1>4, <2>4, <3>2
      <3> QED
        BY <3>3, StageOfWorkers
    <2> QED
      BY <2>2, <2>3, <2>4
  <1> QED
    BY <1>1, <1>5, <1>6, <1>7

(* The rows of a sent batch go from pending to the channel of batches.      *)
LEMMA SendBatchMoves ==
    ASSUME TypeOK, RowInv, NEW w \in WorkerIds, SendBatch(w)
    PROVE  RowsMove
  <1>1. PICK t \in worker[w].flush :
           /\ insertBatches' = Append(insertBatches, [table |-> t, rows |-> worker[w].pending[t]])
           /\ worker' = [worker EXCEPT ![w] = Resume(w, t)]
    BY DEF SendBatch
  <1>2. t \in Tables
    BY DEF TypeOK, WorkerState
  <1> DEFINE S == worker[w].pending[t]
             b == [table |-> t, rows |-> S]
  <1>3. /\ S \in SUBSET Rows
        /\ \A v \in WorkerIds : WorkerHolds(v)' = WorkerHolds(v)
        /\ \A row \in S : AtStage(row, "pending")
        /\ \A row \in Rows : /\ AtStage(row, "pending")' <=> AtStage(row, "pending") /\ row \notin S
                             /\ OnePending(row)'
    BY <1>1, <1>2, PendingLeaves
  <1>4. insertBatches' = Append(insertBatches, b) /\ b.rows = S
    BY <1>1
  <1>5. b \in Batch /\ insertBatches \in Seq(Batch)
    BY <1>2, <1>3 DEF Batch, TypeOK
  <1> HIDE DEF b, S
  <1>6. /\ UNCHANGED <<wire, discarded, reader, inserter, inserted, packetChannel>>
        /\ UNCHANGED <<stored, spooled, orphaned, spoolLost>>
    BY DEF SendBatch, flushUnchanged, inputVars, insertVars, spoolVars
  <1>7. \A row \in Rows : OneStage(row) /\ OnceThere(row)
    BY DEF RowInv
  <1>8. \A row \in Rows :
           /\ HasRow(insertBatches', row) <=> HasRow(insertBatches, row) \/ row \in S
           /\ OnceRow(insertBatches, row) /\ (row \in S => ~HasRow(insertBatches, row))
                 => OnceRow(insertBatches', row)
    BY <1>4, <1>5, AppendHasRow
  <1>9. \A row \in S : ~AtStage(row, "queued")
    BY <1>3, <1>7, StagesAre DEF OneStage
  <1>10. \A row \in Rows, c \in Stages \ {"pending", "queued"} : AtStage(row, c)' <=> AtStage(row, c)
    <2> SUFFICES ASSUME NEW row \in Rows, NEW c \in Stages \ {"pending", "queued"}
                 PROVE  AtStage(row, c)' <=> AtStage(row, c)
      OBVIOUS
    <2>1. CASE c = "channel"
      BY <1>6, <2>1, StageOfSequences
    <2>2. CASE c = "worker"
      BY <1>3, <2>2, WorkersKeepRows
    <2>3. CASE c \in Failing
      BY <1>6, <2>3, SpoolFrame
    <2>4. CASE c \in {"wire", "discarded", "reader", "inserter", "inserted"}
      BY <1>6, <2>4, WorkerFrame
    <2> QED
      BY <2>1, <2>2, <2>3, <2>4, StagesAre DEF Failing
  <1>11. Moves(S, "pending", "queued")
    <2>1. \A row \in Rows : AtStage(row, "queued")' <=> AtStage(row, "queued") \/ row \in S
      BY <1>8, StageOfSequences
    <2>2. "pending" \in Stages /\ "queued" \in Stages /\ "pending" # "queued"
      BY StagesAre
    <2>3. /\ \A row \in Rows : OneStage(row)
          /\ \A row \in Rows : AtStage(row, "pending")' <=> AtStage(row, "pending") /\ row \notin S
      BY <1>3, <1>7
    <2> QED
      BY <1>3, <1>10, <2>1, <2>2, <2>3, MovesBetween
  <1>12. ASSUME NEW row \in Rows
         PROVE  OnceThere(row)'
    <2>1. OneQueued(row)' /\ OnePacket(row)'
      BY <1>6, <1>7, <1>8, <1>9, StageOfSequences DEF OnceThere
    <2> QED
      BY <1>3, <1>6, <2>1, WorkerFrame, WorkersKeepRows DEF OnceThere
  <1>13. AllowedMove
    <2>1. Allowed(S, "pending", "queued")
      BY <1>6, StagesAre DEF Allowed
    <2> QED
      BY <1>3, <1>11, <2>1, StagesAre DEF AllowedMove
  <1> QED
    BY <1>6, <1>12, <1>13, WorkerFrame DEF RowsMove

(* spoolFailedInsertBatch settles the rows of the batch, one way or another. *)
LEMMA SpoolSettles ==
    ASSUME NEW S \in SUBSET Rows, Spool(S)
    PROVE  \E to \in Failing :
              /\ \A row \in Rows : AtStage(row, to)' <=> AtStage(row, to) \/ row \in S
              /\ \A row \in Rows, c \in Failing \ {to} : AtStage(row, c)' <=> AtStage(row, c)
  <1>1. CASE spooled' = spooled \cup S /\ UNCHANGED <<orphaned, spoolLost>>
    <2>1. /\ \A row \in Rows : AtStage(row, "spooled")' <=> AtStage(row, "spooled") \/ row \in S
          /\ \A row \in Rows, c \in Failing \ {"spooled"} : AtStage(row, c)' <=> AtStage(row, c)
      BY <1>1 DEF AtStage, Failing
    <2> QED
      BY <2>1 DEF Failing
  <1>2. CASE orphaned' = orphaned \cup S /\ UNCHANGED <<spooled, spoolLost>>
    <2>1. /\ \A row \in Rows : AtStage(row, "orphaned")' <=> AtStage(row, "orphaned") \/ row \in S
          /\ \A row \in Rows, c \in Failing \ {"orphaned"} : AtStage(row, c)' <=> AtStage(row, c)
      BY <1>2 DEF AtStage, Failing
    <2> QED
      BY <2>1 DEF Failing
  <1>3. CASE spoolLost' = spoolLost \cup S /\ UNCHANGED <<spooled, orphaned>>
    <2>1. /\ \A row \in Rows : AtStage(row, "lost")' <=> AtStage(row, "lost") \/ row \in S
          /\ \A row \in Rows, c \in Failing \ {"lost"} : AtStage(row, c)' <=> AtStage(row, c)
      BY <1>3 DEF AtStage, Failing
    <2> QED
      BY <2>1 DEF Failing
  <1> QED
    BY <1>1, <1>2, <1>3 DEF Spool

(* Those of a refused batch go from pending to a fate.                      *)
LEMMA SpoolRefusedMoves ==
    ASSUME TypeOK, RowInv, NEW w \in WorkerIds, SpoolRefused(w)
    PROVE  RowsMove
  <1>1. PICK t \in worker[w].flush : /\ Spool(worker[w].pending[t])
                                     /\ worker' = [worker EXCEPT ![w] = Resume(w, t)]
    BY DEF SpoolRefused
  <1>2. t \in Tables
    BY DEF TypeOK, WorkerState
  <1> DEFINE S == worker[w].pending[t]
  <1>3. /\ S \in SUBSET Rows
        /\ \A v \in WorkerIds : WorkerHolds(v)' = WorkerHolds(v)
        /\ \A row \in S : AtStage(row, "pending")
        /\ \A row \in Rows : /\ AtStage(row, "pending")' <=> AtStage(row, "pending") /\ row \notin S
                             /\ OnePending(row)'
    BY <1>1, <1>2, PendingLeaves
  <1>4. Spool(S)
    BY <1>1
  <1> HIDE DEF S
  <1>5. /\ UNCHANGED <<wire, discarded, reader, inserter, inserted, packetChannel>>
        /\ UNCHANGED <<stored, insertBatches>>
    BY DEF SpoolRefused, flushUnchanged, inputVars, insertVars
  <1>6. \A row \in Rows : OneStage(row) /\ OnceThere(row)
    BY DEF RowInv
  <1>7. PICK to \in Failing :
           /\ \A row \in Rows : AtStage(row, to)' <=> AtStage(row, to) \/ row \in S
           /\ \A row \in Rows, c \in Failing \ {to} : AtStage(row, c)' <=> AtStage(row, c)
    BY <1>3, <1>4, SpoolSettles
  <1>8. to \in Stages /\ "pending" \in Stages /\ to # "pending"
    BY StagesAre DEF Failing
  <1>9. \A row \in Rows, c \in Stages \ {"pending", to} : AtStage(row, c)' <=> AtStage(row, c)
    <2> SUFFICES ASSUME NEW row \in Rows, NEW c \in Stages \ {"pending", to}
                 PROVE  AtStage(row, c)' <=> AtStage(row, c)
      OBVIOUS
    <2>1. CASE c \in {"channel", "queued"}
      BY <1>5, <2>1, StageOfSequences
    <2>2. CASE c = "worker"
      BY <1>3, <2>2, WorkersKeepRows
    <2>3. CASE c \in Failing
      BY <1>7, <2>3
    <2>4. CASE c \in {"wire", "discarded", "reader", "inserter", "inserted"}
      BY <1>5, <2>4, WorkerFrame
    <2> QED
      BY <2>1, <2>2, <2>3, <2>4, StagesAre DEF Failing
  <1>10. Moves(S, "pending", to)
    <2>1. /\ \A row \in Rows : OneStage(row)
          /\ \A row \in Rows : AtStage(row, "pending")' <=> AtStage(row, "pending") /\ row \notin S
      BY <1>3, <1>6
    <2> QED
      BY <1>3, <1>7, <1>8, <1>9, <2>1, MovesBetween
  <1>11. ASSUME NEW row \in Rows
         PROVE  OnceThere(row)'
    <2>1. OneQueued(row)' /\ OnePacket(row)'
      BY <1>5, <1>6, StageOfSequences DEF OnceThere
    <2> QED
      BY <1>3, <1>5, <2>1, WorkerFrame, WorkersKeepRows DEF OnceThere
  <1>12. AllowedMove
    <2>1. Allowed(S, "pending", to)
      BY <1>5, StagesAre DEF Allowed
    <2> QED
      BY <1>3, <1>8, <1>10, <2>1 DEF AllowedMove
  <1> QED
    BY <1>5, <1>11, <1>12, WorkerFrame DEF RowsMove

(* Every step of a packet worker moves rows between two stages.             *)
LEMMA WorkerMovesRows ==
    ASSUME TypeOK, Shape, RowInv, NEW w \in WorkerIds, WorkerStep(w)
    PROVE  RowsMove
  BY RejectMoves, CountOnlyMoves, TakePacketMoves, AppendEntryMoves, FinishPacketMoves,
     WorkerWaitMoves, SendBatchMoves, SpoolRefusedMoves DEF WorkerStep

-----------------------------------------------------------------------------
(* The insert workers                                                       *)

LEMMA InserterFrame ==
    ASSUME RowInv, UNCHANGED <<wire, discarded, reader, packetChannel, worker>>
    PROVE  /\ \A row \in Rows, c \in {"wire", "discarded", "reader", "channel", "worker", "pending"} :
                 AtStage(row, c)' <=> AtStage(row, c)
           /\ \A row \in Rows : OneReader(row)' /\ OnePacket(row)' /\ OneWorker(row)'
                                /\ OnePending(row)'
           /\ \A r \in Receivers : BatchOnce(r)'
  <1>1. \A r \in Receivers : ReaderHolds(r)' = ReaderHolds(r)
    BY DEF ReaderHolds
  <1>2. \A w \in WorkerIds : WorkerHolds(w)' = WorkerHolds(w)
    BY DEF WorkerHolds, RowsOf
  <1>3. \A r \in Receivers : BatchOnce(r)'
    BY DEF RowInv, BatchOnce
  <1>4. \A row \in Rows : OneReader(row)' /\ OnePacket(row)' /\ OneWorker(row)' /\ OnePending(row)'
    BY <1>1, <1>2
       DEF RowInv, OnceThere, OneReader, OnePacket, OneWorker, OnePending, Receivers, WorkerIds
  <1>5. ASSUME NEW row \in Rows
        PROVE  /\ \A c \in {"wire", "discarded", "reader"} : AtStage(row, c)' <=> AtStage(row, c)
               /\ AtStage(row, "channel")' <=> AtStage(row, "channel")
               /\ AtStage(row, "worker")' <=> AtStage(row, "worker")
               /\ AtStage(row, "pending")' <=> AtStage(row, "pending")
    <2>1. \A c \in {"wire", "discarded", "reader"} : AtStage(row, c)' <=> AtStage(row, c)
      BY <1>1 DEF AtStage, Receivers
    <2>2. AtStage(row, "channel")' <=> AtStage(row, "channel")
      BY StageOfSequences
    <2>3. (AtStage(row, "worker")' <=> AtStage(row, "worker"))
          /\ (AtStage(row, "pending")' <=> AtStage(row, "pending"))
      BY <1>2, StageOfWorkers
    <2> QED
      BY <2>1, <2>2, <2>3
  <1> QED
    BY <1>3, <1>4, <1>5

(* The rows in an insert worker's hands are those of its batch.             *)
LEMMA StageOfInserters ==
    ASSUME NEW row \in Rows
    PROVE  /\ AtStage(row, "inserter") <=> \E h \in InserterIds : row \in InserterHolds(h)
           /\ AtStage(row, "inserter")' <=> \E h \in InserterIds : row \in InserterHolds(h)'
           /\ AtStage(row, "inserted") <=> row \in inserted
           /\ AtStage(row, "inserted")' <=> row \in inserted'
  BY DEF AtStage, InserterIds

(* A step that keeps the batches of the insert workers moves none of their  *)
(* rows.                                                                    *)
LEMMA SameBatch ==
    ASSUME NEW i \in InserterIds, inserter'[i].batch = inserter[i].batch
    PROVE  InserterHolds(i)' = InserterHolds(i)
  BY DEF InserterHolds

(* The insert worker keeps its batch, or has none.                          *)
LEMMA BatchesKept ==
    ASSUME RowInv, UNCHANGED <<wire, discarded, reader, packetChannel, worker>>,
           UNCHANGED <<insertBatches, inserted, spooled, orphaned, spoolLost>>,
           \A i \in InserterIds : inserter'[i].batch = inserter[i].batch
    PROVE  /\ \A row \in Rows, c \in Stages : AtStage(row, c)' <=> AtStage(row, c)
           /\ \A row \in Rows : OnceThere(row)'
           /\ \A r \in Receivers : BatchOnce(r)'
  <1>1. \A i \in InserterIds : InserterHolds(i)' = InserterHolds(i)
    BY SameBatch
  <1>2. ASSUME NEW row \in Rows, NEW c \in Stages
        PROVE  AtStage(row, c)' <=> AtStage(row, c)
    <2>1. CASE c = "queued"
      BY <2>1, StageOfSequences
    <2>2. CASE c \in {"inserter", "inserted"}
      BY <1>1, <2>2, StageOfInserters
    <2>3. CASE c \in Failing
      BY <2>3, SpoolFrame
    <2>4. CASE c \in {"wire", "discarded", "reader", "channel", "worker", "pending"}
      BY <2>4, InserterFrame
    <2> QED
      BY <2>1, <2>2, <2>3, <2>4, StagesAre DEF Failing
  <1>3. ASSUME NEW row \in Rows
        PROVE  OnceThere(row)'
    <2>1. OneQueued(row)'
      BY StageOfSequences DEF RowInv, OnceThere
    <2>2. OneInserter(row)'
      BY <1>1 DEF RowInv, OnceThere, OneInserter, InserterIds
    <2> QED
      BY <2>1, <2>2, InserterFrame DEF OnceThere
  <1> QED
    BY <1>2, <1>3, InserterFrame

(* A step that changes neither channels, hands nor fates moves no row.      *)
LEMMA NothingHappens ==
    ASSUME RowInv, UNCHANGED <<wire, discarded, reader, packetChannel, worker>>,
           UNCHANGED <<insertBatches, inserted, spooled, orphaned, spoolLost, stored>>,
           \A i \in InserterIds : inserter'[i].batch = inserter[i].batch
    PROVE  RowsMove
  <1>1. /\ \A row \in Rows, c \in Stages : AtStage(row, c)' <=> AtStage(row, c)
        /\ \A row \in Rows : OnceThere(row)'
        /\ \A r \in Receivers : BatchOnce(r)'
    BY BatchesKept
  <1>2. Allowed({}, "wire", "wire") /\ Moves({}, "wire", "wire")
    BY <1>1, NothingMoves DEF Allowed
  <1>3. AllowedMove
    BY <1>2, StagesAre DEF AllowedMove
  <1> QED
    BY <1>1, <1>3 DEF RowsMove

(* A failed attempt leaves the batch in the worker's hands.                 *)
LEMMA AttemptKeepsBatch ==
    ASSUME TypeOK, NEW i \in InserterIds, AttemptFailed(i)
    PROVE  \A h \in InserterIds : inserter'[h].batch = inserter[h].batch
  <1>1. inserter \in [InserterIds -> InserterState]
    BY DEF TypeOK
  <1>2. NextAttempt(i).batch = inserter[i].batch
    BY <1>1 DEF NextAttempt, InserterState
  <1>3. inserter' \in {[inserter EXCEPT ![i] = NextAttempt(i)], [inserter EXCEPT ![i].pc = "spool"]}
    BY DEF AttemptFailed
  <1> QED
    BY <1>1, <1>2, <1>3 DEF InserterState

(* Looking at the table cache, creating a table and leaving move no row.    *)
LEMMA InserterWaitMoves ==
    ASSUME TypeOK, RowInv, NEW i \in InserterIds,
           EnsureTable(i) \/ CreateTable(i) \/ CreateTableFails(i) \/ InserterReturn(i)
    PROVE  RowsMove
  <1>1. inserter \in [InserterIds -> InserterState]
    BY DEF TypeOK
  <1>2. \A h \in InserterIds : inserter'[h].batch = inserter[h].batch
    <2>1. CASE CreateTableFails(i)
      BY <2>1, AttemptKeepsBatch DEF CreateTableFails
    <2>2. CASE EnsureTable(i) \/ CreateTable(i) \/ InserterReturn(i)
      <3>1. PICK pc : inserter' = [inserter EXCEPT ![i].pc = pc]
        BY <2>2 DEF EnsureTable, CreateTable, InserterReturn
      <3> QED
        BY <1>1, <3>1 DEF InserterState
    <2> QED
      BY <2>1, <2>2
  <1>3. /\ UNCHANGED <<wire, discarded, reader, packetChannel, worker>>
        /\ UNCHANGED <<insertBatches, inserted, spooled, orphaned, spoolLost, stored>>
    BY DEF EnsureTable, CreateTable, CreateTableFails, InserterReturn, insertUnchanged,
           inputVars, spoolVars
  <1> QED
    BY <1>2, <1>3, NothingHappens

(* A failed insert may have stored the rows.                                *)
LEMMA InsertFailsMoves ==
    ASSUME TypeOK, Shape, RowInv, NEW i \in InserterIds, InsertFails(i)
    PROVE  RowsMove
  <1> DEFINE S == inserter[i].batch.rows
  <1>1. inserter \in [InserterIds -> InserterState] /\ inserter[i].batch # NoBatch
    BY DEF TypeOK, Shape, InserterShape, InsertFails
  <1>2. S \in SUBSET Rows
    <2>1. inserter[i].batch \in Batch
      BY <1>1 DEF InserterState
    <2> QED
      BY <2>1 DEF Batch
  <1>3. \A h \in InserterIds : inserter'[h].batch = inserter[h].batch
    BY AttemptKeepsBatch DEF InsertFails
  <1>4. /\ UNCHANGED <<wire, discarded, reader, packetChannel, worker>>
        /\ UNCHANGED <<insertBatches, inserted, spooled, orphaned, spoolLost>>
    BY DEF InsertFails, insertUnchanged, inputVars, spoolVars
  <1>5. /\ \A row \in Rows, c \in Stages : AtStage(row, c)' <=> AtStage(row, c)
        /\ \A row \in Rows : OnceThere(row)'
        /\ \A r \in Receivers : BatchOnce(r)'
    BY <1>3, <1>4, BatchesKept
  <1>6. CASE stored' = stored
    BY <1>3, <1>4, <1>6, NothingHappens
  <1>7. CASE stored' = StoredOnceMore(S)
    <2>1. \A row \in S : AtStage(row, "inserter")
      BY <1>1, <1>2, StageOfInserters DEF InserterHolds
    <2>2. \A row \in S, c \in Stages : AtStage(row, c) <=> c = "inserter"
      BY <1>2, <2>1, StagesAre DEF RowInv, OneStage
    <2>3. Moves(S, "inserter", "inserter")
      BY <1>2, <1>5, <2>1, <2>2 DEF Moves
    <2>4. Allowed(S, "inserter", "inserter")
      BY <1>7 DEF Allowed
    <2>5. AllowedMove
      BY <1>2, <2>3, <2>4, StagesAre DEF AllowedMove
    <2> QED
      BY <1>5, <2>5 DEF RowsMove
  <1> QED
    BY <1>6, <1>7 DEF InsertFails

(* The rows of a batch go from the channel to the worker.                   *)
LEMMA ReceiveBatchMoves ==
    ASSUME TypeOK, Shape, RowInv, NEW i \in InserterIds, ReceiveBatch(i)
    PROVE  RowsMove
  <1> DEFINE b == Head(insertBatches)
             S == b.rows
  <1>1. /\ insertBatches # <<>> /\ insertBatches' = Tail(insertBatches)
        /\ inserter' = [inserter EXCEPT ![i] = [pc |-> "ensure", batch |-> b, attempt |-> 1]]
        /\ UNCHANGED <<wire, discarded, reader, packetChannel, worker>>
        /\ UNCHANGED <<stored, inserted, spooled, orphaned, spoolLost>>
    BY DEF ReceiveBatch, insertUnchanged, inputVars, spoolVars
  <1>2. insertBatches \in Seq(Batch) /\ inserter \in [InserterIds -> InserterState]
    BY DEF TypeOK
  <1>3. b \in Batch /\ S \in SUBSET Rows /\ b # NoBatch
    <2>1. b \in Batch
      BY <1>1, <1>2, TakeHead
    <2> QED
      BY <2>1, NoBatchIsNone DEF Batch
  <1>4. inserter[i].batch = NoBatch
    BY DEF ReceiveBatch, Shape, InserterShape
  <1>5. /\ inserter'[i].batch = b
        /\ \A h \in InserterIds \ {i} : inserter'[h].batch = inserter[h].batch
    BY <1>1, <1>2
  <1>6. /\ InserterHolds(i) = {} /\ InserterHolds(i)' = S
        /\ \A h \in InserterIds \ {i} : InserterHolds(h)' = InserterHolds(h)
    BY <1>3, <1>4, <1>5, SameBatch DEF InserterHolds
  <1>7. \A row \in Rows : OneStage(row) /\ OnceThere(row)
    BY DEF RowInv
  <1>8. \A row \in Rows : /\ HasRow(insertBatches', row) <=>
                                 HasRow(insertBatches, row) /\ row \notin S
                          /\ OnceRow(insertBatches', row)
                          /\ row \in S => HasRow(insertBatches, row)
    <2> SUFFICES ASSUME NEW row \in Rows
                 PROVE  /\ HasRow(insertBatches', row) <=>
                              HasRow(insertBatches, row) /\ row \notin S
                        /\ OnceRow(insertBatches', row)
                        /\ row \in S => HasRow(insertBatches, row)
      OBVIOUS
    <2>1. OnceRow(insertBatches, row)
      BY <1>7, StageOfSequences DEF OnceThere
    <2> QED
      BY <1>1, <1>2, <2>1, TailHasRow
  <1> HIDE DEF b, S
  <1>9. \A row \in S : AtStage(row, "queued") /\ ~AtStage(row, "inserter")
    BY <1>3, <1>7, <1>8, StagesAre, StageOfSequences DEF OneStage
  <1>10. \A row \in Rows, c \in Stages \ {"queued", "inserter"} : AtStage(row, c)' <=> AtStage(row, c)
    <2> SUFFICES ASSUME NEW row \in Rows, NEW c \in Stages \ {"queued", "inserter"}
                 PROVE  AtStage(row, c)' <=> AtStage(row, c)
      OBVIOUS
    <2>1. CASE c = "inserted"
      BY <1>1, <2>1, StageOfInserters
    <2>2. CASE c \in Failing
      BY <1>1, <2>2, SpoolFrame
    <2>3. CASE c \in {"wire", "discarded", "reader", "channel", "worker", "pending"}
      BY <1>1, <2>3, InserterFrame
    <2> QED
      BY <2>1, <2>2, <2>3, StagesAre DEF Failing
  <1>11. Moves(S, "queued", "inserter")
    <2>1. \A row \in Rows : AtStage(row, "queued")' <=> AtStage(row, "queued") /\ row \notin S
      BY <1>8, StageOfSequences
    <2>2. \A row \in Rows : AtStage(row, "inserter")' <=> AtStage(row, "inserter") \/ row \in S
      BY <1>6, StageOfInserters
    <2>3. "queued" \in Stages /\ "inserter" \in Stages /\ "queued" # "inserter"
      BY StagesAre
    <2> QED
      BY <1>3, <1>7, <1>9, <1>10, <2>1, <2>2, <2>3, MovesBetween
  <1>12. ASSUME NEW row \in Rows
         PROVE  OnceThere(row)'
    <2>1. OneQueued(row)'
      BY <1>8, StageOfSequences
    <2>2. OneInserter(row)
      BY <1>7 DEF OnceThere
    <2>3. row \in S => \A h \in InserterIds : row \notin InserterHolds(h)
      BY <1>9, StageOfInserters
    <2>4. OneInserter(row)'
      BY <1>6, <2>2, <2>3 DEF OneInserter, InserterIds
    <2> QED
      BY <1>1, <2>1, <2>4, InserterFrame DEF OnceThere
  <1>13. AllowedMove
    <2>1. Allowed(S, "queued", "inserter")
      BY <1>1, StagesAre DEF Allowed
    <2> QED
      BY <1>3, <1>11, <2>1, StagesAre DEF AllowedMove
  <1> QED
    BY <1>1, <1>12, <1>13, InserterFrame DEF RowsMove

(* An insert worker is done with its batch.                                 *)
LEMMA BatchLeaves ==
    ASSUME TypeOK, Shape, RowInv, NEW i \in InserterIds, inserter[i].pc \in {"insert", "spool"},
           inserter' = [inserter EXCEPT ![i] = IdleInserter]
    PROVE  /\ inserter[i].batch.rows \in SUBSET Rows
           /\ \A row \in inserter[i].batch.rows : AtStage(row, "inserter")
           /\ \A row \in Rows :
                 /\ AtStage(row, "inserter")' <=>
                       AtStage(row, "inserter") /\ row \notin inserter[i].batch.rows
                 /\ OneInserter(row)'
  <1> DEFINE S == inserter[i].batch.rows
  <1>1. inserter \in [InserterIds -> InserterState] /\ inserter[i].batch # NoBatch
    BY DEF TypeOK, Shape, InserterShape
  <1>2. S \in SUBSET Rows
    <2>1. inserter[i].batch \in Batch
      BY <1>1 DEF InserterState
    <2> QED
      BY <2>1 DEF Batch
  <1>3. /\ inserter'[i].batch = NoBatch
        /\ \A h \in InserterIds \ {i} : inserter'[h].batch = inserter[h].batch
    BY <1>1 DEF IdleInserter
  <1>4. /\ InserterHolds(i) = S /\ InserterHolds(i)' = {}
        /\ \A h \in InserterIds \ {i} : InserterHolds(h)' = InserterHolds(h)
    BY <1>1, <1>3, SameBatch DEF InserterHolds
  <1> HIDE DEF S
  <1>5. \A row \in S : AtStage(row, "inserter")
    BY <1>2, <1>4, StageOfInserters
  <1>6. ASSUME NEW row \in Rows
        PROVE  (AtStage(row, "inserter")' <=> AtStage(row, "inserter") /\ row \notin S)
               /\ OneInserter(row)'
    <2>1. OneInserter(row)
      BY DEF RowInv, OnceThere
    <2>2. OneInserter(row)'
      BY <1>4, <2>1 DEF OneInserter, InserterIds
    <2>3. row \in S => \A h \in InserterIds \ {i} : row \notin InserterHolds(h)
      BY <1>4, <2>1 DEF OneInserter
    <2> QED
      BY <1>4, <2>2, <2>3, StageOfInserters
  <1> QED
    BY <1>2, <1>5, <1>6 DEF S

(* Those of a confirmed batch become inserted.                              *)
LEMMA InsertSucceedsMoves ==
    ASSUME TypeOK, Shape, RowInv, NEW i \in InserterIds, InsertSucceeds(i)
    PROVE  RowsMove
  <1> DEFINE S == inserter[i].batch.rows
  <1>1. /\ inserter[i].pc \in {"insert", "spool"}
        /\ inserter' = [inserter EXCEPT ![i] = IdleInserter]
        /\ stored' = StoredOnceMore(S) /\ inserted' = inserted \cup S
        /\ UNCHANGED <<wire, discarded, reader, packetChannel, worker>>
        /\ UNCHANGED <<insertBatches, spooled, orphaned, spoolLost>>
    BY DEF InsertSucceeds, insertUnchanged, inputVars, spoolVars
  <1>2. /\ S \in SUBSET Rows
        /\ \A row \in S : AtStage(row, "inserter")
        /\ \A row \in Rows : /\ AtStage(row, "inserter")' <=> AtStage(row, "inserter") /\ row \notin S
                             /\ OneInserter(row)'
    BY <1>1, BatchLeaves
  <1> HIDE DEF S
  <1>3. \A row \in Rows : OneStage(row) /\ OnceThere(row)
    BY DEF RowInv
  <1>4. \A row \in Rows, c \in Stages \ {"inserter", "inserted"} : AtStage(row, c)' <=> AtStage(row, c)
    <2> SUFFICES ASSUME NEW row \in Rows, NEW c \in Stages \ {"inserter", "inserted"}
                 PROVE  AtStage(row, c)' <=> AtStage(row, c)
      OBVIOUS
    <2>1. CASE c = "queued"
      BY <1>1, <2>1, StageOfSequences
    <2>2. CASE c \in Failing
      BY <1>1, <2>2, SpoolFrame
    <2>3. CASE c \in {"wire", "discarded", "reader", "channel", "worker", "pending"}
      BY <1>1, <2>3, InserterFrame
    <2> QED
      BY <2>1, <2>2, <2>3, StagesAre DEF Failing
  <1>5. Moves(S, "inserter", "inserted")
    <2>1. \A row \in Rows : AtStage(row, "inserted")' <=> AtStage(row, "inserted") \/ row \in S
      BY <1>1, StageOfInserters
    <2>2. "inserter" \in Stages /\ "inserted" \in Stages /\ "inserter" # "inserted"
      BY StagesAre
    <2>3. /\ \A row \in Rows : OneStage(row)
          /\ \A row \in Rows : AtStage(row, "inserter")' <=> AtStage(row, "inserter") /\ row \notin S
      BY <1>2, <1>3
    <2> QED
      BY <1>2, <1>4, <2>1, <2>2, <2>3, MovesBetween
  <1>6. ASSUME NEW row \in Rows
        PROVE  OnceThere(row)'
    <2>1. OneQueued(row)'
      BY <1>1, <1>3, StageOfSequences DEF OnceThere
    <2> QED
      BY <1>1, <1>2, <2>1, InserterFrame DEF OnceThere
  <1>7. AllowedMove
    <2>1. Allowed(S, "inserter", "inserted")
      BY <1>1 DEF Allowed
    <2> QED
      BY <1>2, <1>5, <2>1, StagesAre DEF AllowedMove
  <1> QED
    BY <1>1, <1>6, <1>7, InserterFrame DEF RowsMove

(* Those of a batch given up go to a fate of the spool.                     *)
LEMMA SpoolExhaustedMoves ==
    ASSUME TypeOK, Shape, RowInv, NEW i \in InserterIds, SpoolExhausted(i)
    PROVE  RowsMove
  <1> DEFINE S == inserter[i].batch.rows
  <1>1. /\ inserter[i].pc \in {"insert", "spool"} /\ Spool(S)
        /\ inserter' = [inserter EXCEPT ![i] = IdleInserter]
        /\ UNCHANGED <<wire, discarded, reader, packetChannel, worker>>
        /\ UNCHANGED <<insertBatches, stored, inserted>>
    BY DEF SpoolExhausted, insertUnchanged, inputVars
  <1>2. /\ S \in SUBSET Rows
        /\ \A row \in S : AtStage(row, "inserter")
        /\ \A row \in Rows : /\ AtStage(row, "inserter")' <=> AtStage(row, "inserter") /\ row \notin S
                             /\ OneInserter(row)'
    BY <1>1, BatchLeaves
  <1> HIDE DEF S
  <1>3. \A row \in Rows : OneStage(row) /\ OnceThere(row)
    BY DEF RowInv
  <1>4. PICK to \in Failing :
           /\ \A row \in Rows : AtStage(row, to)' <=> AtStage(row, to) \/ row \in S
           /\ \A row \in Rows, c \in Failing \ {to} : AtStage(row, c)' <=> AtStage(row, c)
    BY <1>1, <1>2, SpoolSettles
  <1>5. to \in Stages /\ "inserter" \in Stages /\ to # "inserter"
    BY StagesAre DEF Failing
  <1>6. \A row \in Rows, c \in Stages \ {"inserter", to} : AtStage(row, c)' <=> AtStage(row, c)
    <2> SUFFICES ASSUME NEW row \in Rows, NEW c \in Stages \ {"inserter", to}
                 PROVE  AtStage(row, c)' <=> AtStage(row, c)
      OBVIOUS
    <2>1. CASE c = "queued"
      BY <1>1, <2>1, StageOfSequences
    <2>2. CASE c \in Failing
      BY <1>4, <2>2
    <2>3. CASE c = "inserted"
      BY <1>1, <2>3, StageOfInserters
    <2>4. CASE c \in {"wire", "discarded", "reader", "channel", "worker", "pending"}
      BY <1>1, <2>4, InserterFrame
    <2> QED
      BY <2>1, <2>2, <2>3, <2>4, StagesAre DEF Failing
  <1>7. Moves(S, "inserter", to)
    <2>1. /\ \A row \in Rows : OneStage(row)
          /\ \A row \in Rows : AtStage(row, "inserter")' <=> AtStage(row, "inserter") /\ row \notin S
      BY <1>2, <1>3
    <2> QED
      BY <1>2, <1>4, <1>5, <1>6, <2>1, MovesBetween
  <1>8. ASSUME NEW row \in Rows
        PROVE  OnceThere(row)'
    <2>1. OneQueued(row)'
      BY <1>1, <1>3, StageOfSequences DEF OnceThere
    <2> QED
      BY <1>1, <1>2, <2>1, InserterFrame DEF OnceThere
  <1>9. AllowedMove
    <2>1. Allowed(S, "inserter", to)
      BY <1>1, StagesAre DEF Allowed
    <2> QED
      BY <1>2, <1>5, <1>7, <2>1 DEF AllowedMove
  <1> QED
    BY <1>1, <1>8, <1>9, InserterFrame DEF RowsMove

(* Every step of an insert worker moves rows between two stages.            *)
LEMMA InserterMovesRows ==
    ASSUME TypeOK, Shape, RowInv, NEW i \in InserterIds, InserterStep(i)
    PROVE  RowsMove
  BY InserterWaitMoves, InsertFailsMoves, ReceiveBatchMoves, InsertSucceedsMoves,
     SpoolExhaustedMoves DEF InserterStep

-----------------------------------------------------------------------------
(* main, the autotune supervisor, and the whole program                     *)

LEMMA TunerMovesRows ==
    ASSUME TypeOK, RowInv, SampleQueues \/ SpawnWorkers \/ TunerReturn
    PROVE  RowsMove
  <1>1. /\ UNCHANGED <<wire, reader, discarded, packetChannel, insertBatches, stored>>
        /\ UNCHANGED <<inserted, spooled, orphaned, spoolLost>>
    BY DEF SampleQueues, SpawnWorkers, TunerReturn, tuneUnchanged, inputVars, insertVars, spoolVars
  <1>2. CASE SampleQueues \/ TunerReturn
    <2>1. UNCHANGED <<worker, inserter>>
      BY <1>2 DEF SampleQueues, TunerReturn, tuneUnchanged, insertVars
    <2> QED
      BY <1>1, <2>1, NothingHappens
  <1>3. CASE SpawnWorkers
    <2>1. ASSUME NEW w \in WorkerIds
          PROVE  /\ worker'[w].pkt = worker[w].pkt /\ worker'[w].k = worker[w].k
                 /\ worker'[w].pending = worker[w].pending
      <3> DEFINE v == [worker[w] EXCEPT !.pc = "select"]
      <3>1. v.pkt = worker[w].pkt /\ v.k = worker[w].k /\ v.pending = worker[w].pending
        BY DEF TypeOK, WorkerState
      <3>2. worker'[w] \in {v, worker[w]}
        BY <1>3 DEF SpawnWorkers
      <3> HIDE DEF v
      <3> QED
        BY <3>1, <3>2
    <2>2. ASSUME NEW i \in InserterIds
          PROVE  inserter'[i].batch = inserter[i].batch
      <3> DEFINE v == [inserter[i] EXCEPT !.pc = "recv"]
      <3>1. v.batch = inserter[i].batch
        BY DEF TypeOK, InserterState
      <3>2. inserter'[i] \in {v, inserter[i]}
        BY <1>3 DEF SpawnWorkers
      <3> HIDE DEF v
      <3> QED
        BY <3>1, <3>2
    <2>3. /\ \A w \in WorkerIds : WorkerHolds(w)' = WorkerHolds(w)
          /\ \A i \in InserterIds : InserterHolds(i)' = InserterHolds(i)
          /\ \A r \in Receivers : ReaderHolds(r)' = ReaderHolds(r)
      BY <1>1, <2>1, <2>2, SameWork, SameBatch DEF ReaderHolds
    <2>4. \A row \in Rows : /\ AtStage(row, "worker")' <=> AtStage(row, "worker")
                            /\ AtStage(row, "pending")' <=> AtStage(row, "pending")
                            /\ OneWorker(row)' /\ OnePending(row)'
      BY <2>1, <2>3, WorkersKeepRows, WorkersKeepPending
    <2>5. ASSUME NEW row \in Rows, NEW c \in Stages
          PROVE  AtStage(row, c)' <=> AtStage(row, c)
      <3>1. CASE c \in {"channel", "queued"}
        BY <1>1, <3>1, StageOfSequences
      <3>2. CASE c \in {"inserter", "inserted"}
        BY <1>1, <2>3, <3>2, StageOfInserters
      <3>3. CASE c \in Failing
        BY <1>1, <3>3, SpoolFrame
      <3>4. CASE c \in {"wire", "discarded", "reader"}
        BY <1>1, <2>3, <3>4 DEF AtStage, Receivers
      <3>5. CASE c \in {"worker", "pending"}
        BY <2>4, <3>5
      <3> QED
        BY <3>1, <3>2, <3>3, <3>4, <3>5, StagesAre DEF Failing
    <2>6. ASSUME NEW row \in Rows
          PROVE  OnceThere(row)'
      <3>1. OnePacket(row)' /\ OneQueued(row)'
        BY <1>1, StageOfSequences DEF RowInv, OnceThere
      <3>2. OneReader(row)' /\ OneInserter(row)'
        BY <2>3 DEF RowInv, OnceThere, OneReader, OneInserter, Receivers, InserterIds
      <3> QED
        BY <2>4, <3>1, <3>2 DEF OnceThere
    <2>7. \A r \in Receivers : BatchOnce(r)'
      BY <1>1 DEF RowInv, BatchOnce
    <2>8. AllowedMove
      <3>1. Allowed({}, "wire", "wire") /\ Moves({}, "wire", "wire")
        BY <1>1, <2>5, NothingMoves DEF Allowed
      <3> QED
        BY <3>1, StagesAre DEF AllowedMove
    <2> QED
      BY <2>6, <2>7, <2>8 DEF RowsMove
  <1> QED
    BY <1>2, <1>3

(* Every step of the collector moves rows between two stages.               *)
LEMMA NextMovesRows ==
    ASSUME TypeOK, Shape, RowInv, [Next]_vars
    PROVE  RowsMove
  <1>1. CASE RequestStop \/ Shutdown \/ UNCHANGED vars
    <2>1. /\ UNCHANGED <<wire, discarded, reader, packetChannel, worker, inserter>>
          /\ UNCHANGED <<insertBatches, inserted, spooled, orphaned, spoolLost, stored>>
      BY <1>1 DEF RequestStop, Shutdown, CloseNextReceiver, MainStep, inputVars, insertVars,
                  spoolVars, vars
    <2> QED
      BY <2>1, NothingHappens
  <1>2. CASE \E r \in Receivers : ReadBatch(r) \/ TransientErrorAtStop(r) \/ ReaderStep(r)
    BY <1>2, ReaderMovesRows
  <1>3. CASE \E w \in WorkerIds : WorkerStep(w)
    BY <1>3, WorkerMovesRows
  <1>4. CASE \E i \in InserterIds : InserterStep(i)
    BY <1>4, InserterMovesRows
  <1>5. CASE SampleQueues \/ SpawnWorkers \/ TunerReturn
    BY <1>5, TunerMovesRows
  <1> QED
    BY <1>1, <1>2, <1>3, <1>4, <1>5 DEF Next, Terminated

(* At first every row is on the wire.                                       *)
LEMMA InitStages ==
    ASSUME Init, NEW row \in Rows
    PROVE  /\ \A c \in Stages : AtStage(row, c) <=> c = "wire"
           /\ OnceThere(row) /\ OneStage(row)
  <1>1. row[1] \in Packets
    BY RowParts
  <1>2. \A r \in Receivers : ReaderHolds(r) = {}
    BY DEF Init, IdleReader, ReaderHolds
  <1>3. \A w \in WorkerIds : worker[w].pkt = NoPacket /\ \A t \in Tables : worker[w].pending[t] = {}
    BY DEF Init, IdleWorker
  <1>4. \A i \in InserterIds : inserter[i].batch = NoBatch
    BY DEF Init, IdleInserter
  <1>5. /\ \A w \in WorkerIds : WorkerHolds(w) = {}
        /\ \A i \in InserterIds : InserterHolds(i) = {}
    BY <1>3, <1>4 DEF WorkerHolds, InserterHolds
  <1>6. /\ wire = Packets /\ discarded = {} /\ packetChannel = <<>> /\ insertBatches = <<>>
        /\ inserted = {} /\ spooled = {} /\ orphaned = {} /\ spoolLost = {}
    BY DEF Init
  <1>7. DOMAIN packetChannel = {} /\ DOMAIN insertBatches = {}
    BY <1>6
  <1>8. \A c \in Stages : AtStage(row, c) <=> c = "wire"
    BY <1>1, <1>2, <1>3, <1>5, <1>6, <1>7, StagesAre DEF AtStage
  <1>9. OneStage(row)
    BY <1>8 DEF OneStage
  <1>10. OnceThere(row)
    BY <1>2, <1>3, <1>5, <1>7
       DEF OnceThere, OneReader, OnePacket, OneWorker, OnePending, OneQueued, OneInserter
  <1> QED
    BY <1>8, <1>9, <1>10

(* At the start every row is on the wire and nowhere else.                  *)
LEMMA InitRowInv == Init => RowInv
  <1> SUFFICES ASSUME Init
               PROVE  RowInv
    OBVIOUS
  <1>1. \A r \in Receivers : BatchOnce(r)
    BY DEF Init, IdleReader, BatchOnce
  <1> QED
    BY <1>1, InitStages DEF RowInv

(* RowInv is inductive, next to the invariant of CollectorProofs.           *)
LEMMA RowsInvariance == Spec => []RowInv
  <1>1. IInv /\ RowInv /\ [Next]_vars => RowInv'
    BY NextMovesRows, RowsMoveKeeps DEF IInv
  <1> QED
    BY <1>1, InitRowInv, Inductive, PTL DEF Spec

-----------------------------------------------------------------------------
(* Counting the places of a row                                             *)

LEMMA AtMostOne ==
    ASSUME NEW T, \A x, y \in T : x = y
    PROVE  Cardinality(T) = One(T # {})
  <1>1. CASE T = {}
    BY <1>1, FS_EmptySet DEF One
  <1>2. CASE T # {}
    <2>1. PICK x : x \in T
      BY <1>2
    <2>2. T = {x}
      BY <2>1
    <2> QED
      BY <1>2, <2>2, FS_Singleton DEF One
  <1> QED
    BY <1>1, <1>2

(* The copies of a row, as the definition counts them, are the stages it is *)
(* at.                                                                      *)
LEMMA CopiesByStage ==
    ASSUME NEW row \in Rows, OnceThere(row)
    PROVE  Copies(row) =
             One(AtStage(row, "wire")) + One(AtStage(row, "discarded"))
             + One(AtStage(row, "reader")) + One(AtStage(row, "channel"))
             + One(AtStage(row, "worker")) + One(AtStage(row, "pending"))
             + One(AtStage(row, "queued")) + One(AtStage(row, "inserter"))
             + One(AtStage(row, "inserted")) + One(AtStage(row, "spooled"))
             + One(AtStage(row, "orphaned")) + One(AtStage(row, "lost"))
  <1>1. /\ AtStage(row, "wire") <=> row[1] \in wire
        /\ AtStage(row, "discarded") <=> row[1] \in discarded
        /\ AtStage(row, "inserted") <=> row \in inserted
        /\ AtStage(row, "spooled") <=> row \in spooled
        /\ AtStage(row, "orphaned") <=> row \in orphaned
        /\ AtStage(row, "lost") <=> row \in spoolLost
    BY DEF AtStage
  <1>2. Cardinality({r \in Receivers : row[1] \in ReaderHolds(r)}) = One(AtStage(row, "reader"))
    <2> DEFINE T == {r \in Receivers : row[1] \in ReaderHolds(r)}
    <2>1. (T # {} <=> AtStage(row, "reader")) /\ \A x, y \in T : x = y
      BY DEF AtStage, OnceThere, OneReader
    <2> HIDE DEF T
    <2>2. Cardinality(T) = One(T # {})
      BY <2>1, AtMostOne
    <2> QED
      BY <2>1, <2>2 DEF T, One
  <1>3. Cardinality({n \in DOMAIN packetChannel : row[1] = packetChannel[n]})
           = One(AtStage(row, "channel"))
    <2> DEFINE T == {n \in DOMAIN packetChannel : row[1] = packetChannel[n]}
    <2>1. (T # {} <=> AtStage(row, "channel")) /\ \A x, y \in T : x = y
      BY DEF AtStage, OnceThere, OnePacket
    <2> HIDE DEF T
    <2>2. Cardinality(T) = One(T # {})
      BY <2>1, AtMostOne
    <2> QED
      BY <2>1, <2>2 DEF T, One
  <1>4. Cardinality({w \in WorkerIds : row \in WorkerHolds(w)}) = One(AtStage(row, "worker"))
    <2> DEFINE T == {w \in WorkerIds : row \in WorkerHolds(w)}
    <2>1. (T # {} <=> AtStage(row, "worker")) /\ \A x, y \in T : x = y
      BY DEF AtStage, OnceThere, OneWorker
    <2> HIDE DEF T
    <2>2. Cardinality(T) = One(T # {})
      BY <2>1, AtMostOne
    <2> QED
      BY <2>1, <2>2 DEF T, One
  <1>5. Cardinality({wt \in WorkerIds \X Tables : row \in worker[wt[1]].pending[wt[2]]})
           = One(AtStage(row, "pending"))
    <2> DEFINE T == {wt \in WorkerIds \X Tables : row \in worker[wt[1]].pending[wt[2]]}
    <2>1. T # {} <=> AtStage(row, "pending")
      <3>1. ASSUME NEW wt \in T
            PROVE  AtStage(row, "pending")
        BY <3>1 DEF AtStage
      <3>2. ASSUME AtStage(row, "pending")
            PROVE  T # {}
        <4>1. PICK w \in WorkerIds : \E t \in Tables : row \in worker[w].pending[t]
          BY <3>2 DEF AtStage
        <4>2. PICK t \in Tables : row \in worker[w].pending[t]
          BY <4>1
        <4>3. <<w, t>> \in T
          BY <4>2
        <4> QED
          BY <4>3
      <3> QED
        BY <3>1, <3>2
    <2>2. \A x, y \in T : x = y
      BY DEF OnceThere, OnePending
    <2> HIDE DEF T
    <2>3. Cardinality(T) = One(T # {})
      BY <2>2, AtMostOne
    <2> QED
      BY <2>1, <2>3 DEF T, One
  <1>6. Cardinality({n \in DOMAIN insertBatches : row \in insertBatches[n].rows})
           = One(AtStage(row, "queued"))
    <2> DEFINE T == {n \in DOMAIN insertBatches : row \in insertBatches[n].rows}
    <2>1. (T # {} <=> AtStage(row, "queued")) /\ \A x, y \in T : x = y
      BY DEF AtStage, OnceThere, OneQueued
    <2> HIDE DEF T
    <2>2. Cardinality(T) = One(T # {})
      BY <2>1, AtMostOne
    <2> QED
      BY <2>1, <2>2 DEF T, One
  <1>7. Cardinality({i \in InserterIds : row \in InserterHolds(i)}) = One(AtStage(row, "inserter"))
    <2> DEFINE T == {i \in InserterIds : row \in InserterHolds(i)}
    <2>1. (T # {} <=> AtStage(row, "inserter")) /\ \A x, y \in T : x = y
      BY DEF AtStage, OnceThere, OneInserter
    <2> HIDE DEF T
    <2>2. Cardinality(T) = One(T # {})
      BY <2>1, AtMostOne
    <2> QED
      BY <2>1, <2>2 DEF T, One
  <1>8. /\ One(row[1] \in wire) = One(AtStage(row, "wire"))
        /\ One(row[1] \in discarded) = One(AtStage(row, "discarded"))
        /\ One(row \in inserted) = One(AtStage(row, "inserted"))
        /\ One(row \in spooled) = One(AtStage(row, "spooled"))
        /\ One(row \in orphaned) = One(AtStage(row, "orphaned"))
        /\ One(row \in spoolLost) = One(AtStage(row, "lost"))
    BY <1>1 DEF One
  <1> QED
    BY ONLY <1>2, <1>3, <1>4, <1>5, <1>6, <1>7, <1>8 DEF Copies

(* Kept and at one stage only, and once there: one copy.                    *)
LEMMA OneCopy ==
    ASSUME NEW row \in Rows, Kept(row), OneStage(row), OnceThere(row)
    PROVE  Copies(row) = 1
  <1>1. \E c \in Stages : AtStage(row, c)
    BY StagesAre DEF Kept, FatedRows, AtStage
  <1>2. PICK c \in Stages : AtStage(row, c)
    BY <1>1
  <1>3. \A d \in Stages : AtStage(row, d) <=> d = c
    BY <1>2 DEF OneStage
  <1>4. \A d \in Stages : One(AtStage(row, d)) = IF d = c THEN 1 ELSE 0
    BY <1>3 DEF One
  <1> QED
    BY <1>4, CopiesByStage, StagesAre

-----------------------------------------------------------------------------
(* The theorems                                                             *)

(* The pipeline neither loses nor duplicates a row: whatever flushes,       *)
(* refusals, retries and spools happen on the way, each row is in exactly   *)
(* one place (packetWorker, sendInsertBatch, insertWorker,                  *)
(* spoolFailedInsertBatch).                                                 *)
THEOREM EachRowOnce == Spec => []EveryRowInOnePlace
  <1>1. IInv /\ RowInv => EveryRowInOnePlace
    BY OneCopy DEF IInv, EveryRowKept, RowInv, EveryRowInOnePlace
  <1> QED
    BY <1>1, RowsInvariance, Inductive, PTL

(* No row has been accepted at the start.                                   *)
LEMMA InitImplements == Init => Contract!Init
  <1> SUFFICES ASSUME Init
               PROVE  Contract!Init
    OBVIOUS
  <1>1. \A row \in Rows : FateOf(row) = "absent"
    BY InitStages, FateByStage, StagesAre
  <1>2. stored = [row \in Rows |-> 0]
    BY DEF Init
  <1> QED
    BY <1>1, <1>2 DEF Contract!Init

(* The pipeline implements RowFate: a row accepted on packetChannel is held *)
(* until it meets one of its fates, that fate is final, and ClickHouse is   *)
(* written only before it, by the insert worker that holds the row.         *)
THEOREM Implements == Spec => ContractSpec
  <1> DEFINE fates == [row \in Rows |-> FateOf(row)]
  <1>1. IInv /\ RowInv /\ [Next]_vars => [Contract!Next]_<<fates, stored>>
    BY NextMovesRows, AllowedMoveImplements DEF IInv, RowsMove
  <1> QED
    BY <1>1, InitImplements, RowsInvariance, Inductive, PTL DEF Spec, ContractSpec, Contract!Spec

-----------------------------------------------------------------------------
(***************************************************************************)
(* The counters of the collector tell where its datagrams and rows are:    *)
(* for any traffic, any number of goroutines and any sizes, the balances   *)
(* of docs/runbooks/captura-metricas-15-minutos.md hold at every moment,   *)
(* and each daily table is created once.  Each counter of rows is the size *)
(* of a set of rows (CountShape), which grows by rows that were not in it: *)
(* that is what RowInv says of the stages a row passes.                    *)
(***************************************************************************)


(* Rows that are batched, queued and inserted, as the balances name them.   *)
PendingRows == UNION {worker[w].pending[t] : w \in WorkerIds, t \in Tables}
QueuedRows == UNION {insertBatches[n].rows : n \in DOMAIN insertBatches}
InsertingRows == UNION {InserterHolds(i) : i \in InserterIds}
LostRows == orphaned \cup spoolLost

ParsedRows == PendingRows \cup QueuedRows \cup InsertingRows \cup LostRows \cup inserted \cup spooled

(* Rows refused by a packet worker, or given up by an insert worker, that   *)
(* are about to be spooled.                                                 *)
RefusedRows == UNION {UNION {worker[w].pending[t] : t \in worker[w].flush} :
                      w \in {v \in WorkerIds : worker[v].pc = "spool"}}
GivenUpRows == UNION {InserterHolds(i) : i \in {j \in InserterIds : inserter[j].pc = "spool"}}

FailedRows == spooled \cup LostRows \cup RefusedRows \cup GivenUpRows

CountShape ==
    /\ ~ParseOnly => total["Parsed"] = Cardinality(ParsedRows)
    /\ total["Inserted"] = Cardinality(inserted)
    /\ total["FailedRowsSpooled"] = Cardinality(spooled)
    /\ total["InsertDroppedRows"] + total["LiveSkippedRows"] = Cardinality(FailedRows)

(* flushTable flushes one table.                                            *)
FlushShape ==
    \A w \in WorkerIds :
        worker[w].pc \in {"watermark", "send", "spool"} => \E t \in Tables : worker[w].flush = {t}

(* createdTablesMu is held by the insert worker that creates a table, which *)
(* nobody has created.                                                      *)
CreationShape ==
    \A i \in InserterIds :
        /\ inserter[i].pc = "create" <=> createdTablesMu = i
        /\ inserter[i].pc = "create" => inserter[i].batch.table \notin createdTables

-----------------------------------------------------------------------------
(* Which rows the sets hold                                                 *)

Early == {"wire", "discarded", "reader", "channel", "worker"}
Late == {"pending", "queued", "inserter", "inserted", "spooled", "orphaned", "lost"}

(* The members of the sets of rows, before and after a step.                *)
LEMMA RowsIn ==
    \A row :
        /\ row \in PendingRows <=> \E w \in WorkerIds : \E t \in Tables : row \in worker[w].pending[t]
        /\ row \in PendingRows' <=> \E w \in WorkerIds : \E t \in Tables : row \in worker'[w].pending[t]
        /\ row \in QueuedRows <=> \E n \in DOMAIN insertBatches : row \in insertBatches[n].rows
        /\ row \in QueuedRows' <=> \E n \in DOMAIN insertBatches' : row \in insertBatches'[n].rows
        /\ row \in InsertingRows <=> \E i \in InserterIds : row \in InserterHolds(i)
        /\ row \in InsertingRows' <=> \E i \in InserterIds : row \in InserterHolds(i)'
  BY DEF PendingRows, QueuedRows, InsertingRows, WorkerIds, InserterIds

(* A parsed row has passed the worker that parsed it.                       *)
LEMMA ParsedByStage ==
    \A row : /\ row \in ParsedRows <=> \E c \in Late : AtStage(row, c)
             /\ row \in ParsedRows' <=> \E c \in Late : AtStage(row, c)'
  <1> SUFFICES ASSUME NEW row
               PROVE  /\ row \in ParsedRows <=> \E c \in Late : AtStage(row, c)
                      /\ row \in ParsedRows' <=> \E c \in Late : AtStage(row, c)'
    OBVIOUS
  <1>1. /\ AtStage(row, "pending") <=> row \in PendingRows
        /\ AtStage(row, "queued") <=> row \in QueuedRows
        /\ AtStage(row, "inserter") <=> row \in InsertingRows
        /\ AtStage(row, "inserted") <=> row \in inserted
        /\ AtStage(row, "spooled") <=> row \in spooled
        /\ AtStage(row, "orphaned") <=> row \in orphaned
        /\ AtStage(row, "lost") <=> row \in spoolLost
    BY RowsIn DEF AtStage
  <1>2. /\ AtStage(row, "pending")' <=> row \in PendingRows'
        /\ AtStage(row, "queued")' <=> row \in QueuedRows'
        /\ AtStage(row, "inserter")' <=> row \in InsertingRows'
        /\ AtStage(row, "inserted")' <=> row \in inserted'
        /\ AtStage(row, "spooled")' <=> row \in spooled'
        /\ AtStage(row, "orphaned")' <=> row \in orphaned'
        /\ AtStage(row, "lost")' <=> row \in spoolLost'
    BY RowsIn DEF AtStage, InserterIds, WorkerIds
  <1> QED
    BY ONLY <1>1, <1>2 DEF ParsedRows, LostRows, Late

(* The sets are sets of rows, and so have sizes.                            *)
LEMMA SetsOfRows ==
    ASSUME TypeOK
    PROVE  /\ PendingRows \in SUBSET Rows /\ QueuedRows \in SUBSET Rows
           /\ InsertingRows \in SUBSET Rows /\ LostRows \in SUBSET Rows
           /\ ParsedRows \in SUBSET Rows /\ FailedRows \in SUBSET Rows
           /\ inserted \in SUBSET Rows /\ spooled \in SUBSET Rows
           /\ RefusedRows \subseteq PendingRows /\ GivenUpRows \subseteq InsertingRows
  <1>1. \A w \in WorkerIds, t \in Tables : worker[w].pending[t] \in SUBSET Rows
    BY DEF TypeOK, WorkerState
  <1>2. \A n \in DOMAIN insertBatches : insertBatches[n].rows \in SUBSET Rows
    <2>1. \A n \in DOMAIN insertBatches : insertBatches[n] \in Batch
      BY DEF TypeOK
    <2> QED
      BY <2>1 DEF Batch
  <1>3. \A i \in InserterIds : InserterHolds(i) \in SUBSET Rows
    BY DEF TypeOK, InserterState, InserterHolds, Batch
  <1>4. /\ PendingRows \in SUBSET Rows /\ QueuedRows \in SUBSET Rows
        /\ InsertingRows \in SUBSET Rows
    BY <1>1, <1>2, <1>3, RowsIn
  <1>5. \A w \in WorkerIds : worker[w].flush \subseteq Tables
    BY DEF TypeOK, WorkerState
  <1>6. RefusedRows \subseteq PendingRows
    BY <1>5, RowsIn DEF RefusedRows
  <1>7. GivenUpRows \subseteq InsertingRows
    BY RowsIn DEF GivenUpRows
  <1>8. /\ inserted \in SUBSET Rows /\ spooled \in SUBSET Rows /\ LostRows \in SUBSET Rows
    BY DEF TypeOK, LostRows
  <1> QED
    BY <1>4, <1>6, <1>7, <1>8 DEF ParsedRows, FailedRows

(* Unless PARSE_ONLY, a row is parsed once it is at none of the early       *)
(* stages.                                                                  *)
LEMMA ParsedOrEarly ==
    ASSUME EveryRowKept, RowInv, ~ParseOnly, NEW row \in Rows
    PROVE  row \in ParsedRows <=> \A c \in Early : ~AtStage(row, c)
  <1>1. OneStage(row)
    BY DEF RowInv
  <1>2. Kept(row)
    BY DEF EveryRowKept
  <1>3. \E c \in Early \cup Late : AtStage(row, c)
    BY <1>2 DEF Kept, AtStage, Early, Late, FatedRows
  <1>4. /\ Early \subseteq Stages /\ Late \subseteq Stages
        /\ \A c \in Early, d \in Late : c # d
    BY StagesAre DEF Early, Late
  <1> QED
    BY ONLY <1>1, <1>3, <1>4, ParsedByStage DEF OneStage

(* The same of the state after a step.                                      *)
LEMMA ParsedOrEarlyAfter ==
    ASSUME EveryRowKept', RowInv', ~ParseOnly, NEW row \in Rows
    PROVE  row \in ParsedRows' <=> \A c \in Early : ~AtStage(row, c)'
  <1>1. OneStage(row)'
    BY DEF RowInv
  <1>2. Kept(row)'
    BY DEF EveryRowKept
  <1>3. \E c \in Early \cup Late : AtStage(row, c)'
    BY <1>2 DEF Kept, AtStage, Early, Late, FatedRows, Receivers, WorkerIds, InserterIds
  <1>4. /\ Early \subseteq Stages /\ Late \subseteq Stages
        /\ \A c \in Early, d \in Late : c # d
    BY StagesAre DEF Early, Late
  <1>5. \A c, d \in Stages : AtStage(row, c)' /\ AtStage(row, d)' => c = d
    BY <1>1 DEF OneStage, Stages, Refusing, Holding, Failing
  <1> QED
    BY ONLY <1>3, <1>4, <1>5, ParsedByStage

(* Rows that were not counted are added to a set that was.                  *)
LEMMA CountRows ==
    ASSUME NEW A \in SUBSET Rows, NEW B \in SUBSET Rows, A \cap B = {}
    PROVE  /\ Cardinality(A \cup B) = Cardinality(A) + Cardinality(B)
           /\ Cardinality(A) \in Nat /\ Cardinality(B) \in Nat
  <1>1. IsFiniteSet(A) /\ IsFiniteSet(B)
    BY RowsFinite, FS_Subset
  <1>2. Cardinality(A) \in Nat /\ Cardinality(B) \in Nat
    BY RowsFinite
  <1>3. Cardinality(A \cap B) = 0
    BY FS_EmptySet
  <1>4. Cardinality(A \cup B) = Cardinality(A) + Cardinality(B) - Cardinality(A \cap B)
    BY <1>1, FS_Union
  <1> QED
    BY <1>2, <1>3, <1>4

-----------------------------------------------------------------------------
(* Steps that move no row from one set to another                           *)

(* The counters of rows; under PARSE_ONLY the parsed rows go nowhere.       *)
RowCounters ==
    {"Inserted", "FailedRowsSpooled", "InsertDroppedRows", "LiveSkippedRows"}
    \cup (IF ParseOnly THEN {} ELSE {"Parsed"})

(* The members of the sets of failed rows, before and after a step.         *)
LEMMA FailedIn ==
    \A row :
        /\ row \in RefusedRows <=>
             \E w \in WorkerIds : worker[w].pc = "spool"
                                  /\ \E t \in worker[w].flush : row \in worker[w].pending[t]
        /\ row \in RefusedRows' <=>
             \E w \in WorkerIds : worker'[w].pc = "spool"
                                  /\ \E t \in worker'[w].flush : row \in worker'[w].pending[t]
        /\ row \in GivenUpRows <=>
             \E i \in InserterIds : inserter[i].pc = "spool" /\ row \in InserterHolds(i)
        /\ row \in GivenUpRows' <=>
             \E i \in InserterIds : inserter'[i].pc = "spool" /\ row \in InserterHolds(i)'
  BY DEF RefusedRows, GivenUpRows, WorkerIds, InserterIds

(* The packet workers that spool, and what they spool, stay the same.       *)
WorkersSpoolOn ==
    \A v \in WorkerIds :
        /\ worker'[v].pc = "spool" <=> worker[v].pc = "spool"
        /\ worker[v].pc = "spool" => /\ worker'[v].flush = worker[v].flush
                                     /\ worker'[v].pending = worker[v].pending

InsertersSpoolOn ==
    \A i \in InserterIds :
        /\ inserter'[i].pc = "spool" <=> inserter[i].pc = "spool"
        /\ inserter[i].pc = "spool" => inserter'[i].batch = inserter[i].batch

(* The same batches are on their way to the spool: refused ones,            *)
LEMMA RefusedSame == WorkersSpoolOn => RefusedRows' = RefusedRows
  <1> SUFFICES ASSUME WorkersSpoolOn, NEW row
               PROVE  row \in RefusedRows' <=> row \in RefusedRows
    OBVIOUS
  <1> QED
    BY FailedIn DEF WorkersSpoolOn

(* and given up ones.                                                       *)
LEMMA GivenUpSame == InsertersSpoolOn => GivenUpRows' = GivenUpRows
  <1> SUFFICES ASSUME InsertersSpoolOn, NEW row
               PROVE  row \in GivenUpRows' <=> row \in GivenUpRows
    OBVIOUS
  <1> QED
    BY FailedIn, SameBatch DEF InsertersSpoolOn

(* The fates of a failed batch are met by no step but those of the spool.   *)
LEMMA CountsKept ==
    ASSUME CountShape, ~ParseOnly => ParsedRows' = ParsedRows, WorkersSpoolOn, InsertersSpoolOn,
           UNCHANGED <<inserted, spooled, orphaned, spoolLost>>,
           \A c \in RowCounters : total'[c] = total[c]
    PROVE  CountShape'
  <1>1. FailedRows' = FailedRows
    BY RefusedSame, GivenUpSame DEF FailedRows, LostRows
  <1>2. /\ ~ParseOnly => total'["Parsed"] = total["Parsed"]
        /\ total'["Inserted"] = total["Inserted"]
        /\ total'["FailedRowsSpooled"] = total["FailedRowsSpooled"]
        /\ total'["InsertDroppedRows"] = total["InsertDroppedRows"]
        /\ total'["LiveSkippedRows"] = total["LiveSkippedRows"]
    BY DEF RowCounters
  <1> QED
    BY ONLY <1>1, <1>2, CountShape, ~ParseOnly => ParsedRows' = ParsedRows,
            UNCHANGED <<inserted, spooled, orphaned, spoolLost>> DEF CountShape

(* A step that leaves batches and fates alone.                              *)
LEMMA QuietCounts ==
    ASSUME CountShape, UNCHANGED <<insertBatches, inserted, spooled, orphaned, spoolLost>>,
           WorkersSpoolOn, InsertersSpoolOn,
           \A v \in WorkerIds : worker'[v].pending = worker[v].pending,
           \A i \in InserterIds : inserter'[i].batch = inserter[i].batch,
           \A c \in RowCounters : total'[c] = total[c]
    PROVE  CountShape'
  <1>1. PendingRows' = PendingRows /\ QueuedRows' = QueuedRows /\ InsertingRows' = InsertingRows
    <2>1. ASSUME NEW row
          PROVE  /\ row \in PendingRows' <=> row \in PendingRows
                 /\ row \in QueuedRows' <=> row \in QueuedRows
                 /\ row \in InsertingRows' <=> row \in InsertingRows
      BY RowsIn, SameBatch
    <2> QED
      BY <2>1
  <1>2. ParsedRows' = ParsedRows
    BY <1>1 DEF ParsedRows, LostRows
  <1> QED
    BY <1>2, CountsKept

(* No row enters or leaves the early stages.                                *)
LEMMA ParsedKept ==
    ASSUME TypeOK, TypeOK', EveryRowKept, EveryRowKept', RowInv, RowInv', ~ParseOnly,
           UNCHANGED <<wire, discarded, reader, packetChannel>>,
           \A v \in WorkerIds : WorkerHolds(v)' = WorkerHolds(v)
    PROVE  ParsedRows' = ParsedRows
  <1>1. ParsedRows \in SUBSET Rows /\ ParsedRows' \in SUBSET Rows
    <2>1. ASSUME NEW row \in ParsedRows' PROVE row \in Rows
      <3>1. /\ \A w \in WorkerIds, t \in Tables : worker'[w].pending[t] \in SUBSET Rows
            /\ \A i \in InserterIds : inserter'[i].batch \in Batch \cup {NoBatch}
            /\ \A n \in DOMAIN insertBatches' : insertBatches'[n] \in Batch
            /\ (inserted \cup spooled \cup orphaned \cup spoolLost)' \subseteq Rows
        <4>1. worker' \in [WorkerIds -> WorkerState] /\ inserter' \in [InserterIds -> InserterState]
          BY DEF TypeOK, WorkerIds, InserterIds, WorkerState, InserterState, Batch, Rows, RowsOf
        <4>2. insertBatches' \in Seq(Batch)
          BY DEF TypeOK, Batch, Rows, RowsOf
        <4>3. inserted' \subseteq Rows /\ spooled' \subseteq Rows /\ orphaned' \subseteq Rows
              /\ spoolLost' \subseteq Rows
          BY DEF TypeOK, Rows, RowsOf
        <4> QED
          BY <4>1, <4>2, <4>3 DEF WorkerState, InserterState
      <3>2. \A i \in InserterIds : InserterHolds(i)' \in SUBSET Rows
        BY <3>1 DEF InserterHolds, Batch
      <3>3. \A n \in DOMAIN insertBatches' : insertBatches'[n].rows \in SUBSET Rows
        BY <3>1 DEF Batch
      <3>4. PendingRows' \subseteq Rows /\ QueuedRows' \subseteq Rows /\ InsertingRows' \subseteq Rows
        BY <3>1, <3>2, <3>3, RowsIn
      <3> QED
        BY <3>1, <3>4 DEF ParsedRows, LostRows
    <2> QED
      BY <2>1, SetsOfRows
  <1>2. ASSUME NEW row \in Rows, NEW c \in Early
        PROVE  AtStage(row, c)' <=> AtStage(row, c)
    <2>1. \A r \in Receivers : ReaderHolds(r)' = ReaderHolds(r)
      BY DEF ReaderHolds
    <2>2. CASE c \in {"wire", "discarded", "reader"}
      BY <2>1, <2>2 DEF AtStage, Receivers
    <2>3. CASE c = "channel"
      BY <2>3, StageOfSequences
    <2>4. CASE c = "worker"
      BY <2>4, StageOfWorkers
    <2> QED
      BY <2>2, <2>3, <2>4 DEF Early
  <1>3. \A row \in Rows : row \in ParsedRows' <=> row \in ParsedRows
    BY <1>2, ParsedOrEarly, ParsedOrEarlyAfter
  <1> QED
    BY <1>1, <1>3

-----------------------------------------------------------------------------
(* Receivers, main and the supervisor                                       *)

(* The receivers touch no row that was parsed.                              *)
LEMMA ReaderCounts ==
    ASSUME TypeOK, CountShape, FlushShape, NEW r \in Receivers, ReadBatch(r) \/ TransientErrorAtStop(r) \/ ReaderStep(r)
    PROVE  CountShape' /\ FlushShape'
  <1>1. UNCHANGED <<worker, insertBatches, inserter, inserted, spooled, orphaned, spoolLost>>
    BY DEF ReadBatch, ReaderStep, ReadErrorAtStop, TransientErrorAtStop, LeaveAtStop, SkipEmpty, CountReceived, SendPacket,
           DiscardAtStop, readUnchanged, insertVars, spoolVars
  <1>2. \A c \in RowCounters : total'[c] = total[c]
    <2>1. total' \in {total, [total EXCEPT !["Received"] = @ + 1]}
      BY DEF ReadBatch, ReaderStep, ReadErrorAtStop, TransientErrorAtStop, LeaveAtStop, SkipEmpty, CountReceived, SendPacket,
             DiscardAtStop
    <2> QED
      BY <2>1 DEF TypeOK, Counters, RowCounters
  <1>3. CountShape'
    BY <1>1, <1>2, QuietCounts DEF WorkersSpoolOn, InsertersSpoolOn
  <1> QED
    BY <1>1, <1>3 DEF FlushShape, WorkerIds

(* Neither does main, nor the supervisor: a new worker has nothing to spool. *)
LEMMA OtherCounts ==
    ASSUME TypeOK, Shape, CountShape, FlushShape,
           RequestStop \/ Shutdown \/ SampleQueues \/ SpawnWorkers \/ TunerReturn \/ UNCHANGED vars
    PROVE  CountShape' /\ FlushShape'
  <1>1. UNCHANGED <<insertBatches, inserted, spooled, orphaned, spoolLost, total>>
    BY DEF RequestStop, Shutdown, CloseNextReceiver, MainStep, SampleQueues, SpawnWorkers,
           TunerReturn, tuneUnchanged, vars, insertVars, spoolVars
  <1>2. \A w \in WorkerIds : /\ worker'[w].pending = worker[w].pending
                             /\ worker'[w].flush = worker[w].flush
                             /\ \/ worker'[w].pc = worker[w].pc
                                \/ worker[w].pc = "unspawned" /\ worker'[w].pc = "select"
    <2>1. CASE ~SpawnWorkers
      <3>1. UNCHANGED worker
        BY <2>1 DEF RequestStop, Shutdown, CloseNextReceiver, MainStep, SampleQueues,
                    TunerReturn, tuneUnchanged, vars
      <3> QED
        BY <3>1
    <2>2. CASE SpawnWorkers
      <3> SUFFICES ASSUME NEW w \in WorkerIds
                   PROVE  /\ worker'[w].pending = worker[w].pending
                          /\ worker'[w].flush = worker[w].flush
                          /\ \/ worker'[w].pc = worker[w].pc
                             \/ worker[w].pc = "unspawned" /\ worker'[w].pc = "select"
        OBVIOUS
      <3>1. worker[w] \in WorkerState
        BY DEF TypeOK
      <3>2. worker'[w] = IF w \in currentPacketWorkers + 1 .. currentPacketWorkers + tuner.packet
                         THEN [worker[w] EXCEPT !.pc = "select"] ELSE worker[w]
        BY <2>2 DEF SpawnWorkers
      <3>3. w \in currentPacketWorkers + 1 .. currentPacketWorkers + tuner.packet
              => worker[w].pc = "unspawned"
        BY DEF TypeOK, Shape, WorkerShape, WorkerIds
      <3> QED
        BY <3>1, <3>2, <3>3 DEF WorkerState
    <2> QED
      BY <2>1, <2>2
  <1>3. \A i \in InserterIds : /\ inserter'[i].batch = inserter[i].batch
                               /\ \/ inserter'[i].pc = inserter[i].pc
                                  \/ inserter[i].pc = "unspawned" /\ inserter'[i].pc = "recv"
    <2>1. CASE ~SpawnWorkers
      <3>1. UNCHANGED inserter
        BY <2>1 DEF RequestStop, Shutdown, CloseNextReceiver, MainStep, SampleQueues,
                    TunerReturn, tuneUnchanged, insertVars, vars
      <3> QED
        BY <3>1
    <2>2. CASE SpawnWorkers
      <3> SUFFICES ASSUME NEW i \in InserterIds
                   PROVE  /\ inserter'[i].batch = inserter[i].batch
                          /\ \/ inserter'[i].pc = inserter[i].pc
                             \/ inserter[i].pc = "unspawned" /\ inserter'[i].pc = "recv"
        OBVIOUS
      <3>1. inserter[i] \in InserterState
        BY DEF TypeOK
      <3>2. inserter'[i] = IF i \in currentInsertWorkers + 1 .. currentInsertWorkers + tuner.insert
                           THEN [inserter[i] EXCEPT !.pc = "recv"] ELSE inserter[i]
        BY <2>2 DEF SpawnWorkers
      <3>3. i \in currentInsertWorkers + 1 .. currentInsertWorkers + tuner.insert
              => inserter[i].pc = "unspawned"
        BY DEF TypeOK, Shape, InserterShape, InserterIds
      <3> QED
        BY <3>1, <3>2, <3>3 DEF InserterState
    <2> QED
      BY <2>1, <2>2
  <1>4. WorkersSpoolOn /\ InsertersSpoolOn
    BY <1>2, <1>3 DEF WorkersSpoolOn, InsertersSpoolOn
  <1>5. CountShape'
    BY <1>1, <1>2, <1>3, <1>4, QuietCounts
  <1>6. FlushShape'
    <2> SUFFICES ASSUME NEW w \in WorkerIds, worker'[w].pc \in {"watermark", "send", "spool"}
                 PROVE  \E t \in Tables : worker'[w].flush = {t}
      BY DEF FlushShape, WorkerIds
    <2> QED
      BY <1>2 DEF FlushShape
  <1> QED
    BY <1>5, <1>6

-----------------------------------------------------------------------------
(* Packet workers                                                           *)

(* A worker that neither comes from the spool nor goes there.               *)
LEMMA WorkerNotSpooling ==
    ASSUME TypeOK, FlushShape, NEW w \in WorkerIds, NEW x, worker' = [worker EXCEPT ![w] = x],
           worker[w].pc # "spool", x.pc # "spool",
           x.pc \in {"watermark", "send"} => \E t \in Tables : x.flush = {t}
    PROVE  WorkersSpoolOn /\ FlushShape'
  <1>1. worker'[w] = x /\ \A v \in WorkerIds \ {w} : worker'[v] = worker[v]
    BY DEF TypeOK
  <1>2. WorkersSpoolOn
    BY <1>1 DEF WorkersSpoolOn
  <1>3. FlushShape'
    <2> SUFFICES ASSUME NEW v \in WorkerIds, worker'[v].pc \in {"watermark", "send", "spool"}
                 PROVE  \E t \in Tables : worker'[v].flush = {t}
      BY DEF FlushShape, WorkerIds
    <2>1. CASE v = w
      BY <1>1, <2>1
    <2>2. CASE v # w
      BY <1>1, <2>2 DEF FlushShape
    <2> QED
      BY <2>1, <2>2
  <1> QED
    BY <1>2, <1>3

(* Packets that are rejected, or only counted, have no rows in the sets.    *)
LEMMA CountingCounts ==
    ASSUME TypeOK, CountShape, FlushShape, NEW w \in WorkerIds, RejectPacket(w) \/ CountPacketOnly(w)
    PROVE  CountShape' /\ FlushShape'
  <1>1. UNCHANGED <<worker, insertBatches, inserter, inserted, spooled, orphaned, spoolLost>>
    BY DEF RejectPacket, CountPacketOnly, takeUnchanged, insertVars, spoolVars
  <1>2. \A c \in RowCounters : total'[c] = total[c]
    <2>1. total \in [Counters -> Nat] /\ "Parsed" # "PacketProcessed"
      BY DEF TypeOK
    <2>2. CASE RejectPacket(w)
      BY <2>1, <2>2 DEF RejectPacket, Counters, RowCounters
    <2>3. CASE CountPacketOnly(w)
      <3>1. ParseOnly /\ \A c \in Counters \ {"Parsed", "PacketProcessed"} : total'[c] = total[c]
        BY <2>1, <2>3 DEF CountPacketOnly
      <3> QED
        BY <3>1 DEF Counters, RowCounters
    <2> QED
      BY <2>2, <2>3
  <1>3. CountShape'
    BY <1>1, <1>2, QuietCounts DEF WorkersSpoolOn, InsertersSpoolOn
  <1> QED
    BY <1>1, <1>3 DEF FlushShape, WorkerIds

(* Steps of a worker that leave its pending batches alone.                  *)
LEMMA WaitingCounts ==
    ASSUME TypeOK, CountShape, FlushShape, NEW w \in WorkerIds,
           TakePacket(w) \/ FinishPacket(w) \/ FlushAll(w) \/ SweepTable(w) \/ WorkerReturn(w)
           \/ AdmitBatch(w)
    PROVE  CountShape' /\ FlushShape'
  <1>0. worker[w] \in WorkerState
    BY DEF TypeOK
  <1>1. UNCHANGED <<insertBatches, inserter, inserted, spooled, orphaned, spoolLost>>
    BY DEF TakePacket, FinishPacket, FlushAll, SweepTable, WorkerReturn, AdmitBatch,
           takeUnchanged, flushUnchanged, insertVars, spoolVars
  <1>2. \A c \in RowCounters : total'[c] = total[c]
    <2>1. total' \in {total, [total EXCEPT !["PacketProcessed"] = @ + 1]}
      BY DEF TakePacket, FinishPacket, FlushAll, SweepTable, WorkerReturn, AdmitBatch
    <2> QED
      BY <2>1 DEF TypeOK, Counters, RowCounters
  <1> DEFINE Fits(x) == /\ worker[w].pc # "spool" /\ x.pc # "spool"
                        /\ x.pc \in {"watermark", "send"} => \E t \in Tables : x.flush = {t}
                        /\ x.pending = worker[w].pending
  <1>3. \E x : worker' = [worker EXCEPT ![w] = x] /\ Fits(x)
    <2>1. CASE TakePacket(w)
      <3> DEFINE x == [worker[w] EXCEPT !.pc = "append", !.pkt = Head(packetChannel)]
      <3>1. worker' = [worker EXCEPT ![w] = x] /\ worker[w].pc # "spool"
        BY <2>1 DEF TakePacket
      <3>2. Fits(x)
        BY <1>0, <3>1 DEF WorkerState
      <3> HIDE DEF x, Fits
      <3> QED
        BY <3>1, <3>2
    <2>2. CASE FinishPacket(w)
      <3> DEFINE x == [worker[w] EXCEPT !.pc = "select", !.pkt = NoPacket, !.k = 1]
      <3>1. worker' = [worker EXCEPT ![w] = x] /\ worker[w].pc # "spool"
        BY <2>2 DEF FinishPacket
      <3>2. Fits(x)
        BY <1>0, <3>1 DEF WorkerState
      <3> HIDE DEF x, Fits
      <3> QED
        BY <3>1, <3>2
    <2>3. CASE FlushAll(w)
      <3> DEFINE x == [worker[w] EXCEPT !.pc = "sweep", !.sweep = NonEmpty(w)]
      <3>1. worker' = [worker EXCEPT ![w] = x] /\ worker[w].pc # "spool"
        BY <2>3 DEF FlushAll
      <3>2. Fits(x)
        BY <1>0, <3>1 DEF WorkerState
      <3> HIDE DEF x, Fits
      <3> QED
        BY <3>1, <3>2
    <2>4. CASE SweepTable(w)
      <3>1. PICK t \in worker[w].sweep : worker' = [worker EXCEPT ![w] = Sweeping(w, t)]
        BY <2>4 DEF SweepTable
      <3>2. t \in Tables /\ FlushPc \in {"watermark", "send"} /\ worker[w].pc # "spool"
        BY <1>0, <2>4 DEF WorkerState, FlushPc, SweepTable
      <3>3. /\ Sweeping(w, t).pc = FlushPc /\ Sweeping(w, t).flush = {t}
            /\ Sweeping(w, t).pending = worker[w].pending
        BY <1>0 DEF Sweeping, WorkerState
      <3> QED
        BY <3>1, <3>2, <3>3
    <2>5. CASE WorkerReturn(w)
      <3> DEFINE x == [worker[w] EXCEPT !.pc = "exited"]
      <3>1. worker' = [worker EXCEPT ![w] = x] /\ worker[w].pc # "spool"
        BY <2>5 DEF WorkerReturn
      <3>2. Fits(x)
        BY <1>0, <3>1 DEF WorkerState
      <3> HIDE DEF x, Fits
      <3> QED
        BY <3>1, <3>2
    <2>6. CASE AdmitBatch(w)
      <3> DEFINE x == [worker[w] EXCEPT !.pc = "send"]
      <3>1. worker' = [worker EXCEPT ![w] = x] /\ worker[w].pc # "spool"
        BY <2>6 DEF AdmitBatch
      <3>3. \E t \in Tables : worker[w].flush = {t}
        BY <2>6 DEF AdmitBatch, FlushShape
      <3>2. Fits(x)
        BY <1>0, <3>1, <3>3 DEF WorkerState
      <3> HIDE DEF x, Fits
      <3> QED
        BY <3>1, <3>2
    <2> QED
      BY <2>1, <2>2, <2>3, <2>4, <2>5, <2>6
  <1>4. WorkersSpoolOn /\ FlushShape' /\ \A v \in WorkerIds : worker'[v].pending = worker[v].pending
    <2>1. PICK x : worker' = [worker EXCEPT ![w] = x] /\ Fits(x)
      BY <1>3
    <2>2. WorkersSpoolOn /\ FlushShape'
      BY <2>1, WorkerNotSpooling
    <2> QED
      BY <2>1, <2>2 DEF TypeOK
  <1>5. CountShape'
    BY <1>1, <1>2, <1>4, QuietCounts DEF InsertersSpoolOn
  <1> QED
    BY <1>4, <1>5

(* The row in hand is counted as it joins the pending batch of its table.   *)
LEMMA AppendEntryCounts ==
    ASSUME TypeOK, Shape, RowInv, CountShape, FlushShape, NEW w \in WorkerIds, AppendEntry(w)
    PROVE  CountShape' /\ FlushShape'
  <1> DEFINE e == <<worker[w].pkt, worker[w].k>>
             t == Records[worker[w].pkt][worker[w].k]
             rows == worker[w].pending[t] \cup {e}
  <1>1. /\ UNCHANGED <<inserter, inserted, insertBatches, spooled, orphaned, spoolLost>>
        /\ worker' = [worker EXCEPT ![w] = WithEntry(w)]
        /\ worker[w].pc = "append" /\ worker[w].k <= Len(Records[worker[w].pkt])
        /\ total' = [total EXCEPT !["Parsed"] = @ + 1]
    BY DEF AppendEntry, takeUnchanged, inputVars, insertVars, spoolVars
  <1>2. /\ worker \in [WorkerIds -> WorkerState] /\ worker[w].pkt \in Packets
        /\ worker[w].pkt # NoPacket /\ worker[w].k \in Nat \ {0}
        /\ worker[w].pending \in [Tables -> SUBSET Rows]
    <2>1. worker \in [WorkerIds -> WorkerState] /\ worker[w].pkt # NoPacket
      BY <1>1 DEF TypeOK, Shape, WorkerShape
    <2> QED
      BY <2>1 DEF WorkerState
  <1>3. e \in Rows /\ t \in Tables
    BY <1>1, <1>2, RowOfPacket
  <1>4. /\ WithEntry(w).pending = [worker[w].pending EXCEPT ![t] = rows]
        /\ WithEntry(w).pc \in {FlushPc, "append"}
        /\ WithEntry(w).pc # "append" => WithEntry(w).flush = {t}
        /\ FlushPc \in {"watermark", "send"}
    BY <1>2 DEF WithEntry, WorkerState, FlushPc
  <1>5. WorkersSpoolOn /\ FlushShape'
    <2> DEFINE x == WithEntry(w)
    <2>1. /\ worker' = [worker EXCEPT ![w] = x] /\ worker[w].pc # "spool" /\ x.pc # "spool"
          /\ x.pc \in {"watermark", "send"} => \E s \in Tables : x.flush = {s}
      BY <1>1, <1>3, <1>4
    <2> HIDE DEF x
    <2> QED
      BY <2>1, WorkerNotSpooling
  <1>6. worker'[w].pending[t] = rows
        /\ \A v \in WorkerIds, s \in Tables :
              v # w \/ s # t => worker'[v].pending[s] = worker[v].pending[s]
    <2>1. /\ worker'[w].pending = [worker[w].pending EXCEPT ![t] = rows]
          /\ \A v \in WorkerIds \ {w} : worker'[v] = worker[v]
      BY <1>1, <1>2, <1>4
    <2> HIDE DEF rows, t
    <2> QED
      BY ONLY TypeOK, <1>3, <2>1, w \in WorkerIds, PendingChanges
  <1> HIDE DEF t
  <1>7. PendingRows' = PendingRows \cup {e}
    <2>1. ASSUME NEW row
          PROVE  row \in PendingRows' <=> row \in PendingRows \/ row = e
      BY <1>3, <1>6, RowsIn
    <2> QED
      BY <2>1
  <1>8. QueuedRows' = QueuedRows /\ InsertingRows' = InsertingRows
    <2>1. ASSUME NEW row
          PROVE  (row \in QueuedRows' <=> row \in QueuedRows)
                 /\ (row \in InsertingRows' <=> row \in InsertingRows)
      BY <1>1, RowsIn, SameBatch
    <2> QED
      BY <2>1
  <1>9. ParsedRows' = ParsedRows \cup {e}
    BY <1>1, <1>7, <1>8 DEF ParsedRows, LostRows
  <1>10. e \notin ParsedRows
    <2>1. e \in WorkerHolds(w)
      <3>1. e \in RowsOf(worker[w].pkt)
        BY <1>1, <1>2, TrafficAssumption DEF RowsOf
      <3> QED
        BY <1>2, <3>1 DEF WorkerHolds
    <2>2. AtStage(e, "worker")
      BY <1>3, <2>1, StageOfWorkers
    <2> HIDE DEF e
    <2>3. \A c \in Late : ~AtStage(e, c)
      BY <1>3, <2>2, StagesAre DEF RowInv, OneStage, Late
    <2> QED
      BY <2>3, ParsedByStage
  <1> HIDE DEF e
  <1>11. Cardinality(ParsedRows') = Cardinality(ParsedRows) + 1
    <2>1. IsFiniteSet(ParsedRows)
      BY SetsOfRows, RowsFinite, FS_Subset
    <2> QED
      BY <1>9, <1>10, <2>1, FS_AddElement
  <1>12. /\ total'["Parsed"] = total["Parsed"] + 1
         /\ \A c \in RowCounters \ {"Parsed"} : total'[c] = total[c]
    BY <1>1 DEF TypeOK, Counters, RowCounters
  <1>13. FailedRows' = FailedRows
    <2>1. InsertersSpoolOn
      BY <1>1 DEF InsertersSpoolOn
    <2> QED
      BY <1>1, <1>5, <2>1, RefusedSame, GivenUpSame DEF FailedRows, LostRows
  <1>14. CountShape'
    BY ONLY CountShape, <1>1, <1>11, <1>12, <1>13 DEF CountShape, RowCounters
  <1> QED
    BY <1>5, <1>14

(* A batch that is sent stays parsed.                                       *)
LEMMA SendBatchCounts ==
    ASSUME IInv, IInv', RowInv, RowInv', CountShape, FlushShape, NEW w \in WorkerIds, SendBatch(w)
    PROVE  CountShape' /\ FlushShape'
  <1>1. /\ UNCHANGED <<wire, discarded, reader, packetChannel, total>>
        /\ UNCHANGED <<inserter, inserted, spooled, orphaned, spoolLost>>
        /\ worker[w].pc = "send" /\ TypeOK /\ worker[w] \in WorkerState
    BY DEF SendBatch, flushUnchanged, inputVars, insertVars, spoolVars, IInv, TypeOK
  <1>2. PICK t \in worker[w].flush : worker' = [worker EXCEPT ![w] = Resume(w, t)]
    BY DEF SendBatch
  <1>3. t \in Tables
    BY <1>1 DEF WorkerState
  <1>4. Resume(w, t).pc \in {"append", "sweep", "select"}
    BY <1>1 DEF Resume, WorkerState
  <1>5. WorkersSpoolOn /\ FlushShape'
    BY <1>1, <1>2, <1>4, WorkerNotSpooling
  <1>6. \A v \in WorkerIds : WorkerHolds(v)' = WorkerHolds(v)
    BY <1>1, <1>2, <1>3, PendingLeaves
  <1>7. ~ParseOnly => ParsedRows' = ParsedRows
    BY <1>1, <1>6, ParsedKept DEF IInv
  <1>8. InsertersSpoolOn
    BY <1>1 DEF InsertersSpoolOn
  <1>9. CountShape'
    BY <1>1, <1>5, <1>7, <1>8, CountsKept
  <1> QED
    BY <1>5, <1>9

(* A worker that refuses its batch goes to the spool with it.               *)
LEMMA RefuseBatchCounts ==
    ASSUME TypeOK, RowInv, CountShape, FlushShape, NEW w \in WorkerIds, RefuseBatch(w)
    PROVE  CountShape' /\ FlushShape'
  <1>1. /\ UNCHANGED <<inserter, inserted, insertBatches, spooled, orphaned, spoolLost>>
        /\ worker' = [worker EXCEPT ![w].pc = "spool"]
        /\ worker[w].pc \in {"watermark", "send"} /\ worker \in [WorkerIds -> WorkerState]
    BY DEF RefuseBatch, flushUnchanged, insertVars, spoolVars, TypeOK
  <1>2. PICK t \in Tables : worker[w].flush = {t}
    BY <1>1 DEF FlushShape
  <1> DEFINE S == worker[w].pending[t]
  <1>3. total' = [total EXCEPT !["LiveSkippedRows"] = @ + Cardinality(S)]
    BY <1>2 DEF RefuseBatch
  <1>4. /\ worker'[w].pc = "spool" /\ worker'[w].pending = worker[w].pending
        /\ worker'[w].flush = {t}
        /\ \A v \in WorkerIds \ {w} : worker'[v] = worker[v]
    BY <1>1, <1>2 DEF WorkerState
  <1>5. FlushShape'
    <2> SUFFICES ASSUME NEW v \in WorkerIds, worker'[v].pc \in {"watermark", "send", "spool"}
                 PROVE  \E s \in Tables : worker'[v].flush = {s}
      BY DEF FlushShape, WorkerIds
    <2> QED
      BY <1>2, <1>4 DEF FlushShape
  <1>6. S \in SUBSET Rows
    BY <1>1 DEF WorkerState
  <1>7. RefusedRows' = RefusedRows \cup S
    <2> SUFFICES ASSUME NEW row
                 PROVE  row \in RefusedRows' <=> row \in RefusedRows \/ row \in S
      OBVIOUS
    <2>1. \A v \in WorkerIds \ {w} :
             /\ worker'[v].pc = "spool" <=> worker[v].pc = "spool"
             /\ worker'[v].flush = worker[v].flush /\ worker'[v].pending = worker[v].pending
      BY <1>4
    <2> QED
      BY <1>1, <1>4, <2>1, FailedIn
  <1>8. S \cap FailedRows = {}
    <2> SUFFICES ASSUME NEW row \in S, row \in FailedRows
                 PROVE  FALSE
      OBVIOUS
    <2>1. row \in Rows /\ AtStage(row, "pending")
      BY <1>6, StageOfWorkers
    <2>2. OneStage(row) /\ OnePending(row)
      BY <2>1 DEF RowInv, OnceThere
    <2>3. CASE row \in spooled \cup LostRows
      BY <2>1, <2>2, <2>3, StagesAre DEF OneStage, AtStage, LostRows
    <2>4. CASE row \in GivenUpRows
      <3>1. AtStage(row, "inserter")
        BY <2>1, <2>4, FailedIn, StageOfInserters
      <3> QED
        BY <2>1, <2>2, <3>1, StagesAre DEF OneStage
    <2>5. CASE row \in RefusedRows
      <3>1. PICK v \in WorkerIds : worker[v].pc = "spool"
                                   /\ \E s \in worker[v].flush : row \in worker[v].pending[s]
        BY <2>5, FailedIn
      <3>2. PICK s \in worker[v].flush : row \in worker[v].pending[s]
        BY <3>1
      <3>3. s \in Tables /\ v # w
        BY <1>1, <3>1, <3>2 DEF WorkerState
      <3> QED
        BY <2>2, <3>2, <3>3 DEF OnePending
    <2> QED
      BY <2>3, <2>4, <2>5 DEF FailedRows
  <1> HIDE DEF S
  <1>9. GivenUpRows' = GivenUpRows /\ FailedRows' = FailedRows \cup S
    <2>1. GivenUpRows' = GivenUpRows
      BY <1>1, GivenUpSame DEF InsertersSpoolOn
    <2> QED
      BY <1>1, <1>7, <2>1 DEF FailedRows, LostRows
  <1>10. ParsedRows' = ParsedRows
    <2>1. ASSUME NEW row
          PROVE  /\ row \in PendingRows' <=> row \in PendingRows
                 /\ row \in QueuedRows' <=> row \in QueuedRows
                 /\ row \in InsertingRows' <=> row \in InsertingRows
      BY <1>1, <1>4, RowsIn, SameBatch
    <2>2. PendingRows' = PendingRows /\ QueuedRows' = QueuedRows /\ InsertingRows' = InsertingRows
      BY <2>1
    <2> QED
      BY <1>1, <2>2 DEF ParsedRows, LostRows
  <1>11. /\ Cardinality(FailedRows') = Cardinality(FailedRows) + Cardinality(S)
         /\ Cardinality(FailedRows) \in Nat /\ Cardinality(S) \in Nat
    <2>1. FailedRows \in SUBSET Rows /\ FailedRows \cap S = {}
      BY <1>8, SetsOfRows
    <2> QED
      BY <1>6, <1>9, <2>1, CountRows
  <1>12. /\ total'["LiveSkippedRows"] = total["LiveSkippedRows"] + Cardinality(S)
         /\ \A c \in RowCounters \ {"LiveSkippedRows"} : total'[c] = total[c]
         /\ total["LiveSkippedRows"] \in Nat /\ total["InsertDroppedRows"] \in Nat
    BY <1>3 DEF TypeOK, Counters, RowCounters
  <1>13. CountShape'
    BY ONLY CountShape, <1>1, <1>10, <1>11, <1>12 DEF CountShape, RowCounters
  <1> QED
    BY <1>5, <1>13

(* What an outcome of the spool counts: the rows of a whole pair of files.  *)
LEMMA SpoolCounts ==
    ASSUME TypeOK, CountShape, NEW S \in SUBSET Rows, S \cap spooled = {}, Spool(S)
    PROVE  /\ total'["FailedRowsSpooled"] = Cardinality(spooled')
           /\ spooled' \cup LostRows' = spooled \cup LostRows \cup S
           /\ \A c \in RowCounters \ {"FailedRowsSpooled"} : total'[c] = total[c]
  <1>1. /\ total \in [Counters -> Nat] /\ total["FailedRowsSpooled"] = Cardinality(spooled)
        /\ spooled \in SUBSET Rows
    BY DEF TypeOK, CountShape
  <1>2. RowCounters \subseteq Counters /\ "FailedSpoolErrors" \notin RowCounters
        /\ "FailedRowsSpooled" \in Counters
    BY DEF RowCounters, Counters
  <1>3. CASE /\ spooled' = spooled \cup S /\ UNCHANGED <<orphaned, spoolLost>>
             /\ total' = [total EXCEPT !["FailedRowsSpooled"] = @ + Cardinality(S)]
    <2>1. Cardinality(spooled') = Cardinality(spooled) + Cardinality(S)
      BY <1>1, <1>3, CountRows
    <2>2. total'["FailedRowsSpooled"] = total["FailedRowsSpooled"] + Cardinality(S)
          /\ \A c \in RowCounters \ {"FailedRowsSpooled"} : total'[c] = total[c]
      BY ONLY <1>1, <1>2, <1>3
    <2> QED
      BY <1>1, <1>3, <2>1, <2>2 DEF LostRows
  <1>4. CASE /\ UNCHANGED spooled /\ orphaned' \cup spoolLost' = orphaned \cup spoolLost \cup S
             /\ total' = [total EXCEPT !["FailedSpoolErrors"] = @ + 1]
    <2>1. \A c \in RowCounters : total'[c] = total[c]
      BY ONLY <1>1, <1>2, <1>4
    <2>2. "FailedRowsSpooled" \in RowCounters
      BY DEF RowCounters
    <2> QED
      BY <1>1, <1>4, <2>1, <2>2 DEF LostRows
  <1> QED
    BY <1>3, <1>4 DEF Spool

(* A refused batch meets its fate in the spool, and stays failed.           *)
LEMMA SpoolRefusedCounts ==
    ASSUME IInv, IInv', RowInv, RowInv', CountShape, FlushShape, NEW w \in WorkerIds,
           SpoolRefused(w)
    PROVE  CountShape' /\ FlushShape'
  <1>1. /\ UNCHANGED <<wire, discarded, reader, packetChannel, inserter, inserted, insertBatches>>
        /\ worker[w].pc = "spool" /\ TypeOK /\ worker \in [WorkerIds -> WorkerState]
    BY DEF SpoolRefused, flushUnchanged, inputVars, insertVars, IInv, TypeOK
  <1>2. PICK t \in worker[w].flush : /\ Spool(worker[w].pending[t])
                                     /\ worker' = [worker EXCEPT ![w] = Resume(w, t)]
    BY DEF SpoolRefused
  <1>3. t \in Tables /\ worker[w].flush = {t}
    BY <1>1, <1>2 DEF WorkerState, FlushShape
  <1>4. Resume(w, t).pc \in {"append", "sweep", "select"}
    BY <1>1 DEF Resume, WorkerState
  <1>5. worker'[w].pc \in {"append", "sweep", "select"}
        /\ \A v \in WorkerIds \ {w} : worker'[v] = worker[v]
    BY <1>1, <1>2, <1>4
  <1>6. FlushShape'
    <2> SUFFICES ASSUME NEW v \in WorkerIds, worker'[v].pc \in {"watermark", "send", "spool"}
                 PROVE  \E s \in Tables : worker'[v].flush = {s}
      BY DEF FlushShape, WorkerIds
    <2> QED
      BY <1>5 DEF FlushShape
  <1> DEFINE S == worker[w].pending[t]
  <1>7. S \in SUBSET Rows /\ S \cap spooled = {}
    <2>1. S \in SUBSET Rows
      BY <1>1, <1>3 DEF WorkerState
    <2>2. \A row \in S : AtStage(row, "pending") /\ row \in Rows
      BY <1>3, <2>1, StageOfWorkers
    <2> QED
      BY <2>1, <2>2, StagesAre DEF RowInv, OneStage, AtStage
  <1>8. Spool(S)
    BY <1>2
  <1>9. RefusedRows = RefusedRows' \cup S
    <2> SUFFICES ASSUME NEW row
                 PROVE  row \in RefusedRows <=> row \in RefusedRows' \/ row \in S
      OBVIOUS
    <2> QED
      BY <1>1, <1>3, <1>5, FailedIn
  <1>10. \A v \in WorkerIds : WorkerHolds(v)' = WorkerHolds(v)
    BY <1>1, <1>2, <1>3, PendingLeaves
  <1> HIDE DEF S
  <1>11. /\ total'["FailedRowsSpooled"] = Cardinality(spooled')
         /\ spooled' \cup LostRows' = spooled \cup LostRows \cup S
         /\ \A c \in RowCounters \ {"FailedRowsSpooled"} : total'[c] = total[c]
    BY <1>1, <1>7, <1>8, SpoolCounts
  <1>12. GivenUpRows' = GivenUpRows
    BY <1>1, GivenUpSame DEF InsertersSpoolOn
  <1>13. FailedRows' = FailedRows
    BY ONLY <1>9, <1>11, <1>12 DEF FailedRows
  <1>14. ~ParseOnly => ParsedRows' = ParsedRows
    BY <1>1, <1>10, ParsedKept DEF IInv
  <1>15. CountShape'
    BY ONLY CountShape, <1>1, <1>11, <1>13, <1>14 DEF CountShape, RowCounters
  <1> QED
    BY <1>6, <1>15

(* Every step of a packet worker.                                           *)
LEMMA WorkerCounts ==
    ASSUME IInv, IInv', RowInv, RowInv', CountShape, FlushShape, NEW w \in WorkerIds, WorkerStep(w)
    PROVE  CountShape' /\ FlushShape'
  BY CountingCounts, WaitingCounts, AppendEntryCounts, SendBatchCounts, RefuseBatchCounts,
     SpoolRefusedCounts DEF WorkerStep, IInv

-----------------------------------------------------------------------------
(* Insert workers                                                           *)

(* No packet worker moves.                                                  *)
LEMMA InserterLeaves ==
    ASSUME FlushShape, NEW i \in InserterIds, InserterStep(i)
    PROVE  /\ UNCHANGED <<wire, discarded, reader, packetChannel, worker>>
           /\ WorkersSpoolOn /\ FlushShape'
           /\ \A v \in WorkerIds : WorkerHolds(v)' = WorkerHolds(v)
  <1>1. UNCHANGED <<wire, discarded, reader, packetChannel, worker>>
    BY DEF InserterStep, ReceiveBatch, EnsureTable, CreateTable, CreateTableFails,
           InsertSucceeds, InsertFails, SpoolExhausted, InserterReturn, insertUnchanged, inputVars
  <1>2. \A v \in WorkerIds : WorkerHolds(v)' = WorkerHolds(v)
    BY <1>1, SameWork
  <1> QED
    BY <1>1, <1>2 DEF WorkersSpoolOn, FlushShape, WorkerIds

(* An insert worker that neither comes from the spool nor goes there.       *)
LEMMA InserterNotSpooling ==
    ASSUME TypeOK, NEW i \in InserterIds, NEW x, inserter' = [inserter EXCEPT ![i] = x],
           inserter[i].pc # "spool", x.pc # "spool"
    PROVE  InsertersSpoolOn
  BY DEF TypeOK, InsertersSpoolOn

(* Steps of an insert worker that meet no fate.                             *)
LEMMA InsertingCounts ==
    ASSUME IInv, IInv', RowInv, RowInv', CountShape, FlushShape, NEW i \in InserterIds,
           InserterStep(i), UNCHANGED <<inserted, spooled, orphaned, spoolLost>>,
           InsertersSpoolOn, \A c \in RowCounters : total'[c] = total[c]
    PROVE  CountShape' /\ FlushShape'
  <1>1. ~ParseOnly => ParsedRows' = ParsedRows
    BY InserterLeaves, ParsedKept DEF IInv
  <1> QED
    BY <1>1, InserterLeaves, CountsKept

(* An insert worker that takes a batch or looks for its table counts no row.*)
LEMMA InserterWaitCounts ==
    ASSUME IInv, IInv', RowInv, RowInv', CountShape, FlushShape, NEW i \in InserterIds,
           ReceiveBatch(i) \/ EnsureTable(i) \/ CreateTable(i) \/ InserterReturn(i)
    PROVE  CountShape' /\ FlushShape'
  <1>0. TypeOK /\ inserter[i] \in InserterState
    BY DEF IInv, TypeOK
  <1>1. UNCHANGED <<inserted, spooled, orphaned, spoolLost>> /\ InserterStep(i)
    BY DEF InserterStep, ReceiveBatch, EnsureTable, CreateTable, InserterReturn, spoolVars
  <1>2. \A c \in RowCounters : total'[c] = total[c]
    <2>1. total' \in {total, [total EXCEPT !["TablesCreated"] = @ + 1]}
      BY DEF ReceiveBatch, EnsureTable, CreateTable, InserterReturn
    <2> QED
      BY <1>0, <2>1 DEF TypeOK, Counters, RowCounters
  <1>3. inserter'[i].pc # "spool" /\ inserter[i].pc # "spool"
        /\ \A h \in InserterIds \ {i} : inserter'[h] = inserter[h]
    <2>1. inserter \in [InserterIds -> InserterState]
      BY <1>0 DEF TypeOK
    <2>2. CASE ReceiveBatch(i)
      BY <2>1, <2>2 DEF ReceiveBatch
    <2>3. CASE EnsureTable(i)
      BY <2>1, <2>3 DEF EnsureTable, InserterState
    <2>4. CASE CreateTable(i)
      BY <2>1, <2>4 DEF CreateTable, InserterState
    <2>5. CASE InserterReturn(i)
      BY <2>1, <2>5 DEF InserterReturn, InserterState
    <2> QED
      BY <2>2, <2>3, <2>4, <2>5
  <1>4. InsertersSpoolOn
    BY <1>3 DEF InsertersSpoolOn
  <1> QED
    BY <1>1, <1>2, <1>4, InsertingCounts

(* A failed attempt: the last one counts the rows and sends the batch to    *)
(* the spool.                                                               *)
LEMMA AttemptFailedCounts ==
    ASSUME IInv, IInv', RowInv, RowInv', CountShape, FlushShape, NEW i \in InserterIds,
           CreateTableFails(i) \/ InsertFails(i)
    PROVE  CountShape' /\ FlushShape'
  <1>0. TypeOK /\ inserter \in [InserterIds -> InserterState]
    BY DEF IInv, TypeOK
  <1>1. /\ UNCHANGED <<inserted, spooled, orphaned, spoolLost>> /\ InserterStep(i)
        /\ inserter[i].pc \in {"create", "insert"} /\ AttemptFailed(i)
    BY DEF InserterStep, CreateTableFails, InsertFails, spoolVars
  <1>2. inserter[i].batch # NoBatch
    BY <1>1 DEF IInv, Shape, InserterShape
  <1>3. CASE inserter[i].attempt < InsertMaxRetries
    <2>1. inserter' = [inserter EXCEPT ![i] = NextAttempt(i)] /\ UNCHANGED total
      BY <1>1, <1>3 DEF AttemptFailed
    <2>2. NextAttempt(i).pc = "ensure"
      BY <1>0 DEF NextAttempt, InserterState
    <2>3. InsertersSpoolOn
      BY <1>0, <1>1, <2>1, <2>2, InserterNotSpooling
    <2> QED
      BY <1>1, <2>1, <2>3, InsertingCounts
  <1>4. CASE ~(inserter[i].attempt < InsertMaxRetries)
    <2> DEFINE S == inserter[i].batch.rows
    <2>1. /\ inserter' = [inserter EXCEPT ![i].pc = "spool"]
          /\ total' = [total EXCEPT !["InsertDroppedRows"] = @ + Cardinality(S)]
      BY <1>1, <1>4 DEF AttemptFailed
    <2>2. /\ inserter'[i].pc = "spool" /\ inserter'[i].batch = inserter[i].batch
          /\ \A h \in InserterIds \ {i} : inserter'[h] = inserter[h]
      BY <1>0, <2>1 DEF InserterState
    <2>3. InserterHolds(i) = S /\ \A h \in InserterIds : InserterHolds(h)' = InserterHolds(h)
      BY <1>2, <2>2, SameBatch DEF InserterHolds
    <2>4. S \in SUBSET Rows
      <3>1. inserter[i].batch \in Batch
        BY <1>0, <1>2 DEF InserterState
      <3> QED
        BY <3>1 DEF Batch
    <2> HIDE DEF S
    <2>5. GivenUpRows' = GivenUpRows \cup S
      <3> SUFFICES ASSUME NEW row
                   PROVE  row \in GivenUpRows' <=> row \in GivenUpRows \/ row \in S
        OBVIOUS
      <3> QED
        BY <1>1, <2>2, <2>3, FailedIn
    <2>6. S \cap FailedRows = {}
      <3> SUFFICES ASSUME NEW row \in S, row \in FailedRows
                   PROVE  FALSE
        OBVIOUS
      <3>1. row \in Rows /\ AtStage(row, "inserter")
        BY <2>3, <2>4, StageOfInserters
      <3>2. OneStage(row) /\ OneInserter(row)
        BY <3>1 DEF RowInv, OnceThere
      <3>3. CASE row \in spooled \cup LostRows
        BY <3>1, <3>2, <3>3, StagesAre DEF OneStage, AtStage, LostRows
      <3>4. CASE row \in GivenUpRows
        BY <1>1, <2>3, <3>2, <3>4, FailedIn DEF OneInserter
      <3>5. CASE row \in RefusedRows
        <4>1. AtStage(row, "pending")
          BY <1>0, <3>1, <3>5, SetsOfRows, RowsIn, StageOfWorkers
        <4> QED
          BY <3>1, <3>2, <4>1, StagesAre DEF OneStage
      <3> QED
        BY <3>3, <3>4, <3>5 DEF FailedRows
    <2>7. FailedRows' = FailedRows \cup S
      <3>1. RefusedRows' = RefusedRows
        BY <1>1, InserterLeaves, RefusedSame
      <3> QED
        BY <1>1, <2>5, <3>1 DEF FailedRows, LostRows
    <2>8. /\ Cardinality(FailedRows') = Cardinality(FailedRows) + Cardinality(S)
          /\ Cardinality(FailedRows) \in Nat /\ Cardinality(S) \in Nat
      <3>1. FailedRows \in SUBSET Rows /\ FailedRows \cap S = {}
        BY <1>0, <2>6, SetsOfRows
      <3> QED
        BY <2>4, <2>7, <3>1, CountRows
    <2>9. /\ total'["InsertDroppedRows"] = total["InsertDroppedRows"] + Cardinality(S)
          /\ \A c \in RowCounters \ {"InsertDroppedRows"} : total'[c] = total[c]
          /\ total["LiveSkippedRows"] \in Nat /\ total["InsertDroppedRows"] \in Nat
      BY <1>0, <2>1 DEF TypeOK, Counters, RowCounters
    <2>10. ~ParseOnly => ParsedRows' = ParsedRows
      BY <1>1, InserterLeaves, ParsedKept DEF IInv
    <2>11. CountShape'
      BY ONLY CountShape, <1>1, <2>8, <2>9, <2>10 DEF CountShape, RowCounters
    <2> QED
      BY <1>1, <2>11, InserterLeaves
  <1> QED
    BY <1>3, <1>4

(* The rows of a confirmed batch were not inserted before.                  *)
LEMMA InsertSucceedsCounts ==
    ASSUME IInv, IInv', RowInv, RowInv', CountShape, FlushShape, NEW i \in InserterIds,
           InsertSucceeds(i)
    PROVE  CountShape' /\ FlushShape'
  <1> DEFINE S == inserter[i].batch.rows
  <1>1. /\ inserter[i].pc = "insert" /\ inserter' = [inserter EXCEPT ![i] = IdleInserter]
        /\ inserted' = inserted \cup S /\ UNCHANGED <<spooled, orphaned, spoolLost>>
        /\ total' = [total EXCEPT !["Inserted"] = @ + Cardinality(S)]
        /\ InserterStep(i) /\ TypeOK /\ Shape
    BY DEF InsertSucceeds, InserterStep, spoolVars, IInv
  <1>2. S \in SUBSET Rows /\ \A row \in S : AtStage(row, "inserter")
    BY <1>1, BatchLeaves
  <1> HIDE DEF S
  <1>3. S \cap inserted = {} /\ inserted \in SUBSET Rows
    BY <1>1, <1>2, StagesAre DEF RowInv, OneStage, AtStage, TypeOK
  <1>4. /\ Cardinality(inserted') = Cardinality(inserted) + Cardinality(S)
        /\ Cardinality(inserted) \in Nat /\ Cardinality(S) \in Nat
    BY <1>1, <1>2, <1>3, CountRows
  <1>5. /\ total'["Inserted"] = total["Inserted"] + Cardinality(S)
        /\ \A c \in RowCounters \ {"Inserted"} : total'[c] = total[c]
    BY <1>1 DEF TypeOK, Counters, RowCounters
  <1>6. InsertersSpoolOn
    <2>1. IdleInserter.pc # "spool"
      BY DEF IdleInserter
    <2> QED
      BY <1>1, <2>1, InserterNotSpooling
  <1>7. FailedRows' = FailedRows
    BY <1>1, <1>6, InserterLeaves, RefusedSame, GivenUpSame DEF FailedRows, LostRows
  <1>8. ~ParseOnly => ParsedRows' = ParsedRows
    BY <1>1, InserterLeaves, ParsedKept DEF IInv
  <1>9. CountShape'
    BY ONLY CountShape, <1>1, <1>4, <1>5, <1>7, <1>8 DEF CountShape, RowCounters
  <1> QED
    BY <1>1, <1>9, InserterLeaves

(* A batch that was given up meets its fate in the spool.                   *)
LEMMA SpoolExhaustedCounts ==
    ASSUME IInv, IInv', RowInv, RowInv', CountShape, FlushShape, NEW i \in InserterIds,
           SpoolExhausted(i)
    PROVE  CountShape' /\ FlushShape'
  <1> DEFINE S == inserter[i].batch.rows
  <1>1. /\ inserter[i].pc = "spool" /\ inserter' = [inserter EXCEPT ![i] = IdleInserter]
        /\ Spool(S) /\ UNCHANGED inserted /\ InserterStep(i) /\ TypeOK /\ Shape
        /\ inserter \in [InserterIds -> InserterState]
    BY DEF SpoolExhausted, InserterStep, IInv, TypeOK
  <1>2. S \in SUBSET Rows /\ \A row \in S : AtStage(row, "inserter")
    BY <1>1, BatchLeaves
  <1>3. InserterHolds(i) = S
    BY <1>1 DEF Shape, InserterShape, InserterHolds
  <1>4. inserter'[i].pc = "recv" /\ \A h \in InserterIds \ {i} : inserter'[h] = inserter[h]
    BY <1>1 DEF IdleInserter
  <1> HIDE DEF S
  <1>5. S \cap spooled = {}
    BY <1>2, StagesAre DEF RowInv, OneStage, AtStage
  <1>6. GivenUpRows = GivenUpRows' \cup S
    <2> SUFFICES ASSUME NEW row
                 PROVE  row \in GivenUpRows <=> row \in GivenUpRows' \/ row \in S
      OBVIOUS
    <2> QED
      BY <1>1, <1>3, <1>4, FailedIn, SameBatch
  <1>7. /\ total'["FailedRowsSpooled"] = Cardinality(spooled')
        /\ spooled' \cup LostRows' = spooled \cup LostRows \cup S
        /\ \A c \in RowCounters \ {"FailedRowsSpooled"} : total'[c] = total[c]
    BY <1>1, <1>2, <1>5, SpoolCounts
  <1>8. RefusedRows' = RefusedRows
    BY <1>1, InserterLeaves, RefusedSame
  <1>9. FailedRows' = FailedRows
    BY ONLY <1>6, <1>7, <1>8 DEF FailedRows
  <1>10. ~ParseOnly => ParsedRows' = ParsedRows
    BY <1>1, InserterLeaves, ParsedKept DEF IInv
  <1>11. CountShape'
    BY ONLY CountShape, <1>1, <1>7, <1>9, <1>10 DEF CountShape, RowCounters
  <1> QED
    BY <1>1, <1>11, InserterLeaves

(* Every step of an insert worker.                                          *)
LEMMA InserterCounts ==
    ASSUME IInv, IInv', RowInv, RowInv', CountShape, FlushShape, NEW i \in InserterIds,
           InserterStep(i)
    PROVE  CountShape' /\ FlushShape'
  BY InserterWaitCounts, AttemptFailedCounts, InsertSucceedsCounts, SpoolExhaustedCounts
     DEF InserterStep

(* Every step of the collector.                                             *)
LEMMA NextCounts ==
    ASSUME IInv, IInv', RowInv, RowInv', CountShape, FlushShape, [Next]_vars
    PROVE  CountShape' /\ FlushShape'
  <1>1. TypeOK /\ Shape
    BY DEF IInv
  <1>2. CASE \E r \in Receivers : ReadBatch(r) \/ TransientErrorAtStop(r) \/ ReaderStep(r)
    BY <1>1, <1>2, ReaderCounts
  <1>3. CASE \E w \in WorkerIds : WorkerStep(w)
    BY <1>3, WorkerCounts
  <1>4. CASE \E i \in InserterIds : InserterStep(i)
    BY <1>4, InserterCounts
  <1>5. CASE RequestStop \/ Shutdown \/ SampleQueues \/ SpawnWorkers \/ TunerReturn
             \/ UNCHANGED vars
    BY <1>1, <1>5, OtherCounts
  <1> QED
    BY <1>2, <1>3, <1>4, <1>5 DEF Next, Terminated

(* At the start nothing is counted.                                         *)
LEMMA InitCounts == Init => CountShape /\ FlushShape
  <1> SUFFICES ASSUME Init
               PROVE  CountShape /\ FlushShape
    OBVIOUS
  <1>1. /\ \A w \in WorkerIds : /\ worker[w].pc \in {"select", "unspawned"}
                                /\ \A t \in Tables : worker[w].pending[t] = {}
        /\ \A i \in InserterIds : InserterHolds(i) = {}
        /\ insertBatches = <<>>
    BY DEF Init, IdleWorker, IdleInserter, InserterHolds
  <1>2. \A row : row \notin PendingRows /\ row \notin QueuedRows /\ row \notin InsertingRows
    BY <1>1, RowsIn
  <1>3. \A row : row \notin RefusedRows /\ row \notin GivenUpRows
    BY <1>1, FailedIn
  <1>4. ParsedRows = {} /\ FailedRows = {} /\ inserted = {} /\ spooled = {}
    BY <1>2, <1>3 DEF ParsedRows, FailedRows, LostRows, Init
  <1>5. \A c \in Counters : total[c] = 0
    BY DEF Init
  <1>6. CountShape
    BY <1>4, <1>5, FS_EmptySet DEF CountShape, Counters
  <1> QED
    BY <1>1, <1>6 DEF FlushShape

(* Each counter of rows is the size of its set.                             *)
LEMMA CountsInvariance == Spec => [](CountShape /\ FlushShape)
  <1>1. IInv /\ IInv' /\ RowInv /\ RowInv' /\ (CountShape /\ FlushShape) /\ [Next]_vars
          => (CountShape /\ FlushShape)'
    BY NextCounts
  <1> QED
    BY <1>1, InitCounts, Inductive, RowsInvariance, PTL DEF Spec

-----------------------------------------------------------------------------
(* The balances of rows                                                     *)

(* No row is in two of the sets.                                            *)
LEMMA SetsDisjoint ==
    ASSUME TypeOK, RowInv
    PROVE  /\ PendingRows \cap QueuedRows = {}
           /\ (PendingRows \cup QueuedRows) \cap InsertingRows = {}
           /\ (PendingRows \cup QueuedRows \cup InsertingRows) \cap LostRows = {}
           /\ (PendingRows \cup QueuedRows \cup InsertingRows \cup LostRows) \cap inserted = {}
           /\ (PendingRows \cup QueuedRows \cup InsertingRows \cup LostRows \cup inserted)
                 \cap spooled = {}
  <1> SUFFICES ASSUME NEW row \in Rows
               PROVE  /\ row \in PendingRows =>
                            row \notin QueuedRows \cup InsertingRows \cup LostRows \cup inserted \cup spooled
                      /\ row \in QueuedRows =>
                            row \notin InsertingRows \cup LostRows \cup inserted \cup spooled
                      /\ row \in InsertingRows => row \notin LostRows \cup inserted \cup spooled
                      /\ row \in LostRows => row \notin inserted \cup spooled
                      /\ row \in inserted => row \notin spooled
    BY SetsOfRows
  <1>1. /\ AtStage(row, "pending") <=> row \in PendingRows
        /\ AtStage(row, "queued") <=> row \in QueuedRows
        /\ AtStage(row, "inserter") <=> row \in InsertingRows
        /\ AtStage(row, "inserted") <=> row \in inserted
        /\ AtStage(row, "spooled") <=> row \in spooled
        /\ AtStage(row, "orphaned") \/ AtStage(row, "lost") <=> row \in LostRows
    BY RowsIn DEF AtStage, LostRows
  <1>2. \A c, d \in Stages : AtStage(row, c) /\ AtStage(row, d) => c = d
    BY DEF RowInv, OneStage
  <1> QED
    BY ONLY <1>1, <1>2, StagesAre

(* total_parsed minus what ClickHouse and the spool have is what the        *)
(* pipeline still holds after parsing, and the rows of failed spools: the   *)
(* counters that packetWorker, insertWorker and spoolFailedInsertBatch      *)
(* raise never count a row twice, nor miss one.                             *)
THEOREM RowsBalance == Spec => []RowBalance
  <1>1. ASSUME TypeOK, RowInv, CountShape
        PROVE  RowBalance
    <2> SUFFICES ASSUME ~ParseOnly
                 PROVE  total["Parsed"] - total["Inserted"] - total["FailedRowsSpooled"] =
                          Cardinality(PendingRows) + Cardinality(QueuedRows)
                          + Cardinality(InsertingRows) + Cardinality(LostRows)
      BY DEF RowBalance, PendingRows, QueuedRows, InsertingRows, LostRows
    <2> DEFINE PQ == PendingRows \cup QueuedRows
               PQI == PQ \cup InsertingRows
               Held == PQI \cup LostRows
               Most == Held \cup inserted
    <2>1. /\ PendingRows \in SUBSET Rows /\ QueuedRows \in SUBSET Rows
          /\ InsertingRows \in SUBSET Rows /\ LostRows \in SUBSET Rows
          /\ inserted \in SUBSET Rows /\ spooled \in SUBSET Rows
          /\ PQ \in SUBSET Rows /\ PQI \in SUBSET Rows /\ Held \in SUBSET Rows
          /\ Most \in SUBSET Rows
      BY <1>1, SetsOfRows
    <2>2. /\ PendingRows \cap QueuedRows = {} /\ PQ \cap InsertingRows = {}
          /\ PQI \cap LostRows = {} /\ Held \cap inserted = {} /\ Most \cap spooled = {}
      BY <1>1, SetsDisjoint
    <2>3. Cardinality(PQ) = Cardinality(PendingRows) + Cardinality(QueuedRows)
      BY <2>1, <2>2, CountRows
    <2>4. ParsedRows = Most \cup spooled
      BY DEF ParsedRows
    <2> HIDE DEF PQ
    <2>5. Cardinality(PQI) = Cardinality(PQ) + Cardinality(InsertingRows)
      BY <2>1, <2>2, CountRows
    <2> HIDE DEF PQI
    <2>6. Cardinality(Held) = Cardinality(PQI) + Cardinality(LostRows)
      BY <2>1, <2>2, CountRows
    <2> HIDE DEF Held
    <2>7. Cardinality(Most) = Cardinality(Held) + Cardinality(inserted)
      BY <2>1, <2>2, CountRows
    <2> HIDE DEF Most
    <2>8. Cardinality(ParsedRows) = Cardinality(Most) + Cardinality(spooled)
      BY <2>1, <2>2, <2>4, CountRows
    <2>9. /\ Cardinality(PendingRows) \in Nat /\ Cardinality(QueuedRows) \in Nat
          /\ Cardinality(InsertingRows) \in Nat /\ Cardinality(LostRows) \in Nat
          /\ Cardinality(inserted) \in Nat /\ Cardinality(spooled) \in Nat
      BY <2>1, RowsFinite
    <2>10. /\ total["Parsed"] = Cardinality(ParsedRows) /\ total["Inserted"] = Cardinality(inserted)
           /\ total["FailedRowsSpooled"] = Cardinality(spooled)
      BY <1>1 DEF CountShape
    <2> QED
      BY ONLY <2>3, <2>5, <2>6, <2>7, <2>8, <2>9, <2>10
  <1>2. IInv /\ RowInv /\ (CountShape /\ FlushShape) => RowBalance
    BY <1>1 DEF IInv
  <1> QED
    BY <1>2, Inductive, RowsInvariance, CountsInvariance, PTL

(* Rows counted as dropped (insertWorker after its last attempt) or skipped *)
(* (sendInsertBatch under raw_only) are those that the spool has, has lost  *)
(* or is about to be given: none is counted twice, none fails uncounted.    *)
THEOREM FailuresBalance == Spec => []FailureBalance
  <1>1. ASSUME TypeOK, RowInv, CountShape
        PROVE  FailureBalance
    <2> SUFFICES total["InsertDroppedRows"] + total["LiveSkippedRows"] =
                   total["FailedRowsSpooled"] + Cardinality(LostRows)
                   + Cardinality(GivenUpRows) + Cardinality(RefusedRows)
      BY DEF FailureBalance, LostRows, GivenUpRows, RefusedRows
    <2> DEFINE SL == spooled \cup LostRows
               SLG == SL \cup GivenUpRows
    <2>1. /\ LostRows \in SUBSET Rows /\ spooled \in SUBSET Rows
          /\ GivenUpRows \in SUBSET Rows /\ RefusedRows \in SUBSET Rows
          /\ SL \in SUBSET Rows /\ SLG \in SUBSET Rows
      BY <1>1, SetsOfRows
    <2>2. spooled \cap LostRows = {} /\ SL \cap GivenUpRows = {} /\ SLG \cap RefusedRows = {}
      <3>1. RefusedRows \subseteq PendingRows /\ GivenUpRows \subseteq InsertingRows
        BY <1>1, SetsOfRows
      <3> QED
        BY <1>1, <3>1, SetsDisjoint
    <2>3. FailedRows = SLG \cup RefusedRows
      BY DEF FailedRows
    <2>4. Cardinality(SL) = Cardinality(spooled) + Cardinality(LostRows)
      BY <2>1, <2>2, CountRows
    <2> HIDE DEF SL
    <2>5. Cardinality(SLG) = Cardinality(SL) + Cardinality(GivenUpRows)
      BY <2>1, <2>2, CountRows
    <2> HIDE DEF SLG
    <2>6. Cardinality(FailedRows) = Cardinality(SLG) + Cardinality(RefusedRows)
      BY <2>1, <2>2, <2>3, CountRows
    <2>7. /\ Cardinality(LostRows) \in Nat /\ Cardinality(spooled) \in Nat
          /\ Cardinality(GivenUpRows) \in Nat /\ Cardinality(RefusedRows) \in Nat
      BY <2>1, RowsFinite
    <2> QED
      BY <1>1, <2>4, <2>5, <2>6, <2>7 DEF CountShape
  <1>2. IInv /\ RowInv /\ (CountShape /\ FlushShape) => FailureBalance
    BY <1>1 DEF IInv
  <1> QED
    BY <1>2, Inductive, RowsInvariance, CountsInvariance, PTL

-----------------------------------------------------------------------------
(* Daily tables                                                             *)

(* Insert workers that create a table or insert go on, nobody starts to,    *)
(* and the cache stays.                                                     *)
TablesStay ==
    /\ UNCHANGED <<createdTablesMu, createdTables>>
    /\ total'["TablesCreated"] = total["TablesCreated"]
    /\ \A i \in InserterIds :
         /\ inserter'[i].pc \in {"create", "insert"} =>
               inserter'[i].pc = inserter[i].pc /\ inserter'[i].batch = inserter[i].batch
         /\ inserter[i].pc = "create" => inserter'[i].pc = "create"

(* Then the tables are as they were.                                        *)
LEMMA TablesStayKeeps ==
    ASSUME CreationShape, TablesCreatedOnce, TablesStay
    PROVE  CreationShape' /\ TablesCreatedOnce'
  <1>1. CreationShape'
    BY DEF CreationShape, TablesStay, InserterIds
  <1> QED
    BY <1>1 DEF TablesCreatedOnce, TablesStay, InserterIds

(* Steps that are not an insert worker's do not touch the tables.           *)
LEMMA OtherTables ==
    ASSUME TypeOK, Shape, CreationShape, TablesCreatedOnce,
           \/ RequestStop \/ Shutdown \/ SampleQueues \/ SpawnWorkers \/ TunerReturn
           \/ UNCHANGED vars
           \/ \E r \in Receivers : ReadBatch(r) \/ TransientErrorAtStop(r) \/ ReaderStep(r)
           \/ \E w \in WorkerIds : WorkerStep(w)
    PROVE  CreationShape' /\ TablesCreatedOnce'
  <1>1. total \in [Counters -> Nat] /\ inserter \in [InserterIds -> InserterState]
    BY DEF TypeOK
  <1>2. CASE \/ RequestStop \/ Shutdown \/ SampleQueues \/ TunerReturn \/ UNCHANGED vars
    <2>1. UNCHANGED <<createdTablesMu, createdTables, total, inserter>>
      BY <1>2 DEF RequestStop, Shutdown, CloseNextReceiver, MainStep, SampleQueues, TunerReturn,
                  tuneUnchanged, insertVars, vars
    <2> QED
      BY <2>1, TablesStayKeeps DEF TablesStay
  <1>3. CASE SpawnWorkers
    <2>1. UNCHANGED <<createdTablesMu, createdTables, total>>
      BY <1>3 DEF SpawnWorkers
    <2>2. ASSUME NEW i \in InserterIds
          PROVE  \/ inserter'[i] = inserter[i]
                 \/ inserter[i].pc = "unspawned" /\ inserter'[i].pc = "recv"
      <3>1. /\ i \in Int /\ currentInsertWorkers \in Int /\ tuner.insert \in Nat
            /\ inserter[i] \in InserterState /\ InserterShape(i)
        BY DEF TypeOK, Shape, InserterIds
      <3>2. CASE i > currentInsertWorkers /\ i <= currentInsertWorkers + tuner.insert
        <4>1. inserter'[i] = [inserter[i] EXCEPT !.pc = "recv"]
          BY <1>3, <3>1, <3>2 DEF SpawnWorkers
        <4>2. inserter'[i].pc = "recv"
          BY <3>1, <4>1 DEF InserterState
        <4> QED
          BY <3>1, <3>2, <4>2 DEF InserterShape
      <3>3. CASE ~(i > currentInsertWorkers /\ i <= currentInsertWorkers + tuner.insert)
        <4>1. inserter'[i] = inserter[i]
          BY <1>3, <3>1, <3>3 DEF SpawnWorkers
        <4> QED
          BY <4>1
      <3> QED
        BY <3>2, <3>3
    <2> QED
      BY <2>1, <2>2, TablesStayKeeps DEF TablesStay
  <1>4. CASE \E r \in Receivers : ReadBatch(r) \/ TransientErrorAtStop(r) \/ ReaderStep(r)
    <2>1. UNCHANGED <<createdTablesMu, createdTables, inserter>>
      BY <1>4 DEF ReadBatch, ReaderStep, ReadErrorAtStop, TransientErrorAtStop, LeaveAtStop, SkipEmpty, CountReceived, SendPacket,
                  DiscardAtStop, readUnchanged, insertVars
    <2>2. total'["TablesCreated"] = total["TablesCreated"]
      BY <1>1, <1>4 DEF ReadBatch, ReaderStep, ReadErrorAtStop, TransientErrorAtStop, LeaveAtStop, SkipEmpty, CountReceived,
                        SendPacket, DiscardAtStop, Counters
    <2> QED
      BY <2>1, <2>2, TablesStayKeeps DEF TablesStay
  <1>5. CASE \E w \in WorkerIds : WorkerStep(w)
    <2> PICK w \in WorkerIds : WorkerStep(w)
      BY <1>5
    <2>1. UNCHANGED <<createdTablesMu, createdTables, inserter>>
      BY DEF WorkerStep, RejectPacket, CountPacketOnly, TakePacket, AppendEntry, FinishPacket,
             FlushAll, SweepTable, WorkerReturn, AdmitBatch, SendBatch, RefuseBatch, SpoolRefused,
             takeUnchanged, flushUnchanged, insertVars
    <2>2. CASE RejectPacket(w) \/ CountPacketOnly(w) \/ TakePacket(w) \/ AppendEntry(w)
               \/ FinishPacket(w) \/ FlushAll(w) \/ SweepTable(w) \/ WorkerReturn(w)
               \/ AdmitBatch(w) \/ SendBatch(w)
      <3>1. total'["TablesCreated"] = total["TablesCreated"]
        BY <1>1, <2>2 DEF RejectPacket, CountPacketOnly, TakePacket, AppendEntry, FinishPacket,
                          FlushAll, SweepTable, WorkerReturn, AdmitBatch, SendBatch, Counters
      <3> QED
        BY <2>1, <3>1, TablesStayKeeps DEF TablesStay
    <2>3. CASE RefuseBatch(w) \/ SpoolRefused(w)
      <3>1. total'["TablesCreated"] = total["TablesCreated"]
        BY <1>1, <2>3 DEF RefuseBatch, SpoolRefused, Spool, Counters
      <3> QED
        BY <2>1, <3>1, TablesStayKeeps DEF TablesStay
    <2> QED
      BY <2>2, <2>3 DEF WorkerStep
  <1> QED
    BY <1>2, <1>3, <1>4, <1>5

(* An insert worker creates a table under the mutex, and inserts into one   *)
(* that exists.                                                             *)
LEMMA InserterTables ==
    ASSUME TypeOK, Shape, CreationShape, TablesCreatedOnce, NEW i \in InserterIds,
           InserterStep(i)
    PROVE  CreationShape' /\ TablesCreatedOnce'
  <1>1. /\ total \in [Counters -> Nat] /\ inserter \in [InserterIds -> InserterState]
        /\ createdTables \subseteq Tables /\ 0 \notin InserterIds
    BY DEF TypeOK, InserterIds
  <1>2. /\ \A h \in InserterIds : inserter[h].pc = "create" <=> createdTablesMu = h
        /\ inserter[i].pc = "create" => inserter[i].batch.table \notin createdTables
    BY DEF CreationShape
  <1>3. CASE ReceiveBatch(i)
    <2>1. inserter'[i].pc = "ensure" /\ \A h \in InserterIds \ {i} : inserter'[h] = inserter[h]
      BY <1>1, <1>3 DEF ReceiveBatch
    <2>2. inserter[i].pc = "recv" /\ UNCHANGED <<createdTablesMu, createdTables, total>>
      BY <1>3 DEF ReceiveBatch
    <2> QED
      BY <2>1, <2>2, TablesStayKeeps DEF TablesStay
  <1>4. CASE EnsureTable(i)
    <2>1. /\ inserter[i].pc = "ensure" /\ createdTablesMu = 0
          /\ UNCHANGED <<createdTables, total>>
      BY <1>4 DEF EnsureTable
    <2>2. CASE /\ inserter[i].batch.table \in createdTables
               /\ inserter' = [inserter EXCEPT ![i].pc = "insert"]
               /\ UNCHANGED createdTablesMu
      <3>1. /\ inserter'[i].pc = "insert" /\ inserter'[i].batch = inserter[i].batch
            /\ \A h \in InserterIds \ {i} : inserter'[h] = inserter[h]
        BY <1>1, <2>2 DEF InserterState
      <3>2. CreationShape'
        BY <2>1, <2>2, <3>1 DEF CreationShape, InserterIds
      <3> QED
        BY <2>1, <2>2, <3>1, <3>2 DEF TablesCreatedOnce, InserterIds
    <2>3. CASE /\ inserter[i].batch.table \notin createdTables
               /\ inserter' = [inserter EXCEPT ![i].pc = "create"]
               /\ createdTablesMu' = i
      <3>1. /\ inserter'[i].pc = "create" /\ inserter'[i].batch = inserter[i].batch
            /\ \A h \in InserterIds \ {i} : inserter'[h] = inserter[h]
        BY <1>1, <2>3 DEF InserterState
      <3>2. \A h \in InserterIds : inserter[h].pc # "create"
        BY <1>1, <1>2, <2>1
      <3>3. CreationShape'
        BY <2>1, <2>3, <3>1, <3>2 DEF CreationShape, InserterIds
      <3> QED
        BY <2>1, <2>3, <3>1, <3>3 DEF TablesCreatedOnce, InserterIds
    <2> QED
      BY <1>4, <2>2, <2>3 DEF EnsureTable
  <1>5. CASE CreateTable(i)
    <2>1. /\ inserter[i].pc = "create" /\ createdTablesMu' = 0
          /\ createdTables' = createdTables \cup {inserter[i].batch.table}
          /\ inserter' = [inserter EXCEPT ![i].pc = "insert"]
          /\ total' = [total EXCEPT !["TablesCreated"] = @ + 1]
      BY <1>5 DEF CreateTable
    <2>2. /\ inserter'[i].pc = "insert" /\ inserter'[i].batch = inserter[i].batch
          /\ \A h \in InserterIds \ {i} : inserter'[h] = inserter[h]
      BY <1>1, <2>1 DEF InserterState
    <2>3. \A h \in InserterIds \ {i} : inserter[h].pc # "create"
      BY <1>2, <2>1
    <2>4. CreationShape'
      BY <1>1, <2>1, <2>2, <2>3 DEF CreationShape, InserterIds
    <2>5. IsFiniteSet(createdTables)
      BY <1>1, TrafficAssumption, FS_Subset
    <2>6. Cardinality(createdTables') = Cardinality(createdTables) + 1
      BY <1>2, <2>1, <2>5, FS_AddElement
    <2>7. total'["TablesCreated"] = total["TablesCreated"] + 1
      BY <1>1, <2>1 DEF Counters
    <2> QED
      BY <2>1, <2>2, <2>4, <2>6, <2>7 DEF TablesCreatedOnce, InserterIds
  <1>6. CASE CreateTableFails(i) \/ InsertFails(i)
    <2>1. /\ inserter[i].pc \in {"create", "insert"} /\ AttemptFailed(i)
          /\ UNCHANGED createdTables
          /\ createdTablesMu' = IF inserter[i].pc = "create" THEN 0 ELSE createdTablesMu
      BY <1>6 DEF CreateTableFails, InsertFails
    <2>2. /\ inserter'[i].pc \notin {"create", "insert"}
          /\ \A h \in InserterIds \ {i} : inserter'[h] = inserter[h]
      <3>1. NextAttempt(i).pc = "ensure"
        BY <1>1 DEF NextAttempt, InserterState
      <3> QED
        BY <1>1, <2>1, <3>1 DEF AttemptFailed, InserterState
    <2>3. total'["TablesCreated"] = total["TablesCreated"]
      BY <1>1, <2>1 DEF AttemptFailed, Counters
    <2>4. inserter[i].pc = "create" => \A h \in InserterIds \ {i} : inserter[h].pc # "create"
      BY <1>2
    <2>5. inserter[i].pc = "insert" => createdTablesMu # i
      BY <1>2
    <2>6. CreationShape'
      BY <1>1, <2>1, <2>2, <2>4, <2>5 DEF CreationShape, InserterIds
    <2> QED
      BY <2>1, <2>2, <2>3, <2>6 DEF TablesCreatedOnce, InserterIds
  <1>7. CASE InsertSucceeds(i) \/ SpoolExhausted(i) \/ InserterReturn(i)
    <2>1. /\ inserter[i].pc # "create" /\ UNCHANGED <<createdTablesMu, createdTables>>
      BY <1>7 DEF InsertSucceeds, SpoolExhausted, InserterReturn
    <2>2. /\ inserter'[i].pc \notin {"create", "insert"}
          /\ \A h \in InserterIds \ {i} : inserter'[h] = inserter[h]
      BY <1>1, <1>7 DEF InsertSucceeds, SpoolExhausted, InserterReturn, IdleInserter, InserterState
    <2>3. total'["TablesCreated"] = total["TablesCreated"]
      BY <1>1, <1>7 DEF InsertSucceeds, SpoolExhausted, InserterReturn, Spool, Counters
    <2> QED
      BY <2>1, <2>2, <2>3, TablesStayKeeps DEF TablesStay
  <1> QED
    BY <1>3, <1>4, <1>5, <1>6, <1>7 DEF InserterStep

(* createdTablesMu covers the check of the cache, the request and the       *)
(* update (ensureDailyTable): two insert workers never create the same      *)
(* table, and none inserts into a table that was not created.               *)
THEOREM TablesOnce == Spec => []TablesCreatedOnce
  <1>1. Init => CreationShape /\ TablesCreatedOnce
    <2> SUFFICES ASSUME Init PROVE CreationShape /\ TablesCreatedOnce
      OBVIOUS
    <2>1. \A i \in InserterIds : inserter[i].pc \in {"recv", "unspawned"}
      BY DEF Init, IdleInserter
    <2>2. createdTablesMu = 0 /\ 0 \notin InserterIds /\ createdTables = {}
      BY DEF Init, InserterIds
    <2>3. total["TablesCreated"] = 0
      BY DEF Init, Counters
    <2> QED
      BY <2>1, <2>2, <2>3, FS_EmptySet DEF CreationShape, TablesCreatedOnce
  <1>2. TypeOK /\ Shape /\ CreationShape /\ TablesCreatedOnce /\ [Next]_vars
          => CreationShape' /\ TablesCreatedOnce'
    BY OtherTables, InserterTables DEF Next, Terminated
  <1>3. IInv => TypeOK /\ Shape
    BY DEF IInv
  <1> QED
    BY <1>1, <1>2, <1>3, Inductive, PTL DEF Spec

-----------------------------------------------------------------------------
(* The balance of datagrams                                                 *)

Working == {w \in WorkerIds : worker[w].pkt # NoPacket}
Sending == {r \in Receivers : reader[r].pc = "send"}
Exited == {r \in Receivers : reader[r].pc = "exited"}

Abandoned == total["Received"] - total["PacketProcessed"]
             - (Len(packetChannel) + Cardinality(Working) + Cardinality(Sending))

(* The balance bounds what stopping receivers abandoned.                    *)
LEMMA BalanceIs == PacketBalance <=> Abandoned \in 0..Cardinality(Exited)
  BY DEF PacketBalance, Abandoned, Working, Sending, Exited

(* The goroutines that hold or have held a datagram can be counted.         *)
LEMMA GoroutinesCounted ==
    ASSUME TypeOK
    PROVE  /\ IsFiniteSet(Working) /\ IsFiniteSet(Sending) /\ IsFiniteSet(Exited)
           /\ Cardinality(Working) \in Nat /\ Cardinality(Sending) \in Nat
           /\ Cardinality(Exited) \in Nat /\ Len(packetChannel) \in Nat
           /\ total["Received"] \in Nat /\ total["PacketProcessed"] \in Nat
  <1>1. 1 \in Int /\ NumReceivers \in Int /\ MaxPacketWorkers \in Int
    BY ConfigAssumption
  <1>2. IsFiniteSet(WorkerIds) /\ IsFiniteSet(Receivers)
    BY <1>1, FS_Interval DEF WorkerIds, Receivers
  <1>3. Working \in SUBSET WorkerIds /\ Sending \in SUBSET Receivers /\ Exited \in SUBSET Receivers
    BY DEF Working, Sending, Exited
  <1>4. IsFiniteSet(Working) /\ IsFiniteSet(Sending) /\ IsFiniteSet(Exited)
    BY <1>2, <1>3, FS_Subset
  <1>5. Len(packetChannel) \in Nat /\ total["Received"] \in Nat /\ total["PacketProcessed"] \in Nat
    BY DEF TypeOK, Counters
  <1> QED
    BY <1>4, <1>5, FS_CardinalityType

(* A step that moves no datagram keeps the balance.                         *)
LEMMA BalanceStays ==
    ASSUME PacketBalance, Working' = Working, Sending' = Sending, Exited' = Exited,
           UNCHANGED packetChannel,
           \A c \in {"Received", "PacketProcessed"} : total'[c] = total[c]
    PROVE  PacketBalance'
  <1>1. PacketBalance' <=> Abandoned' \in 0..Cardinality(Exited')
    BY DEF PacketBalance, Abandoned, Working, Sending, Exited, WorkerIds, Receivers
  <1>2. Abandoned' = Abandoned
    BY DEF Abandoned
  <1> QED
    BY <1>1, <1>2, BalanceIs

(* A receiver counts the datagram it is about to send; the one in its hands *)
(* when it gives up at the stop was counted and is held by nobody.          *)
LEMMA ReaderBalance ==
    ASSUME TypeOK, PacketBalance, NEW r \in Receivers, ReadBatch(r) \/ TransientErrorAtStop(r) \/ ReaderStep(r)
    PROVE  PacketBalance'
  <1>1. /\ reader \in [Receivers -> ReaderState] /\ total \in [Counters -> Nat]
        /\ packetChannel \in Seq(Packets)
    BY DEF TypeOK
  <1>2. PacketBalance' <=> Abandoned' \in 0..Cardinality(Exited')
    BY DEF PacketBalance, Abandoned, Working, Sending, Exited, WorkerIds, Receivers
  <1>3. Working' = Working
    BY DEF ReadBatch, ReaderStep, ReadErrorAtStop, TransientErrorAtStop, LeaveAtStop, SkipEmpty, CountReceived, SendPacket,
           DiscardAtStop, readUnchanged, Working, WorkerIds
  <1>4. ASSUME NEW x, reader' = [reader EXCEPT ![r] = x]
        PROVE  /\ Sending' = IF x.pc = "send" THEN Sending \cup {r} ELSE Sending \ {r}
               /\ Exited' = IF x.pc = "exited" THEN Exited \cup {r} ELSE Exited \ {r}
    BY <1>1, <1>4 DEF Sending, Exited, Receivers
  <1>5. reader[r].pc = "send" <=> r \in Sending
    BY DEF Sending
  <1>6. reader[r].pc = "exited" <=> r \in Exited
    BY DEF Exited
  <1>7. Advance(r).pc \in {"read", "loop"}
    BY DEF Advance
  <1>8. CASE ReadBatch(r) \/ SkipEmpty(r)
    <2>1. \E x : reader' = [reader EXCEPT ![r] = x] /\ x.pc \in {"read", "loop"}
      <3>1. CASE ReadBatch(r)
        <4>1. PICK n \in 1..UdpBatchSize : \E b \in [1..n -> wire] :
                 reader' = [reader EXCEPT ![r] = [pc |-> "loop", batch |-> b]]
          BY <3>1 DEF ReadBatch
        <4>2. PICK b \in [1..n -> wire] :
                 reader' = [reader EXCEPT ![r] = [pc |-> "loop", batch |-> b]]
          BY <4>1
        <4> DEFINE x == [pc |-> "loop", batch |-> b]
        <4>3. x.pc = "loop" /\ reader' = [reader EXCEPT ![r] = x]
          BY <4>2
        <4> HIDE DEF x
        <4> QED
          BY <4>3
      <3>2. CASE SkipEmpty(r)
        BY <1>7, <3>2 DEF SkipEmpty
      <3> QED
        BY <1>8, <3>1, <3>2
    <2>2. /\ reader[r].pc \in {"read", "loop"} /\ UNCHANGED <<packetChannel, total>>
      BY <1>8 DEF ReadBatch, SkipEmpty
    <2>3. Sending' = Sending /\ Exited' = Exited
      BY <1>4, <1>5, <1>6, <2>1, <2>2
    <2> QED
      BY <1>3, <2>2, <2>3, BalanceStays
  <1>9. CASE LeaveAtStop(r)
    <2>1. /\ reader[r].pc = "read" /\ UNCHANGED <<packetChannel, total>>
          /\ reader' = [reader EXCEPT ![r] = [reader[r] EXCEPT !.pc = "exited"]]
      BY <1>9 DEF LeaveAtStop
    <2>2. [reader[r] EXCEPT !.pc = "exited"].pc = "exited"
      BY <1>1 DEF ReaderState
    <2>3. Sending' = Sending /\ Exited' = Exited \cup {r} /\ r \notin Exited
      BY <1>4, <1>5, <1>6, <2>1, <2>2
    <2>4. Cardinality(Exited') = Cardinality(Exited) + 1
      BY <2>3, GoroutinesCounted, FS_AddElement
    <2>5. Abandoned' = Abandoned
      BY <1>3, <2>1, <2>3 DEF Abandoned
    <2> QED
      BY <1>2, <2>4, <2>5, BalanceIs, GoroutinesCounted
  <1>10. CASE CountReceived(r)
    <2>1. /\ reader[r].pc = "loop" /\ UNCHANGED packetChannel
          /\ reader' = [reader EXCEPT ![r] = [reader[r] EXCEPT !.pc = "send"]]
          /\ total' = [total EXCEPT !["Received"] = @ + 1]
      BY <1>10 DEF CountReceived
    <2>2. [reader[r] EXCEPT !.pc = "send"].pc = "send"
      BY <1>1 DEF ReaderState
    <2>3. Exited' = Exited /\ Sending' = Sending \cup {r} /\ r \notin Sending
      BY <1>4, <1>5, <1>6, <2>1, <2>2
    <2>4. Cardinality(Sending') = Cardinality(Sending) + 1
      BY <2>3, GoroutinesCounted, FS_AddElement
    <2>5. total'["Received"] = total["Received"] + 1 /\ total'["PacketProcessed"] = total["PacketProcessed"]
      BY <1>1, <2>1 DEF Counters
    <2>6. Abandoned' = Abandoned
      BY <1>3, <2>1, <2>4, <2>5, GoroutinesCounted DEF Abandoned
    <2> QED
      BY <1>2, <2>3, <2>6, BalanceIs
  <1>11. CASE SendPacket(r)
    <2>1. /\ reader[r].pc = "send" /\ UNCHANGED total
          /\ packetChannel' = Append(packetChannel, Head(reader[r].batch))
          /\ reader' = [reader EXCEPT ![r] = Advance(r)]
      BY <1>11 DEF SendPacket
    <2>2. Exited' = Exited /\ Sending' = Sending \ {r} /\ r \in Sending
      BY <1>4, <1>5, <1>6, <1>7, <2>1
    <2>3. Cardinality(Sending') = Cardinality(Sending) - 1
      BY <2>2, GoroutinesCounted, FS_RemoveElement
    <2>4. Len(packetChannel') = Len(packetChannel) + 1
      BY <1>1, <2>1
    <2>5. Abandoned' = Abandoned
      BY <1>3, <2>1, <2>3, <2>4, GoroutinesCounted DEF Abandoned
    <2> QED
      BY <1>2, <2>2, <2>5, BalanceIs
  <1>12. CASE DiscardAtStop(r)
    <2> DEFINE x == [pc |-> "exited", batch |-> <<>>]
    <2>1. /\ reader[r].pc = "send" /\ UNCHANGED <<packetChannel, total>>
          /\ reader' = [reader EXCEPT ![r] = x] /\ x.pc = "exited"
      BY <1>12 DEF DiscardAtStop
    <2> HIDE DEF x
    <2>2. /\ Exited' = Exited \cup {r} /\ r \notin Exited
          /\ Sending' = Sending \ {r} /\ r \in Sending
      BY <1>4, <1>5, <1>6, <2>1
    <2>3. Cardinality(Sending') = Cardinality(Sending) - 1
      BY <2>2, GoroutinesCounted, FS_RemoveElement
    <2>4. Cardinality(Exited') = Cardinality(Exited) + 1
      BY <2>2, GoroutinesCounted, FS_AddElement
    <2>5. Abandoned' = Abandoned + 1
      BY <1>3, <2>1, <2>3, GoroutinesCounted DEF Abandoned
    <2> QED
      BY <1>2, <2>4, <2>5, BalanceIs, GoroutinesCounted
  <1> QED
    BY <1>8, <1>9, <1>10, <1>11, <1>12 DEF ReaderStep, ReadErrorAtStop, TransientErrorAtStop

(* A packet worker that waits, flushes or appends keeps its datagram.       *)
LEMMA WorkerWaitBalance ==
    ASSUME TypeOK, PacketBalance, NEW w \in WorkerIds,
           \/ AppendEntry(w) \/ FlushAll(w) \/ SweepTable(w) \/ WorkerReturn(w)
           \/ AdmitBatch(w) \/ SendBatch(w) \/ RefuseBatch(w) \/ SpoolRefused(w)
    PROVE  PacketBalance'
  <1>1. /\ worker \in [WorkerIds -> WorkerState] /\ total \in [Counters -> Nat]
        /\ worker[w] \in WorkerState
    BY DEF TypeOK
  <1>2. UNCHANGED <<packetChannel, reader>>
    BY DEF AppendEntry, FlushAll, SweepTable, WorkerReturn, AdmitBatch, SendBatch, RefuseBatch,
           SpoolRefused, takeUnchanged, flushUnchanged, inputVars
  <1>3. Sending' = Sending /\ Exited' = Exited
    BY <1>2 DEF Sending, Exited, Receivers
  <1>4. \A c \in {"Received", "PacketProcessed"} : total'[c] = total[c]
    <2>1. CASE \/ AppendEntry(w) \/ FlushAll(w) \/ SweepTable(w) \/ WorkerReturn(w)
               \/ AdmitBatch(w) \/ SendBatch(w)
      BY <1>1, <2>1 DEF AppendEntry, FlushAll, SweepTable, WorkerReturn, AdmitBatch, SendBatch,
                        Counters
    <2>2. CASE RefuseBatch(w) \/ SpoolRefused(w)
      BY <1>1, <2>2 DEF RefuseBatch, SpoolRefused, Spool, Counters
    <2> QED
      BY <2>1, <2>2
  <1>5. \E x : worker' = [worker EXCEPT ![w] = x] /\ x.pkt = worker[w].pkt
    <2>1. CASE AppendEntry(w)
      <3>1. WithEntry(w).pkt = worker[w].pkt
        BY <1>1 DEF WithEntry, WorkerState
      <3> QED
        BY <2>1, <3>1 DEF AppendEntry
    <2>2. CASE FlushAll(w)
      <3> DEFINE x == [worker[w] EXCEPT !.pc = "sweep", !.sweep = NonEmpty(w)]
      <3>1. x.pkt = worker[w].pkt
        BY <1>1 DEF WorkerState
      <3>2. worker' = [worker EXCEPT ![w] = x]
        BY <2>2 DEF FlushAll
      <3> QED
        BY <3>1, <3>2
    <2>3. CASE SweepTable(w)
      <3>1. \A t : Sweeping(w, t).pkt = worker[w].pkt
        BY <1>1 DEF Sweeping, WorkerState
      <3> QED
        BY <2>3, <3>1 DEF SweepTable
    <2>4. ASSUME NEW pc, worker' = [worker EXCEPT ![w].pc = pc]
          PROVE  \E x : worker' = [worker EXCEPT ![w] = x] /\ x.pkt = worker[w].pkt
      <3> DEFINE x == [worker[w] EXCEPT !.pc = pc]
      <3>1. x.pkt = worker[w].pkt
        BY <1>1 DEF WorkerState
      <3>2. worker' = [worker EXCEPT ![w] = x]
        BY <2>4
      <3> QED
        BY <3>1, <3>2
    <2>5. CASE WorkerReturn(w) \/ AdmitBatch(w) \/ RefuseBatch(w)
      BY <2>4, <2>5 DEF WorkerReturn, AdmitBatch, RefuseBatch
    <2>6. CASE SendBatch(w) \/ SpoolRefused(w)
      <3>1. \A t : Resume(w, t).pkt = worker[w].pkt
        BY <1>1 DEF Resume, WorkerState
      <3> QED
        BY <2>6, <3>1 DEF SendBatch, SpoolRefused
    <2> QED
      BY <2>1, <2>2, <2>3, <2>5, <2>6
  <1>6. Working' = Working
    BY <1>1, <1>5 DEF Working, WorkerIds
  <1> QED
    BY <1>2, <1>3, <1>4, <1>6, BalanceStays

(* A packet worker counts a datagram as processed when it is done with it,  *)
(* parsed or not.                                                           *)
LEMMA WorkerBalance ==
    ASSUME TypeOK, Shape, PacketBalance, NEW w \in WorkerIds, WorkerStep(w)
    PROVE  PacketBalance'
  <1>1. /\ worker \in [WorkerIds -> WorkerState] /\ total \in [Counters -> Nat]
        /\ worker[w] \in WorkerState /\ WorkerShape(w)
        /\ packetChannel \in Seq(Packets) /\ NoPacket \notin Packets
    BY TrafficAssumption DEF TypeOK, Shape
  <1>2. PacketBalance' <=> Abandoned' \in 0..Cardinality(Exited')
    BY DEF PacketBalance, Abandoned, Working, Sending, Exited, WorkerIds, Receivers
  <1>3. ASSUME UNCHANGED reader
        PROVE  Sending' = Sending /\ Exited' = Exited
    BY <1>3 DEF Sending, Exited, Receivers
  <1>4. ASSUME packetChannel # <<>>
        PROVE  Len(Tail(packetChannel)) = Len(packetChannel) - 1 /\ Head(packetChannel) \in Packets
    BY <1>1, <1>4, TakeHead
  <1>5. CASE RejectPacket(w) \/ CountPacketOnly(w)
    <2>1. /\ packetChannel # <<>> /\ packetChannel' = Tail(packetChannel)
          /\ UNCHANGED <<worker, reader>>
      BY <1>5 DEF RejectPacket, CountPacketOnly, takeUnchanged
    <2>2. /\ total'["Received"] = total["Received"]
          /\ total'["PacketProcessed"] = total["PacketProcessed"] + 1
      BY <1>1, <1>5 DEF RejectPacket, CountPacketOnly, Counters
    <2>3. Working' = Working
      BY <2>1 DEF Working, WorkerIds
    <2>4. Len(packetChannel') = Len(packetChannel) - 1
      BY <1>4, <2>1
    <2>5. Sending' = Sending /\ Exited' = Exited
      BY <1>3, <2>1
    <2>6. /\ Cardinality(Working) \in Nat /\ Cardinality(Sending) \in Nat
          /\ Len(packetChannel) \in Nat
          /\ total["Received"] \in Nat /\ total["PacketProcessed"] \in Nat
      BY GoroutinesCounted
    <2>7. Abandoned' = Abandoned
      <3> DEFINE W == Cardinality(Working)
                 S == Cardinality(Sending)
                 L == Len(packetChannel)
                 R == total["Received"]
                 P == total["PacketProcessed"]
      <3>1. W' = W /\ S' = S /\ L' = L - 1 /\ R' = R /\ P' = P + 1
        BY <2>2, <2>3, <2>4, <2>5
      <3>2. W \in Nat /\ S \in Nat /\ L \in Nat /\ R \in Nat /\ P \in Nat
        BY <2>6
      <3>3. Abandoned = R - P - (L + W + S) /\ Abandoned' = R' - P' - (L' + W' + S')
        BY DEF Abandoned
      <3> HIDE DEF W, S, L, R, P
      <3> QED
        BY ONLY <3>1, <3>2, <3>3
    <2> QED
      BY <1>2, <2>5, <2>7, BalanceIs
  <1>6. CASE TakePacket(w)
    <2> DEFINE x == [worker[w] EXCEPT !.pc = "append", !.pkt = Head(packetChannel)]
    <2>1. /\ packetChannel # <<>> /\ packetChannel' = Tail(packetChannel)
          /\ UNCHANGED <<reader, total>> /\ worker[w].pc = "select"
          /\ worker' = [worker EXCEPT ![w] = x]
      BY <1>6 DEF TakePacket, takeUnchanged
    <2>2. x.pkt = Head(packetChannel)
      BY <1>1 DEF WorkerState
    <2> HIDE DEF x
    <2>3. w \notin Working /\ Working' = Working \cup {w}
      BY <1>1, <1>4, <2>1, <2>2 DEF Working, WorkerIds, WorkerShape
    <2>4. Cardinality(Working') = Cardinality(Working) + 1
      BY <2>3, GoroutinesCounted, FS_AddElement
    <2>5. Abandoned' = Abandoned
      BY <1>3, <1>4, <2>1, <2>4, GoroutinesCounted DEF Abandoned
    <2> QED
      BY <1>2, <1>3, <2>1, <2>5, BalanceIs
  <1>7. CASE FinishPacket(w)
    <2> DEFINE x == [worker[w] EXCEPT !.pc = "select", !.pkt = NoPacket, !.k = 1]
    <2>1. /\ UNCHANGED <<reader, packetChannel>> /\ worker[w].pc = "append"
          /\ worker' = [worker EXCEPT ![w] = x]
          /\ total' = [total EXCEPT !["PacketProcessed"] = @ + 1]
      BY <1>7 DEF FinishPacket, takeUnchanged
    <2>2. x.pkt = NoPacket
      BY <1>1 DEF WorkerState
    <2> HIDE DEF x
    <2>3. w \in Working /\ Working' = Working \ {w}
      BY <1>1, <2>1, <2>2 DEF Working, WorkerIds, WorkerShape
    <2>4. Cardinality(Working') = Cardinality(Working) - 1
      BY <2>3, GoroutinesCounted, FS_RemoveElement
    <2>5. /\ total'["Received"] = total["Received"]
          /\ total'["PacketProcessed"] = total["PacketProcessed"] + 1
      BY <1>1, <2>1 DEF Counters
    <2>6. Abandoned' = Abandoned
      BY <1>3, <2>1, <2>4, <2>5, GoroutinesCounted DEF Abandoned
    <2> QED
      BY <1>2, <1>3, <2>1, <2>6, BalanceIs
  <1> QED
    BY <1>5, <1>6, <1>7, WorkerWaitBalance DEF WorkerStep

(* The other goroutines touch neither datagrams nor their counters.         *)
LEMMA OtherBalance ==
    ASSUME TypeOK, Shape, PacketBalance,
           \/ RequestStop \/ Shutdown \/ SampleQueues \/ SpawnWorkers \/ TunerReturn
           \/ UNCHANGED vars
           \/ \E i \in InserterIds : InserterStep(i)
    PROVE  PacketBalance'
  <1>1. total \in [Counters -> Nat] /\ worker \in [WorkerIds -> WorkerState]
    BY DEF TypeOK
  <1>2. UNCHANGED <<packetChannel, reader>>
    BY DEF RequestStop, Shutdown, CloseNextReceiver, MainStep, SampleQueues, SpawnWorkers,
           TunerReturn, tuneUnchanged, inputVars, vars, InserterStep, ReceiveBatch, EnsureTable,
           CreateTable, CreateTableFails, InsertSucceeds, InsertFails, SpoolExhausted,
           InserterReturn, insertUnchanged
  <1>3. Sending' = Sending /\ Exited' = Exited
    BY <1>2 DEF Sending, Exited, Receivers
  <1>4. CASE \/ RequestStop \/ Shutdown \/ SampleQueues \/ SpawnWorkers \/ TunerReturn
             \/ UNCHANGED vars
    <2>1. UNCHANGED total
      BY <1>4 DEF RequestStop, Shutdown, CloseNextReceiver, MainStep, SampleQueues, SpawnWorkers,
                  TunerReturn, tuneUnchanged, vars
    <2>2. \A w \in WorkerIds : worker'[w].pkt = worker[w].pkt
      <3>1. CASE SpawnWorkers
        BY <1>1, <3>1 DEF SpawnWorkers, WorkerState
      <3>2. CASE RequestStop \/ Shutdown \/ SampleQueues \/ TunerReturn \/ UNCHANGED vars
        BY <3>2 DEF RequestStop, Shutdown, CloseNextReceiver, MainStep, SampleQueues,
                    TunerReturn, vars
      <3> QED
        BY <1>4, <3>1, <3>2
    <2>3. Working' = Working
      BY <2>2 DEF Working, WorkerIds
    <2> QED
      BY <1>2, <1>3, <2>1, <2>3, BalanceStays
  <1>5. ASSUME NEW i \in InserterIds, InserterStep(i)
        PROVE  PacketBalance'
    <2>1. UNCHANGED worker
      BY <1>5 DEF InserterStep, ReceiveBatch, EnsureTable, CreateTable, CreateTableFails,
                  InsertSucceeds, InsertFails, SpoolExhausted, InserterReturn, insertUnchanged
    <2>2. \A c \in {"Received", "PacketProcessed"} : total'[c] = total[c]
      <3>1. CASE CreateTableFails(i) \/ InsertFails(i)
        BY <1>1, <3>1 DEF CreateTableFails, InsertFails, AttemptFailed, Counters
      <3>2. CASE \/ ReceiveBatch(i) \/ EnsureTable(i) \/ CreateTable(i) \/ InsertSucceeds(i)
                 \/ InserterReturn(i)
        BY <1>1, <3>2 DEF ReceiveBatch, EnsureTable, CreateTable, InsertSucceeds,
                          InserterReturn, Counters
      <3>3. CASE SpoolExhausted(i)
        BY <1>1, <3>3 DEF SpoolExhausted, Spool, Counters
      <3> QED
        BY <1>5, <3>1, <3>2, <3>3 DEF InserterStep
    <2>3. Working' = Working
      BY <2>1 DEF Working, WorkerIds
    <2> QED
      BY <1>2, <1>3, <2>2, <2>3, BalanceStays
  <1> QED
    BY <1>4, <1>5

(* total_received minus total_packet_processed is what the channel, the     *)
(* workers and the receivers hold, but for one datagram at most of each     *)
(* receiver that udpReadLoop left at the stop: no datagram is processed     *)
(* twice, none uncounted, whichever goroutine fails on it.                  *)
THEOREM PacketsBalance == Spec => []PacketBalance
  <1>1. Init => PacketBalance
    <2> SUFFICES ASSUME Init PROVE PacketBalance
      OBVIOUS
    <2>1. Working = {} /\ Sending = {} /\ Exited = {}
      BY DEF Init, IdleWorker, IdleReader, Working, Sending, Exited
    <2>2. total["Received"] = 0 /\ total["PacketProcessed"] = 0 /\ packetChannel = <<>>
      BY DEF Init, Counters
    <2>3. Cardinality({}) = 0 /\ Len(<<>>) = 0
      BY FS_EmptySet
    <2> QED
      BY <2>1, <2>2, <2>3, BalanceIs DEF Abandoned
  <1>2. TypeOK /\ Shape /\ PacketBalance /\ [Next]_vars => PacketBalance'
    BY ReaderBalance, WorkerBalance, OtherBalance DEF Next, Terminated
  <1>3. IInv => TypeOK /\ Shape
    BY DEF IInv
  <1> QED
    BY <1>1, <1>2, <1>3, Inductive, PTL DEF Spec
=============================================================================
