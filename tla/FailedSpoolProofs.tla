-------------------------- MODULE FailedSpoolProofs --------------------------
(***************************************************************************)
(* FailedSpool is type correct and implements BatchFate: for any batches,  *)
(* any number of workers, any limits and any number of kills, a retained   *)
(* batch leaves done only when ClickHouse has confirmed it, unless it is   *)
(* quarantined, and then it was never retained or could not be read.  The  *)
(* inductive invariant is IInv.                                            *)
(***************************************************************************)
EXTENDS FailedSpool, TLAPS, FiniteSetTheorems, SequenceTheorems

(* Where spoolFailedInsertBatch stands says where its files are; before     *)
(* they have aged nobody else touches them, but to quarantine what it could *)
(* not read.                                                                *)
WriterShape(b) ==
    /\ writer[b] = "waiting" => data[b] = "none" /\ meta[b] = "none"
    /\ writer[b] = "open" => data[b] = "open" /\ meta[b] = "none"
    /\ writer[b] = "renamed" => data[b] \in {"done", "bad"} /\ meta[b] = "none"
    /\ writer[b] = "json" => meta[b] # "none" /\ b \in partial
    /\ writer[b] = "finished" => meta[b] # "none" /\ b \notin partial
    /\ meta[b] = "none" => b \notin partial
    /\ meta[b] # "none" => data[b] \notin {"none", "open"}
    /\ b \in aged => meta[b] # "none" /\ writer[b] \in {"finished", "failed"}
    /\ b \notin aged => /\ data[b] \in {"none", "open", "done", "bad"}
                        /\ meta[b] \in {"none", "done", "bad"} /\ b \notin confirmed

(* The reasons to quarantine a batch: it could not be read, or its JSON is  *)
(* not whole.                                                               *)
Condemned(b) == b \in unreadable \/ (b \in aged /\ b \in partial)

(* What is out of done went there for a reason.                             *)
OutcomeShape(b) ==
    /\ data[b] = "bad" => Condemned(b)
    /\ data[b] \in {"archive", "removed"} => b \in confirmed
    /\ data[b] = "done" => meta[b] \in {"none", "done"}
    /\ b \in confirmed => b \notin partial

(* What the scan found stays as it was until a mover takes it.              *)
CycleShape ==
    /\ phase # "quarantine" => invalid = {}
    /\ phase \notin {"quarantine", "work"} => jobs = {}
    /\ invalid \cap jobs = {}
    /\ \A b \in invalid : data[b] = "done" /\ Condemned(b)
    /\ \A b \in jobs : Eligible(b) /\ b \notin partial

(* A mover has a batch to itself, in the phase it works in.                 *)
Holding(m) ==
    /\ IF m = 0 THEN Condemned(mover[m].batch)
                ELSE mover[m].batch \in aged \ partial
    /\ phase = IF m = 0 THEN "quarantine" ELSE "work"
    /\ mover[m].batch \notin invalid \cup jobs
    /\ m = 0 => mover[m].pc \in {"moveData", "moveMeta"}
    /\ mover[m].pc \in {"insert", "moveData"} => data[mover[m].batch] = "done"
    /\ mover[m].pc = "moveMeta" =>
         data[mover[m].batch] = Destination(m) /\ meta[mover[m].batch] \in {"none", "done"}
    /\ m # 0 /\ mover[m].pc \in {"insert", "moveData", "moveMeta"} =>
         meta[mover[m].batch] = "done"
    /\ mover[m].pc = "removeData" =>
         data[mover[m].batch] = "archive" /\ meta[mover[m].batch] = "archive"
    /\ mover[m].pc = "removeMeta" =>
         data[mover[m].batch] = "removed" /\ meta[mover[m].batch] = "archive"
    /\ m # 0 /\ mover[m].pc # "insert" => mover[m].batch \in confirmed

Busy(m) == mover[m].pc # "idle"

MoverShape ==
    /\ \A m \in Movers : Busy(m) => mover[m].batch \in Batches /\ Holding(m)
    /\ \A m, n \in Movers :
         Busy(m) /\ Busy(n) /\ mover[m].batch = mover[n].batch => m = n

(* Every batch in done has a place of its own in the order of ages.         *)
AgeOrder ==
    /\ \A i, j \in DOMAIN written : written[i] = written[j] => i = j
    /\ \A i \in DOMAIN written : writer[written[i]] # "waiting"
    /\ \A b \in Batches :
         writer[b] = "open" \/ data[b] \notin {"none", "open"} =>
            \E i \in DOMAIN written : written[i] = b

FileShape == \A b \in Batches : WriterShape(b) /\ OutcomeShape(b)

IInv == TypeOK /\ FileShape /\ CycleShape /\ MoverShape /\ AgeOrder
-----------------------------------------------------------------------------
(* The processes, and what each of them can touch.                          *)

(* The actions of the collector.                                            *)
SpoolerStep ==
    \/ \E b \in Batches :
         \/ WriteOpenFile(b) \/ GiveUpBeforeRename(b) \/ RenameToDone(b)
         \/ CreateJson(b) \/ FinishJson(b) \/ JsonFails(b)
    \/ CollectorKilled

(* The goroutine of processCycle and its workers are all that move files.   *)
LEMMA MoverIds == 0 \in Movers /\ Workers \subseteq Movers /\ 0 \notin Workers
  BY SpoolAssumption DEF Movers, Workers

(* A step is a step of one of the processes, or a kill.                     *)
LEMMA NextCases ==
    ASSUME [Next]_vars
    PROVE  \/ SpoolerStep
           \/ \E b \in Batches : Age(b)
           \/ Start \/ Cancel \/ Stop \/ ReprocessorKilled
           \/ Scan \/ TakeInvalid \/ StartWorkers \/ EndCycle
           \/ \E w \in Workers : Dispatch(w) \/ ConfirmInsert(w) \/ InsertFails(w)
           \/ \E m \in Movers : MoverStep(m)
           \/ UNCHANGED vars
  BY MoverIds DEF Next, SpoolerStep, CycleStep, WorkerStep

(* The collector does not touch a pair that has aged, and of one in done it *)
(* writes at most the JSON.                                                 *)
LEMMA SpoolerLeavesAged ==
    ASSUME IInv, SpoolerStep
    PROVE  /\ UNCHANGED <<aged, cycleVars, mover, confirmed, unreadable>>
           /\ \A c \in Batches : data[c] \notin {"none", "open"} =>
                /\ data'[c] = data[c]
                /\ meta'[c] = meta[c] \/ (meta[c] = "none" /\ meta'[c] = "done")
           /\ \A c \in Batches \cap aged :
                /\ writer'[c] = writer[c] /\ data'[c] = data[c] /\ meta'[c] = meta[c]
                /\ c \in partial' <=> c \in partial
  <1> USE DEF IInv, TypeOK, FileShape, WriterShape
  <1>1. ASSUME NEW b \in Batches, WriteOpenFile(b) PROVE b \notin aged
    BY <1>1 DEF WriteOpenFile
  <1>2. ASSUME NEW b \in Batches, GiveUpBeforeRename(b) PROVE b \notin aged
    BY <1>2 DEF GiveUpBeforeRename
  <1>3. ASSUME NEW b \in Batches, RenameToDone(b) PROVE b \notin aged
    BY <1>3 DEF RenameToDone
  <1>4. ASSUME NEW b \in Batches, CreateJson(b) PROVE b \notin aged
    BY <1>4 DEF CreateJson
  <1>5. ASSUME NEW b \in Batches, FinishJson(b) PROVE b \notin aged
    BY <1>5 DEF FinishJson
  <1>6. ASSUME NEW b \in Batches, JsonFails(b) PROVE b \notin aged
    BY <1>6 DEF JsonFails
  <1>7. Writing \cap aged = {}
    BY DEF Writing
  <1>8. \A c \in Batches : data[c] \notin {"none", "open"} =>
          /\ data'[c] = data[c]
          /\ meta'[c] = meta[c] \/ (meta[c] = "none" /\ meta'[c] = "done")
    BY DEF SpoolerStep, WriteOpenFile, GiveUpBeforeRename, RenameToDone, CreateJson, FinishJson,
           JsonFails, CollectorKilled
  <1> QED
    BY <1>1, <1>2, <1>3, <1>4, <1>5, <1>6, <1>7, <1>8
       DEF SpoolerStep, WriteOpenFile, GiveUpBeforeRename, RenameToDone, CreateJson, FinishJson,
           JsonFails, CollectorKilled, spoolUnchanged, writerVars, fileVars, cycleVars

(* A busy mover has a batch that nobody else has.                           *)
LEMMA MoverOwnsBatch ==
    ASSUME IInv, NEW m \in Movers, Busy(m)
    PROVE  /\ mover[m].batch \in Batches /\ Holding(m)
           /\ \A n \in Movers \ {m} : Busy(n) => mover[n].batch # mover[m].batch
           /\ WriterShape(mover[m].batch) /\ OutcomeShape(mover[m].batch)
  BY DEF IInv, MoverShape, Holding, FileShape

(* A mover moves only the files of its batch.                               *)
LEMMA MoverTouchesItsBatch ==
    ASSUME IInv, NEW m \in Movers, MoverStep(m)
    PROVE  /\ Busy(m)
           /\ UNCHANGED <<writerVars, partial, aged, cycleVars, confirmed, unreadable, kills>>
           /\ \A c \in Batches \ {mover[m].batch} : data'[c] = data[c] /\ meta'[c] = meta[c]
           /\ \A n \in Movers \ {m} : mover'[n] = mover[n]
           /\ data'[mover[m].batch] \in {"done", "archive", "bad", "removed"}
           /\ \/ meta'[mover[m].batch] = meta[mover[m].batch]
              \/ /\ meta[mover[m].batch] # "none"
                 /\ meta'[mover[m].batch] = Destination(m) \/ m # 0
                 /\ meta'[mover[m].batch] \in {"done", "archive", "bad", "removed"}
  <1>1. Busy(m)
    BY DEF MoverStep, Busy, MoveData, MoveDataFails, MoveMeta, MoveMetaFails, RemoveData,
           RemoveMeta, RemoveFails
  <1>2. mover[m].batch \in Batches /\ Holding(m) /\ WriterShape(mover[m].batch)
    BY <1>1, MoverOwnsBatch
  <1>3. UNCHANGED <<writerVars, partial, aged, cycleVars, confirmed, unreadable, kills>>
    BY DEF MoverStep, MoveData, MoveDataFails, MoveMeta, MoveMetaFails, RemoveData, RemoveMeta,
           RemoveFails, moveUnchanged
  <1>4. /\ \A c \in Batches \ {mover[m].batch} : data'[c] = data[c] /\ meta'[c] = meta[c]
        /\ \A n \in Movers \ {m} : mover'[n] = mover[n]
    BY DEF IInv, TypeOK, MoverStep, MoveData, MoveDataFails, MoveMeta, MoveMetaFails, RemoveData,
           RemoveMeta, RemoveFails
  <1>5. /\ data'[mover[m].batch] \in {"done", "archive", "bad", "removed"}
        /\ \/ meta'[mover[m].batch] = meta[mover[m].batch]
           \/ /\ meta[mover[m].batch] # "none"
              /\ meta'[mover[m].batch] = Destination(m) \/ m # 0
              /\ meta'[mover[m].batch] \in {"done", "archive", "bad", "removed"}
    BY <1>2 DEF IInv, TypeOK, WriterShape, Holding, Destination, MoverStep, MoveData, MoveDataFails,
           MoveMeta, MoveMetaFails, RemoveData, RemoveMeta, RemoveFails
  <1> QED
    BY <1>1, <1>3, <1>4, <1>5

-----------------------------------------------------------------------------
(* The scan limit.                                                          *)

(* The order of ages is strict, and total on what is in done.               *)
LEMMA OlderIsStrict ==
    ASSUME IInv
    PROVE  /\ \A a, b \in Batches : Older(a, b) => ~Older(b, a)
           /\ \A a, b, c \in Batches : Older(a, b) /\ Older(b, c) => Older(a, c)
           /\ \A a, b \in Candidates : a = b \/ Older(a, b) \/ Older(b, a)
  <1>1. written \in Seq(Batches) /\ DOMAIN written \subseteq Nat
    BY DEF IInv, TypeOK
  <1>2. \A i, j \in DOMAIN written : written[i] = written[j] => i = j
    BY DEF IInv, AgeOrder
  <1>3. \A a \in Candidates : \E i \in DOMAIN written : written[i] = a
    BY DEF IInv, AgeOrder, Candidates, Eligible
  <1>4. \A a, b \in Batches : Older(a, b) => ~Older(b, a)
    BY <1>1, <1>2 DEF Older
  <1>5. \A a, b, c \in Batches : Older(a, b) /\ Older(b, c) => Older(a, c)
    BY <1>1, <1>2 DEF Older
  <1>6. \A a, b \in Candidates : a = b \/ Older(a, b) \/ Older(b, a)
    <2> SUFFICES ASSUME NEW a \in Candidates, NEW b \in Candidates
                 PROVE  a = b \/ Older(a, b) \/ Older(b, a)
      OBVIOUS
    <2>1. PICK i, j \in DOMAIN written : written[i] = a /\ written[j] = b
      BY <1>3
    <2>2. i = j \/ i < j \/ j < i
      BY <1>1, <2>1
    <2> QED
      BY <2>1, <2>2 DEF Older
  <1> QED
    BY <1>4, <1>5, <1>6

(* The candidates that have fewer than n older ones are at most n: they     *)
(* differ in the number of candidates older than themselves.                *)
LEMMA OldestAreFew ==
    ASSUME IInv, ScanLimit > 0, NEW C \in SUBSET Candidates
    PROVE  Cardinality(Oldest(C)) <= ScanLimit
  <1> DEFINE Before(b) == {a \in C : Older(a, b)}
             rank == [b \in Oldest(C) |-> Cardinality(Before(b))]
  <1>1. IsFiniteSet(C)
    BY SpoolAssumption, FS_Subset DEF Candidates
  <1>2. \A b \in C : IsFiniteSet(Before(b)) /\ Cardinality(Before(b)) \in Nat
    BY <1>1, FS_Subset, FS_CardinalityType
  <1>3. rank \in [Oldest(C) -> 0..ScanLimit-1]
    BY <1>2, SpoolAssumption DEF Oldest
  <1>4. ASSUME NEW a \in C, NEW b \in C, Older(a, b)
        PROVE  Cardinality(Before(a)) # Cardinality(Before(b))
    <2>1. Before(a) \subseteq Before(b) /\ a \in Before(b) /\ a \notin Before(a)
      BY <1>4, OlderIsStrict DEF Candidates
    <2> QED
      BY <2>1, <1>2, FS_Subset
  <1>5. ASSUME NEW a \in Oldest(C), NEW b \in Oldest(C), rank[a] = rank[b]
        PROVE  a = b
    <2>1. a \in C /\ b \in C
      BY DEF Oldest
    <2> QED
      BY <2>1, <1>4, <1>5, OlderIsStrict
  <1>6. rank \in Injection(Oldest(C), 0..ScanLimit-1)
    BY <1>3, <1>5 DEF Injection, IsInjective
  <1>7. 0 \in Int /\ ScanLimit - 1 \in Int
    BY SpoolAssumption
  <1>8. IsFiniteSet(0..ScanLimit-1) /\ Cardinality(0..ScanLimit-1) = ScanLimit
    BY <1>7, FS_Interval, SpoolAssumption
  <1> QED
    BY <1>6, <1>8, FS_Injection

-----------------------------------------------------------------------------
(* The initial state.                                                       *)

WriterSteps == {"waiting", "open", "renamed", "json", "finished", "failed"}
DataPlaces == {"none", "open", "done", "archive", "bad", "removed"}
MetaPlaces == {"none", "done", "archive", "bad", "removed"}
MoverSteps == {"idle", "insert", "moveData", "moveMeta", "removeData", "removeMeta"}

MoverType == [pc : MoverSteps, batch : Batches \cup {NoBatch}, attempt : 1..MaxRetries]

(* A mover between two batches.                                             *)
LEMMA IdleType ==
    /\ Idle \in MoverType
    /\ \A b \in Batches, p \in MoverSteps : At(p, b) \in MoverType
  BY SpoolAssumption DEF Idle, At, MoverType, MoverSteps

(* An empty spool satisfies the invariant.                                  *)
LEMMA InitIInv == Init => IInv
  <1> SUFFICES ASSUME Init PROVE IInv
    OBVIOUS
  <1>1. TypeOK
    <2>1. mover \in [Movers -> MoverType]
      BY IdleType DEF Init
    <2>2. kills \in 0..MaxKills /\ written \in Seq(Batches)
      BY SpoolAssumption DEF Init
    <2>3. ScanLimit > 0 => Cardinality(jobs) <= ScanLimit
      BY SpoolAssumption, FS_EmptySet DEF Init
    <2> QED
      BY <2>1, <2>2, <2>3 DEF Init, TypeOK, MoverType, MoverSteps
  <1>2. FileShape /\ CycleShape /\ MoverShape /\ AgeOrder
    BY DEF Init, FileShape, WriterShape, OutcomeShape, CycleShape, MoverShape, Busy, Idle, At,
           AgeOrder
  <1> QED
    BY <1>1, <1>2 DEF IInv

-----------------------------------------------------------------------------
(* TypeOK.                                                                  *)

LEMMA JobsFinite == TypeOK => IsFiniteSet(jobs)
  BY SpoolAssumption, FS_Subset DEF TypeOK

(* What an operation of the collector does to the types.                    *)
LEMMA SpoolerTypes ==
    ASSUME TypeOK, SpoolerStep
    PROVE  /\ writer' \in [Batches -> WriterSteps] /\ written' \in Seq(Batches)
           /\ data' \in [Batches -> DataPlaces] /\ meta' \in [Batches -> MetaPlaces]
           /\ partial' \subseteq Batches /\ kills' \in 0..MaxKills
  <1> USE DEF WriterSteps, DataPlaces, MetaPlaces
  <1>1. /\ writer \in [Batches -> WriterSteps] /\ written \in Seq(Batches)
        /\ data \in [Batches -> DataPlaces] /\ meta \in [Batches -> MetaPlaces]
        /\ partial \subseteq Batches /\ kills \in 0..MaxKills
    BY DEF TypeOK
  <1>2. ASSUME NEW b \in Batches, WriteOpenFile(b)
        PROVE  written' \in Seq(Batches) /\ UNCHANGED <<meta, partial, kills>>
    BY <1>1, <1>2 DEF WriteOpenFile, spoolUnchanged
  <1>3. ASSUME NEW b \in Batches, WriteOpenFile(b)
        PROVE  writer' \in [Batches -> WriterSteps] /\ data' \in [Batches -> DataPlaces]
    BY <1>1, <1>3 DEF WriteOpenFile
  <1>4. ASSUME NEW b \in Batches, GiveUpBeforeRename(b)
        PROVE  /\ writer' \in [Batches -> WriterSteps] /\ data' \in [Batches -> DataPlaces]
               /\ UNCHANGED <<written, meta, partial, kills>>
    BY <1>1, <1>4 DEF GiveUpBeforeRename, spoolUnchanged
  <1>5. ASSUME NEW b \in Batches, RenameToDone(b)
        PROVE  /\ writer' \in [Batches -> WriterSteps] /\ data' \in [Batches -> DataPlaces]
               /\ UNCHANGED <<written, meta, partial, kills>>
    BY <1>1, <1>5 DEF RenameToDone, spoolUnchanged
  <1>6. ASSUME NEW b \in Batches, CreateJson(b)
        PROVE  /\ writer' \in [Batches -> WriterSteps] /\ meta' \in [Batches -> MetaPlaces]
               /\ partial' \subseteq Batches /\ UNCHANGED <<written, data, kills>>
    BY <1>1, <1>6 DEF CreateJson, spoolUnchanged
  <1>7. ASSUME NEW b \in Batches, FinishJson(b) \/ JsonFails(b)
        PROVE  /\ writer' \in [Batches -> WriterSteps] /\ partial' \subseteq Batches
               /\ UNCHANGED <<written, data, meta, kills>>
    BY <1>1, <1>7 DEF FinishJson, JsonFails, spoolUnchanged
  <1>8. ASSUME CollectorKilled
        PROVE  /\ writer' \in [Batches -> WriterSteps] /\ partial' \subseteq Batches
               /\ UNCHANGED <<written, data, meta>>
    BY <1>1, <1>8 DEF CollectorKilled
  <1>9. ASSUME CollectorKilled PROVE kills' \in 0..MaxKills
    BY <1>1, <1>9, SpoolAssumption DEF CollectorKilled
  <1> QED
    BY <1>1, <1>2, <1>3, <1>4, <1>5, <1>6, <1>7, <1>8, <1>9 DEF SpoolerStep

(* Every step keeps the types.                                              *)
LEMMA TypeStep ==
    ASSUME IInv, [Next]_vars
    PROVE  TypeOK'
  <1> USE SpoolAssumption DEF IInv, TypeOK
  <1>1. CASE SpoolerStep
    <2>1. UNCHANGED <<aged, cycleVars, mover, confirmed, unreadable>>
      BY <1>1, SpoolerLeavesAged
    <2> QED
      BY <1>1, <2>1, SpoolerTypes DEF cycleVars, WriterSteps, DataPlaces, MetaPlaces
  <1>2. CASE \E b \in Batches : Age(b)
    BY <1>2 DEF Age, writerVars, fileVars, cycleVars
  <1>3. CASE Start \/ Cancel \/ Stop
    <2>1. kills' \in 0..MaxKills
      BY <1>3 DEF Start, Cancel, Stop, cycleUnchanged
    <2>2. cancelled' \in BOOLEAN /\ phase' \in {"down", "paused", "quarantine", "work"}
      BY <1>3 DEF Start, Cancel, Stop, cycleUnchanged
    <2> QED
      BY <1>3, <2>1, <2>2 DEF Start, Cancel, Stop, cycleUnchanged, writerVars, fileVars
  <1>4. CASE ReprocessorKilled
    <2>1. mover' \in [Movers -> MoverType]
      BY <1>4, IdleType DEF ReprocessorKilled
    <2>2. kills' \in 0..MaxKills
      BY <1>4 DEF ReprocessorKilled
    <2>3. ScanLimit > 0 => Cardinality(jobs') <= ScanLimit
      BY <1>4, FS_EmptySet DEF ReprocessorKilled
    <2> QED
      BY <1>4, <2>1, <2>2, <2>3
         DEF ReprocessorKilled, MoverType, MoverSteps, writerVars, fileVars
  <1>5. CASE Scan
    <2>1. PICK unread \in SUBSET Examinable :
                 /\ unreadable' = unreadable \cup unread
                 /\ invalid' = unread \cup {b \in Batches : Eligible(b) /\ b \in partial}
                 /\ jobs' = Oldest(Candidates \ unread)
      BY <1>5 DEF Scan
    <2>2. jobs' \subseteq Batches /\ invalid' \subseteq Batches /\ unreadable' \subseteq Batches
      BY <2>1 DEF Oldest, Candidates, Examinable
    <2>3. ScanLimit > 0 => Cardinality(jobs') <= ScanLimit
      BY <2>1, OldestAreFew
    <2> QED
      BY <1>5, <2>2, <2>3 DEF Scan, writerVars, fileVars
  <1>6. CASE TakeInvalid \/ StartWorkers
    <2>1. mover' \in [Movers -> MoverType]
      <3>1. mover \in [Movers -> MoverType] /\ "moveData" \in MoverSteps
        BY DEF MoverType, MoverSteps
      <3>2. \A b \in invalid : At("moveData", b) \in MoverType
        BY <3>1, IdleType
      <3> QED
        BY <1>6, <3>1, <3>2 DEF TakeInvalid, StartWorkers
    <2> QED
      BY <1>6, <2>1
         DEF TakeInvalid, StartWorkers, cycleUnchanged, MoverType, MoverSteps, writerVars, fileVars
  <1>7. CASE EndCycle
    BY <1>7, FS_EmptySet DEF EndCycle, cycleUnchanged, writerVars, fileVars
  <1>8. ASSUME NEW w \in Workers, Dispatch(w) PROVE TypeOK'
    <2>1. PICK b \in jobs : /\ mover' = [mover EXCEPT ![w] = At("insert", b)]
                            /\ jobs' = jobs \ {b}
      BY <1>8 DEF Dispatch
    <2>2. ScanLimit > 0 => Cardinality(jobs \ {b}) <= ScanLimit
      <3>1. IsFiniteSet(jobs) /\ Cardinality(jobs) \in Nat
        BY JobsFinite, FS_CardinalityType
      <3>2. Cardinality(jobs \ {b}) = Cardinality(jobs) - 1
        BY <3>1, FS_RemoveElement
      <3> QED
        BY <3>1, <3>2
    <2>3. mover' \in [Movers -> MoverType]
      BY <2>1, IdleType DEF MoverType, MoverSteps
    <2> QED
      BY <1>8, <2>1, <2>2, <2>3
         DEF Dispatch, cycleUnchanged, MoverType, MoverSteps, writerVars, fileVars
  <1>9. ASSUME NEW w \in Workers, ConfirmInsert(w) \/ InsertFails(w) PROVE TypeOK'
    <2>1. w \in Movers /\ Busy(w)
      BY <1>9, MoverIds DEF ConfirmInsert, InsertFails, Busy
    <2>2. mover[w].batch \in Batches
      BY <2>1, MoverOwnsBatch
    <2>3. mover' \in [Movers -> MoverType]
      <3>1. mover \in [Movers -> MoverType] /\ Idle \in MoverType
        BY IdleType DEF MoverType, MoverSteps
      <3>2. ASSUME mover[w].attempt < MaxRetries
            PROVE  [mover[w] EXCEPT !.attempt = @ + 1] \in MoverType
        <4>1. mover[w].attempt + 1 \in 1..MaxRetries
          BY <2>1, <3>2
        <4> QED
          BY <2>1, <3>1, <4>1 DEF MoverType
      <3>3. [mover[w] EXCEPT !.pc = "moveData"] \in MoverType
        BY <2>1, <3>1 DEF MoverType, MoverSteps
      <3> QED
        BY <1>9, <2>1, <3>1, <3>2, <3>3 DEF ConfirmInsert, InsertFails
    <2> QED
      BY <1>9, <2>2, <2>3 DEF ConfirmInsert, InsertFails, insertUnchanged, writerVars, fileVars,
                              cycleVars, MoverType, MoverSteps
  <1>10. ASSUME NEW m \in Movers, MoverStep(m) PROVE TypeOK'
    <2>1. mover' \in [Movers -> MoverType]
      <3>1. mover \in [Movers -> MoverType] /\ Idle \in MoverType
        BY IdleType DEF MoverType, MoverSteps
      <3>2. \A p \in MoverSteps : [mover[m] EXCEPT !.pc = p] \in MoverType
        BY <3>1 DEF MoverType
      <3> QED
        BY <1>10, <3>1, <3>2
           DEF MoverStep, MoveData, MoveDataFails, MoveMeta, MoveMetaFails, RemoveData,
               RemoveMeta, RemoveFails, MoverSteps
    <2>2. /\ data' \in [Batches -> {"none", "open", "done", "archive", "bad", "removed"}]
          /\ meta' \in [Batches -> {"none", "done", "archive", "bad", "removed"}]
      BY <1>10 DEF MoverStep, MoveData, MoveDataFails, MoveMeta, MoveMetaFails, RemoveData,
                   RemoveMeta, RemoveFails, Destination
    <2> QED
      BY <1>10, <2>1, <2>2, MoverTouchesItsBatch DEF writerVars, cycleVars, MoverType, MoverSteps
  <1>11. CASE UNCHANGED vars
    BY <1>11 DEF vars, writerVars, fileVars, cycleVars
  <1> QED
    BY <1>1, <1>2, <1>3, <1>4, <1>5, <1>6, <1>7, <1>8, <1>9, <1>10, <1>11, NextCases

-----------------------------------------------------------------------------
(* The shapes of files, cycle, movers and ages.                             *)

LEMMA FileStep ==
    ASSUME IInv, [Next]_vars
    PROVE  FileShape'
  <1> USE DEF IInv, TypeOK, FileShape, WriterShape, OutcomeShape, Condemned
  <1>1. ASSUME NEW b \in Batches, WriteOpenFile(b) PROVE FileShape'
    BY <1>1 DEF WriteOpenFile, spoolUnchanged
  <1>2. ASSUME NEW b \in Batches, GiveUpBeforeRename(b) PROVE FileShape'
    BY <1>2 DEF GiveUpBeforeRename, spoolUnchanged
  <1>3. ASSUME NEW b \in Batches, RenameToDone(b) PROVE FileShape'
    BY <1>3 DEF RenameToDone, spoolUnchanged
  <1>4. ASSUME NEW b \in Batches, CreateJson(b) PROVE FileShape'
    BY <1>4 DEF CreateJson, spoolUnchanged
  <1>5. ASSUME NEW b \in Batches, FinishJson(b) PROVE FileShape'
    BY <1>5 DEF FinishJson, spoolUnchanged
  <1>6. ASSUME NEW b \in Batches, JsonFails(b) PROVE FileShape'
    BY <1>6 DEF JsonFails, spoolUnchanged
  <1>7. CASE CollectorKilled
    BY <1>7 DEF CollectorKilled, Writing
  <1>8. ASSUME NEW b \in Batches, Age(b) PROVE FileShape'
    BY <1>8 DEF Age, writerVars, fileVars
  <1>9. CASE Start \/ Cancel \/ Stop \/ ReprocessorKilled \/ Scan \/ TakeInvalid
             \/ StartWorkers \/ EndCycle
    <2>1. UNCHANGED <<writerVars, fileVars, aged, confirmed>> /\ unreadable \subseteq unreadable'
      BY <1>9 DEF Start, Cancel, Stop, ReprocessorKilled, Scan, TakeInvalid, StartWorkers,
                  EndCycle, cycleUnchanged
    <2> QED
      BY <2>1 DEF writerVars, fileVars
  <1>10. ASSUME NEW w \in Workers, Dispatch(w) \/ InsertFails(w) PROVE FileShape'
    BY <1>10 DEF Dispatch, InsertFails, cycleUnchanged, insertUnchanged, writerVars, fileVars
  <1>11. ASSUME NEW w \in Workers, ConfirmInsert(w) PROVE FileShape'
    <2>1. /\ mover[w].batch \in Batches \cap aged /\ mover[w].batch \notin partial
          /\ confirmed' = confirmed \cup {mover[w].batch}
      BY <1>11, MoverIds, MoverOwnsBatch DEF ConfirmInsert, Busy, Holding
    <2> QED
      BY <1>11, <2>1 DEF ConfirmInsert, insertUnchanged, writerVars, fileVars
  <1>12. ASSUME NEW m \in Movers, MoverStep(m) PROVE FileShape'
    <2>1. PICK b : b = mover[m].batch
      OBVIOUS
    <2>2. /\ b \in Batches /\ Holding(m) /\ WriterShape(b) /\ OutcomeShape(b)
          /\ UNCHANGED <<writerVars, partial, aged, confirmed, unreadable>>
          /\ \A c \in Batches \ {b} : data'[c] = data[c] /\ meta'[c] = meta[c]
          /\ data'[b] \notin {"none", "open"}
          /\ meta[b] = "none" <=> meta'[b] = "none"
      BY <1>12, <2>1, MoverTouchesItsBatch, MoverOwnsBatch
    <2>3. /\ data'[b] = "bad" => m = 0 \/ data[b] = "bad"
          /\ data'[b] \in {"archive", "removed"} =>
                data[b] \in {"archive", "removed"} \/ b \in confirmed
          /\ data'[b] = "done" => meta'[b] \in {"none", "done"}
          /\ m = 0 => data'[b] \in {"done", "bad"} /\ meta'[b] \in {"none", "done", "bad"}
          /\ m = 0 => data[b] \in {"done", "bad"}
      BY <1>12, <2>1, <2>2
         DEF Holding, Destination, MoverStep, MoveData, MoveDataFails, MoveMeta, MoveMetaFails, RemoveData,
             RemoveMeta, RemoveFails
    <2>4. WriterShape(b)' /\ OutcomeShape(b)'
      BY <2>1, <2>2, <2>3 DEF Holding, writerVars
    <2> QED
      BY <2>2, <2>4 DEF writerVars
  <1>13. CASE UNCHANGED vars
    BY <1>13 DEF vars, writerVars, fileVars
  <1> QED
    BY <1>1, <1>2, <1>3, <1>4, <1>5, <1>6, <1>7, <1>8, <1>9, <1>10, <1>11, <1>12, <1>13,
       NextCases DEF SpoolerStep

(* What a cycle has sorted out stays eligible until a mover takes it.       *)
LEMMA CycleStepShape ==
    ASSUME IInv, [Next]_vars
    PROVE  CycleShape'
  <1> USE DEF IInv, CycleShape, Eligible, Condemned
  <1>1. CASE SpoolerStep
    <2>1. invalid \subseteq Batches /\ jobs \subseteq Batches \cap aged
      BY DEF TypeOK
    <2> QED
      BY <1>1, <2>1, SpoolerLeavesAged DEF cycleVars
  <1>2. ASSUME NEW b \in Batches, Age(b) PROVE CycleShape'
    BY <1>2 DEF Age, fileVars, cycleVars
  <1>3. CASE Start \/ Cancel \/ Stop \/ ReprocessorKilled
    BY <1>3 DEF Start, Cancel, Stop, ReprocessorKilled, cycleUnchanged, fileVars, TypeOK
  <1>4. CASE Scan
    <2>1. PICK unread \in SUBSET Examinable :
                 /\ unreadable' = unreadable \cup unread
                 /\ invalid' = unread \cup {b \in Batches : Eligible(b) /\ b \in partial}
                 /\ jobs' = Oldest(Candidates \ unread)
      BY <1>4 DEF Scan
    <2>2. phase' = "quarantine" /\ UNCHANGED <<data, meta, partial, aged>>
      BY <1>4 DEF Scan, fileVars
    <2> QED
      BY <2>1, <2>2 DEF Oldest, Candidates, Examinable
  <1>5. CASE TakeInvalid \/ StartWorkers \/ EndCycle
    BY <1>5 DEF TakeInvalid, StartWorkers, EndCycle, cycleUnchanged, fileVars
  <1>6. ASSUME NEW w \in Workers, Dispatch(w) PROVE CycleShape'
    BY <1>6 DEF Dispatch, cycleUnchanged, fileVars
  <1>7. ASSUME NEW w \in Workers, ConfirmInsert(w) \/ InsertFails(w) PROVE CycleShape'
    BY <1>7 DEF ConfirmInsert, InsertFails, insertUnchanged, fileVars, cycleVars
  <1>8. ASSUME NEW m \in Movers, MoverStep(m) PROVE CycleShape'
    <2>1. /\ UNCHANGED <<partial, aged, cycleVars, unreadable>>
          /\ \A c \in Batches \ {mover[m].batch} : data'[c] = data[c] /\ meta'[c] = meta[c]
          /\ mover[m].batch \notin invalid \cup jobs
      BY <1>8, MoverTouchesItsBatch, MoverOwnsBatch DEF Holding
    <2>2. invalid \subseteq Batches /\ jobs \subseteq Batches
      BY DEF TypeOK
    <2> QED
      BY <2>1, <2>2 DEF cycleVars
  <1>9. CASE UNCHANGED vars
    BY <1>9 DEF vars, fileVars, cycleVars
  <1> QED
    BY <1>1, <1>2, <1>3, <1>4, <1>5, <1>6, <1>7, <1>8, <1>9, NextCases

(* Every batch keeps a place of its own in the order of ages.               *)
LEMMA AgeOrderStep ==
    ASSUME IInv, [Next]_vars
    PROVE  AgeOrder'
  <1> USE DEF IInv, TypeOK, AgeOrder
  <1>1. ASSUME NEW b \in Batches, WriteOpenFile(b) PROVE AgeOrder'
    <2>1. /\ DOMAIN written = 1..Len(written) /\ Len(written) \in Nat
          /\ written' = Append(written, b) /\ DOMAIN written' = 1..Len(written)+1
          /\ \A i \in DOMAIN written : written'[i] = written[i] /\ written[i] \in Batches
          /\ written'[Len(written)+1] = b
      BY <1>1 DEF WriteOpenFile
    <2>2. \A i \in DOMAIN written : written[i] # b
      BY <1>1 DEF WriteOpenFile
    <2>3. \A i, j \in DOMAIN written' : written'[i] = written'[j] => i = j
      BY <2>1, <2>2
    <2>4. \A i \in DOMAIN written' : writer'[written'[i]] # "waiting"
      BY <1>1, <2>1 DEF WriteOpenFile
    <2>5. \A c \in Batches :
            writer'[c] = "open" \/ data'[c] \notin {"none", "open"} =>
                \E i \in DOMAIN written' : written'[i] = c
      <3>1. \A c \in Batches \ {b} : writer'[c] = writer[c] /\ data'[c] = data[c]
        BY <1>1 DEF WriteOpenFile
      <3>2. \A i \in DOMAIN written : i \in DOMAIN written'
        BY <2>1
      <3>3. Len(written)+1 \in DOMAIN written' /\ written'[Len(written)+1] = b
        BY <2>1
      <3>4. \A c \in Batches :
              writer[c] = "open" \/ data[c] \notin {"none", "open"} =>
                  \E i \in DOMAIN written : written[i] = c
        BY DEF IInv, AgeOrder
      <3>5. \A i \in DOMAIN written : written'[i] = written[i]
        BY <2>1
      <3> QED
        BY ONLY <3>1, <3>2, <3>3, <3>4, <3>5
    <2> QED
      BY <2>3, <2>4, <2>5
  <1>2. ASSUME NEW b \in Batches, GiveUpBeforeRename(b) \/ RenameToDone(b) PROVE AgeOrder'
    BY <1>2 DEF GiveUpBeforeRename, RenameToDone
  <1>3. ASSUME NEW b \in Batches, CreateJson(b) \/ FinishJson(b) \/ JsonFails(b) PROVE AgeOrder'
    BY <1>3 DEF CreateJson, FinishJson, JsonFails
  <1>4. CASE CollectorKilled
    BY <1>4 DEF CollectorKilled
  <1>5. ASSUME NEW b \in Batches, Age(b) PROVE AgeOrder'
    BY <1>5 DEF Age, writerVars, fileVars
  <1>6. CASE Start \/ Cancel \/ Stop \/ ReprocessorKilled \/ Scan \/ TakeInvalid
             \/ StartWorkers \/ EndCycle
    BY <1>6 DEF Start, Cancel, Stop, ReprocessorKilled, Scan, TakeInvalid, StartWorkers,
                EndCycle, cycleUnchanged, writerVars, fileVars
  <1>7. ASSUME NEW w \in Workers, Dispatch(w) \/ ConfirmInsert(w) \/ InsertFails(w) PROVE AgeOrder'
    BY <1>7 DEF Dispatch, ConfirmInsert, InsertFails, cycleUnchanged, insertUnchanged,
                writerVars, fileVars
  <1>8. ASSUME NEW m \in Movers, MoverStep(m) PROVE AgeOrder'
    <2>1. /\ UNCHANGED writerVars
          /\ \A c \in Batches \ {mover[m].batch} : data'[c] = data[c]
          /\ mover[m].batch \in Batches /\ data[mover[m].batch] \notin {"none", "open"}
      BY <1>8, MoverTouchesItsBatch, MoverOwnsBatch
         DEF WriterShape, Holding, Busy, Destination, IInv, TypeOK, MoverType
    <2> QED
      BY <2>1 DEF writerVars
  <1>9. CASE UNCHANGED vars
    BY <1>9 DEF vars, writerVars, fileVars
  <1> QED
    BY <1>1, <1>2, <1>3, <1>4, <1>5, <1>6, <1>7, <1>8, <1>9, NextCases DEF SpoolerStep

(* Holding speaks of a batch only through what is known of that batch.      *)
LEMMA HoldingFramed ==
    ASSUME IInv, NEW m \in Movers, Busy(m),
           mover'[m] = mover[m], phase' = phase,
           mover[m].batch \notin invalid' \cup jobs',
           data'[mover[m].batch] = data[mover[m].batch],
           meta'[mover[m].batch] = meta[mover[m].batch],
           aged \subseteq aged', confirmed \subseteq confirmed',
           unreadable \subseteq unreadable',
           mover[m].batch \in partial' <=> mover[m].batch \in partial
    PROVE  Busy(m)' /\ mover'[m].batch = mover[m].batch /\ Holding(m)'
  BY MoverOwnsBatch DEF Holding, Busy, Condemned, Destination

(* No two movers hold one batch, and a held batch is eligible until it is   *)
(* moved.                                                                   *)
LEMMA MoverShapeStep ==
    ASSUME IInv, [Next]_vars
    PROVE  MoverShape'
  <1> USE DEF MoverShape
  <1>1. CASE SpoolerStep
    <2>1. UNCHANGED <<aged, cycleVars, mover, confirmed, unreadable>>
      BY <1>1, SpoolerLeavesAged
    <2>2. ASSUME NEW m \in Movers, Busy(m) PROVE Holding(m)'
      <3>1. PICK b \in Batches : b = mover[m].batch
        BY <2>2, MoverOwnsBatch
      <3>2. /\ Holding(m) /\ data[b] \notin {"none", "open"}
            /\ m # 0 => b \in aged
        <4>1. mover[m].pc \in {"insert", "moveData", "moveMeta", "removeData", "removeMeta"}
          BY <2>2 DEF IInv, TypeOK, Busy
        <4>2. Holding(m)
          BY <2>2, MoverOwnsBatch
        <4> QED
          BY <3>1, <4>1, <4>2 DEF Holding, Destination
      <3>3. /\ data'[b] = data[b]
            /\ meta'[b] = meta[b] \/ (meta[b] = "none" /\ meta'[b] = "done")
            /\ b \in aged => meta'[b] = meta[b] /\ (b \in partial' <=> b \in partial)
        BY <1>1, <3>2, SpoolerLeavesAged
      <3> QED
        BY <2>1, <3>1, <3>2, <3>3 DEF Holding, Condemned, Destination, cycleVars
    <2> QED
      BY <2>1, <2>2 DEF IInv, Busy
  <1>2. ASSUME NEW b \in Batches, Age(b) PROVE MoverShape'
    <2>1. ASSUME NEW m \in Movers, Busy(m) PROVE Holding(m)'
      BY <1>2, <2>1, MoverOwnsBatch DEF Age, Holding, Condemned, Destination, cycleVars, fileVars
    <2> QED
      BY <1>2, <2>1 DEF Age, IInv, Busy
  <1>3. CASE Start \/ Cancel \/ Stop \/ Scan \/ StartWorkers
    <2>1. UNCHANGED <<mover, fileVars, aged, confirmed>> /\ unreadable \subseteq unreadable'
      BY <1>3 DEF Start, Cancel, Stop, Scan, StartWorkers, cycleUnchanged, fileVars
    <2>2. ASSUME NEW m \in Movers, Busy(m)
          PROVE  UNCHANGED <<phase, invalid, jobs>>
      <3>1. phase \in {"quarantine", "work"} /\ (phase = "quarantine" => m = 0)
        BY <2>2, MoverOwnsBatch DEF Holding
      <3> QED
        BY <1>3, <2>2, <3>1 DEF Start, Cancel, Stop, Scan, StartWorkers, Busy
    <2>3. ASSUME NEW m \in Movers, Busy(m) PROVE Holding(m)'
      BY <2>1, <2>2, <2>3, MoverOwnsBatch DEF Holding, Condemned, Destination, fileVars
    <2> QED
      BY <2>1, <2>3 DEF IInv, Busy
  <1>4. CASE ReprocessorKilled
    BY <1>4 DEF ReprocessorKilled, Idle, At, Busy
  <1>5. CASE TakeInvalid
    <2>1. PICK b \in invalid : /\ invalid' = invalid \ {b}
                               /\ mover' = [mover EXCEPT ![0] = At("moveData", b)]
      BY <1>5 DEF TakeInvalid
    <2>2. /\ phase = "quarantine" /\ ~Busy(0)
          /\ UNCHANGED <<phase, jobs, fileVars, aged, confirmed, unreadable>>
      BY <1>5 DEF TakeInvalid, cycleUnchanged, Busy
    <2>3. b \in Batches /\ data[b] = "done" /\ Condemned(b) /\ b \notin jobs
      BY <2>1 DEF IInv, TypeOK, CycleShape
    <2>4. \A m \in Movers \ {0} : ~Busy(m)
      BY <2>2, MoverOwnsBatch DEF Holding
    <2>5. mover'[0] = At("moveData", b) /\ \A m \in Movers \ {0} : mover'[m] = mover[m]
      BY <2>1, MoverIds DEF IInv, TypeOK
    <2> QED
      BY <2>1, <2>2, <2>3, <2>4, <2>5 DEF Holding, Busy, At, Condemned, fileVars
  <1>6. CASE EndCycle
    <2>1. \A m \in Movers : ~Busy(m)
      <3>1. phase = "work" /\ \A w \in Workers : ~Busy(w)
        BY <1>6 DEF EndCycle, Busy
      <3> QED
        BY <3>1, MoverOwnsBatch DEF Holding, Movers, Workers
    <2> QED
      BY <1>6, <2>1 DEF EndCycle, Busy
  <1>7. ASSUME NEW w \in Workers, Dispatch(w) PROVE MoverShape'
    <2>1. PICK b \in jobs : /\ jobs' = jobs \ {b}
                            /\ mover' = [mover EXCEPT ![w] = At("insert", b)]
      BY <1>7 DEF Dispatch
    <2>2. /\ phase = "work" /\ w \in Movers /\ w # 0
          /\ UNCHANGED <<phase, invalid, fileVars, aged, confirmed, unreadable>>
      BY <1>7, MoverIds DEF Dispatch, cycleUnchanged
    <2>3. b \in Batches \cap aged /\ Eligible(b) /\ b \notin partial /\ invalid = {}
      BY <2>1, <2>2 DEF IInv, TypeOK, CycleShape, Eligible
    <2>4. mover'[w] = At("insert", b) /\ \A m \in Movers \ {w} : mover'[m] = mover[m]
      BY <2>1, <2>2 DEF IInv, TypeOK
    <2>5. ASSUME NEW m \in Movers, Busy(m) PROVE mover[m].batch # b
      BY <2>1, <2>5, MoverOwnsBatch DEF Holding
    <2>6. ASSUME NEW m \in Movers \ {w}, Busy(m) PROVE Holding(m)'
      BY <2>1, <2>2, <2>4, <2>6, HoldingFramed, MoverOwnsBatch DEF Holding, fileVars
    <2>7. Holding(w)'
      BY <2>1, <2>2, <2>3, <2>4 DEF Holding, At, Eligible, fileVars
    <2> QED
      BY <2>2, <2>3, <2>4, <2>5, <2>6, <2>7 DEF IInv, Busy, At
  <1>8. ASSUME NEW w \in Workers, ConfirmInsert(w) \/ InsertFails(w) PROVE MoverShape'
    <2>1. /\ w \in Movers /\ w # 0 /\ Busy(w) /\ mover[w].pc = "insert"
          /\ UNCHANGED <<phase, invalid, jobs, fileVars, aged, unreadable>>
          /\ confirmed \subseteq confirmed'
      BY <1>8, MoverIds DEF ConfirmInsert, InsertFails, Busy, insertUnchanged, cycleVars
    <2>2. \A m \in Movers \ {w} : mover'[m] = mover[m]
      BY <1>8, <2>1 DEF ConfirmInsert, InsertFails, IInv, TypeOK
    <2>3. \/ mover'[w] = Idle
          \/ mover'[w].pc = "insert" /\ mover'[w].batch = mover[w].batch
          \/ /\ mover'[w].pc = "moveData" /\ mover'[w].batch = mover[w].batch
             /\ mover[w].batch \in confirmed'
      BY <1>8, <2>1 DEF ConfirmInsert, InsertFails, IInv, TypeOK
    <2>4. ASSUME NEW m \in Movers \ {w}, Busy(m) PROVE Holding(m)'
      BY <2>1, <2>2, <2>4, HoldingFramed, MoverOwnsBatch DEF Holding, fileVars
    <2>5. Busy(w)' => mover'[w].batch = mover[w].batch /\ Holding(w)'
      BY <2>1, <2>3, MoverOwnsBatch DEF Holding, Busy, Idle, At, Eligible, fileVars
    <2> QED
      BY <2>1, <2>2, <2>4, <2>5 DEF IInv, Busy
  <1>9. ASSUME NEW m \in Movers, MoverStep(m) PROVE MoverShape'
    <2>1. PICK b \in Batches : b = mover[m].batch
      BY <1>9, MoverTouchesItsBatch, MoverOwnsBatch
    <2>2. /\ Busy(m) /\ Holding(m) /\ OutcomeShape(b)
          /\ UNCHANGED <<partial, aged, cycleVars, confirmed, unreadable>>
          /\ \A c \in Batches \ {b} : data'[c] = data[c] /\ meta'[c] = meta[c]
          /\ \A n \in Movers \ {m} : mover'[n] = mover[n]
      BY <1>9, <2>1, MoverTouchesItsBatch, MoverOwnsBatch
    <2>3. \/ mover'[m] = Idle
          \/ /\ mover'[m].batch = b
             /\ \/ /\ mover'[m].pc = "moveMeta" /\ data'[b] = Destination(m)
                   /\ meta'[b] = meta[b] /\ mover[m].pc = "moveData"
                \/ /\ mover'[m].pc = "removeData" /\ m # 0 /\ mover[m].pc = "moveMeta"
                   /\ meta'[b] = Destination(m) /\ data'[b] = data[b]
                \/ /\ mover'[m].pc = "removeMeta" /\ mover[m].pc = "removeData"
                   /\ data'[b] = "removed" /\ meta'[b] = meta[b]
      BY <1>9, <2>1 DEF IInv, TypeOK, MoverStep, MoveData, MoveDataFails, MoveMeta, MoveMetaFails,
                        RemoveData, RemoveMeta, RemoveFails
    <2>4. ASSUME NEW n \in Movers \ {m}, Busy(n) PROVE Holding(n)'
      BY <2>1, <2>2, <2>4, HoldingFramed, MoverOwnsBatch DEF Holding, cycleVars
    <2>5. Busy(m)' => mover'[m].batch = b /\ Holding(m)'
      BY <2>1, <2>2, <2>3
         DEF Holding, OutcomeShape, Busy, Idle, At, Condemned, Destination, cycleVars
    <2> QED
      BY <2>1, <2>2, <2>4, <2>5 DEF IInv, Busy
  <1>10. CASE UNCHANGED vars
    BY <1>10 DEF IInv, vars, fileVars, cycleVars, Holding, Busy, Condemned, Destination
  <1> QED
    BY <1>1, <1>2, <1>3, <1>4, <1>5, <1>6, <1>7, <1>8, <1>9, <1>10, NextCases

-----------------------------------------------------------------------------

(* The inductive invariant holds for any number of batches and workers, any *)
(* scan limit and any number of attempts.                                   *)
THEOREM Invariance == Spec => []IInv
  <1>1. IInv /\ [Next]_vars => IInv'
    BY TypeStep, FileStep, CycleStepShape, MoverShapeStep, AgeOrderStep DEF IInv
  <1> QED
    BY InitIInv, <1>1, PTL DEF Spec

(* The spool keeps its types: a cycle takes at most REPROCESS_SCAN_LIMIT    *)
(* batches, and a worker makes at most REPROCESS_MAX_RETRIES attempts.      *)
THEOREM TypeCorrect == Spec => []TypeOK
  <1>1. IInv => TypeOK
    BY DEF IInv
  <1> QED
    BY Invariance, <1>1, PTL

-----------------------------------------------------------------------------
(* The refinement of BatchFate.                                             *)

fate == [b \in Batches |-> FateOf(b)]

(* The fate of a batch that nothing touches stays as it is.                 *)
LEMMA FateFramed ==
    ASSUME NEW b \in Batches,
           writer'[b] = writer[b], data'[b] = data[b], meta'[b] = meta[b],
           b \in partial' <=> b \in partial, Returning(b)' <=> Returning(b)
    PROVE  FateOf(b)' = FateOf(b)
  BY DEF FateOf

(* A mover moves the JSON of its own batch and of no other.                 *)
LEMMA ReturningOfOwner ==
    ASSUME IInv, NEW m \in Movers, Busy(m)
    PROVE  Returning(mover[m].batch) <=> mover[m].pc = "moveMeta"
  BY MoverOwnsBatch DEF Returning, Busy

(* Moves of the abstract specification, from what happens to each batch.    *)
LEMMA AbstractStep ==
    ASSUME NEW S \in SUBSET Batches, NEW from, NEW to,
           \A b \in S : FateOf(b) \in from /\ FateOf(b)' \in to,
           \A b \in Batches \ S : FateOf(b)' = FateOf(b),
           UNCHANGED <<confirmed, unreadable>>
    PROVE  Contract!Move(S, from, to)
  BY DEF Contract!Move

(* A step that leaves the fates of the batches alone is a stutter of        *)
(* BatchFate.                                                               *)
LEMMA AbstractStutter ==
    ASSUME \A b \in Batches : FateOf(b)' = FateOf(b), UNCHANGED <<confirmed, unreadable>>
    PROVE  UNCHANGED <<fate, confirmed, unreadable>>
  BY DEF fate

(* At the start no batch is retained.                                       *)
LEMMA InitRefines == Init => Contract!Init
  BY DEF Init, Contract!Init, FateOf

(* The collector ends the spooling of some batches, retained or not.        *)
LEMMA SpoolerRefines ==
    ASSUME IInv, IInv', SpoolerStep
    PROVE  Contract!Next
  <1> DEFINE Ends(b) == /\ writer[b] \notin {"finished", "failed"}
                        /\ writer'[b] \in {"finished", "failed"}
             S == {b \in Batches : Ends(b)}
  <1>1. UNCHANGED <<aged, mover, confirmed, unreadable>>
    BY SpoolerLeavesAged
  <1>2. ASSUME NEW b \in Batches, b \in aged PROVE FateOf(b)' = FateOf(b) /\ ~Ends(b)
    BY <1>1, <1>2, SpoolerLeavesAged, FateFramed DEF Returning, IInv, FileShape, WriterShape
  <1>3. ASSUME NEW b \in Batches, b \notin aged, Ends(b)
        PROVE  /\ FateOf(b) = "spooling"
               /\ FateOf(b)' \in {"retained", "unavailable", "quarantined"}
               /\ FateOf(b)' = "quarantined" => b \in unreadable
    <2>1. WriterShape(b)' /\ OutcomeShape(b)'
      BY DEF IInv, FileShape
    <2>2. data'[b] \notin {"archive", "removed"}
      BY <1>1, <1>3, <2>1 DEF WriterShape
    <2>3. FateOf(b) = "spooling"
      BY <1>3 DEF FateOf
    <2>4. /\ FateOf(b)' \in {"retained", "unavailable", "quarantined"}
          /\ FateOf(b)' = "quarantined" => data'[b] = "bad"
      <3>1. writer'[b] \in {"finished", "failed"}
        BY <1>3
      <3> QED
        BY <2>2, <3>1 DEF FateOf
    <2>5. data'[b] = "bad" => b \in unreadable
      BY <1>1, <1>3, <2>1 DEF OutcomeShape, Condemned
    <2> QED
      BY <2>3, <2>4, <2>5
  <1>4. ASSUME NEW b \in Batches, b \notin aged, ~Ends(b)
        PROVE  FateOf(b)' = FateOf(b)
    <2>1. \/ writer[b] \notin {"finished", "failed"} /\ writer'[b] \notin {"finished", "failed"}
          \/ /\ writer'[b] = writer[b] /\ data'[b] = data[b] /\ meta'[b] = meta[b]
             /\ b \in partial' <=> b \in partial
      BY <1>4 DEF SpoolerStep, WriteOpenFile, GiveUpBeforeRename, RenameToDone, CreateJson,
                  FinishJson, JsonFails, CollectorKilled, Writing, IInv, TypeOK
    <2>2. Returning(b)' <=> Returning(b)
      BY <1>1 DEF Returning
    <2>3. CASE writer[b] \notin {"finished", "failed"} /\ writer'[b] \notin {"finished", "failed"}
      <3>1. FateOf(b) = "spooling"
        BY <2>3 DEF FateOf
      <3>2. FateOf(b)' = "spooling"
        BY <2>3 DEF FateOf
      <3> QED
        BY <3>1, <3>2
    <2> QED
      BY <2>1, <2>2, <2>3, FateFramed
  <1>5. S \in SUBSET Batches
    OBVIOUS
  <1>6. Contract!Move(S, {"spooling"}, {"retained", "unavailable", "quarantined"})
    BY <1>1, <1>2, <1>3, <1>4, <1>5, AbstractStep
  <1>7. \A b \in S \ unreadable : fate'[b] # "quarantined"
    BY <1>2, <1>3 DEF fate
  <1>8. Contract!EndSpooling(S)
    BY <1>6, <1>7 DEF Contract!EndSpooling, fate
  <1> QED
    BY <1>5, <1>8 DEF Contract!Next

(* What the reprocessor does to a batch that a worker holds.                *)
LEMMA ConfirmRefines ==
    ASSUME IInv, NEW w \in Workers, ConfirmInsert(w)
    PROVE  Contract!Next
  <1>1. w \in Movers /\ w # 0 /\ Busy(w) /\ mover[w].pc = "insert"
    BY MoverIds DEF ConfirmInsert, Busy
  <1>2. PICK b \in Batches : b = mover[w].batch
    BY <1>1, MoverOwnsBatch
  <1>3. FateOf(b) = "retained"
    <2>1. /\ data[b] = "done" /\ meta[b] = "done"
          /\ b \notin partial /\ WriterShape(b) /\ b \in aged
      BY <1>1, <1>2, MoverOwnsBatch DEF Holding
    <2> QED
      BY <2>1 DEF FateOf, WriterShape
  <1>4. \A c \in Batches : Returning(c)' <=> Returning(c)
    BY <1>1 DEF ConfirmInsert, Returning, IInv, TypeOK
  <1>5. \A c \in Batches : FateOf(c)' = FateOf(c)
    BY <1>4, FateFramed DEF ConfirmInsert, insertUnchanged, writerVars, fileVars
  <1>6. confirmed' = confirmed \cup {b} /\ unreadable' = unreadable
    BY <1>2 DEF ConfirmInsert, insertUnchanged
  <1>7. Contract!Confirm(b)
    BY <1>3, <1>5, <1>6 DEF Contract!Confirm
  <1> QED
    BY <1>7 DEF Contract!Next

(* A batch leaves done when the move of its JSON ends, whichever way.       *)
LEMMA MoverRefines ==
    ASSUME IInv, IInv', NEW m \in Movers, MoverStep(m)
    PROVE  Contract!Next \/ UNCHANGED <<fate, confirmed, unreadable>>
  <1>1. PICK b \in Batches : b = mover[m].batch
    BY MoverTouchesItsBatch, MoverOwnsBatch
  <1>2. /\ Busy(m) /\ Holding(m) /\ WriterShape(b) /\ OutcomeShape(b)
        /\ UNCHANGED <<writerVars, partial, confirmed, unreadable>>
        /\ \A c \in Batches \ {b} : data'[c] = data[c] /\ meta'[c] = meta[c]
        /\ \A n \in Movers \ {m} : mover'[n] = mover[n]
        /\ Busy(m)' => mover'[m].batch = b
    <2>1. Busy(m)' => mover'[m].batch = mover[m].batch
      BY DEF IInv, TypeOK, Busy, Idle, At, MoverStep, MoveData, MoveDataFails, MoveMeta,
             MoveMetaFails, RemoveData, RemoveMeta, RemoveFails
    <2> QED
      BY <1>1, <2>1, MoverTouchesItsBatch, MoverOwnsBatch
  <1>3. \A c \in Batches \ {b} : Returning(c)' <=> Returning(c)
    BY <1>1, <1>2 DEF Returning, Busy
  <1>4. \A c \in Batches \ {b} : FateOf(c)' = FateOf(c)
    BY <1>2, <1>3, FateFramed DEF writerVars
  <1>5. Returning(b) <=> mover[m].pc = "moveMeta"
    BY <1>1, <1>2, ReturningOfOwner
  <1>6. Returning(b)' <=> mover'[m].pc = "moveMeta"
    <2>1. \A n \in Movers \ {m} : Busy(n) => mover[n].batch # b
      BY <1>1, <1>2, MoverOwnsBatch
    <2> QED
      BY <1>2, <2>1 DEF Returning, Busy
  <1>7. /\ writer'[b] = writer[b]
        /\ b \in partial' <=> b \in partial
        /\ m # 0 => b \notin partial /\ writer[b] \in {"finished", "failed"}
        /\ m = 0 => Condemned(b)
    BY <1>1, <1>2 DEF WriterShape, Holding, writerVars
  <1>8. CASE mover[m].pc = "moveData"
    <2>1. /\ data[b] = "done" /\ meta'[b] = meta[b]
          /\ data'[b] = "done" \/ (mover'[m].pc = "moveMeta" /\ data'[b] = Destination(m))
      <3>1. data[b] = "done"
        BY <1>1, <1>2, <1>8 DEF Holding
      <3>2. MoveData(m) \/ MoveDataFails(m)
        BY <1>8 DEF MoverStep, MoveMeta, MoveMetaFails, RemoveData, RemoveMeta, RemoveFails
      <3>3. m \in DOMAIN mover /\ DOMAIN mover[m] = {"pc", "batch", "attempt"}
            /\ b \in DOMAIN data
        BY DEF IInv, TypeOK
      <3>4. CASE MoveDataFails(m)
        BY <3>1, <3>4 DEF MoveDataFails
      <3>5. CASE MoveData(m)
        <4>1. mover'[m] = [mover[m] EXCEPT !.pc = "moveMeta"]
          BY <3>3, <3>5 DEF MoveData
        <4>2. data'[b] = Destination(m)
          BY <1>1, <3>3, <3>5 DEF MoveData
        <4>3. meta' = meta
          BY <3>5 DEF MoveData
        <4> QED
          BY <3>1, <3>3, <4>1, <4>2, <4>3
      <3> QED
        BY <3>2, <3>4, <3>5
    <2>2. FateOf(b)' = FateOf(b)
      BY <1>5, <1>6, <1>7, <1>8, <2>1 DEF FateOf, Destination
    <2> QED
      BY <1>2, <1>4, <2>2, AbstractStutter
  <1>9. CASE mover[m].pc = "moveMeta"
    <2>1. /\ data[b] = Destination(m) /\ mover'[m].pc # "moveMeta"
          /\ m # 0 => meta[b] = "done"
          /\ \/ data'[b] = "done" /\ meta'[b] = meta[b]
             \/ data'[b] = Destination(m)
      BY <1>1, <1>2, <1>9
         DEF Holding, MoverStep, MoveData, MoveDataFails, MoveMeta, MoveMetaFails, RemoveData,
             RemoveMeta, RemoveFails, IInv, TypeOK, Idle, At
    <2>2. CASE data'[b] = "done" /\ meta'[b] = meta[b]
      <3>1. FateOf(b)' = FateOf(b)
        BY <1>5, <1>6, <1>7, <1>9, <2>1, <2>2 DEF FateOf, Destination
      <3> QED
        BY <1>2, <1>4, <3>1, AbstractStutter
    <2>3. CASE data'[b] = Destination(m) /\ m # 0
      <3>1. FateOf(b) \in {"retained"} /\ FateOf(b)' \in {"settled"}
        <4>1. data[b] = "archive" /\ data'[b] = "archive" /\ Returning(b) /\ ~Returning(b)'
          BY <1>5, <1>6, <1>9, <2>1, <2>3 DEF Destination
        <4>2. FateOf(b) = "retained"
          BY <1>7, <2>1, <2>3, <4>1 DEF FateOf
        <4>3. FateOf(b)' = "settled"
          BY <1>7, <2>3, <4>1 DEF FateOf
        <4> QED
          BY <4>2, <4>3
      <3>2. b \in confirmed
        BY <1>1, <1>2, <1>9, <2>3 DEF Holding
      <3>3. Contract!Move({b}, {"retained"}, {"settled"})
        BY <1>2, <1>4, <3>1, AbstractStep
      <3>4. Contract!Settle({b})
        BY <3>2, <3>3 DEF Contract!Settle
      <3> QED
        BY <3>4 DEF Contract!Next
    <2>4. CASE data'[b] = Destination(m) /\ m = 0
      <3>1. data[b] = "bad" /\ data'[b] = "bad" /\ Returning(b) /\ ~Returning(b)'
        BY <1>5, <1>6, <1>9, <2>1, <2>4 DEF Destination
      <3>2. CASE writer[b] \notin {"finished", "failed"}
        <4>1. FateOf(b)' = FateOf(b)
          BY <1>7, <3>2 DEF FateOf
        <4> QED
          BY <1>2, <1>4, <4>1, AbstractStutter
      <3>3. CASE writer[b] \in {"finished", "failed"}
        <4>1. /\ FateOf(b) \in {"unavailable", "retained"} /\ FateOf(b)' \in {"quarantined"}
              /\ FateOf(b) = "retained" => b \notin partial
          BY <1>7, <3>1, <3>3 DEF FateOf
        <4>2. b \notin unreadable => FateOf(b) = "unavailable"
          BY <1>7, <2>4, <4>1 DEF Condemned
        <4>3. Contract!Move({b}, {"unavailable", "retained"}, {"quarantined"})
          BY <1>2, <1>4, <4>1, AbstractStep
        <4>4. Contract!Quarantine({b})
          BY <4>2, <4>3 DEF Contract!Quarantine
        <4> QED
          BY <4>4 DEF Contract!Next
      <3> QED
        BY <3>2, <3>3
    <2> QED
      BY <2>1, <2>2, <2>3, <2>4
  <1>10. CASE mover[m].pc \in {"removeData", "removeMeta"}
    <2>1. /\ data[b] \in {"archive", "removed"} /\ data'[b] \in {"archive", "removed"}
          /\ mover'[m].pc # "moveMeta" /\ m # 0
      BY <1>1, <1>2, <1>10
         DEF Holding, MoverStep, MoveData, MoveDataFails, MoveMeta, MoveMetaFails, RemoveData,
             RemoveMeta, RemoveFails, IInv, TypeOK, Idle, At
    <2>2. FateOf(b)' = FateOf(b)
      BY <1>5, <1>6, <1>7, <1>10, <2>1 DEF FateOf
    <2> QED
      BY <1>2, <1>4, <2>2, AbstractStutter
  <1> QED
    BY <1>8, <1>9, <1>10 DEF MoverStep, MoveData, MoveDataFails, MoveMeta, MoveMetaFails,
                             RemoveData, RemoveMeta, RemoveFails

(* Killed while it moves JSON files, the reprocessor leaves them where they *)
(* are: all of its movers are workers, or the one that quarantines.         *)
LEMMA KillRefines ==
    ASSUME IInv, ReprocessorKilled
    PROVE  Contract!Next
  <1> DEFINE S == {b \in Batches : Returning(b) /\ writer[b] \in {"finished", "failed"}}
  <1>1. /\ \A b \in Batches : ~Returning(b)'
        /\ UNCHANGED <<writer, data, meta, partial, confirmed, unreadable>>
    BY DEF ReprocessorKilled, Returning, Idle, At, writerVars, fileVars
  <1>2. ASSUME NEW b \in Batches \ S PROVE FateOf(b)' = FateOf(b)
    <2>1. CASE ~Returning(b)
      BY <1>1, <2>1, FateFramed
    <2>2. CASE writer[b] \notin {"finished", "failed"}
      BY <1>1, <2>2 DEF FateOf
    <2> QED
      BY <2>1, <2>2
  <1>3. ASSUME NEW b \in S
        PROVE  /\ phase = "work" => FateOf(b) = "retained" /\ FateOf(b)' = "settled"
                                    /\ b \in confirmed
               /\ phase # "work" => /\ FateOf(b) \in {"unavailable", "retained"}
                                    /\ FateOf(b)' = "quarantined"
                                    /\ b \notin unreadable => FateOf(b) = "unavailable"
    <2>1. PICK m \in Movers : mover[m].pc = "moveMeta" /\ mover[m].batch = b
      BY DEF Returning
    <2>2. Holding(m)
      BY <2>1, MoverOwnsBatch DEF Busy
    <2>3. /\ writer[b] \in {"finished", "failed"} /\ data[b] = Destination(m)
          /\ m # 0 => b \notin partial /\ meta[b] = "done" /\ b \in confirmed
          /\ m = 0 => Condemned(b)
          /\ phase = "work" <=> m # 0
      BY <2>1, <2>2 DEF Holding
    <2>4. /\ Returning(b) /\ ~Returning(b)' /\ data[b] \in {"archive", "bad"}
          /\ writer'[b] = writer[b] /\ data'[b] = data[b]
      BY <1>1, <2>3 DEF Destination
    <2>5. CASE m # 0
      <3>1. FateOf(b) = "retained"
        BY <2>3, <2>4, <2>5 DEF FateOf
      <3>2. FateOf(b)' = "settled"
        BY <2>3, <2>4, <2>5 DEF FateOf, Destination
      <3> QED
        BY <2>3, <2>5, <3>1, <3>2
    <2>6. CASE m = 0
      <3>1. /\ FateOf(b) \in {"unavailable", "retained"}
            /\ FateOf(b) = "retained" => b \notin partial
        BY <2>3, <2>4 DEF FateOf
      <3>2. FateOf(b)' = "quarantined"
        BY <2>3, <2>4, <2>6 DEF FateOf, Destination
      <3> QED
        BY <2>3, <2>6, <3>1, <3>2 DEF Condemned
    <2> QED
      BY <2>5, <2>6
  <1>4. S \in SUBSET Batches
    OBVIOUS
  <1>5. CASE phase = "work"
    <2>1. Contract!Move(S, {"retained"}, {"settled"})
      BY <1>1, <1>2, <1>3, <1>4, <1>5, AbstractStep
    <2>2. Contract!Settle(S)
      BY <1>3, <1>5, <2>1 DEF Contract!Settle
    <2> QED
      BY <1>4, <2>2 DEF Contract!Next
  <1>6. CASE phase # "work"
    <2>1. Contract!Move(S, {"unavailable", "retained"}, {"quarantined"})
      BY <1>1, <1>2, <1>3, <1>4, <1>6, AbstractStep
    <2>2. Contract!Quarantine(S)
      BY <1>3, <1>6, <2>1 DEF Contract!Quarantine
    <2> QED
      BY <1>4, <2>2 DEF Contract!Next
  <1> QED
    BY <1>5, <1>6

(* A scan changes no fate, whatever it cannot read.                         *)
LEMMA ScanRefines ==
    ASSUME IInv, Scan
    PROVE  Contract!Next
  <1>1. UNCHANGED <<writer, data, meta, partial, confirmed, mover>>
    BY DEF Scan, writerVars, fileVars
  <1>2. PICK unread \in SUBSET Batches : unreadable' = unreadable \cup unread
    BY DEF Scan, Examinable
  <1>3. \A b \in Batches : FateOf(b)' = FateOf(b)
    BY <1>1, FateFramed DEF Returning
  <1>4. Contract!FailToRead(unread)
    BY <1>1, <1>2, <1>3 DEF Contract!FailToRead
  <1> QED
    BY <1>4 DEF Contract!Next

(* Nothing else changes the fate of a batch.                                *)
LEMMA OtherStepsStutter ==
    ASSUME IInv,
           \/ \E b \in Batches : Age(b)
           \/ Start \/ Cancel \/ Stop \/ TakeInvalid \/ StartWorkers \/ EndCycle
           \/ \E w \in Workers : Dispatch(w) \/ InsertFails(w)
           \/ UNCHANGED vars
    PROVE  UNCHANGED <<fate, confirmed, unreadable>>
  <1>1. UNCHANGED <<writer, data, meta, partial, confirmed, unreadable>>
    BY DEF Age, Start, Cancel, Stop, TakeInvalid, StartWorkers, EndCycle, Dispatch,
           InsertFails, cycleUnchanged, insertUnchanged, vars, writerVars, fileVars
  <1>2. \A m \in Movers : mover'[m].pc = "moveMeta" \/ mover[m].pc = "moveMeta" =>
                              mover'[m] = mover[m]
    <2>1. CASE \/ \E b \in Batches : Age(b)
               \/ Start \/ Cancel \/ Stop \/ StartWorkers \/ EndCycle \/ UNCHANGED vars
      BY <2>1 DEF Age, Start, Cancel, Stop, StartWorkers, EndCycle, vars
    <2>2. CASE TakeInvalid
      BY <2>2, MoverIds DEF TakeInvalid, IInv, TypeOK, At
    <2>3. ASSUME NEW w \in Workers, Dispatch(w) \/ InsertFails(w),
                 NEW m \in Movers, mover'[m].pc = "moveMeta" \/ mover[m].pc = "moveMeta"
          PROVE  mover'[m] = mover[m]
      <3>1. w \in Movers /\ mover[w].pc \in {"idle", "insert"} /\ mover \in [Movers -> MoverType]
        BY <2>3, MoverIds DEF Dispatch, InsertFails, IInv, TypeOK, MoverType, MoverSteps
      <3>2. mover'[w].pc \in {"idle", "insert"}
        BY <2>3, <3>1 DEF Dispatch, InsertFails, MoverType, Idle, At
      <3>3. m # w
        BY <2>3, <3>1, <3>2
      <3> QED
        BY <2>3, <3>1, <3>3 DEF Dispatch, InsertFails
    <2> QED
      BY <2>1, <2>2, <2>3
  <1>3. \A b \in Batches : Returning(b)' <=> Returning(b)
    BY <1>2 DEF Returning
  <1> QED
    BY <1>1, <1>3, FateFramed, AbstractStutter

(* The failed spool and its reprocessor implement BatchFate: whatever is    *)
(* killed or fails on the way, a batch retained in done leaves it only when *)
(* ClickHouse has confirmed it (processCandidate, finalizeSuccess), or when *)
(* it is quarantined after a scan could not read it (scan, loadCandidate).  *)
THEOREM Implements == Spec => ContractSpec
  <1>1. IInv /\ IInv' /\ [Next]_vars => [Contract!Next]_<<fate, confirmed, unreadable>>
    <2> SUFFICES ASSUME IInv, IInv', [Next]_vars
                 PROVE  Contract!Next \/ UNCHANGED <<fate, confirmed, unreadable>>
      OBVIOUS
    <2> QED
      BY NextCases, SpoolerRefines, ConfirmRefines, MoverRefines, KillRefines,
         ScanRefines, OtherStepsStutter
  <1> QED
    BY Invariance, InitRefines, <1>1, PTL DEF Spec, ContractSpec, Contract!Spec, fate
=============================================================================
