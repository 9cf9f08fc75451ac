----------------------------- MODULE FailedSpool -----------------------------
(***************************************************************************)
(* The failed spool, a directory shared by two processes: the collector    *)
(* writes there each batch it could not insert (spoolFailedInsertBatch of  *)
(* main.go), and the reprocessor (reprocesador/) scans it, inserts the     *)
(* batches into ClickHouse and takes them out.  A batch is two files, the  *)
(* data and its JSON metadata, which neither process moves atomically, and *)
(* either process may be killed between any two steps.                     *)
(*                                                                         *)
(* One action per file-system call or request.  Mover 0 is the goroutine   *)
(* of processCycle, which quarantines; movers 1..NumWorkers are the        *)
(* workers it starts.                                                      *)
(***************************************************************************)
EXTENDS Integers, Sequences, FiniteSets

CONSTANTS
    Batches,          \* the batches the collector hands over
    NumWorkers,       \* REPROCESS_WORKERS
    ScanLimit,        \* REPROCESS_SCAN_LIMIT, 0 for none
    MaxRetries,       \* REPROCESS_MAX_RETRIES
    DeleteOnSuccess,  \* REPROCESS_SUCCESS_ACTION = delete, else archive
    Rejected,         \* the batches ClickHouse never accepts
    MaxKills,         \* bound: how often a process is killed or stopped
    NoBatch

ASSUME SpoolAssumption ==
    /\ IsFiniteSet(Batches) /\ NoBatch \notin Batches /\ Rejected \subseteq Batches
    /\ NumWorkers \in Nat \ {0} /\ MaxRetries \in Nat \ {0}
    /\ ScanLimit \in Nat /\ MaxKills \in Nat /\ DeleteOnSuccess \in BOOLEAN

VARIABLES
    writer,      \* where spoolFailedInsertBatch stands for each batch
    data,        \* where each batch's data file is
    meta,        \* where its JSON file is
    partial,     \* the batches whose JSON is not whole
    aged,        \* those whose files are older than REPROCESS_MIN_AGE_SECONDS
    written,     \* the batches in the order of their data's modification times
    phase,       \* the reprocessor: down, paused between cycles, in a cycle
    cancelled,   \* SIGINT or SIGTERM has cancelled its context
    invalid,     \* scanResult.invalid, still to be quarantined
    jobs,        \* scanResult.candidates, still to be handed to a worker
    mover,       \* the goroutines that insert and move files
    confirmed,   \* the batches ClickHouse has answered with success
    unreadable,  \* history: the batches some scan could not examine
    kills        \* how many kills and stops so far

writerVars == <<writer, written>>
fileVars == <<data, meta, partial>>
cycleVars == <<phase, cancelled, invalid, jobs>>
vars == <<writerVars, fileVars, aged, cycleVars, mover, confirmed, unreadable, kills>>

Workers == 1..NumWorkers
Movers == 0..NumWorkers
At(place, b) == [pc |-> place, batch |-> b, attempt |-> 1]
Idle == At("idle", NoBatch)

Init ==
    /\ writer = [b \in Batches |-> "waiting"] /\ written = <<>>
    /\ data = [b \in Batches |-> "none"] /\ meta = [b \in Batches |-> "none"]
    /\ partial = {} /\ aged = {}
    /\ phase = "down" /\ cancelled = FALSE /\ invalid = {} /\ jobs = {}
    /\ mover = [m \in Movers |-> Idle]
    /\ confirmed = {} /\ unreadable = {} /\ kills = 0

-----------------------------------------------------------------------------
(* The collector: spoolFailedInsertBatch, in one of its goroutines.         *)

spoolUnchanged == <<aged, cycleVars, mover, confirmed, unreadable, kills>>

(* The .open file is created, written, synced and closed.                   *)
WriteOpenFile(b) ==
    /\ writer[b] = "waiting"
    /\ writer' = [writer EXCEPT ![b] = "open"]
    /\ data' = [data EXCEPT ![b] = "open"]
    /\ written' = Append(written, b)
    /\ UNCHANGED <<meta, partial, spoolUnchanged>>

(* Any error up to the rename; os.Remove may fail as well.                  *)
GiveUpBeforeRename(b) ==
    /\ writer[b] \in {"waiting", "open"}
    /\ writer' = [writer EXCEPT ![b] = "failed"]
    /\ data' \in {[data EXCEPT ![b] = f] : f \in {"none", "open"}}
    /\ UNCHANGED <<written, meta, partial, spoolUnchanged>>

RenameToDone(b) ==
    /\ writer[b] = "open"
    /\ writer' = [writer EXCEPT ![b] = "renamed"]
    /\ data' = [data EXCEPT ![b] = "done"]
    /\ UNCHANGED <<written, meta, partial, spoolUnchanged>>

(* os.WriteFile creates the JSON in place, then writes it.                  *)
CreateJson(b) ==
    /\ writer[b] = "renamed"
    /\ writer' = [writer EXCEPT ![b] = "json"]
    /\ meta' = [meta EXCEPT ![b] = "done"]
    /\ partial' = partial \cup {b}
    /\ UNCHANGED <<written, data, spoolUnchanged>>

FinishJson(b) ==
    /\ writer[b] = "json"
    /\ writer' = [writer EXCEPT ![b] = "finished"]
    /\ partial' = partial \ {b}
    /\ UNCHANGED <<written, data, meta, spoolUnchanged>>

(* os.WriteFile fails, before or after the JSON was written in full.        *)
JsonFails(b) ==
    /\ writer[b] \in {"renamed", "json"}
    /\ writer' = [writer EXCEPT ![b] = "failed"]
    /\ partial' \in {partial, partial \ {b}}
    /\ UNCHANGED <<written, data, meta, spoolUnchanged>>

Writing == {b \in Batches : writer[b] \in {"open", "renamed", "json"}}

(* The collector is killed; restarted, it looks at none of these files.     *)
CollectorKilled ==
    /\ kills < MaxKills /\ Writing # {}
    /\ kills' = kills + 1
    /\ writer' = [b \in Batches |-> IF b \in Writing THEN "failed" ELSE writer[b]]
    /\ partial' \in {partial \ S : S \in SUBSET (Writing \cap partial)}
    /\ UNCHANGED <<written, data, meta, aged, cycleVars, mover, confirmed, unreadable>>

(* Time passes.  REPROCESS_MIN_AGE_SECONDS is assumed to be longer than     *)
(* os.WriteFile takes.                                                      *)
Age(b) ==
    /\ b \notin aged /\ meta[b] = "done" /\ writer[b] # "json"
    /\ aged' = aged \cup {b}
    /\ UNCHANGED <<writerVars, fileVars, cycleVars, mover, confirmed, unreadable, kills>>

-----------------------------------------------------------------------------
(* The reprocessor's cycle                                                  *)

cycleUnchanged == <<writerVars, fileVars, aged, confirmed, unreadable, kills>>

(* systemd starts it.                                                       *)
Start ==
    /\ phase = "down"
    /\ phase' = "paused" /\ cancelled' = FALSE
    /\ UNCHANGED <<invalid, jobs, mover, cycleUnchanged>>

Eligible(b) == data[b] = "done" /\ meta[b] = "done" /\ b \in aged

Candidates == {b \in Batches : Eligible(b) /\ b \notin partial}

(* The data of a was written before that of b.                              *)
Older(a, b) == \E i, j \in DOMAIN written : i < j /\ written[i] = a /\ written[j] = b

(* Faulty variants, here and below: each is a plausible slip in the          *)
(* definition that follows it, and the runs show that a property breaks.    *)
Unlimited(S) == S             \* forgets the limit

(* The candidates are sorted by age, and the limit keeps the first of them. *)
Oldest(S) == {b \in S : ScanLimit = 0 \/ Cardinality({a \in S : Older(a, b)}) < ScanLimit}

Examinable == {b \in Batches : data[b] = "done"}

(* processCycle scans, oldest data first.  entry.Info may fail for any data *)
(* file in done, and os.Stat and os.ReadFile for the JSON of an aged one: a *)
(* batch whose files cannot be read is invalid, like one whose JSON is not  *)
(* whole.  A batch's pair is examined on its own, and nothing the collector *)
(* does meanwhile changes the outcome of an eligible one: the scan is one   *)
(* step.  The first cycle does not look at the context, and a later one may *)
(* start as it is being cancelled.                                          *)
Scan ==
    /\ phase = "paused"
    /\ phase' = "quarantine"
    /\ \E unread \in SUBSET Examinable :
         /\ unreadable' = unreadable \cup unread
         /\ invalid' = unread \cup {b \in Batches : Eligible(b) /\ b \in partial}
         /\ jobs' = Oldest(Candidates \ unread)
    /\ UNCHANGED <<cancelled, mover, writerVars, fileVars, aged, confirmed, kills>>

(* The next invalid pair goes to movePair.                                  *)
TakeInvalid ==
    /\ phase = "quarantine" /\ mover[0].pc = "idle"
    /\ \E b \in invalid :
         /\ invalid' = invalid \ {b}
         /\ mover' = [mover EXCEPT ![0] = At("moveData", b)]
    /\ UNCHANGED <<phase, cancelled, jobs, cycleUnchanged>>

StartWorkers ==
    /\ phase = "quarantine" /\ mover[0].pc = "idle" /\ invalid = {}
    /\ phase' = "work"
    /\ UNCHANGED <<cancelled, invalid, jobs, mover, cycleUnchanged>>

Dispatch(w) ==
    /\ phase = "work" /\ mover[w].pc = "idle"
    /\ \E b \in jobs :
         /\ \A a \in jobs : ~Older(a, b)
         /\ mover' = [mover EXCEPT ![w] = At("insert", b)]
         /\ jobs' = jobs \ {b}
    /\ UNCHANGED <<phase, cancelled, invalid, cycleUnchanged>>

(* Once the context is cancelled the dispatcher may close the channel with  *)
(* candidates left, and a worker may return after the one it has; run then  *)
(* returns, its new poll timer losing to the cancelled context.             *)
EndCycle ==
    /\ phase = "work" /\ \A w \in Workers : mover[w].pc = "idle"
    /\ jobs = {} \/ cancelled
    /\ phase' = (IF cancelled THEN "down" ELSE "paused") /\ jobs' = {}
    /\ UNCHANGED <<cancelled, invalid, mover, cycleUnchanged>>

Cancel ==
    /\ kills < MaxKills /\ phase # "down" /\ ~cancelled
    /\ kills' = kills + 1 /\ cancelled' = TRUE
    /\ UNCHANGED <<writerVars, fileVars, aged, confirmed, unreadable, phase, invalid, jobs, mover>>

Stop ==
    /\ phase = "paused" /\ cancelled
    /\ phase' = "down"
    /\ UNCHANGED <<cancelled, invalid, jobs, mover, cycleUnchanged>>

(* The kernel releases the lock file with the process.                      *)
ReprocessorKilled ==
    /\ kills < MaxKills /\ phase # "down"
    /\ kills' = kills + 1
    /\ phase' = "down" /\ cancelled' = FALSE /\ invalid' = {} /\ jobs' = {}
    /\ mover' = [m \in Movers |-> Idle]
    /\ UNCHANGED <<writerVars, fileVars, aged, confirmed, unreadable>>

-----------------------------------------------------------------------------
(* processCandidate, in worker w                                            *)

insertUnchanged == <<writerVars, fileVars, aged, cycleVars, unreadable, kills>>

ConfirmInsert(w) ==
    /\ mover[w].pc = "insert" /\ mover[w].batch \notin Rejected
    /\ confirmed' = confirmed \cup {mover[w].batch}
    /\ mover' = [mover EXCEPT ![w].pc = "moveData"]
    /\ UNCHANGED insertUnchanged

InsertFailsUnbounded(w) ==    \* never counts the attempts
    /\ mover[w].pc = "insert"
    /\ UNCHANGED vars

FinalizeAnyway(w) ==          \* finalizes after the last attempt, whatever it gave
    /\ mover[w].pc = "insert"
    /\ \/ /\ mover[w].attempt < MaxRetries
          /\ mover' = [mover EXCEPT ![w].attempt = @ + 1]
       \/ /\ mover[w].attempt = MaxRetries \/ cancelled
          /\ mover' = [mover EXCEPT ![w].pc = "moveData"]
    /\ UNCHANGED <<confirmed, insertUnchanged>>

(* The table cannot be created, or the insert fails or is not answered; the *)
(* sleep before the next attempt ends early once the context is cancelled.  *)
InsertFails(w) ==
    /\ mover[w].pc = "insert"
    /\ \/ /\ mover[w].attempt < MaxRetries
          /\ mover' = [mover EXCEPT ![w].attempt = @ + 1]
       \/ /\ mover[w].attempt = MaxRetries \/ cancelled
          /\ mover' = [mover EXCEPT ![w] = Idle]
    /\ UNCHANGED <<confirmed, insertUnchanged>>

-----------------------------------------------------------------------------
(* movePairWithDestinations, to bad by mover 0 and to reprocessed (archive) *)
(* by a worker, and the rest of finalizeSuccess.                            *)

moveUnchanged == <<writerVars, partial, aged, cycleVars, confirmed, unreadable, kills>>

Destination(m) == IF m = 0 THEN "bad" ELSE "archive"

MoveData(m) ==
    /\ mover[m].pc = "moveData"
    /\ data' = [data EXCEPT ![mover[m].batch] = Destination(m)]
    /\ mover' = [mover EXCEPT ![m].pc = "moveMeta"]
    /\ UNCHANGED <<meta, moveUnchanged>>

(* mkdir, stat or the first rename fails: the pair stays in done.           *)
MoveDataFails(m) ==
    /\ mover[m].pc = "moveData"
    /\ mover' = [mover EXCEPT ![m] = Idle]
    /\ UNCHANGED <<data, meta, moveUnchanged>>

(* The JSON of a batch that was not read may not be there yet, or ever; the *)
(* collector goes on writing one that is moved meanwhile.                   *)
MoveMeta(m) ==
    /\ mover[m].pc = "moveMeta" /\ meta[mover[m].batch] = "done"
    /\ meta' = [meta EXCEPT ![mover[m].batch] = Destination(m)]
    /\ mover' = [mover EXCEPT ![m] = IF m # 0 /\ DeleteOnSuccess
                                     THEN [mover[m] EXCEPT !.pc = "removeData"] ELSE Idle]
    /\ UNCHANGED <<data, moveUnchanged>>

(* The data is moved back, unless that fails too.                           *)
MoveMetaFails(m) ==
    /\ mover[m].pc = "moveMeta"
    /\ data' \in {data, [data EXCEPT ![mover[m].batch] = "done"]}
    /\ mover' = [mover EXCEPT ![m] = Idle]
    /\ UNCHANGED <<meta, moveUnchanged>>

RemoveData(w) ==
    /\ mover[w].pc = "removeData"
    /\ data' = [data EXCEPT ![mover[w].batch] = "removed"]
    /\ mover' = [mover EXCEPT ![w].pc = "removeMeta"]
    /\ UNCHANGED <<meta, moveUnchanged>>

RemoveMeta(w) ==
    /\ mover[w].pc = "removeMeta"
    /\ meta' = [meta EXCEPT ![mover[w].batch] = "removed"]
    /\ mover' = [mover EXCEPT ![w] = Idle]
    /\ UNCHANGED <<data, moveUnchanged>>

RemoveFails(w) ==
    /\ mover[w].pc \in {"removeData", "removeMeta"}
    /\ mover' = [mover EXCEPT ![w] = Idle]
    /\ UNCHANGED <<data, meta, moveUnchanged>>

MoverStep(m) ==
    \/ MoveData(m) \/ MoveDataFails(m) \/ MoveMeta(m) \/ MoveMetaFails(m)
    \/ RemoveData(m) \/ RemoveMeta(m) \/ RemoveFails(m)

WorkerStep(w) == Dispatch(w) \/ ConfirmInsert(w) \/ InsertFails(w) \/ MoverStep(w)

CycleStep == Scan \/ TakeInvalid \/ StartWorkers \/ EndCycle \/ Stop \/ MoverStep(0)

-----------------------------------------------------------------------------

Next ==
    \/ \E b \in Batches :
         \/ WriteOpenFile(b) \/ GiveUpBeforeRename(b) \/ RenameToDone(b)
         \/ CreateJson(b) \/ FinishJson(b) \/ JsonFails(b) \/ Age(b)
    \/ CollectorKilled
    \/ Start \/ Cancel \/ ReprocessorKilled \/ CycleStep
    \/ \E w \in Workers : WorkerStep(w)

Spec == Init /\ [][Next]_vars

(* Time passes, systemd restarts the reprocessor, and its goroutines run.   *)
RunFairness ==
    /\ WF_vars(Start) /\ WF_vars(CycleStep)
    /\ \A w \in Workers : WF_vars(WorkerStep(w))
    /\ \A b \in Batches : WF_vars(Age(b))

Handles(b, Ids, Step(_)) == \E m \in Ids : mover[m].batch = b /\ Step(m)

(* ClickHouse, asked for ever, accepts in the end a batch it can accept; a  *)
(* rename that is tried for ever succeeds in the end.                       *)
RetryFairness ==
    \A b \in Batches \ Rejected :
        /\ SF_vars(Handles(b, Workers, ConfirmInsert))
        /\ SF_vars(Handles(b, Movers, MoveData))
        /\ SF_vars(Handles(b, Movers, MoveMeta))

FairSpec == Spec /\ RunFairness /\ RetryFairness
-----------------------------------------------------------------------------
(* Properties                                                               *)

(* The types of the state; a cycle holds at most REPROCESS_SCAN_LIMIT       *)
(* batches and a worker makes at most REPROCESS_MAX_RETRIES attempts.       *)
TypeOK ==
    /\ writer \in [Batches -> {"waiting", "open", "renamed", "json", "finished", "failed"}]
    /\ data \in [Batches -> {"none", "open", "done", "archive", "bad", "removed"}]
    /\ meta \in [Batches -> {"none", "done", "archive", "bad", "removed"}]
    /\ partial \subseteq Batches /\ aged \subseteq Batches /\ confirmed \subseteq Batches
    /\ unreadable \subseteq Batches
    /\ written \in Seq(Batches)
    /\ phase \in {"down", "paused", "quarantine", "work"} /\ cancelled \in BOOLEAN
    /\ invalid \subseteq Batches
    /\ jobs \subseteq Batches /\ (ScanLimit > 0 => Cardinality(jobs) <= ScanLimit)
    /\ mover \in [Movers -> [pc : {"idle", "insert", "moveData", "moveMeta", "removeData",
                                   "removeMeta"},
                             batch : Batches \cup {NoBatch}, attempt : 1..MaxRetries]]
    /\ kills \in 0..MaxKills

(* The spool implements BatchFate.  A batch whose JSON cannot be moved may  *)
(* still come back to done, so it keeps its fate until then.                *)
Returning(b) == \E m \in Movers : mover[m].pc = "moveMeta" /\ mover[m].batch = b

FateOf(b) ==
    IF writer[b] \notin {"finished", "failed"} THEN "spooling"
    ELSE IF data[b] \in {"archive", "removed"} /\ ~Returning(b) THEN "settled"
    ELSE IF data[b] = "bad" /\ ~Returning(b) THEN "quarantined"
    ELSE IF data[b] \notin {"none", "open"} /\ meta[b] = "done" /\ b \notin partial
    THEN "retained" ELSE "unavailable"

Contract == INSTANCE BatchFate WITH fate <- [b \in Batches |-> FateOf(b)]

(* A retained batch is kept in done, with its JSON, until ClickHouse has    *)
(* confirmed it, and then leaves for good; only a batch that never had a    *)
(* whole JSON, or whose files a scan could not read, is quarantined:        *)
(* whatever is killed and whatever fails.                                   *)
ContractSpec == Contract!Spec

(* Every retained batch that ClickHouse accepts is settled in the end, or   *)
(* quarantined because it could not be read, even with older batches that   *)
(* ClickHouse always rejects, fewer than the scan limit.                    *)
RetainedBatchesSettle == \A b \in Batches \ Rejected : Contract!RetainedSettles(b)

(* A signal ends the reprocessor: no cycle outlives its cancelled context.  *)
CancelStops == cancelled ~> phase = "down"

(* After a successful insert the RowBinary and its JSON are both removed,   *)
(* or both moved to reprocessed; until then both stay in done               *)
(* (reprocesador/README.md, the table of file states; finalizeSuccess).     *)
PairsStayTogether ==
    phase = "paused" =>
        \A b \in confirmed : data[b] = meta[b]
=============================================================================
