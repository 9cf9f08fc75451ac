# Verification of the Huawei CGN collector

TLA+ models, TLC runs and TLAPS proofs for the collector (`src/main.go` and its
companions), its failed spool and the reprocessor of failed batches
(`src/reprocesador`).

## 1. The system

Routers send CGN NAT logs as UDP datagrams. The **collector** reads them, parses
each into rows, groups the rows in batches per daily table and inserts the batches
in ClickHouse. A batch it cannot insert goes to the **failed spool**, a directory
that a second process, the **reprocessor**, empties into ClickHouse later. Both
processes raise alerts through a persisted state and an outbox directory. An ETL
program rebuilds the table of address pools.

### Components

| Component | State | Operations | Interacts with | Hard behaviours | What makes it correct | Modelled in |
|---|---|---|---|---|---|---|
| UDP capture (`udpReadLoop`, `udp_receiver_linux.go`) | sockets, batch in hand, shared drop tracker | read a batch, count, send on `packetChannel`, observe kernel drops, leave at the stop | kernel, `packetChannel`, stop channel | shared socket, stop in the middle of a batch, concurrent compare-and-swap, 32-bit wrap | counters balance, each kernel drop counted once, no send after close | `Collector`, `DropTracker`, `DatagramPath` |
| Packet workers (`packetWorker`, `sendInsertBatch`) | one pending batch per daily table | parse, append, flush on size, tick and close, hand over or spool | `packetChannel`, `insertBatches`, spool | two overload policies, watermark read before the send, flush while draining | no row lost or duplicated, capture never blocked under `raw_only` | `Collector` |
| Insert workers (`insertWorker`, `ensureClickHouseTable`) | batch and attempt, `createdTables` under a mutex | create the table, insert, retry, spool | ClickHouse over HTTP, spool | ambiguous failures, a mutex held across a request | one final fate per row, each table created once | `Collector` |
| Autotune (`autoTuneSupervisor`, `scaleStep`) | worker counts | sample the queues, spawn workers | both channels, both WaitGroups | a spawn while the shutdown has begun | never above the maxima, never after `close` | `Collector` |
| Shutdown (`requestStop`, end of `main`) | stop channel, four WaitGroups | close sockets, wait for the stages in order, close the channels | all of the above | ordering | complete drain, termination | `Collector` |
| Failed spool (`spoolFailedInsertBatch`) | `.open`, `.done` and `.done.json` files | write, sync, rename, write JSON | reprocessor | any step fails, kills between steps | a batch is retained with its JSON or reported | `FailedSpool`, outcome in `Collector` |
| Reprocessor (`reprocessor.go`) | scan result, jobs, workers, files | scan, quarantine, insert with retries, move the pair, remove it | spool directory, ClickHouse | kills between two renames, cancellation, rejected batches, files that cannot be read | leaves `done` only when confirmed or quarantined for a reason, every acceptable batch gets its turn | `FailedSpool` |
| Cohort tracker (`alert_cohorts.go`) | ring of per-second buckets per shard | record, snapshot | all workers, alert evaluator | lock-free fast path against the reset of a reused bucket | a snapshot counts only its seconds | `CohortTracker` |
| Collector alerts (`alerts.go`, `clickhouse_alerts.go`) | `state.json`, outbox files | evaluate, open, update, clear, reconcile, deliver | cohort tracker, ClickHouse | crash between state and outbox, failed persists, backoff | each transition reaches ClickHouse, last version wins | `AlertLifecycle` |
| Reprocessor alerts (`reprocess_alerts.go`) | the same | the same, without reconciliation | reprocessor cycle | the same, and state loaded before the lock | the same | `AlertLifecycle` |
| Reuseport hash (`reuseport_hash.go`, BPF program) | none | select a socket by payload bytes | kernel | 32-bit arithmetic | program and user-space function agree, in range | `ReusePortHash`, `DatagramPath` |
| Packet parser (`parsePacket`) | none | multi-record or legacy format | packet workers | offsets from a header | never out of bounds, record count | `DatagramPath`; a constant of `Collector` |
| Pool ETL (`apps/cgnat_etl/main.py`) | staging table, partitions | load, check, replace partition, drop staging | ClickHouse | failure between steps | the published partition is old or new, never mixed | planned |
| Raw spool (`rawSpoolWriter`...) | | | | | | not modelled: called by nothing |
| Metrics, configuration, simulator, deployment scripts | | | | | | not modelled: reads and logs; validated configuration is the ASSUME of each module |

Interactions in one line each: receivers → `packetChannel` → packet workers →
`insertBatches` → insert workers → ClickHouse; packet workers and insert workers →
failed spool → reprocessor → ClickHouse; autotune reads both channels and spawns
workers; `main` closes each channel after its senders have returned.

The hazards of this code, each at its line with the properties that watch it, are
listed in `PROJECT.json`.

## 2. Modules

| Module | Role |
|---|---|
| `Collector` | the live pipeline of `main.go`, one process per goroutine |
| `RowFate` | abstract specification: an accepted row is held until one final fate |
| `CollectorProofs` | proofs: types, channels, spawns and the drain of `Collector` |
| `CollectorRowProofs` | proofs: every row is in one place; `Collector` implements `RowFate`; the balances of the counters; each table is created once |
| `MCCollector` | traffic and model values for its runs |
| `FailedSpool` | the failed spool shared by the collector and the reprocessor |
| `BatchFate` | abstract specification: a retained batch stays until confirmed, or quarantined |
| `FailedSpoolProofs` | proofs: types; `FailedSpool` implements `BatchFate` |
| `MCFailedSpool` | model values for its runs |
| `DropTracker` | the kernel-drop counter shared by the receivers of one socket |
| `DropTrackerProofs` | proofs: types, and each drop is counted once |
| `MCDropTracker` | model values for its run |
| `AlertLifecycle` | the alert manager of either program, with its state file, outbox and worker |
| `IncidentTable` | abstract specification: an incident's row only moves forward and shows only what was saved |
| `AlertLifecycleProofs` | proofs: types, what is remembered; `AlertLifecycle` implements `IncidentTable` |
| `MCAlertLifecycle` | model values for its runs |
| `CohortTracker` | the ring of per-second counters behind the SLA alerts |
| `CohortTrackerProofs` | proofs: the ring, the snapshots and the rows of the cohorts |
| `MCCohortTracker` | model values for its run |
| `ReusePortHash` | the BPF program that selects a socket, its interpreter, and the Go function that mirrors it |
| `DatagramPath` | the bytes of a datagram: selector, receiver slots, pooled buffers, parser |
| `DatagramProofs` | proofs: the selectors agree; types, buffers and rows of the path |
| `MCDatagramPath` | datagrams and model values for its run |
| `Sums` | the sum of a function over a finite set, as `CohortTracker` needs it |
| `CountingTheorems` | lemmas about such sums, last positions and induction over a set, shared by the proofs |

### `Collector`

`reader[r]`, `worker[w]`, `inserter[i]`, `tuner` and `mainPc` are the program
counters and locals of the goroutines; `packetChannel` and `insertBatches` are the
buffered channels, `createdTablesMu` and `createdTables` the mutex and the cache it
guards, `total` the atomic counters. An action is one blocking operation or one
access to shared state: for instance `TakePacket`, `AppendEntry`, `SendBatch`,
`RefuseBatch`, `SpoolRefused` and `FinishPacket` are the stations of a packet in
`packetWorker`. A closed channel is not a variable: `close` is a step of `main`, so
`mainPc` says which channels are closed. `wire` holds the datagrams not read yet;
the kernel may drop any of them by never having them read. `stored`, `inserted`,
`spooled`, `orphaned`, `spoolLost` and `discarded` record what happened to rows and
datagrams.

Abstractions: a datagram is a model value with the tables of its records (or a parse
error); `InsertBatchRows` stands for whichever of `INSERT_BATCH_ROWS` and
`INSERT_BATCH_BYTES` is reached first; the ticker may fire at any time; an HTTP
request succeeds, fails, or fails after ClickHouse stored the rows;
`spoolFailedInsertBatch` has its three outcomes (its steps are in `FailedSpool`). A
read error before the stop changes only a statistic and is a stuttering step.
After the stop an idle receiver leaves because `closeUDPReceivers` has closed its
connection (`ReadErrorAtStop`; the receivers of a shared socket have one connection, closed
with the first); a read that fails for another reason may make it leave earlier
(`TransientErrorAtStop`).
Definitions marked as faulty variants are not part of the specification: each
replaces its neighbour to show that a property can fail.

### `FailedSpool`

`data[b]` and `meta[b]` say where the two files of a batch are, `partial` which JSON
files are not whole, `aged` which pairs are older than `REPROCESS_MIN_AGE_SECONDS`,
`written` the order of their data's ages. `writer[b]` is the position of
`spoolFailedInsertBatch`; `phase`, `invalid` and `jobs` that of `processCycle`;
`mover[0]` is the goroutine of `processCycle`, which quarantines, and `mover[w]` a
worker of the cycle. Every rename, removal, file creation and request is an action and
has a failing twin; `CollectorKilled` and `ReprocessorKilled` may come between any two.
The scan is one step because the outcome for a pair depends on that pair only and the
collector never touches an aged pair again. It may fail to read any batch whose data is in
`done` (`entry.Info`, `os.Stat`, `os.ReadFile`); such a batch is quarantined like one whose
JSON is not whole, even while the collector is still writing its JSON. `unreadable` is
history: the batches to which this has happened. A failed `os.ReadDir` ends the cycle and
changes nothing. It is assumed that writing the JSON takes
less than `REPROCESS_MIN_AGE_SECONDS` (guard of `Age`); with the accepted value 0 this
would not hold. A killed process keeps what it wrote: losing unsynced data in a power
failure is not modelled.

### `DropTracker`

A datagram's counter is modelled by the true number of drops, of which the code sees
the remainder modulo `Modulus`. `LoadState`, `Swap` and `AddDrops` are the atomic
load, the compare-and-swap and the addition; a failed swap loads again. The loop
passes over an empty datagram before it looks at its counter (main.go:1849), and over
one that carries none: `SkipDatagram`; what only such a datagram reported is counted
with the next one that has data. It is
assumed (guard of `ReadBatch`) that between the oldest counter still in a receiver's
hands and the newest less than half the counter's range has passed, 2^31 drops in
the code; beyond that an older counter cannot be told from a newer one. A receiver
that leaves at the stop is part of `Collector`, not of this module.

### `AlertLifecycle`

One module for `alerts.go` and `reprocess_alerts.go`, whose state machines are the
same but for three conditions, each on `manager`: `Start` reconciles dirty states and
`MustSendAgain` repeats an unsent record of an inactive alert only in the collector;
`ShouldEvaluate` keeps an active alert evaluated without data only in the reprocessor.
A definition is mapped to one of the two files; the other has the same lines but for
those conditions.

`memory` is `manager.states`, `disk` is `state.json`, `outbox` the files in the order of
their names, `table` what a query of the ReplacingMergeTree answers. `evaluator` is the
position of `applyObservation` between its `persistStates`, `emit` and second
`persistStates`; `worker` that of `outboxWorker`. Every write, request and removal may
fail; a request whose client timed out may still arrive (`late`), with a lower version
than any made after it; `Crash` may come between any two steps. A crash keeps the
files: each is written to a temporary file, synced and renamed. `LastEmitted` is
modelled by `updateDue`, the alerts whose update interval has passed. An observation is
any level of `Levels`; where it comes from is `CohortTracker`. Retry pauses are left to
the scheduler. One failure of `Prepare` is a step that changes nothing.

`IncidentTable` is what the table promises a reader. `saved` and `replaced` are history:
the furthest state of an incident the disk has known, and the incidents whose unsent
CLEARED record a new incident overwrote (`applyObservation` assigns `state.Record`
without looking at it).

### `CohortTracker`

One shard of the ring. Main gives every goroutine a shard of its own, but `shard`
folds ids, so two packet workers and an insert worker share it here: an insert worker
always shares the shard of the packet worker whose batch it settles. `LoadSecond`,
`LockBucket`, `ClearCounter`, `StoreSecond` and `Adds` are the accesses of `bucket` and
of the record functions; `CheckBucket` and `ReadCounter` those of `snapshot`. `expected`
stands for the counters recorded first of a cohort (received packets, expected rows); the
other three are what becomes of a batch. Parsed packets and kernel drops, which take the
same path alone, are left out. The mutex of a bucket is not a variable: `Holds` says who is
between its lock and the store, and `OneResets`, a conjunct of `TypeOK`, that no two
goroutines are there at once.

`Parse` to `AddExpected` is one packet's `recordParseResult`; `AppendRow` is one row that
joins the pending batch and its cohorts, so a batch may be handed over (`HandOver`) or
refused (`Refuse`) between two rows of a packet. A packet worker records what it refused
itself; an insert worker takes a batch (`Receive`) and settles it as inserted, spooled or
not even that (`Settle`). Both read the clock once for all cohorts of the batch
(`NextCohort`). A worker has one table here; with several it has several pending batches,
one after the other. A packet whose parsing failed has no rows, nor any other effect here.
`PARSE_ONLY` with alerts is refused at the start (main.go:1695-1697), so rows that are
only parsed have no cohorts; `appendRowBinaryEvent` returns no error, so no row of a
parsed packet is skipped.

Nothing in the code keeps a second in the ring until its additions have ended. The clock
may move on between `isRetained`, which admits a second up to the ring's very edge, and
the addition; and `recordParseResult` and `recordReceived` do not check at all, so that a
packet that waited longer than the retention takes the bucket of a newer second. The model
does all this. `spoilt` is history: the retained seconds whose bucket was, at some time,
also in use for a second that had left the ring. What the code can promise, and the
properties say, is that every other second is exact. `CohortsKeepRows` is about what was
recorded, whatever the ring made of it, and exempts nothing. `CountsExact` is
therefore no claim that the ring never errs: for a spoilt second it may. Bound: `MaxLag`,
how long a packet waits; it is no assumption of the code, and in `cohorts` it is the
whole ring.

Assumed: the evaluation reads a second before that leaves the ring (guard of `Tick`). That
is what the margin of `alertCohortRetention`, 120 s beyond window and SLA, is for; the two
snapshots are taken one after the other without waiting for anything.

### `ReusePortHash` and `DatagramPath`

The kernel runs the program of `buildReusePortCBPF` one instruction per step, for every
payload of up to `MaxWords` words; a load beyond the payload ends it with socket 0. The
interpreter is external, written from the opcodes the collector uses. A word has `Modulus`
values, 2^32 in the code; the fold divides by `Half`, 2^16 there. The exclusive or is the
parameter `ExclusiveOr`, of which the ASSUME asks that it gives a word and is commutative; the run
takes it from `Bitwise`. The primes are those of the code, modulo the word. The offsets are
numbers of words, so overlapping words are not considered. `Hashes` is a recursive function
for the loop of `reusePortPayloadHash`.

`slots` are the results of `recvmmsg`, which the next read overwrites; `heap` holds the
buffers, of which each byte is modelled by the datagram it comes from; `pool` is both
`sync.Pool`s, which may always give a new buffer. `Records` and `BytesRead` are the
arithmetic of `parsePacket` and its two formats, applied to the length that the worker
slices off the buffer (`Data`). Timestamps, addresses and ports of a row are left out.
Bound: `FirstRead` datagrams are queued before the first is read and before the stop; in
the run these are all, since the selector and the pipeline share nothing but the queues. The
proofs hold for any `FirstRead`, 0 among them, and any `MaxWords`.

## 3. Runs

| Run | Question | Bounds |
|---|---|---|
| `collector_tuned` | does any interleaving of two receivers, a packet worker doubled by autotune and a signal lose or duplicate a row, close a channel too early or spawn too late? | 2 datagrams over 2 tables (one crosses midnight), channels of 1, batches of 2 rows, 1 attempt |
| `collector_overload` | do the counters balance, does the pipeline implement `RowFate`, does every accepted row settle and every stop end, with retries, table creation and spooling? | 1 datagram of 3 rows, 2 insert workers, 2 attempts, `raw_only` with timeout |
| `collector_stalled` | does `raw_only` keep the capture going when ClickHouse never answers? | 2 packet workers racing for an insert queue of 1 |
| `collector_parse_only` | `PARSE_ONLY`, shared socket, an unparseable and an empty datagram | 4 datagrams, read batches of 2 |
| `spool_contract` | does a batch ever leave `done` unconfirmed, or a whole and readable one get quarantined? (refines `BatchFate`) | 2 batches, 2 workers, scan limit 1, 2 attempts, 2 kills or stops |
| `spool_drain` | is every acceptable batch settled in the end beside a rejected one, or quarantined as unreadable, and does a signal end the reprocessor? | 2 batches, 1 worker, scan limit 2, 2 attempts, 2 kills or stops |
| `spool_pairs` | expected violation: do a pair's files stay together after a successful insert? | 1 batch, 1 worker, 1 kill |
| `alerts` | do the table, the state file and the outbox agree in spite of failures and kills, is everything opened or closed shown in the end, and does recovery end an alert? (refines `IncidentTable`) | both managers, 1 alert, 3 levels (none, threshold, above), trigger after 1 window, clear after 2, 2 incidents or one with a rising peak, 1 kill |
| `alerts_clear_lost` | expected violation: is every closed incident of the reprocessor shown as CLEARED? | the same with 1 incident, clear after 1 window |
| `cohorts` | does the ring count exactly every second that no late addition shares a bucket with, and does a lock-free snapshot of such seconds never overstate unfinished work, and is each expected row recorded once, under its second, however its batch ends? | 2 packet workers, 1 insert worker, ring of 4 seconds, window 1, SLA 1, packets of 1 or 2 rows, 2 rows, seconds 4 to 6, packets as old as the ring, evaluation from second 6 |
| `datagrams` | does the selector equal its mirror, is a buffer ever in two hands, is a row ever made of foreign bytes, does each datagram give its rows? | 5 datagrams (two records, legacy, one record, too short, empty), 2 sockets, 2 workers, words of 5 bits, payloads of 0 to 2 words, 2 offsets, queue of 1, read batches of 2, buffers of 6 and 10, all queued before the first is read |
| `drops` | is each kernel drop counted once? | 3 receivers, read batches of 2, modulus 6, 8 drops (one wrap) |

Why the bounds are enough: capacity one makes every channel both full and empty;
two rows per batch with three rows per datagram leave a rest that only the ticker or
the close flushes; two workers of a kind are enough for every race in the code, all of
which are pairwise (queue place, table cache, mutex, compare-and-swap); two attempts
have a first, a last and a retry; a datagram that spans two tables makes `flushAll`
visit more than one. In `spool_contract` the limit of one truncates the scan. The
kill bound lets a process die and die again during the recovery. Three batches with
limit 2 and one kill were also explored once (4.7 million states) with the same result.

In `alerts` the second incident can replace the first with its CLEARED record unsent,
and the third level raises the peak of an open one. In `cohorts` the ring wraps:
seconds 5 and 6 reuse the buckets of 1 and 2 while these may still be in a packet or in a
batch, and two rows let two goroutines meet in one bucket. With three rows a second can have
two cohorts of one batch, with another second's between them: this was explored once for one
packet worker and seconds up to 4 (0.6 million states), with the same result. In `datagrams` the sizes reach all three cases of
`acquirePacketBuffer`, and the too-short datagram lies in a buffer with room for a record.
Three datagrams with `FirstRead` 0, one-bit words and three offsets were also explored once,
with the inductive invariant, with the same result.

Each property has a mutant in `PROJECT.json`, a plausible slip in one definition that
makes it fail.

### Fairness

`Collector!CaptureFairness`: the Go scheduler is preemptive, so each goroutine that
can step does; tickers and timers fire; `main`'s waits return. `InsertFairness`: a
request ends, at the latest by the client's timeout, and file calls return. Nothing
forces a signal, a datagram, an autotune tick, or the success of a request.
A transient read error has no fairness, so the receivers end only if `main` closes their
sockets.
`StalledSpec` drops `InsertFairness`. In `FailedSpool`, `RunFairness` is the same for
the reprocessor plus systemd restarting it; `RetryFairness` (strong) says that
ClickHouse asked for ever accepts an acceptable batch in the end, and that a rename
tried for ever succeeds, whether to settle or to quarantine. Removals may always fail.

In `AlertLifecycle`, `RunFairness` is the Go scheduler, tickers and a restarted process;
`WriteFairness` (strong) says that a write, request or removal tried for ever succeeds
in the end; `EvaluationFairness` that an alert whose observation stays valid is
evaluated. In the collector validity needs traffic above `ALERT_MIN_PACKETS` or
`ALERT_MIN_ROWS`, which is assumed to go on; an alert whose traffic stops is not
evaluated, and so does not clear, by the code. `CohortTracker` and `DatagramPath` have
only safety properties.

### Findings

`spool_pairs`: `finalizeSuccess` moves data and JSON, then removes them, in separate
steps. A kill between the two renames leaves the RowBinary of an inserted batch in
`reprocessed` and its JSON in `done`, for ever: the scan looks only at data files in
`done`. `reprocesador/README.md:27-28` says that both are removed, or both moved.
The rows are safe; what is wrong is the state of the directories.

Not a run of its own, but an exception that `BatchFate` has to make (`unreadable`): one failed
`entry.Info`, `os.Stat` or `os.ReadFile` (too many open files, an I/O error) puts a whole
pair among the invalid ones, and the cycle moves it to `bad`, where nothing looks at it
again. The table at `reprocesador/README.md:30` lists only an invalid JSON, an unsafe
table, a wrong format or size as what goes there.

`alerts_clear_lost`: the reprocessor saves the CLEARED state and then adds its record to
the outbox. If it dies in between, or that write fails, nothing sends the record again:
the inactive branch does not look at `DeliveryNeeded` and `Start` does not reconcile. The
table shows the alert ACTIVE for ever, though `src/README.md:519-521` says that state
changes stay in the outbox and are sent again, and `reprocesador/README.md:118-121` that
an alert clears some 30 seconds after the recovery. The collector has both repairs, and
`alerts` shows that they suffice, unless a new incident replaces the record first.

`spool_drain` needs fewer always-rejected batches than `REPROCESS_SCAN_LIMIT`. With as
many, the scan, oldest first, never reaches a younger batch. The documents promise
nothing else, so this is an assumption and not a finding.

## 4. Proofs

Each theorem holds for every value of the constants that satisfies the named ASSUMEs of
its module, which TLC evaluates on every run. They say what the code's configuration and
types give: positive sizes and limits, finite sets of goroutines, datagrams, batches and
alerts. Every inductive invariant was checked by TLC on a run before it was proved.

### `Collector` (two modules)

`CollectorProofs` proves `TypeCorrect` (`TypeOK`, with the capacities, maxima and attempt
bounds in it), `ChannelsCloseSafely` (`NoSendOnClosedChannel`), `NoLateSpawn` (the action
property `NoSpawnWhileDraining`) and `DrainComplete` (`DrainLosesNothing`). The invariant
is `IInv == TypeOK /\ Shape /\ DrainOrder /\ EveryRowKept`. `DrainLosesNothing` alone
speaks only of the last state; to carry it there one needs `EveryRowKept` (a row is on the
wire, discarded, held by a named goroutine or channel, or has its fate), which a step
preserves only because of `Shape` (a goroutine holds what its program counter says: a
worker in `select` has no packet, ids above the current counts are unspawned), and
`DrainOrder` (each stage that `main` has waited for is gone and its channel empty).
`Shape` also bounds what the tuner has decided to spawn, without which `TypeOK` is not
inductive.

`CollectorRowProofs` proves the other half, that nothing is duplicated. A row is at a
stage (wire, reader, channel, worker, pending, queued, inserter, or one of its fates);
`RowInv` says that it is at one stage at most, and once there: with one goroutine, in one
place of a channel, in one pending batch. The lemma of each action names the set of rows
it `Moves` and the two stages between which it moves them; that a move keeps `RowInv` is
proved once. With `EveryRowKept` this gives `EachRowOnce` (`EveryRowInOnePlace`), and
`Implements`: `Collector` implements `RowFate` (`ContractSpec`), since a move only goes
towards a fate and never leaves one.

The rest of the module builds on both. `RowsBalance` and `FailuresBalance` rest on
`CountShape`: each counter of rows is the size of a set of rows, and grows by the size of
a set that was disjoint from it, because by `RowInv` those rows were at an earlier stage.
`FlushShape` (a worker that sends, or spools what was refused, flushes one table) makes
the set that a refused batch adds well defined. `TablesOnce` needs `CreationShape`: the
mutex is held exactly by the insert worker that creates a table, which nobody has created.
`PacketsBalance` is inductive with `TypeOK` and `Shape`, as a sum over goroutines.

### `FailedSpool`

`TypeCorrect` and `Implements`: `FailedSpool` implements `BatchFate`, through kills of
either process at any step, and scans that cannot read what they find. The invariant adds
to `TypeOK`: `FileShape` (where the writer stands, what was confirmed and what was
condemned say where the two files may be), `CycleShape` (what the scan found stays as it
was until a mover takes it), `MoverShape` (a batch is with one
mover, in the phase it works in) and `AgeOrder` (each batch has one age, without which the
oldest under the scan limit are not limited).

### `DropTracker`

`TypeCorrect`, `EachDropOnce` (`DropsCountedOnce`), `NeverBack` (the action property
`TrackerNeverGoesBack`) and `AtRest` (`NothingMissedAtRest`). `StateShape` says that the
shared word is the true counter modulo the width; `InWindow` that the counters still in
play lie within half the width, so that `Distance`, the lemma about the modular
difference, tells new from stale; `NewestInPlay` that the newest is among them. It
does not matter whether the word that a compare-and-swap finds is the one it loaded or
one that has come back: within the window the same word is the same counter.

### `AlertLifecycle`

`TypeCorrect`, `Remembers` (`ToldIsRemembered`) and `Implements`: `AlertLifecycle`
implements `IncidentTable`. The invariant orders, for each incident, what the table shows,
what a late request carries, the outbox files in their order and what the state file has
known (`QueueShape`, `SavedShape`), and says that an incident told to be ACTIVE is in the
state file or was replaced (`Remembered`). Its parts take the values of memory and disk as
parameters because one step may save, send and open an incident at once.

### `CohortTracker`

`TypeCorrect`, with the mutual exclusion of resets; `RingExact` (`CountsExact`);
`SnapshotsExact` (`SnapshotExact`); `NotOverstated` (`UnfinishedNotOverstated`); and
`CohortsKeep` (`CohortsKeepRows`). None assumes a bound on how long an addition or a
packet may take. A second is `Sound` if it is retained and not spoilt, and `Guarded` if no
other sound second has its bucket. `CohortsPast` and `ThreadShape` say that whatever a
goroutine records, or has found retained and will record, is guarded: when the clock
reaches a second whose bucket is still in use, `Tick` spoils that second, and when a late
packet takes a bucket, `Parse` does. Hence `SoundShape`: the bucket of a sound second is
reset only while it is another second's, and added to only when it is that second's.
`SnapshotBounds` carries the two halves of `SnapshotExact` through the snapshot, by the
set of seconds whose counter is `Read`; `UnfinishedBound` does so for the order of the two
loads. `CohortsKeep` adds `RowsShape`: a goroutine read its clock when all of its cohorts
were past (`ThreadRows`), so that a cohort it drops as not retained is not retained now
either. Its sums run over packets, pending batches, queue places, goroutines and the
cohorts of a batch; each step takes a term from one sum and adds it to another.

### `ReusePortHash` and `DatagramPath`

`SelectorsAgree` (`SelectorMirrors`) follows the machine through the program. The program's
layout comes first: `FlattenSeq` places the instructions of the k-th offset at `Start(k)`, by
induction over the offsets (`BlocksPlaced`, `ProgramLayout`). `ProgramInv` then says what the
accumulator, the index register and the scratch memory hold before each instruction, in terms
of `Hashes`: after the k-th offset the memory is the hash of the first k words (`AtOffset`),
and at the end the accumulator is the fold (`AtEnd`). A program that returned early did so at
an offset that the payload does not have.

`TypeCorrect` (`TypeOK`), `OneHolder` (`BuffersOwnedOnce`), `RowsPure` (`RowsOfOneDatagram`)
and `RowsOfEachRecord` (`RowsComplete`) rest on `PathInv`. None of the last three is inductive:
that a row has one datagram's bytes needs that the buffer was filled with that datagram to its
length (`Filled`, carried from the receiver to the packet and the worker by `ShapeInv`) and that
no one wrote to it since, which is ownership. `OwnerInv` says that the places that may hold a
buffer hold disjoint sets, and the channel none twice; `PlaceInv` says the same of datagrams,
from the wire to `parsed`, so that a datagram's rows are counted by one worker only; `RowInv`
says how many rows a datagram has at each place. `Moved` and `Admitted` prove once that what
goes from one place to another, or is new, stays in one place. `ParserReads` is the arithmetic
of the two formats: the number of records is that of the format, and no record is read beyond
the datagram's end. `BufferGiven` covers both a pooled and a new buffer. The theorem of the
types uses `ProgramInv` too: a datagram joins a queue that exists because the program returns
the number of a socket.

### What the proofs share

Sums and the last element of a set of positions are recursion and induction, for which
the installed provers have no usable theorem. `CountingTheorems` gets them from
well-founded induction stated over a set instead of a predicate (`NatInduct`,
`SubsetInduct`), and shows that `SumOver` does not depend on the order in which elements
are chosen.

Where the proofs changed the models: a conjunct of `AlertLifecycle!TypeOK` had been
written so that it bound more loosely than meant, and said less; the unions in
`CohortTracker!InUse` are parenthesised, since SANY and tlapm read them differently;
`CohortTracker` assumes that its goroutines are finitely many and names the four
sums of `CohortsKeepRows`; and `ReusePortHash` takes the exclusive or as a parameter, so that
nothing proved reaches the recursive operators of `Bitwise`.

### Only model-checked

Every safety invariant, action property and refinement that a passing run checks is also
proved. Liveness stays with TLC, since fairness and ENABLED are out of the prover's reach:
`AcceptedRowsSettle`, `OverloadKeepsCapturing` and `StopDrains` of `Collector`,
`RetainedBatchesSettle` and `CancelStops` of `FailedSpool`, `OpenIsShown`,
`CollectorClearedIsShown` and `RecoveryClears` of `AlertLifecycle`. So do the two expected
violations.

## 5. Not modelled

The raw spool is called by nothing. The pool ETL is a separate batch program. Metrics,
configuration, simulator and scripts read, log or validate; validated configuration is
the ASSUME of each module. Of modelled components these parts are left out: opening
sockets and their options; the fields of a row; `RecordCycle` and `backlogSnapshot` of the
reprocessor's alerts, which make an observation's level; loss of unsynced files in a
power failure (matters for the spool's JSON, which is not synced); and the second instance
of the reprocessor that loads the alert state before it is refused, or given, the
process lock.

## 6. Plan

1. `ProcessLock`: two instances of the reprocessor, with the alert state loaded before
   the lock.
2. A composition of `Collector`'s insert worker with `FailedSpool`: a spooled row is
   stored in the end.
3. `EtlPublish`; a file system that forgets unsynced writes under `FailedSpool`.
