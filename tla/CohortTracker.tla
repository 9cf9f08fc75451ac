---------------------------- MODULE CohortTracker ----------------------------
(***************************************************************************)
(* The ring of per-second counters behind the collector's SLA alerts       *)
(* (alert_cohorts.go): one shard, the packet workers that fold to it, and  *)
(* the insert workers that their batches go to.                            *)
(*                                                                         *)
(* A bucket belongs to one second and is cleared for a later one with the  *)
(* same index, under the bucket's mutex; a goroutine that finds its second *)
(* there takes no mutex and adds to the counters while others clear, add   *)
(* or read.  "expected" stands for the counters recorded first (received   *)
(* packets, expected rows), "inserted" for those recorded later of the     *)
(* same cohort (parsed packets, inserted rows).  PARSE_ONLY records no     *)
(* cohorts: validateConfig refuses it together with alerts.                *)
(***************************************************************************)
EXTENDS Integers, Sequences, FiniteSets, Sums

CONSTANTS
    Workers,      \* the packet workers of the shard
    Inserters,    \* the insert workers
    Retention,    \* retentionSeconds
    Window,       \* ALERT_WINDOW_SECONDS
    Sla,          \* ALERT_SLA_SECONDS
    Lookback,     \* how many cohorts addInsertCohort looks back at
    PacketRows,   \* how many rows a packet may have
    MaxLag,       \* bound: the seconds a packet waits to be parsed
    FirstEvaluation, \* bound: no snapshot is taken before this second
    MaxSecond,    \* bound: the last second
    MaxRows       \* bound: the rows parsed

(* alertCohortRetention leaves a margin beyond the oldest second read.  A   *)
(* packet may wait longer than the retention.                               *)
ASSUME CohortAssumption ==
    /\ IsFiniteSet(Workers) /\ IsFiniteSet(Inserters) /\ Workers \cap Inserters = {}
    /\ Window \in Nat \ {0} /\ Sla \in Nat \ {0} /\ Lookback \in Nat \ {0}
    /\ Retention \in Nat /\ Retention > Window + Sla + 1
    /\ PacketRows \subseteq Nat /\ MaxLag \in Nat /\ FirstEvaluation \in Nat
    /\ MaxSecond \in Nat /\ Retention <= MaxSecond /\ MaxRows \in Nat

VARIABLES
    now,       \* the second of the clock
    ring,      \* the buckets of the shard
    thread,    \* where each goroutine stands, and its locals
    packet,    \* the rows of each worker's packet that are not in a batch yet
    pending,   \* the cohorts of the batch each packet worker fills
    batches,   \* the cohorts of the batches handed over, oldest first
    snap,      \* the snapshot an evaluation takes
    recorded,  \* history: what has been added for each second
    spoilt     \* history: the seconds recorded together with an expired one

batching == <<packet, pending, batches>>
vars == <<now, ring, thread, batching, snap, recorded, spoilt>>

Threads == Workers \cup Inserters
Seconds == 0..MaxSecond
Outcomes == {"inserted", "spooled", "spoolFailed"}
Counters == {"expected"} \cup Outcomes
Zero == [c \in Counters |-> 0]

IdleThread == [at |-> "idle", second |-> 0, rows |-> 0, counter |-> "expected",
               left |-> <<>>, cohorts |-> <<>>, clock |-> 0]
NoRows == [second |-> 0, rows |-> 0]
NoSnapshot == [at |-> "idle", second |-> 0, last |-> 0, left |-> <<>>, sum |-> Zero,
               atStart |-> Zero, unfinished |-> 0]

Index(s) == s % Retention
bucket(s) == ring[Index(s)]

(* Faulty variant: one second too long, whose bucket may be another's.      *)
isRetainedTooLong(s, clock) == s <= clock + 1 /\ s >= clock - Retention

(* A cohort may also come from a clock that is one second ahead.            *)
isRetained(s, clock) == s <= clock + 1 /\ s > clock - Retention

(* The buckets belong to second 0, which is long ago.                       *)
Init ==
    /\ now = Retention
    /\ ring = [i \in 0..Retention-1 |-> [second |-> 0, count |-> Zero]]
    /\ thread = [t \in Threads |-> IdleThread]
    /\ packet = [w \in Workers |-> NoRows]
    /\ pending = [w \in Workers |-> <<>>] /\ batches = <<>>
    /\ snap = NoSnapshot
    /\ recorded = [s \in Seconds |-> Zero] /\ spoilt = {}

-----------------------------------------------------------------------------
(* Time                                                                     *)

Retained == {s \in 1..now : s > now - Retention}

Recording(t) == thread[t].at \notin {"idle", "insert", "next"}

(* The cohorts that isRetained lets the goroutine record, with the clock it *)
(* has read.                                                                *)
Due(t) ==
    {k \in DOMAIN thread[t].cohorts :
        thread[t].at # "insert" /\ isRetained(thread[t].cohorts[k].second, thread[t].clock)}

InUse ==
    {thread[t].second : t \in {u \in Threads : Recording(u)}}
    \cup (UNION {{thread[t].cohorts[k].second : k \in Due(t)} : t \in Threads})

(* The retained seconds whose bucket is that of one of these others.        *)
SharedWith(seconds, retained) ==
    {r \in retained : \E s \in seconds : s # r /\ Index(s) = Index(r)}

(* A second whose bucket a goroutine still records for an earlier one is    *)
(* spoilt: the one may reset what the other added.  isRetained leaves no    *)
(* margin against it, and neither do we.  The margin of the retention is    *)
(* for the evaluation: it reads a second before that leaves the ring.       *)
Tick ==
    /\ now < MaxSecond
    /\ snap.at # "idle" => snap.second > now + 1 - Retention
    /\ now' = now + 1
    /\ spoilt' = spoilt \cup SharedWith(InUse, {now + 1})
    /\ UNCHANGED <<ring, thread, batching, snap, recorded>>

-----------------------------------------------------------------------------
(* The packet workers and the insert workers                                *)

(* Faulty variant: the row joins the last cohort, whatever its second.      *)
AddInsertCohortToLast(cohorts, s) ==
    IF cohorts = <<>> THEN <<[second |-> s, rows |-> 1]>>
    ELSE [cohorts EXCEPT ![Len(cohorts)].rows = @ + 1]

(* addInsertCohort of one row: it joins a cohort of its second if that is   *)
(* among the last Lookback.                                                 *)
AddInsertCohort(cohorts, s) ==
    LET recent == {k \in DOMAIN cohorts : k > Len(cohorts) - Lookback /\ cohorts[k].second = s}
    IN IF recent = {} THEN Append(cohorts, [second |-> s, rows |-> 1])
       ELSE [cohorts EXCEPT ![Max(recent)].rows = @ + 1]

Sum(c, seconds) == SumOver([s \in Seconds |-> recorded[s][c]], seconds)

RowsBeingParsed ==
    SumOver([w \in Workers |-> IF thread[w].counter = "expected" THEN thread[w].rows ELSE 0],
            Workers)

(* A packet with n rows of second s, none if its parsing failed.            *)
(* recordParseResult does not check isRetained: a packet that has waited    *)
(* for too long takes the bucket of a retained second.                      *)
Parse(w, s, n) ==
    /\ thread[w].at = "idle" /\ packet[w].rows = 0
    /\ s \in 1..now /\ s >= now - MaxLag
    /\ Sum("expected", Seconds) + RowsBeingParsed + n <= MaxRows
    /\ thread' = [thread EXCEPT ![w] =
                     [IdleThread EXCEPT !.at = "load", !.second = s, !.rows = n]]
    /\ spoilt' = spoilt \cup SharedWith({s}, Retained)
    /\ UNCHANGED <<now, ring, batching, snap, recorded>>

WithoutRow(p) == IF p.rows = 1 THEN NoRows ELSE [p EXCEPT !.rows = @ - 1]

(* The next row of the packet joins the pending batch of its table.         *)
AppendRow(w) ==
    /\ thread[w].at = "idle" /\ packet[w].rows > 0
    /\ pending' = [pending EXCEPT ![w] = AddInsertCohort(@, packet[w].second)]
    /\ packet' = [packet EXCEPT ![w] = WithoutRow(@)]
    /\ UNCHANGED <<now, ring, thread, batches, snap, recorded, spoilt>>

(* flushTable: when the batch is full, which may be between two rows of a   *)
(* packet, or with the ticker.                                              *)
HandOver(w) ==
    /\ thread[w].at = "idle" /\ pending[w] # <<>>
    /\ batches' = Append(batches, pending[w])
    /\ pending' = [pending EXCEPT ![w] = <<>>]
    /\ UNCHANGED <<now, ring, thread, packet, snap, recorded, spoilt>>

(* The queue is over its limit: the packet worker itself spools the batch,  *)
(* and records whether that failed, with the clock read once for all        *)
(* cohorts.                                                                 *)
Refuse(w) ==
    /\ thread[w].at = "idle" /\ pending[w] # <<>>
    /\ \E outcome \in {"spooled", "spoolFailed"} :
         thread' = [thread EXCEPT ![w] =
                      [IdleThread EXCEPT !.at = "next", !.counter = outcome,
                                         !.cohorts = pending[w], !.clock = now]]
    /\ pending' = [pending EXCEPT ![w] = <<>>]
    /\ UNCHANGED <<now, ring, packet, batches, snap, recorded, spoilt>>

Receive(i) ==
    /\ thread[i].at = "idle" /\ batches # <<>>
    /\ thread' = [thread EXCEPT ![i].at = "insert", ![i].cohorts = Head(batches)]
    /\ batches' = Tail(batches)
    /\ UNCHANGED <<now, ring, packet, pending, snap, recorded, spoilt>>

(* An insert is confirmed, or given up and spooled, or not even that:       *)
(* recordInserted, recordSpooled or recordSpoolFailure.                     *)
Settle(i) ==
    /\ thread[i].at = "insert"
    /\ \E outcome \in Outcomes :
         thread' = [thread EXCEPT ![i].at = "next", ![i].counter = outcome, ![i].clock = now]
    /\ UNCHANGED <<now, ring, batching, snap, recorded, spoilt>>

NextCohort(t) ==
    /\ thread[t].at = "next"
    /\ LET cohorts == thread[t].cohorts
       IN thread' = [thread EXCEPT ![t] =
             IF cohorts = <<>> THEN IdleThread
             ELSE IF isRetained(Head(cohorts).second, @.clock)
             THEN [@ EXCEPT !.at = "load", !.cohorts = Tail(cohorts),
                            !.second = Head(cohorts).second, !.rows = Head(cohorts).rows]
             ELSE [@ EXCEPT !.cohorts = Tail(cohorts)]]
    /\ UNCHANGED <<now, ring, batching, snap, recorded, spoilt>>

-----------------------------------------------------------------------------
(* bucket(): the fast path, and the reset under the bucket's mutex          *)

bucketUnchanged == <<now, batching, snap, recorded, spoilt>>

Goto(t, place) == thread' = [thread EXCEPT ![t].at = place]
Current(t) == bucket(thread[t].second).second = thread[t].second

LoadSecond(t) ==
    /\ thread[t].at = "load"
    /\ Goto(t, IF Current(t) THEN "add" ELSE "lock")
    /\ UNCHANGED <<bucketUnchanged, ring>>

Holds(t, i) == thread[t].at \in {"clear", "store"} /\ Index(thread[t].second) = i
Locked(i) == \E t \in Threads : Holds(t, i)

(* The counters of a bucket, in the order in which they are cleared.        *)
ResetOrder == <<"expected", "inserted", "spooled", "spoolFailed">>

Clear(t) == thread' = [thread EXCEPT ![t].at = "clear", ![t].left = ResetOrder]

(* Faulty variant: reset without looking again, or without the mutex.       *)
LockBucketUnlocked(t) ==
    /\ thread[t].at = "lock"
    /\ Clear(t)
    /\ UNCHANGED <<bucketUnchanged, ring>>

(* The mutex is held from here to the store if the bucket has to be reset;  *)
(* otherwise it is released at once.                                        *)
LockBucket(t) ==
    /\ thread[t].at = "lock" /\ ~Locked(Index(thread[t].second))
    /\ IF Current(t) THEN Goto(t, "add") ELSE Clear(t)
    /\ UNCHANGED <<bucketUnchanged, ring>>

(* The counters, cleared one after the other, while fast paths read second, *)
(* and late ones add.                                                       *)
ClearCounter(t) ==
    /\ thread[t].at = "clear"
    /\ ring' = [ring EXCEPT ![Index(thread[t].second)].count[Head(thread[t].left)] = 0]
    /\ thread' = [thread EXCEPT ![t].left = Tail(@),
                                ![t].at = IF Len(thread[t].left) = 1 THEN "store" ELSE "clear"]
    /\ UNCHANGED bucketUnchanged

StoreSecond(t) ==
    /\ thread[t].at = "store"
    /\ ring' = [ring EXCEPT ![Index(thread[t].second)].second = thread[t].second]
    /\ Goto(t, "add")
    /\ UNCHANGED bucketUnchanged

Adds(t) ==
    /\ thread[t].at = "add"
    /\ ring' = [ring EXCEPT ![Index(thread[t].second)].count[thread[t].counter] =
                               @ + thread[t].rows]
    /\ recorded' = [recorded EXCEPT ![thread[t].second][thread[t].counter] =
                                       @ + thread[t].rows]

(* recordParseResult, once for the packet, whose rows come next.            *)
AddExpected(w) ==
    /\ thread[w].counter = "expected" /\ Adds(w)
    /\ packet' = [packet EXCEPT ![w] = [second |-> thread[w].second, rows |-> thread[w].rows]]
    /\ thread' = [thread EXCEPT ![w] = IdleThread]
    /\ UNCHANGED <<now, pending, batches, snap, spoilt>>

AddOutcome(t) ==
    /\ thread[t].counter \in Outcomes /\ Adds(t)
    /\ thread' = [thread EXCEPT ![t].at = "next", ![t].second = 0, ![t].rows = 0]
    /\ UNCHANGED <<now, batching, snap, spoilt>>

-----------------------------------------------------------------------------
(* The evaluator: observations takes two snapshots, one after the other     *)

snapUnchanged == <<now, ring, thread, batching, recorded, spoilt>>

WindowOf(last) == {s \in Seconds : s > last - Window /\ s <= last}

(* Faulty variant                                                           *)
ReadOrderReversed == <<"inserted", "expected", "spooled", "spoolFailed">>

(* The counters of a bucket, in the order snapshot reads them.              *)
ReadOrder == <<"expected", "inserted", "spooled", "spoolFailed">>

(* Of the last Window seconds, for lost datagrams and missing traffic, or   *)
(* of those before the SLA, for parsing and inserting.                      *)
BeginSnapshot ==
    /\ snap.at = "idle" /\ now >= FirstEvaluation
    /\ \E last \in {now - 1, now - Sla - 1} :
         snap' = [NoSnapshot EXCEPT
             !.at = "check", !.second = last - Window + 1, !.last = last,
             !.atStart = [c \in Counters |-> Sum(c, WindowOf(last))]]
    /\ UNCHANGED snapUnchanged

(* On to the next second of the window, or to the result.                   *)
Beyond(snapshot) ==
    IF snapshot.second = snapshot.last THEN [snapshot EXCEPT !.at = "done"]
    ELSE [snapshot EXCEPT !.at = "check", !.second = @ + 1]

(* Faulty variant                                                           *)
StaleUnchecked(s) == FALSE

Stale(s) == bucket(s).second # s

CheckBucket ==
    /\ snap.at = "check"
    /\ snap' = IF Stale(snap.second) THEN Beyond(snap)
               ELSE [snap EXCEPT !.at = "read", !.left = ReadOrder]
    /\ UNCHANGED snapUnchanged

Unfinished(s) == recorded[s]["expected"] - recorded[s]["inserted"]

ReadCounter ==
    /\ snap.at = "read"
    /\ LET c == Head(snap.left)
           read == [snap EXCEPT
                      !.left = Tail(@), !.sum[c] = @ + bucket(snap.second).count[c],
                      !.unfinished = IF c = "expected" THEN @ + Unfinished(snap.second) ELSE @]
       IN snap' = IF read.left = <<>> THEN Beyond(read) ELSE read
    /\ UNCHANGED snapUnchanged

EndSnapshot ==
    /\ snap.at = "done"
    /\ snap' = NoSnapshot
    /\ UNCHANGED snapUnchanged

-----------------------------------------------------------------------------
Step(t) ==
    LoadSecond(t) \/ LockBucket(t) \/ ClearCounter(t) \/ StoreSecond(t) \/ AddOutcome(t)
      \/ NextCohort(t)

Next ==
    \/ Tick
    \/ \E w \in Workers :
          \/ \E s \in Seconds, n \in PacketRows : Parse(w, s, n)
          \/ AddExpected(w) \/ AppendRow(w) \/ HandOver(w) \/ Refuse(w) \/ Step(w)
    \/ \E i \in Inserters : Receive(i) \/ Settle(i) \/ Step(i)
    \/ BeginSnapshot \/ CheckBucket \/ ReadCounter \/ EndSnapshot

Spec == Init /\ [][Next]_vars

-----------------------------------------------------------------------------
(* Properties                                                               *)

Packets == [second : Seconds, rows : Nat]
Cohorts == Seq([second : Seconds, rows : Nat \ {0}])
Counts == [Counters -> Nat]

ThreadState ==
    [at : {"idle", "insert", "next", "load", "lock", "clear", "store", "add"},
     second : Seconds, rows : Nat, counter : Counters, left : Seq(Counters),
     cohorts : Cohorts, clock : Seconds]
SnapshotState ==
    [at : {"idle", "check", "read", "done"}, second : Seconds, last : Seconds,
     left : Seq(Counters), sum : Counts, atStart : Counts, unfinished : Int]

(* bucket's mutex: no two goroutines reset a bucket at the same time.       *)
OneResets ==
    \A t, u \in Threads, i \in 0..Retention-1 : Holds(t, i) /\ Holds(u, i) => t = u

(* The types of the state, and the mutex.                                   *)
TypeOK ==
    /\ now \in Retention..MaxSecond
    /\ ring \in [0..Retention-1 -> [second : Seconds, count : Counts]]
    /\ thread \in [Threads -> ThreadState] /\ OneResets
    /\ packet \in [Workers -> Packets] /\ pending \in [Workers -> Cohorts]
    /\ batches \in Seq(Cohorts)
    /\ snap \in SnapshotState
    /\ recorded \in [Seconds -> Counts] /\ spoilt \subseteq Seconds

(* The ring holds exactly what was recorded for every retained second,      *)
(* whoever resets its bucket while others add to it or pass by on the fast  *)
(* path, unless an addition for a second that had left the ring was still   *)
(* under way in the same bucket: recordParseResult for a packet that waited *)
(* longer than the retention, or a batch settled so late that the clock     *)
(* moves on between its isRetained and its addition.                        *)
CountsExact ==
    \A s \in Retained \ spoilt :
        IF Stale(s) THEN recorded[s] = Zero ELSE bucket(s).count = recorded[s]

(* A snapshot of seconds that no late addition spoilt.                      *)
Reliable == snap.at = "done" /\ WindowOf(snap.last) \cap spoilt = {}

(* A snapshot, taken counter by counter without a lock, lies between what   *)
(* was recorded for its window when it began and when it ends: it takes     *)
(* nothing from another second and misses nothing.                          *)
SnapshotExact ==
    Reliable =>
        \A c \in Counters :
            /\ snap.atStart[c] <= snap.sum[c]
            /\ snap.sum[c] <= Sum(c, WindowOf(snap.last))

(* The SLA alerts see no more unfinished packets or rows than there were    *)
(* when they looked: work that ends during the snapshot raises no alarm.    *)
UnfinishedNotOverstated ==
    Reliable => snap.sum["expected"] - snap.sum["inserted"] <= snap.unfinished

(* The rows of a second that a batch's cohorts count, and those that a      *)
(* goroutine has still to record as inserted or spooled.                    *)
RowsOf(cohorts, s) ==
    SumOver([k \in DOMAIN cohorts |-> IF cohorts[k].second = s THEN cohorts[k].rows ELSE 0],
            DOMAIN cohorts)

RowsHeld(t, s) ==
    RowsOf(thread[t].cohorts, s)
        + (IF Recording(t) /\ thread[t].counter # "expected" /\ thread[t].second = s
           THEN thread[t].rows ELSE 0)

InPackets(s) ==
    SumOver([w \in Workers |-> IF packet[w].second = s THEN packet[w].rows ELSE 0], Workers)
InPending(s) == SumOver([w \in Workers |-> RowsOf(pending[w], s)], Workers)
InBatches(s) == SumOver([n \in DOMAIN batches |-> RowsOf(batches[n], s)], DOMAIN batches)
InThreads(s) == SumOver([t \in Threads |-> RowsHeld(t, s)], Threads)

(* Each expected row of a retained second is on its way, in its packet and  *)
(* then in the cohorts of one batch under that second, until it is recorded *)
(* exactly once: as inserted, as spooled or as neither.                     *)
CohortsKeepRows ==
    \A s \in Retained :
        Unfinished(s) - recorded[s]["spooled"] - recorded[s]["spoolFailed"] =
            InPackets(s) + InPending(s) + InBatches(s) + InThreads(s)
=============================================================================
