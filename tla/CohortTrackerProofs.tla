-------------------------- MODULE CohortTrackerProofs --------------------------
(***************************************************************************)
(* The ring of per-second counters, for any goroutines, retention, window, *)
(* SLA, delay of the packets and length of the run: one goroutine at a     *)
(* time resets a bucket, the ring holds what was recorded of every         *)
(* retained second whose bucket no late addition shares, a snapshot of     *)
(* such seconds, taken without a lock, is exact and overstates no          *)
(* unfinished work, and every expected row of a retained second is on its  *)
(* way in one place until it is recorded.                                  *)
(***************************************************************************)
EXTENDS CohortTracker, CountingTheorems, SequenceTheorems

(* The seconds that CountsExact speaks of, and what protects them: whoever  *)
(* records in the bucket of one of them records that one.                   *)
Sound == Retained \ spoilt
Guarded(s) == \A r \in Sound : Index(r) = Index(s) => r = s

(* Nothing comes from a second that the clock has not reached; and what a   *)
(* goroutine found retained is guarded until it is recorded.                *)
CohortsPast ==
    /\ \A w \in Workers : packet[w].second <= now
    /\ \A w \in Workers : \A k \in DOMAIN pending[w] : pending[w][k].second <= now
    /\ \A n \in DOMAIN batches : \A k \in DOMAIN batches[n] : batches[n][k].second <= now
    /\ \A t \in Threads : \A k \in DOMAIN thread[t].cohorts :
          /\ thread[t].cohorts[k].second <= now
          /\ k \in Due(t) => Guarded(thread[t].cohorts[k].second)

RingPast ==
    /\ \A i \in 0..Retention-1 : ring[i].second <= now
    /\ \A s \in Seconds : s > now => recorded[s] = Zero

(* The counters still to be cleared, or read.                               *)
Remaining ==
    {ReadOrder, <<"inserted", "spooled", "spoolFailed">>, <<"spooled", "spoolFailed">>,
     <<"spoolFailed">>}
In(left) == {left[k] : k \in DOMAIN left}

(* A goroutine resets the bucket of a sound second only while it is another *)
(* second's, and adds to it only when it is that second's.                  *)
SoundShape(t) ==
    /\ thread[t].at \in {"clear", "store"} => ~Current(t)
    /\ thread[t].at = "clear" =>
          \A c \in Counters \ In(thread[t].left) : bucket(thread[t].second).count[c] = 0
    /\ thread[t].at = "store" => bucket(thread[t].second).count = Zero
    /\ thread[t].at = "add" => Current(t)

ThreadShape(t) ==
    /\ Recording(t) => thread[t].second <= now /\ Guarded(thread[t].second)
    /\ thread[t].at = "clear" => thread[t].left \in Remaining
    /\ thread[t].second \in Sound => SoundShape(t)

(* No late addition spoilt the window of the snapshot.                      *)
Calm == WindowOf(snap.last) \cap spoilt = {}

SnapshotShape ==
    snap.at # "idle" =>
        /\ snap.last < now /\ snap.second \in Retained
        /\ snap.last - Window < snap.second /\ snap.second <= snap.last
        /\ snap.at = "done" => snap.second = snap.last
        /\ snap.at = "read" => snap.left \in Remaining
        /\ snap.at = "read" /\ Calm => ~Stale(snap.second)

(* The seconds whose counter c a snapshot has read.                         *)
Read(c) ==
    {s \in WindowOf(snap.last) :
        \/ s < snap.second \/ snap.at = "done"
        \/ s = snap.second /\ snap.at = "read" /\ c \notin In(snap.left)}

(* A snapshot has what was recorded of the seconds it has read, and what    *)
(* was recorded before it began is there or still to read.                  *)
SnapshotBounds ==
    snap.at # "idle" /\ Calm =>
        \A c \in Counters :
            /\ snap.atStart[c] <= snap.sum[c] + Sum(c, WindowOf(snap.last) \ Read(c))
            /\ snap.sum[c] <= Sum(c, Read(c))

(* Between the first two counters of a second, what was unfinished when the *)
(* first was read can only have been finished since.                        *)
HalfRead == snap.at = "read" /\ snap.left = <<"inserted", "spooled", "spoolFailed">>

UnfinishedBound ==
    snap.at # "idle" /\ Calm =>
        snap.sum["expected"] - snap.sum["inserted"] <=
            snap.unfinished + (IF HalfRead THEN recorded[snap.second]["inserted"] ELSE 0)

IInv ==
    /\ TypeOK /\ CohortsPast /\ RingPast /\ \A t \in Threads : ThreadShape(t)
    /\ CountsExact /\ SnapshotShape /\ SnapshotBounds /\ UnfinishedBound

-----------------------------------------------------------------------------
(* Seconds and buckets                                                      *)

LEMMA ModUnique ==
    ASSUME NEW R \in Nat \ {0}, NEW a \in Nat, NEW b \in Nat, a % R = b % R,
           a - b < R, b - a < R
    PROVE  a = b
  <1> DEFINE k == (a \div R) - (b \div R)
  <1>1. k \in Int /\ a - b = k * R
    <2>1. a = (a \div R) * R + (a % R) /\ b = (b \div R) * R + (b % R)
      OBVIOUS
    <2>2. a \div R \in Int /\ b \div R \in Int /\ a % R \in Int
      OBVIOUS
    <2> QED
      BY <2>1, <2>2
  <1> HIDE DEF k
  <1>2. CASE k >= 1
    <2>1. k * R >= 1 * R
      BY <1>1, <1>2
    <2> QED
      BY <1>1, <2>1
  <1>3. CASE k <= -1
    <2>1. k * R <= (-1) * R
      BY <1>1, <1>3
    <2> QED
      BY <1>1, <2>1
  <1>4. CASE k = 0
    BY <1>1, <1>4
  <1> QED
    BY <1>1, <1>2, <1>3, <1>4

(* The arithmetic of the constants, once.                                   *)
LEMMA Constants ==
    /\ Retention \in Nat \ {0} /\ Window \in Nat \ {0} /\ Sla \in Nat \ {0}
    /\ Window + Sla + 1 < Retention /\ Lookback \in Nat \ {0}
    /\ MaxSecond \in Nat /\ Retention <= MaxSecond
    /\ Seconds = 0..MaxSecond
  BY CohortAssumption DEF Seconds

(* The bucket of a second is a bucket of the ring.                          *)
LEMMA IndexType ==
    ASSUME NEW s \in Seconds
    PROVE  Index(s) \in 0..Retention-1
  <1>1. s \in Nat
    BY Constants
  <1> QED
    BY <1>1, Constants DEF Index

(* A retained second is less than a whole ring away from the current one.   *)
LEMMA RetainedAre ==
    ASSUME now \in Retention..MaxSecond, NEW s
    PROVE  /\ s \in Retained <=> s \in Seconds /\ s <= now /\ s > now - Retention
           /\ s \in Retained => s \in Nat /\ s \in Seconds /\ now \in Nat
  BY Constants DEF Retained

(* No two retained seconds share a bucket.                                  *)
LEMMA SameBucket ==
    ASSUME now \in Retention..MaxSecond, NEW a \in Retained, NEW b \in Retained,
           Index(a) = Index(b)
    PROVE  a = b
  <1>1. a \in Nat /\ b \in Nat /\ a - b < Retention /\ b - a < Retention
    BY RetainedAre, Constants
  <1> QED
    BY <1>1, ModUnique, Constants DEF Index

(* The fields of a bucket.                                                  *)
LEMMA BucketType ==
    ASSUME TypeOK, NEW s \in Seconds
    PROVE  /\ bucket(s) = ring[Index(s)] /\ bucket(s).second \in Seconds
           /\ bucket(s).count \in [Counters -> Nat]
           /\ Stale(s) <=> ring[Index(s)].second # s
  BY IndexType DEF TypeOK, bucket, Counts, Stale

(* A bucket has four kinds of counters here.                                *)
LEMMA CountersAre ==
    /\ Counters = {"expected", "inserted", "spooled", "spoolFailed"}
    /\ \A c \in Counters : Zero[c] = 0
    /\ Zero \in [Counters -> Nat] /\ Zero \in Counts
  <1>1. Counters = {"expected", "inserted", "spooled", "spoolFailed"}
    BY DEF Counters, Outcomes
  <1> QED
    BY <1>1 DEF Zero, Counts

-----------------------------------------------------------------------------
(* Sums over seconds, of any record of what was added                       *)

CountsOf(rec, c) == [s \in Seconds |-> rec[s][c]]
SumOf(rec, c, S) == SumOver(CountsOf(rec, c), S)

(* The sum of a window is the sum over its seconds of the recorded counts.  *)
LEMMA SumIs ==
    \A c, S : /\ Sum(c, S) = SumOf(recorded, c, S)
              /\ Sum(c, S)' = SumOver([s \in Seconds |-> recorded'[s][c]], S)
  BY DEF Sum, SumOf, CountsOf

(* Sums over seconds have finitely many terms.                              *)
LEMMA SecondsFinite == IsFiniteSet(Seconds) /\ \A S \in SUBSET Seconds : IsFiniteSet(S)
  <1>1. IsFiniteSet(Seconds)
    BY Constants, FS_Interval
  <1> QED
    BY <1>1, FS_Subset

(* The counts of a second are natural numbers.                              *)
LEMMA CountsAreNats ==
    ASSUME NEW rec \in [Seconds -> Counts], NEW c \in Counters
    PROVE  \A s \in Seconds : CountsOf(rec, c)[s] = rec[s][c] /\ rec[s][c] \in Nat
  BY DEF Counts, CountsOf

(* No second, no sum; and any second can be taken out.                      *)
LEMMA SumOfRecorded ==
    ASSUME NEW rec \in [Seconds -> Counts], NEW c \in Counters, NEW S \in SUBSET Seconds
    PROVE  /\ SumOf(rec, c, S) \in Int
           /\ SumOf(rec, c, {}) = 0
           /\ \A a \in S : SumOf(rec, c, S) = rec[a][c] + SumOf(rec, c, S \ {a})
  <1>1. IsFiniteSet(S) /\ IsFiniteSet({}) /\ \A x \in S : CountsOf(rec, c)[x] \in Int
    BY SecondsFinite, CountsAreNats
  <1>2. SumOver(CountsOf(rec, c), S) \in Int
    BY <1>1, SumType
  <1>3. SumOver(CountsOf(rec, c), {}) = 0
    BY <1>1, SumZero
  <1>4. ASSUME NEW a \in S
        PROVE  SumOf(rec, c, S) = rec[a][c] + SumOf(rec, c, S \ {a})
    <2>1. SumOver(CountsOf(rec, c), S) = CountsOf(rec, c)[a] + SumOver(CountsOf(rec, c), S \ {a})
      BY <1>1, SumWithout
    <2>2. CountsOf(rec, c)[a] = rec[a][c]
      BY CountsAreNats
    <2> QED
      BY <2>1, <2>2 DEF SumOf
  <1> QED
    BY <1>2, <1>3, <1>4 DEF SumOf

(* What is added is never taken away.                                       *)
LEMMA SumGrows ==
    ASSUME NEW rec \in [Seconds -> Counts], NEW later \in [Seconds -> Counts],
           NEW c \in Counters, NEW S \in SUBSET Seconds,
           \A s \in Seconds : rec[s][c] <= later[s][c]
    PROVE  SumOf(rec, c, S) <= SumOf(later, c, S)
  <1>1. IsFiniteSet(S)
    BY SecondsFinite
  <1>2. \A x \in S : /\ CountsOf(rec, c)[x] \in Int /\ CountsOf(later, c)[x] \in Int
                     /\ CountsOf(rec, c)[x] <= CountsOf(later, c)[x]
    BY CountsAreNats
  <1> QED
    BY <1>1, <1>2, SumMonotone DEF SumOf

(* So are their sums.                                                       *)
LEMMA SumIsNat ==
    ASSUME NEW rec \in [Seconds -> Counts], NEW c \in Counters, NEW S \in SUBSET Seconds
    PROVE  SumOf(rec, c, S) \in Nat
  <1> DEFINE none == [s \in Seconds |-> 0]
  <1>1. IsFiniteSet(S) /\ \A x \in S : none[x] = 0
    BY SecondsFinite
  <1>2. SumOver(none, S) = 0
    <2> HIDE DEF none
    <2> QED
      BY <1>1, SumZero
  <1>3. \A x \in S : /\ none[x] \in Int /\ CountsOf(rec, c)[x] \in Int
                     /\ none[x] <= CountsOf(rec, c)[x]
    BY <1>1, CountsAreNats
  <1>4. SumOver(none, S) <= SumOver(CountsOf(rec, c), S)
    <2> HIDE DEF none
    <2> QED
      BY <1>1, <1>3, SumMonotone
  <1> QED
    BY <1>2, <1>4, SumOfRecorded DEF SumOf

(* A snapshot that reads one more second of its window keeps its bounds.    *)
LEMMA ReadOneMore ==
    ASSUME NEW rec \in [Seconds -> Counts], NEW c \in Counters,
           NEW W \in SUBSET Seconds, NEW R \in SUBSET W, NEW a \in W \ R,
           NEW start \in Int, NEW sum \in Int,
           start <= sum + SumOf(rec, c, W \ R), sum <= SumOf(rec, c, R)
    PROVE  /\ start <= (sum + rec[a][c]) + SumOf(rec, c, W \ (R \cup {a}))
           /\ sum + rec[a][c] <= SumOf(rec, c, R \cup {a})
  <1>1. (W \ R) \ {a} = W \ (R \cup {a}) /\ (R \cup {a}) \ {a} = R
    OBVIOUS
  <1>2. SumOf(rec, c, W \ R) = rec[a][c] + SumOf(rec, c, W \ (R \cup {a}))
    BY <1>1, SumOfRecorded
  <1>3. SumOf(rec, c, R \cup {a}) = rec[a][c] + SumOf(rec, c, R)
    BY <1>1, SumOfRecorded
  <1>4. /\ SumOf(rec, c, W \ (R \cup {a})) \in Int /\ SumOf(rec, c, R) \in Int
        /\ rec[a][c] \in Int
    <2>1. a \in Seconds /\ W \ (R \cup {a}) \in SUBSET Seconds /\ R \in SUBSET Seconds
      OBVIOUS
    <2> QED
      BY <2>1, SumOfRecorded, CountsAreNats
  <1> QED
    BY <1>2, <1>3, <1>4

-----------------------------------------------------------------------------
(* One goroutine at a time                                                  *)

OnlyMoves(t) ==
    /\ thread' \in [Threads -> ThreadState]
    /\ \A u \in Threads \ {t} : thread'[u] = thread[u]

(* A goroutine holds a bucket's mutex as long as it clears it and stores    *)
(* its second, and takes it only when nobody has it.                        *)
TakesFreeLock(t) ==
    thread'[t].at \in {"clear", "store"} =>
        /\ thread'[t].second = thread[t].second
        /\ thread[t].at \in {"clear", "store"} \/ ~Locked(Index(thread[t].second))

(* At most one goroutine resets a bucket, and it holds the mutex of that    *)
(* bucket.                                                                  *)
LEMMA MutexKept ==
    ASSUME OneResets, NEW t \in Threads, OnlyMoves(t), TakesFreeLock(t)
    PROVE  OneResets'
  <1>1. SUFFICES ASSUME NEW u \in Threads, NEW v \in Threads, NEW i \in 0..Retention-1,
                        Holds(u, i)', Holds(v, i)', u # v
                 PROVE  FALSE
    BY DEF OneResets
  <1>2. \A a \in Threads \ {t} : Holds(a, i)' <=> Holds(a, i)
    BY DEF OnlyMoves, Holds
  <1>3. Holds(t, i)' => Holds(t, i) \/ ~Locked(i)
    BY DEF TakesFreeLock, Holds
  <1>4. CASE u # t /\ v # t
    BY <1>1, <1>2, <1>4 DEF OneResets
  <1>5. ASSUME NEW a \in Threads \ {t}, Holds(a, i)', Holds(t, i)'
        PROVE  FALSE
    <2>1. Holds(a, i)
      BY <1>2, <1>5
    <2>2. Holds(t, i)
      BY <1>3, <1>5, <2>1 DEF Locked
    <2> QED
      BY <2>1, <2>2 DEF OneResets
  <1> QED
    BY <1>1, <1>4, <1>5

(* While the clock stands, no second becomes sound, and what is guarded     *)
(* stays so.                                                                *)
LEMMA SoundStays ==
    ASSUME UNCHANGED now, spoilt \subseteq spoilt'
    PROVE  /\ Retained' = Retained /\ Sound' \subseteq Sound
           /\ \A s : Guarded(s) => \A r \in Sound' : Index(r) = Index(s) => r = s
  <1>1. Retained' = Retained
    BY DEF Retained
  <1>2. Sound' \subseteq Sound
    BY <1>1 DEF Sound
  <1> QED
    BY <1>1, <1>2 DEF Guarded

(* A goroutine that the step leaves alone keeps its shape.                  *)
LEMMA ShapeFramed ==
    ASSUME TypeOK, UNCHANGED <<now, ring>>, spoilt \subseteq spoilt',
           NEW u \in Threads, thread'[u] = thread[u], ThreadShape(u)
    PROVE  ThreadShape(u)'
  <1>1. Recording(u)' <=> Recording(u)
    BY DEF Recording
  <1>2. Recording(u) => /\ thread[u].second <= now
                        /\ \A r \in Sound' : Index(r) = Index(thread[u].second)
                                                => r = thread[u].second
    BY SoundStays DEF ThreadShape
  <1>3. Guarded(thread[u].second)' <=>
           \A r \in Sound' : Index(r) = Index(thread'[u].second) => r = thread'[u].second
    BY DEF Guarded, Index
  <1>4. SoundShape(u) => SoundShape(u)'
    BY DEF SoundShape, Current, bucket, Index
  <1>5. thread[u].second \in Sound' => thread[u].second \in Sound
    BY SoundStays
  <1> QED
    BY <1>1, <1>2, <1>3, <1>4, <1>5 DEF ThreadShape

(* The counts stay exact when no counter changes.                           *)
LEMMA CountsFramed ==
    ASSUME CountsExact, UNCHANGED <<now, ring, recorded>>, spoilt \subseteq spoilt'
    PROVE  CountsExact'
  BY SoundStays DEF CountsExact, Stale, bucket, Index, Sound

(* A step that leaves snapshot and truth alone keeps its bounds.            *)
LEMMA SnapshotFramed ==
    ASSUME SnapshotShape, SnapshotBounds, UnfinishedBound,
           UNCHANGED <<now, ring, snap, recorded>>, spoilt \subseteq spoilt'
    PROVE  SnapshotShape' /\ SnapshotBounds' /\ UnfinishedBound'
  <1>1. Calm' => Calm
    BY DEF Calm, WindowOf
  <1>2. SnapshotShape'
    BY <1>1, SoundStays DEF SnapshotShape, Stale, bucket, Index
  <1>3. SnapshotBounds'
    BY <1>1 DEF SnapshotBounds, Read, WindowOf, Sum, In
  <1>4. UnfinishedBound'
    BY <1>1 DEF UnfinishedBound, HalfRead
  <1> QED
    BY <1>2, <1>3, <1>4

BatchingType ==
    /\ packet \in [Workers -> Packets] /\ pending \in [Workers -> Cohorts]
    /\ batches \in Seq(Cohorts)

(* A step of a goroutine that touches neither the ring nor the clock.       *)
LEMMA ThreadStepKeeps ==
    ASSUME IInv, NEW t \in Threads, OnlyMoves(t), TakesFreeLock(t), ThreadShape(t)',
           UNCHANGED <<now, ring, snap, recorded>>, spoilt \subseteq spoilt',
           spoilt' \subseteq Seconds, BatchingType', CohortsPast'
    PROVE  IInv'
  <1>1. TypeOK'
    <2>1. OneResets'
      BY MutexKept DEF IInv, TypeOK
    <2> QED
      BY <2>1 DEF IInv, TypeOK, OnlyMoves, BatchingType
  <1>2. RingPast'
    BY DEF IInv, RingPast
  <1>3. \A u \in Threads : ThreadShape(u)'
    BY ShapeFramed DEF IInv, OnlyMoves
  <1> QED
    BY <1>1, <1>2, <1>3, CountsFramed, SnapshotFramed DEF IInv

-----------------------------------------------------------------------------
(* Cohorts                                                                  *)

LEMMA ThreadTypes ==
    ASSUME TypeOK, NEW t \in Threads
    PROVE  /\ thread[t].at \in {"idle", "insert", "next", "load", "lock", "clear", "store", "add"}
           /\ thread[t].second \in Seconds /\ thread[t].rows \in Nat
           /\ thread[t].counter \in Counters /\ thread[t].left \in Seq(Counters)
           /\ thread[t].cohorts \in Cohorts /\ thread[t].clock \in Seconds
           /\ thread[t] \in ThreadState /\ thread \in [Threads -> ThreadState]
  BY DEF TypeOK, ThreadState

(* The clock and the seconds reachable from it.                             *)
LEMMA TimeTypes ==
    ASSUME TypeOK
    PROVE  /\ now \in Nat /\ now \in Seconds /\ Retention <= now /\ now <= MaxSecond
           /\ now \in Retention..MaxSecond
           /\ \A s \in Seconds : s \in Nat /\ s <= MaxSecond
  BY Constants DEF TypeOK

(* Cohorts of seconds that the clock has reached.                           *)
Reached(cohorts, clock) == \A k \in DOMAIN cohorts : cohorts[k].second <= clock

(* What a goroutine holds of a cohort.                                      *)
LEMMA CohortIs ==
    ASSUME NEW cohorts \in Cohorts
    PROVE  /\ DOMAIN cohorts = 1..Len(cohorts) /\ Len(cohorts) \in Nat
           /\ \A k \in DOMAIN cohorts : /\ cohorts[k].second \in Seconds
                                        /\ cohorts[k].rows \in Nat \ {0}
           /\ \A k \in DOMAIN cohorts : cohorts[k] \in [second : Seconds, rows : Nat \ {0}]
  <1> DEFINE Cohort == [second : Seconds, rows : Nat \ {0}]
  <1>1. cohorts \in Seq(Cohort)
    BY DEF Cohorts
  <1>2. /\ DOMAIN cohorts = 1..Len(cohorts) /\ Len(cohorts) \in Nat
        /\ \A k \in DOMAIN cohorts : cohorts[k] \in Cohort
    <2> HIDE DEF Cohort
    <2> QED
      BY <1>1
  <1> QED
    BY <1>2

(* addInsertCohort keeps a batch's cohorts, whatever it looks back at.      *)
LEMMA CohortAdded ==
    ASSUME NEW cohorts \in Cohorts, NEW s \in Seconds, NEW clock \in Nat,
           Reached(cohorts, clock), s <= clock
    PROVE  /\ AddInsertCohort(cohorts, s) \in Cohorts
           /\ Reached(AddInsertCohort(cohorts, s), clock)
  <1> DEFINE recent == {k \in DOMAIN cohorts : k > Len(cohorts) - Lookback
                                               /\ cohorts[k].second = s}
             place == Max(recent)
             Cohort == [second : Seconds, rows : Nat \ {0}]
  <1>1. CASE recent = {}
    <2>1. AddInsertCohort(cohorts, s) = Append(cohorts, [second |-> s, rows |-> 1])
      BY <1>1 DEF AddInsertCohort
    <2>2. [second |-> s, rows |-> 1] \in Cohort
      OBVIOUS
    <2>3. Append(cohorts, [second |-> s, rows |-> 1]) \in Cohorts
      BY <2>2 DEF Cohorts
    <2>4. Reached(Append(cohorts, [second |-> s, rows |-> 1]), clock)
      BY CohortIs DEF Reached, Cohorts
    <2> QED
      BY <2>1, <2>3, <2>4
  <1>2. CASE recent # {}
    <2>1. place \in recent
      <3>1. recent \subseteq 1..Len(cohorts) /\ Len(cohorts) \in Nat
        BY CohortIs
      <3> HIDE DEF recent
      <3>2. PICK k \in recent : \A j \in recent : j <= k
        BY <1>2, <3>1, LastPosition
      <3>3. \A j \in recent : k >= j
        BY <3>1, <3>2
      <3> QED
        BY <3>2, <3>3 DEF Max
    <2>2. place \in DOMAIN cohorts
      BY <2>1
    <2>3. AddInsertCohort(cohorts, s) = [cohorts EXCEPT ![place].rows = @ + 1]
      BY <1>2 DEF AddInsertCohort
    <2> HIDE DEF place, recent
    <2> DEFINE after == [cohorts EXCEPT ![place].rows = @ + 1]
    <2>4. \A k \in DOMAIN cohorts : cohorts[k] \in Cohort
      BY CohortIs
    <2>5. /\ DOMAIN after = DOMAIN cohorts
          /\ \A k \in DOMAIN cohorts : after[k] \in Cohort /\ after[k].second = cohorts[k].second
      <3>1. [cohorts[place] EXCEPT !.rows = @ + 1] \in Cohort
        BY <2>2, <2>4
      <3>2. [cohorts[place] EXCEPT !.rows = @ + 1].second = cohorts[place].second
        BY <2>2, <2>4
      <3>3. after = [cohorts EXCEPT ![place] = [cohorts[place] EXCEPT !.rows = @ + 1]]
        OBVIOUS
      <3> QED
        BY <2>2, <2>4, <3>1, <3>2, <3>3
    <2>6. after \in Cohorts
      <3>1. after \in [1..Len(cohorts) -> Cohort] /\ Len(cohorts) \in Nat
        <4>1. DOMAIN cohorts = 1..Len(cohorts) /\ Len(cohorts) \in Nat
          BY CohortIs
        <4> QED
          BY <2>5, <4>1
      <3> HIDE DEF after
      <3> QED
        BY <3>1 DEF Cohorts
    <2>7. Reached(after, clock)
      <3> HIDE DEF after
      <3> QED
        BY <2>5 DEF Reached
    <2> QED
      BY <2>3, <2>6, <2>7
  <1> QED
    BY <1>1, <1>2

(* The cohorts of a batch without its first.                                *)
LEMMA CohortsTail ==
    ASSUME NEW cohorts \in Cohorts, cohorts # <<>>
    PROVE  /\ Head(cohorts).second \in Seconds /\ Head(cohorts).rows \in Nat
           /\ Head(cohorts) = cohorts[1] /\ 1 \in DOMAIN cohorts
           /\ Tail(cohorts) \in Cohorts
           /\ \A k \in DOMAIN Tail(cohorts) :
                 k + 1 \in DOMAIN cohorts /\ Tail(cohorts)[k] = cohorts[k + 1]
  <1> DEFINE Cohort == [second : Seconds, rows : Nat \ {0}]
  <1>1. cohorts \in Seq(Cohort)
    BY DEF Cohorts
  <1>2. /\ Head(cohorts) = cohorts[1] /\ 1 \in DOMAIN cohorts
        /\ Tail(cohorts) \in Seq(Cohort)
        /\ \A k \in DOMAIN Tail(cohorts) :
                 k + 1 \in DOMAIN cohorts /\ Tail(cohorts)[k] = cohorts[k + 1]
    <2> HIDE DEF Cohort
    <2> QED
      BY <1>1
  <1> QED
    BY <1>2, CohortIs DEF Cohorts

-----------------------------------------------------------------------------
(* The steps of the goroutines that leave the ring alone                    *)

ThreadPlaces == {"idle", "insert", "next", "load", "lock", "clear", "store", "add"}

SameLocals(t) ==
    /\ thread'[t].second = thread[t].second /\ thread'[t].rows = thread[t].rows
    /\ thread'[t].counter = thread[t].counter
    /\ thread'[t].cohorts = thread[t].cohorts /\ thread'[t].clock = thread[t].clock

(* A goroutine goes to another place with the same locals, and with the     *)
(* counters still to be cleared.                                            *)
LEMMA GoesClearing ==
    ASSUME TypeOK, NEW t \in Threads, NEW place \in ThreadPlaces, NEW left \in Seq(Counters),
           thread' = [thread EXCEPT ![t] = [thread[t] EXCEPT !.at = place, !.left = left]]
    PROVE  OnlyMoves(t) /\ thread'[t].at = place /\ thread'[t].left = left /\ SameLocals(t)
  <1> DEFINE after == [thread[t] EXCEPT !.at = place, !.left = left]
  <1>1. /\ after \in ThreadState /\ after.at = place /\ after.left = left
        /\ after.second = thread[t].second /\ after.rows = thread[t].rows
        /\ after.counter = thread[t].counter
        /\ after.cohorts = thread[t].cohorts /\ after.clock = thread[t].clock
    BY ThreadTypes DEF ThreadState, ThreadPlaces
  <1>2. thread' = [thread EXCEPT ![t] = after]
    OBVIOUS
  <1> HIDE DEF after
  <1>3. thread'[t] = after
    BY <1>2 DEF TypeOK
  <1> QED
    BY <1>1, <1>2, <1>3 DEF TypeOK, OnlyMoves, SameLocals

LEMMA Goes ==
    ASSUME TypeOK, NEW t \in Threads, NEW place \in ThreadPlaces, Goto(t, place)
    PROVE  OnlyMoves(t) /\ thread'[t].at = place /\ thread'[t].left = thread[t].left
           /\ SameLocals(t)
  <1>1. [thread[t] EXCEPT !.at = place, !.left = thread[t].left] = [thread[t] EXCEPT !.at = place]
    BY ThreadTypes DEF ThreadState
  <1>2. thread' = [thread EXCEPT ![t] = [thread[t] EXCEPT !.at = place]]
    BY DEF Goto
  <1>3. thread[t].left \in Seq(Counters)
    BY ThreadTypes
  <1> QED
    BY <1>1, <1>2, <1>3, GoesClearing

(* A step that adds no cohort leaves all cohorts in the past.               *)
LEMMA CohortsFramed ==
    ASSUME CohortsPast, UNCHANGED <<now, batching>>, spoilt \subseteq spoilt',
           \A t \in Threads :
              /\ thread'[t].cohorts = thread[t].cohorts /\ thread'[t].clock = thread[t].clock
              /\ thread[t].at = "insert" => thread'[t].at = "insert"
    PROVE  CohortsPast'
  <1>1. UNCHANGED <<packet, pending, batches>>
    BY DEF batching
  <1>2. ASSUME NEW t \in Threads, NEW k \in DOMAIN thread'[t].cohorts
        PROVE  /\ thread'[t].cohorts[k].second <= now'
               /\ k \in Due(t)' => Guarded(thread[t].cohorts[k].second)'
    <2>1. k \in Due(t)' => k \in Due(t)
      BY DEF Due, isRetained
    <2>2. k \in Due(t) => Guarded(thread[t].cohorts[k].second)
      BY <1>2 DEF CohortsPast
    <2>3. Guarded(thread[t].cohorts[k].second)' <=>
             \A r \in Sound' : Index(r) = Index(thread'[t].cohorts[k].second)
                                  => r = thread'[t].cohorts[k].second
      BY DEF Guarded, Index
    <2>4. thread'[t].cohorts[k].second = thread[t].cohorts[k].second
      OBVIOUS
    <2> QED
      BY <1>2, <2>1, <2>2, <2>3, <2>4, SoundStays DEF CohortsPast
  <1> QED
    BY <1>1, <1>2 DEF CohortsPast

(* A goroutine is a packet worker or an insert worker.                      *)
LEMMA KindsOfThread ==
    /\ Workers \subseteq Threads /\ Inserters \subseteq Threads /\ IsFiniteSet(Threads)
    /\ \A w \in Workers : w \notin Inserters
  <1>1. IsFiniteSet(Threads)
    BY CohortAssumption, FS_Union DEF Threads
  <1> QED
    BY <1>1, CohortAssumption DEF Threads

(* The shape of a goroutine that goes on with its second.                   *)
LEMMA ShapeGoesOn ==
    ASSUME IInv, NEW t \in Threads, SameLocals(t), UNCHANGED <<now, spoilt>>, Recording(t),
           thread'[t].at = "clear" => thread'[t].left \in Remaining,
           thread[t].second \in Sound => SoundShape(t)'
    PROVE  ThreadShape(t)'
  <1>1. ThreadShape(t)
    BY DEF IInv
  <1>2. Sound' = Sound
    BY DEF Sound, Retained
  <1>3. Guarded(thread[t].second)'
    BY <1>1, <1>2 DEF ThreadShape, Guarded, SameLocals, Index
  <1> QED
    BY <1>1, <1>2, <1>3 DEF ThreadShape, SameLocals, Remaining, ReadOrder

(* So are its cohorts.                                                      *)
LEMMA CohortsGoOn ==
    ASSUME IInv, NEW t \in Threads, OnlyMoves(t), Recording(t),
           UNCHANGED <<now, batching, spoilt>>,
           thread'[t].cohorts = thread[t].cohorts /\ thread'[t].clock = thread[t].clock
    PROVE  CohortsPast'
  <1>1. \A u \in Threads :
              /\ thread'[u].cohorts = thread[u].cohorts /\ thread'[u].clock = thread[u].clock
              /\ thread[u].at = "insert" => thread'[u].at = "insert"
    BY DEF OnlyMoves, Recording
  <1> QED
    BY <1>1, CohortsFramed DEF IInv

(* What the packets and the batches hold has its type.                      *)
LEMMA BatchingFramed ==
    ASSUME TypeOK, UNCHANGED batching
    PROVE  BatchingType'
  BY DEF TypeOK, BatchingType, batching

(* The lock-free load of a bucket's second decides between addition and     *)
(* reset.                                                                   *)
LEMMA LoadSecondKeeps ==
    ASSUME IInv, NEW t \in Threads, LoadSecond(t)
    PROVE  IInv'
  <1> DEFINE place == IF Current(t) THEN "add" ELSE "lock"
  <1>1. Goto(t, place) /\ place \in ThreadPlaces /\ thread[t].at = "load"
    BY DEF LoadSecond, ThreadPlaces
  <1>2. UNCHANGED <<now, ring, batching, snap, recorded, spoilt>>
    BY DEF LoadSecond, bucketUnchanged
  <1>3. place \in {"add", "lock"} /\ (place = "add" => Current(t))
    OBVIOUS
  <1> HIDE DEF place
  <1>4. OnlyMoves(t) /\ thread'[t].at = place /\ SameLocals(t)
    BY <1>1, Goes DEF IInv
  <1>5. TakesFreeLock(t) /\ Recording(t)
    BY <1>1, <1>3, <1>4 DEF TakesFreeLock, Recording
  <1>6. Current(t)' <=> Current(t)
    BY <1>2, <1>4 DEF Current, bucket, Index, SameLocals
  <1>7. ThreadShape(t)'
    BY <1>2, <1>3, <1>4, <1>5, <1>6, ShapeGoesOn DEF SoundShape
  <1>8. CohortsPast'
    BY <1>2, <1>4, <1>5, CohortsGoOn DEF SameLocals
  <1>9. spoilt' \subseteq Seconds /\ BatchingType'
    BY <1>2, BatchingFramed DEF IInv, TypeOK
  <1> QED
    BY <1>2, <1>4, <1>5, <1>7, <1>8, <1>9, ThreadStepKeeps

(* What is left to clear, or to read, and what comes after its first.       *)
LEMMA RemainingAre ==
    /\ ResetOrder = ReadOrder /\ ReadOrder \in Remaining /\ In(ReadOrder) = Counters
    /\ \A left \in Remaining :
          /\ left \in Seq(Counters) /\ left # <<>>
          /\ Head(left) \in Counters /\ Head(left) \in In(left)
          /\ Tail(left) \in Seq(Counters)
          /\ In(Tail(left)) = In(left) \ {Head(left)}
          /\ Len(left) = 1 <=> Tail(left) = <<>>
          /\ Tail(left) # <<>> => Tail(left) \in Remaining
          /\ Tail(left) = <<>> => In(left) = {Head(left)}
  <1> DEFINE three == <<"inserted", "spooled", "spoolFailed">>
             two == <<"spooled", "spoolFailed">>
             one == <<"spoolFailed">>
  <1>0. /\ In(ReadOrder) = {"expected", "inserted", "spooled", "spoolFailed"}
        /\ In(three) = {"inserted", "spooled", "spoolFailed"}
        /\ In(two) = {"spooled", "spoolFailed"} /\ In(one) = {"spoolFailed"} /\ In(<<>>) = {}
    BY DEF In, ReadOrder
  <1>1. /\ Tail(ReadOrder) = three /\ Tail(three) = two /\ Tail(two) = one /\ Tail(one) = <<>>
        /\ Head(ReadOrder) = "expected" /\ Head(three) = "inserted" /\ Head(two) = "spooled"
        /\ Head(one) = "spoolFailed"
        /\ Len(ReadOrder) = 4 /\ Len(three) = 3 /\ Len(two) = 2 /\ Len(one) = 1
        /\ three # <<>> /\ two # <<>> /\ one # <<>> /\ ReadOrder # <<>>
    BY DEF ReadOrder
  <1>2. /\ ReadOrder \in Seq(Counters) /\ three \in Seq(Counters) /\ two \in Seq(Counters)
        /\ one \in Seq(Counters) /\ <<>> \in Seq(Counters)
    BY CountersAre DEF ReadOrder
  <1>3. Remaining = {ReadOrder, three, two, one}
    BY DEF Remaining
  <1>4. ResetOrder = ReadOrder
    BY DEF ResetOrder, ReadOrder
  <1> HIDE DEF three, two, one
  <1> DEFINE Good(left) ==
          /\ left \in Seq(Counters) /\ left # <<>>
          /\ Head(left) \in Counters /\ Head(left) \in In(left)
          /\ Tail(left) \in Seq(Counters)
          /\ In(Tail(left)) = In(left) \ {Head(left)}
          /\ Len(left) = 1 <=> Tail(left) = <<>>
          /\ Tail(left) # <<>> => Tail(left) \in Remaining
          /\ Tail(left) = <<>> => In(left) = {Head(left)}
  <1>4a. /\ In(three) = In(ReadOrder) \ {"expected"}
         /\ In(two) = In(three) \ {"inserted"} /\ In(one) = In(two) \ {"spooled"}
    BY <1>0
  <1>4b. /\ "expected" \in In(ReadOrder) /\ "inserted" \in In(three) /\ "spooled" \in In(two)
    BY <1>0
  <1>4c. three \in Remaining /\ two \in Remaining /\ one \in Remaining
    BY <1>3
  <1>4d. {"expected", "inserted", "spooled", "spoolFailed"} \subseteq Counters
    BY CountersAre
  <1>4e. /\ Len(ReadOrder) # 1 /\ Len(three) # 1 /\ Len(two) # 1
         /\ Tail(ReadOrder) # <<>> /\ Tail(three) # <<>> /\ Tail(two) # <<>>
    <2>1. Tail(ReadOrder) # <<>> /\ Tail(three) # <<>> /\ Tail(two) # <<>>
      BY <1>1, Zenon
    <2> QED
      BY ONLY <1>1, <2>1
  <1>5. Good(ReadOrder)
    <2>1. /\ Len(ReadOrder) = 1 <=> Tail(ReadOrder) = <<>>
          /\ Tail(ReadOrder) = <<>> => In(ReadOrder) = {Head(ReadOrder)}
      BY <1>4e, Zenon
    <2> QED
      BY ONLY <1>1, <1>2, <1>4a, <1>4b, <1>4c, <1>4d, <2>1
  <1>6. Good(three)
    <2>1. /\ Len(three) = 1 <=> Tail(three) = <<>>
          /\ Tail(three) = <<>> => In(three) = {Head(three)}
      BY <1>4e, Zenon
    <2> QED
      BY ONLY <1>1, <1>2, <1>4a, <1>4b, <1>4c, <1>4d, <2>1
  <1>7. Good(two)
    <2>1. /\ Len(two) = 1 <=> Tail(two) = <<>>
          /\ Tail(two) = <<>> => In(two) = {Head(two)}
      BY <1>4e, Zenon
    <2> QED
      BY ONLY <1>1, <1>2, <1>4a, <1>4b, <1>4c, <1>4d, <2>1
  <1>8. Good(one)
    BY <1>0, <1>1, <1>2, <1>3, CountersAre
  <1>9. \A left \in Remaining : Good(left)
    <2> HIDE DEF Good
    <2> QED
      BY <1>3, <1>5, <1>6, <1>7, <1>8
  <1> QED
    BY <1>0, <1>3, <1>4, <1>9, CountersAre

(* The mutex is taken and the second is looked at again.                    *)
LEMMA LockBucketKeeps ==
    ASSUME IInv, NEW t \in Threads, LockBucket(t)
    PROVE  IInv'
  <1>1. /\ thread[t].at = "lock" /\ ~Locked(Index(thread[t].second))
        /\ UNCHANGED <<now, ring, batching, snap, recorded, spoilt>>
        /\ IF Current(t) THEN Goto(t, "add") ELSE Clear(t)
    BY DEF LockBucket, bucketUnchanged
  <1>2. /\ OnlyMoves(t) /\ SameLocals(t)
        /\ IF Current(t) THEN thread'[t].at = "add"
           ELSE thread'[t].at = "clear" /\ thread'[t].left = ReadOrder
    <2>1. CASE Current(t)
      <3>1. "add" \in ThreadPlaces
        BY DEF ThreadPlaces
      <3> QED
        BY <1>1, <2>1, <3>1, Goes DEF IInv
    <2>2. CASE ~Current(t)
      <3>1. "clear" \in ThreadPlaces /\ ReadOrder \in Seq(Counters)
        BY RemainingAre DEF ThreadPlaces
      <3>2. thread' = [thread EXCEPT ![t] = [thread[t] EXCEPT !.at = "clear", !.left = ReadOrder]]
        BY <1>1, <2>2, RemainingAre DEF Clear, IInv, TypeOK
      <3> QED
        BY <2>2, <3>1, <3>2, GoesClearing DEF IInv
    <2> QED
      BY <2>1, <2>2
  <1>3. TakesFreeLock(t) /\ Recording(t)
    BY <1>1, <1>2 DEF TakesFreeLock, SameLocals, Recording
  <1>4. Current(t)' <=> Current(t)
    BY <1>1, <1>2 DEF Current, bucket, Index, SameLocals
  <1>5. ThreadShape(t)'
    <2>1. thread'[t].at = "clear" => thread'[t].left \in Remaining
      BY <1>2, RemainingAre
    <2>2. SoundShape(t)'
      BY <1>2, <1>4, RemainingAre DEF SoundShape
    <2> QED
      BY <1>1, <1>2, <1>3, <2>1, <2>2, ShapeGoesOn
  <1>6. CohortsPast'
    BY <1>1, <1>2, <1>3, CohortsGoOn DEF SameLocals
  <1>7. spoilt' \subseteq Seconds /\ BatchingType'
    BY <1>1, BatchingFramed DEF IInv, TypeOK
  <1> QED
    BY <1>1, <1>2, <1>3, <1>5, <1>6, <1>7, ThreadStepKeeps

(* A goroutine between two records.                                         *)
LEMMA IdleType ==
    /\ IdleThread \in ThreadState /\ IdleThread.at = "idle" /\ IdleThread.cohorts = <<>>
    /\ IdleThread.counter = "expected" /\ IdleThread.clock = 0
  <1>1. <<>> \in Cohorts /\ 0 \in Seconds /\ 0 \in Nat /\ <<>> \in Seq(Counters)
        /\ "expected" \in Counters
    BY Constants, CountersAre DEF Cohorts
  <1> QED
    BY <1>1 DEF IdleThread, ThreadState

(* A packet worker has parsed a packet and begins to record it: if the      *)
(* second is not retained, the second that has its bucket is spoilt.        *)
LEMMA ParseKeeps ==
    ASSUME IInv, NEW w \in Workers, NEW s \in Seconds, NEW n \in PacketRows, Parse(w, s, n)
    PROVE  IInv'
  <1>1. /\ w \in Threads /\ thread[w].at = "idle" /\ s <= now /\ n \in Nat
        /\ spoilt' = spoilt \cup SharedWith({s}, Retained)
        /\ UNCHANGED <<now, ring, batching, snap, recorded>>
    <2>1. s <= now
      BY DEF Parse
    <2>2. n \in Nat
      BY CohortAssumption
    <2> QED
      BY <2>1, <2>2, KindsOfThread DEF Parse
  <1> DEFINE after == [IdleThread EXCEPT !.at = "load", !.second = s, !.rows = n]
  <1>2. /\ after \in ThreadState /\ after.at = "load" /\ after.second = s
        /\ after.cohorts = <<>> /\ after.rows = n
    BY <1>1, IdleType DEF ThreadState
  <1>3. thread' = [thread EXCEPT ![w] = after]
    BY DEF Parse
  <1> HIDE DEF after
  <1>4. thread'[w] = after /\ OnlyMoves(w)
    BY <1>1, <1>2, <1>3 DEF IInv, TypeOK, OnlyMoves
  <1>5. TakesFreeLock(w)
    BY <1>2, <1>4 DEF TakesFreeLock
  <1>6. spoilt \subseteq spoilt' /\ spoilt' \subseteq Seconds
    <2>1. Retained \subseteq Seconds
      BY RetainedAre, TimeTypes DEF IInv
    <2> QED
      BY <1>1, <2>1 DEF SharedWith, IInv, TypeOK
  <1>7. \A r \in Sound' : Index(r) = Index(s) => r = s
    <2> SUFFICES ASSUME NEW r \in Sound', Index(r) = Index(s), r # s
                 PROVE  FALSE
      OBVIOUS
    <2>1. r \in Retained /\ r \notin spoilt'
      BY <1>1, <1>6, SoundStays DEF Sound
    <2>2. r \in SharedWith({s}, Retained)
      BY <2>1 DEF SharedWith
    <2> QED
      BY <1>1, <2>1, <2>2
  <1>8. ThreadShape(w)'
    BY <1>1, <1>2, <1>4, <1>7 DEF ThreadShape, Guarded, Index, SoundShape
  <1>9. CohortsPast'
    <2>1. UNCHANGED <<packet, pending, batches>>
      BY <1>1 DEF batching
    <2>2. ASSUME NEW t \in Threads, NEW k \in DOMAIN thread'[t].cohorts
          PROVE  /\ thread'[t].cohorts[k].second <= now'
                 /\ k \in Due(t)' => \A r \in Sound' : Index(r) = Index(thread'[t].cohorts[k].second)
                                                  => r = thread'[t].cohorts[k].second
      <3>1. t # w
        BY <1>2, <1>4, <2>2
      <3>2. thread'[t] = thread[t]
        BY <1>4, <3>1 DEF OnlyMoves
      <3>3. Due(t)' = Due(t)
        BY <3>2 DEF Due, isRetained
      <3> QED
        BY <1>1, <1>6, <2>2, <3>2, <3>3, SoundStays DEF IInv, CohortsPast
    <2> QED
      BY <1>1, <2>1, <2>2 DEF IInv, CohortsPast, Guarded, Index
  <1>10. BatchingType'
    BY <1>1, BatchingFramed DEF IInv
  <1> QED
    BY <1>1, <1>4, <1>5, <1>6, <1>8, <1>9, <1>10, ThreadStepKeeps

(* A step that moves cohorts, of which one goroutine may take some.         *)
LEMMA CohortsMoved ==
    ASSUME IInv, NEW t \in Threads, OnlyMoves(t), UNCHANGED <<now, spoilt>>,
           \A w \in Workers : packet'[w].second <= now /\ Reached(pending'[w], now),
           \A n \in DOMAIN batches' : Reached(batches'[n], now),
           Reached(thread'[t].cohorts, now),
           thread'[t].at # "insert" =>
              \A k \in DOMAIN thread'[t].cohorts :
                 isRetained(thread'[t].cohorts[k].second, thread'[t].clock) =>
                    Guarded(thread'[t].cohorts[k].second)
    PROVE  CohortsPast'
  <1>1. Sound' = Sound
    BY DEF Sound, Retained
  <1>2. ASSUME NEW u \in Threads, NEW k \in DOMAIN thread'[u].cohorts
        PROVE  /\ thread'[u].cohorts[k].second <= now'
               /\ k \in Due(u)' => \A r \in Sound : Index(r) = Index(thread'[u].cohorts[k].second)
                                                  => r = thread'[u].cohorts[k].second
    <2>1. CASE u = t
      <3>1. k \in Due(u)' => /\ thread'[t].at # "insert"
                             /\ isRetained(thread'[t].cohorts[k].second, thread'[t].clock)
        BY <2>1 DEF Due, isRetained
      <3> QED
        BY <1>2, <2>1, <3>1 DEF Guarded, Reached
    <2>2. CASE u # t
      <3>1. thread'[u] = thread[u]
        BY <2>2 DEF OnlyMoves
      <3>2. Due(u)' = Due(u)
        BY <3>1 DEF Due, isRetained
      <3> QED
        BY <1>2, <3>1, <3>2 DEF IInv, CohortsPast, Guarded
    <2> QED
      BY <2>1, <2>2
  <1> QED
    BY <1>1, <1>2 DEF CohortsPast, Guarded, Index, Reached

(* Cohorts of the past, before a step.                                      *)
LEMMA PastCohorts ==
    ASSUME IInv
    PROVE  /\ \A w \in Workers : packet[w].second <= now /\ Reached(pending[w], now)
           /\ \A n \in DOMAIN batches : Reached(batches[n], now)
           /\ \A t \in Threads : Reached(thread[t].cohorts, now)
  BY DEF IInv, CohortsPast, Reached

(* What isRetained admits now is retained, and alone in its bucket.         *)
LEMMA RetainedGuarded ==
    ASSUME IInv, NEW s \in Seconds, s <= now, isRetained(s, now)
    PROVE  s \in Retained /\ Guarded(s)
  <1>1. now \in Retention..MaxSecond
    BY TimeTypes DEF IInv
  <1>2. s \in Retained
    BY <1>1, RetainedAre DEF isRetained
  <1> QED
    BY <1>1, <1>2, SameBucket DEF Guarded, Sound

(* Cohorts that were reached before the clock was read.                     *)
LEMMA DueGuarded ==
    ASSUME IInv, NEW cohorts \in Cohorts, Reached(cohorts, now)
    PROVE  \A k \in DOMAIN cohorts :
              isRetained(cohorts[k].second, now) => Guarded(cohorts[k].second)
  BY RetainedGuarded, CohortIs DEF Reached

(* A row of the packet joins the batch of its worker.                       *)
LEMMA AppendRowKeeps ==
    ASSUME IInv, NEW w \in Workers, AppendRow(w)
    PROVE  IInv'
  <1> DEFINE q == packet[w].second
             after == AddInsertCohort(pending[w], q)
             rest == WithoutRow(packet[w])
  <1>1. /\ w \in Threads /\ packet[w].rows > 0
        /\ pending' = [pending EXCEPT ![w] = after] /\ packet' = [packet EXCEPT ![w] = rest]
        /\ UNCHANGED <<now, ring, thread, batches, snap, recorded, spoilt>>
        /\ packet \in [Workers -> Packets] /\ pending \in [Workers -> Cohorts]
        /\ batches \in Seq(Cohorts)
    BY KindsOfThread DEF AppendRow, IInv, TypeOK
  <1>2. /\ q \in Seconds /\ q <= now /\ now \in Nat /\ packet[w].rows \in Nat
        /\ pending[w] \in Cohorts /\ Reached(pending[w], now)
    BY <1>1, PastCohorts, TimeTypes DEF IInv, Packets
  <1>3. after \in Cohorts /\ Reached(after, now)
    BY <1>2, CohortAdded
  <1>4. rest \in Packets /\ rest.second <= now
    <2>1. NoRows \in Packets /\ NoRows.second <= now
      BY <1>2, Constants DEF NoRows, Packets
    <2>2. /\ packet[w].rows # 1 => [packet[w] EXCEPT !.rows = @ - 1] \in Packets
          /\ [packet[w] EXCEPT !.rows = @ - 1].second = q
      BY <1>1, <1>2 DEF Packets
    <2> QED
      BY <1>2, <2>1, <2>2 DEF WithoutRow
  <1> HIDE DEF after, rest, q
  <1>5. OnlyMoves(w) /\ TakesFreeLock(w)
    BY <1>1 DEF IInv, TypeOK, OnlyMoves, TakesFreeLock
  <1>6. ThreadShape(w)'
    BY <1>1, ShapeFramed DEF IInv
  <1>7. /\ packet' \in [Workers -> Packets] /\ pending' \in [Workers -> Cohorts]
        /\ \A v \in Workers : /\ packet'[v] = IF v = w THEN rest ELSE packet[v]
                              /\ pending'[v] = IF v = w THEN after ELSE pending[v]
    BY <1>1, <1>3, <1>4
  <1>8. CohortsPast'
    <2>1. /\ \A v \in Workers : packet'[v].second <= now /\ Reached(pending'[v], now)
          /\ \A n \in DOMAIN batches' : Reached(batches'[n], now)
      BY <1>1, <1>3, <1>4, <1>7, PastCohorts
    <2>2. /\ Reached(thread'[w].cohorts, now)
          /\ thread'[w].at # "insert" =>
              \A k \in DOMAIN thread'[w].cohorts :
                 isRetained(thread'[w].cohorts[k].second, thread'[w].clock) =>
                    Guarded(thread'[w].cohorts[k].second)
      BY <1>1, PastCohorts DEF IInv, CohortsPast, Due
    <2> QED
      BY <1>1, <1>5, <2>1, <2>2, CohortsMoved
  <1>9. BatchingType' /\ spoilt' \subseteq Seconds
    BY <1>1, <1>7 DEF BatchingType, IInv, TypeOK
  <1> QED
    BY <1>1, <1>5, <1>6, <1>8, <1>9, ThreadStepKeeps

(* A batch that is handed over keeps its cohorts.                           *)
LEMMA HandOverKeeps ==
    ASSUME IInv, NEW w \in Workers, HandOver(w)
    PROVE  IInv'
  <1>1. /\ w \in Threads /\ pending[w] \in Cohorts /\ batches \in Seq(Cohorts)
        /\ pending \in [Workers -> Cohorts]
        /\ batches' = Append(batches, pending[w])
        /\ pending' = [pending EXCEPT ![w] = <<>>]
        /\ UNCHANGED <<now, ring, thread, packet, snap, recorded, spoilt>>
    BY KindsOfThread DEF HandOver, IInv, TypeOK
  <1>2. /\ batches' \in Seq(Cohorts) /\ pending' \in [Workers -> Cohorts]
        /\ \A v \in Workers : pending'[v] = IF v = w THEN <<>> ELSE pending[v]
    <2>1. <<>> \in Cohorts
      BY DEF Cohorts
    <2> QED
      BY <1>1, <2>1
  <1>3. OnlyMoves(w) /\ TakesFreeLock(w)
    BY <1>1 DEF IInv, TypeOK, OnlyMoves, TakesFreeLock
  <1>4. ThreadShape(w)'
    BY <1>1, ShapeFramed DEF IInv
  <1>5. CohortsPast'
    <2>1. \A v \in Workers : packet'[v].second <= now /\ Reached(pending'[v], now)
      BY <1>1, <1>2, PastCohorts DEF Reached
    <2>2. \A n \in DOMAIN batches' : Reached(batches'[n], now)
      <3>1. \A n \in DOMAIN batches' :
               \/ batches'[n] = pending[w]
               \/ n \in DOMAIN batches /\ batches'[n] = batches[n]
        <4>1. Len(batches) \in Nat /\ DOMAIN batches = 1..Len(batches)
          BY <1>1
        <4>2. /\ DOMAIN batches' = 1..Len(batches)+1
              /\ \A n \in DOMAIN batches' :
                    batches'[n] = IF n \in 1..Len(batches) THEN batches[n] ELSE pending[w]
          BY ONLY <1>1, <4>1
        <4> QED
          BY <4>1, <4>2
      <3> QED
        BY <3>1, PastCohorts
    <2>3. /\ Reached(thread'[w].cohorts, now)
          /\ thread'[w].at # "insert" =>
              \A k \in DOMAIN thread'[w].cohorts :
                 isRetained(thread'[w].cohorts[k].second, thread'[w].clock) =>
                    Guarded(thread'[w].cohorts[k].second)
      BY <1>1, PastCohorts DEF IInv, CohortsPast, Due
    <2> QED
      BY <1>1, <1>3, <2>1, <2>2, <2>3, CohortsMoved
  <1>6. BatchingType' /\ spoilt' \subseteq Seconds
    BY <1>1, <1>2 DEF BatchingType, IInv, TypeOK
  <1> QED
    BY <1>1, <1>3, <1>4, <1>5, <1>6, ThreadStepKeeps

(* A batch over the queue's limit: its worker spools it and records that.   *)
LEMMA RefuseKeeps ==
    ASSUME IInv, NEW w \in Workers, Refuse(w)
    PROVE  IInv'
  <1>1. /\ w \in Threads /\ pending[w] \in Cohorts /\ pending \in [Workers -> Cohorts]
        /\ thread[w].at = "idle"
        /\ pending' = [pending EXCEPT ![w] = <<>>]
        /\ UNCHANGED <<now, ring, packet, batches, snap, recorded, spoilt>>
    BY KindsOfThread DEF Refuse, IInv, TypeOK
  <1>2. PICK outcome \in {"spooled", "spoolFailed"} :
          thread' = [thread EXCEPT ![w] =
                      [IdleThread EXCEPT !.at = "next", !.counter = outcome,
                                         !.cohorts = pending[w], !.clock = now]]
    BY DEF Refuse
  <1> DEFINE after == [IdleThread EXCEPT !.at = "next", !.counter = outcome,
                                         !.cohorts = pending[w], !.clock = now]
  <1>3. /\ after \in ThreadState /\ after.at = "next"
        /\ after.cohorts = pending[w] /\ after.clock = now
    BY <1>1, IdleType, TimeTypes, CountersAre DEF IInv, ThreadState
  <1>4. thread' = [thread EXCEPT ![w] = after]
    BY <1>2
  <1> HIDE DEF after
  <1>5. thread'[w] = after /\ OnlyMoves(w)
    BY <1>1, <1>3, <1>4 DEF IInv, TypeOK, OnlyMoves
  <1>6. TakesFreeLock(w)
    BY <1>3, <1>5 DEF TakesFreeLock
  <1>7. ThreadShape(w)'
    BY <1>3, <1>5 DEF ThreadShape, Recording, SoundShape
  <1>8. /\ pending' \in [Workers -> Cohorts]
        /\ \A v \in Workers : pending'[v] = IF v = w THEN <<>> ELSE pending[v]
    <2>1. <<>> \in Cohorts
      BY DEF Cohorts
    <2> QED
      BY <1>1, <2>1
  <1>9. CohortsPast'
    <2>1. /\ \A v \in Workers : packet'[v].second <= now /\ Reached(pending'[v], now)
          /\ \A n \in DOMAIN batches' : Reached(batches'[n], now)
          /\ Reached(pending[w], now)
      BY <1>1, <1>8, PastCohorts DEF Reached
    <2>2. \A k \in DOMAIN pending[w] :
             isRetained(pending[w][k].second, now) => Guarded(pending[w][k].second)
      BY <1>1, <2>1, DueGuarded
    <2> QED
      BY <1>1, <1>3, <1>5, <2>1, <2>2, CohortsMoved
  <1>10. BatchingType' /\ spoilt' \subseteq Seconds
    BY <1>1, <1>8 DEF BatchingType, IInv, TypeOK
  <1> QED
    BY <1>1, <1>5, <1>6, <1>7, <1>9, <1>10, ThreadStepKeeps

(* An insert worker takes a batch from the queue.                           *)
LEMMA ReceiveKeeps ==
    ASSUME IInv, NEW i \in Inserters, Receive(i)
    PROVE  IInv'
  <1>1. /\ i \in Threads /\ thread[i].at = "idle" /\ batches # <<>>
        /\ batches \in Seq(Cohorts) /\ batches' = Tail(batches)
        /\ UNCHANGED <<now, ring, packet, pending, snap, recorded, spoilt>>
    BY KindsOfThread DEF Receive, IInv, TypeOK
  <1>2. /\ Head(batches) \in Cohorts /\ Head(batches) = batches[1] /\ 1 \in DOMAIN batches
        /\ batches' \in Seq(Cohorts)
        /\ \A n \in DOMAIN batches' : n + 1 \in DOMAIN batches /\ batches'[n] = batches[n + 1]
    BY ONLY <1>1
  <1> DEFINE after == [thread[i] EXCEPT !.at = "insert", !.cohorts = Head(batches)]
  <1>3. after \in ThreadState /\ after.at = "insert" /\ after.cohorts = Head(batches)
    BY <1>1, <1>2, ThreadTypes DEF IInv, ThreadState
  <1>4. thread' = [thread EXCEPT ![i] = after]
    BY <1>1, ThreadTypes DEF Receive, IInv
  <1> HIDE DEF after
  <1>5. thread'[i] = after /\ OnlyMoves(i)
    BY <1>1, <1>3, <1>4 DEF IInv, TypeOK, OnlyMoves
  <1>6. TakesFreeLock(i)
    BY <1>3, <1>5 DEF TakesFreeLock
  <1>7. ThreadShape(i)'
    BY <1>3, <1>5 DEF ThreadShape, Recording, SoundShape
  <1>8. CohortsPast'
    <2>1. /\ \A v \in Workers : packet'[v].second <= now /\ Reached(pending'[v], now)
          /\ \A n \in DOMAIN batches' : Reached(batches'[n], now)
          /\ Reached(Head(batches), now)
      BY <1>1, <1>2, PastCohorts
    <2> QED
      BY <1>1, <1>3, <1>5, <2>1, CohortsMoved
  <1>9. BatchingType' /\ spoilt' \subseteq Seconds
    BY <1>1, <1>2 DEF BatchingType, IInv, TypeOK
  <1> QED
    BY <1>1, <1>5, <1>6, <1>7, <1>8, <1>9, ThreadStepKeeps

(* The clock is read when the outcome of a batch is known.                  *)
LEMMA SettleKeeps ==
    ASSUME IInv, NEW i \in Inserters, Settle(i)
    PROVE  IInv'
  <1>1. /\ i \in Threads /\ thread[i].at = "insert" /\ thread[i].cohorts \in Cohorts
        /\ UNCHANGED <<now, ring, batching, snap, recorded, spoilt>>
        /\ UNCHANGED <<packet, pending, batches>>
    BY KindsOfThread, ThreadTypes DEF Settle, IInv, batching
  <1>2. PICK outcome \in Outcomes :
          thread' = [thread EXCEPT ![i].at = "next", ![i].counter = outcome, ![i].clock = now]
    BY DEF Settle
  <1> DEFINE after == [thread[i] EXCEPT !.at = "next", !.counter = outcome, !.clock = now]
  <1>3. /\ after \in ThreadState /\ after.at = "next"
        /\ after.cohorts = thread[i].cohorts /\ after.clock = now
    BY <1>1, ThreadTypes, TimeTypes DEF IInv, ThreadState, Counters
  <1>4. thread' = [thread EXCEPT ![i] = after]
    BY <1>1, <1>2, ThreadTypes DEF IInv
  <1> HIDE DEF after
  <1>5. thread'[i] = after /\ OnlyMoves(i)
    BY <1>1, <1>3, <1>4 DEF IInv, TypeOK, OnlyMoves
  <1>6. TakesFreeLock(i)
    BY <1>3, <1>5 DEF TakesFreeLock
  <1>7. ThreadShape(i)'
    BY <1>3, <1>5 DEF ThreadShape, Recording, SoundShape
  <1>8. CohortsPast'
    <2>1. /\ \A v \in Workers : packet'[v].second <= now /\ Reached(pending'[v], now)
          /\ \A n \in DOMAIN batches' : Reached(batches'[n], now)
          /\ Reached(thread[i].cohorts, now)
      BY <1>1, PastCohorts
    <2>2. \A k \in DOMAIN thread[i].cohorts :
             isRetained(thread[i].cohorts[k].second, now) => Guarded(thread[i].cohorts[k].second)
      BY <1>1, <2>1, DueGuarded
    <2> QED
      BY <1>1, <1>3, <1>5, <2>1, <2>2, CohortsMoved
  <1>9. BatchingType' /\ spoilt' \subseteq Seconds
    BY <1>1, BatchingFramed DEF IInv, TypeOK
  <1> QED
    BY <1>1, <1>5, <1>6, <1>7, <1>8, <1>9, ThreadStepKeeps

(* A goroutine goes on to the next cohort of its batch, or is done.         *)
LEMMA NextCohortKeeps ==
    ASSUME IInv, NEW t \in Threads, NextCohort(t)
    PROVE  IInv'
  <1> DEFINE cohorts == thread[t].cohorts
  <1>1. /\ thread[t].at = "next" /\ cohorts \in Cohorts
        /\ thread \in [Threads -> ThreadState]
        /\ UNCHANGED <<now, ring, batching, snap, recorded, spoilt>>
        /\ UNCHANGED <<packet, pending, batches>>
    BY ThreadTypes DEF NextCohort, IInv, TypeOK, batching
  <1>2. /\ Reached(cohorts, now)
        /\ \A k \in DOMAIN cohorts :
              isRetained(cohorts[k].second, thread[t].clock) => Guarded(cohorts[k].second)
    BY <1>1, PastCohorts DEF IInv, CohortsPast, Due
  <1>3. ASSUME NEW after \in ThreadState, thread' = [thread EXCEPT ![t] = after],
               after.at \in {"idle", "next", "load"},
               \/ after.cohorts = <<>>
               \/ /\ cohorts # <<>> /\ after.cohorts = Tail(cohorts)
                  /\ after.clock = thread[t].clock,
               after.at = "load" => after.second <= now /\ Guarded(after.second)
        PROVE  IInv'
    <2>1. thread'[t] = after /\ OnlyMoves(t)
      BY <1>1, <1>3 DEF OnlyMoves
    <2>2. TakesFreeLock(t)
      BY <1>3, <2>1 DEF TakesFreeLock
    <2>3. ThreadShape(t)'
      <3>1. Sound' = Sound
        BY <1>1 DEF Sound, Retained
      <3> QED
        BY <1>1, <1>3, <2>1, <3>1 DEF ThreadShape, Recording, SoundShape, Guarded, Index
    <2>4. CohortsPast'
      <3>1. /\ \A w \in Workers : packet'[w].second <= now /\ Reached(pending'[w], now)
            /\ \A n \in DOMAIN batches' : Reached(batches'[n], now)
        BY <1>1, PastCohorts
      <3>2. /\ Reached(after.cohorts, now)
            /\ \A k \in DOMAIN after.cohorts :
                 isRetained(after.cohorts[k].second, after.clock) =>
                    Guarded(after.cohorts[k].second)
        <4>1. CASE after.cohorts = <<>>
          BY <4>1 DEF Reached
        <4>2. CASE /\ cohorts # <<>> /\ after.cohorts = Tail(cohorts)
                   /\ after.clock = thread[t].clock
          <5>1. \A k \in DOMAIN Tail(cohorts) :
                   k + 1 \in DOMAIN cohorts /\ Tail(cohorts)[k] = cohorts[k + 1]
            BY <1>1, <4>2, CohortsTail
          <5> QED
            BY <1>2, <4>2, <5>1 DEF Reached
        <4> QED
          BY <1>3, <4>1, <4>2
      <3> QED
        BY <1>1, <2>1, <3>1, <3>2, CohortsMoved
    <2>5. BatchingType' /\ spoilt' \subseteq Seconds
      BY <1>1, BatchingFramed DEF IInv, TypeOK
    <2> QED
      BY <1>1, <2>1, <2>2, <2>3, <2>4, <2>5, ThreadStepKeeps
  <1>4. CASE cohorts = <<>>
    <2>1. thread' = [thread EXCEPT ![t] = IdleThread]
      BY <1>4 DEF NextCohort
    <2> QED
      BY <1>3, <2>1, IdleType
  <1>5. CASE cohorts # <<>> /\ isRetained(Head(cohorts).second, thread[t].clock)
    <2> DEFINE after == [thread[t] EXCEPT !.at = "load", !.cohorts = Tail(cohorts),
                            !.second = Head(cohorts).second, !.rows = Head(cohorts).rows]
    <2>1. /\ Tail(cohorts) \in Cohorts /\ Head(cohorts).second \in Seconds
          /\ Head(cohorts).rows \in Nat
          /\ Head(cohorts) = cohorts[1] /\ 1 \in DOMAIN cohorts
      BY <1>1, <1>5, CohortsTail
    <2>2. /\ after \in ThreadState /\ after.at = "load" /\ after.cohorts = Tail(cohorts)
          /\ after.second = Head(cohorts).second /\ after.clock = thread[t].clock
      BY <1>1, <2>1, ThreadTypes DEF ThreadState
    <2>3. thread' = [thread EXCEPT ![t] = after]
      BY <1>5 DEF NextCohort
    <2>4. Head(cohorts).second <= now /\ Guarded(Head(cohorts).second)
      BY <1>2, <1>5, <2>1 DEF Reached
    <2> HIDE DEF after
    <2> QED
      BY <1>3, <1>5, <2>2, <2>3, <2>4
  <1>6. CASE cohorts # <<>> /\ ~isRetained(Head(cohorts).second, thread[t].clock)
    <2> DEFINE after == [thread[t] EXCEPT !.cohorts = Tail(cohorts)]
    <2>1. /\ after \in ThreadState /\ after.at = "next" /\ after.cohorts = Tail(cohorts)
          /\ after.clock = thread[t].clock
      BY <1>1, <1>6, CohortsTail, ThreadTypes DEF ThreadState
    <2>2. thread' = [thread EXCEPT ![t] = after]
      BY <1>6 DEF NextCohort
    <2> HIDE DEF after
    <2> QED
      BY <1>3, <1>6, <2>1, <2>2
  <1> QED
    BY <1>4, <1>5, <1>6

-----------------------------------------------------------------------------
(* The steps that change a bucket                                           *)

Buckets == [second : Seconds, count : Counts]

(* Only the bucket of t's second changes.                                   *)
OnlyItsBucket(t) ==
    /\ ring' \in [0..Retention-1 -> Buckets]
    /\ \A i \in 0..Retention-1 : i # Index(thread[t].second) => ring'[i] = ring[i]

(* The bucket of the second that a goroutine records.                       *)
LEMMA ItsBucket ==
    ASSUME IInv, NEW t \in Threads, Recording(t)
    PROVE  /\ thread[t].second \in Seconds /\ thread[t].second <= now
           /\ Index(thread[t].second) \in 0..Retention-1
           /\ ring[Index(thread[t].second)] \in Buckets
           /\ ring \in [0..Retention-1 -> Buckets]
           /\ Current(t) <=> ring[Index(thread[t].second)].second = thread[t].second
           /\ \A s \in Sound : /\ s \in Seconds /\ Index(s) \in 0..Retention-1
                               /\ Index(s) = Index(thread[t].second) => s = thread[t].second
           /\ thread[t].second \in Sound => SoundShape(t)
  <1>1. thread[t].second <= now /\ Guarded(thread[t].second)
        /\ (thread[t].second \in Sound => SoundShape(t))
    BY DEF IInv, ThreadShape
  <1>2. now \in Retention..MaxSecond
    BY TimeTypes DEF IInv
  <1>3. thread[t].second \in Seconds /\ Index(thread[t].second) \in 0..Retention-1
    BY ThreadTypes, IndexType DEF IInv
  <1>4. \A s \in Sound : s \in Seconds /\ Index(s) \in 0..Retention-1
    BY <1>2, RetainedAre, IndexType DEF Sound
  <1>5. \A s \in Sound : Index(s) = Index(thread[t].second) => s = thread[t].second
    BY <1>1 DEF Guarded
  <1>6. ring \in [0..Retention-1 -> Buckets]
    BY DEF IInv, TypeOK, Buckets
  <1> QED
    BY <1>1, <1>3, <1>4, <1>5, <1>6 DEF Current, bucket

(* A goroutine at the bucket of another sound second keeps its shape.       *)
LEMMA OthersKeepShape ==
    ASSUME IInv, NEW t \in Threads, OnlyMoves(t), OnlyItsBucket(t), UNCHANGED <<now, spoilt>>,
           Recording(t), NEW u \in Threads \ {t},
           thread[u].second \in Sound => \/ Index(thread[u].second) # Index(thread[t].second)
                                         \/ SoundShape(u)'
    PROVE  ThreadShape(u)'
  <1>1. thread'[u] = thread[u] /\ ThreadShape(u) /\ thread[u].second \in Seconds
    BY ThreadTypes DEF OnlyMoves, IInv
  <1>2. Sound' = Sound
    BY DEF Sound, Retained
  <1>3. ASSUME thread[u].second \in Sound
        PROVE  SoundShape(u)'
    <2>1. CASE Index(thread[u].second) # Index(thread[t].second)
      <3>1. ring'[Index(thread[u].second)] = ring[Index(thread[u].second)]
        BY <1>1, <2>1, IndexType DEF OnlyItsBucket
      <3>2. bucket(thread[u].second)' = bucket(thread[u].second)
        BY <1>1, <3>1 DEF bucket, Index
      <3>3. SoundShape(u)
        BY <1>1, <1>3 DEF ThreadShape
      <3> QED
        BY <1>1, <3>2, <3>3 DEF SoundShape, Current
    <2> QED
      BY <1>3, <2>1
  <1>4. Recording(u)' <=> Recording(u)
    BY <1>1 DEF Recording
  <1>5. Guarded(thread[u].second)' <=> Guarded(thread[u].second)
    BY <1>1, <1>2 DEF Guarded, Index
  <1> QED
    BY <1>1, <1>2, <1>3, <1>4, <1>5 DEF ThreadShape

(* The second that a snapshot reads is sound if nothing spoilt its window.  *)
LEMMA SnapshotSecond ==
    ASSUME IInv, snap.at # "idle", Calm
    PROVE  snap.second \in Sound
  <1>1. snap.second \in Retained /\ snap.last - Window < snap.second /\ snap.second <= snap.last
    BY DEF IInv, SnapshotShape
  <1>2. snap.second \in Seconds
    BY DEF IInv, TypeOK, SnapshotState
  <1>3. snap.second \in WindowOf(snap.last)
    BY <1>1, <1>2 DEF WindowOf
  <1> QED
    BY <1>1, <1>3 DEF Sound, Calm

(* A step at a bucket, with what it does to the counts of a sound second.   *)
LEMMA BucketStepKeeps ==
    ASSUME IInv, NEW t \in Threads, Recording(t), OnlyMoves(t), TakesFreeLock(t),
           OnlyItsBucket(t), UNCHANGED <<now, snap, spoilt>>, CohortsPast',
           ring'[Index(thread[t].second)].second \in
              {ring[Index(thread[t].second)].second, thread[t].second},
           \A u \in Threads : ThreadShape(u)', BatchingType',
           recorded' \in [Seconds -> Counts], CountsExact', RingPast',
           SnapshotBounds', UnfinishedBound'
    PROVE  IInv'
  <1>1. TypeOK'
    <2>1. OneResets'
      BY MutexKept DEF IInv, TypeOK
    <2> QED
      BY <2>1 DEF IInv, TypeOK, OnlyMoves, OnlyItsBucket, Buckets, BatchingType
  <1>2. SnapshotShape'
    <2>1. Retained' = Retained /\ (Calm' <=> Calm)
      BY DEF Retained, Calm, WindowOf
    <2>2. ASSUME snap.at = "read", Calm
          PROVE  ~Stale(snap.second)'
      <3>1. snap.second \in Sound /\ ~Stale(snap.second)
        BY <2>2, SnapshotSecond DEF IInv, SnapshotShape
      <3>2. snap.second \in Seconds /\ Index(snap.second) \in 0..Retention-1
            /\ (Index(snap.second) = Index(thread[t].second) => snap.second = thread[t].second)
        BY <3>1, ItsBucket
      <3>3. ring'[Index(snap.second)].second = snap.second
        <4>1. ring[Index(snap.second)].second = snap.second
          BY <3>1 DEF Stale, bucket
        <4> QED
          BY <3>2, <4>1 DEF OnlyItsBucket
      <3> QED
        BY <3>3 DEF Stale, bucket, Index
    <2> QED
      BY <2>1, <2>2 DEF IInv, SnapshotShape
  <1> QED
    BY <1>1, <1>2 DEF IInv

(* The next counter is cleared: a sound second's bucket is still another's, *)
(* so nobody adds to it and no count of a retained second is lost.          *)
LEMMA ClearCounterKeeps ==
    ASSUME IInv, NEW t \in Threads, ClearCounter(t)
    PROVE  IInv'
  <1> DEFINE a == thread[t].second
             i == Index(thread[t].second)
             left == thread[t].left
             c == Head(thread[t].left)
             place == IF Len(left) = 1 THEN "store" ELSE "clear"
  <1>1. /\ thread[t].at = "clear" /\ ring' = [ring EXCEPT ![i].count[c] = 0]
        /\ thread' = [thread EXCEPT ![t].left = Tail(@), ![t].at = place]
        /\ UNCHANGED <<now, batching, snap, recorded, spoilt>>
    BY DEF ClearCounter, bucketUnchanged
  <1>2. Recording(t) /\ left \in Remaining
    BY <1>1 DEF Recording, IInv, ThreadShape
  <1>3. /\ c \in Counters /\ Tail(left) \in Seq(Counters)
        /\ In(Tail(left)) = In(left) \ {c} /\ place \in {"clear", "store"}
        /\ place = "clear" => Tail(left) \in Remaining
        /\ place = "store" => In(left) = {c}
    BY <1>2, RemainingAre
  <1>4. OnlyMoves(t) /\ thread'[t].at = place /\ thread'[t].left = Tail(left) /\ SameLocals(t)
    <2>1. thread' = [thread EXCEPT ![t] = [thread[t] EXCEPT !.at = place, !.left = Tail(left)]]
      BY <1>1, ThreadTypes DEF IInv, ThreadState
    <2>2. place \in ThreadPlaces
      BY <1>3 DEF ThreadPlaces
    <2> QED
      BY <1>3, <2>1, <2>2, GoesClearing DEF IInv
  <1>5. /\ i \in 0..Retention-1 /\ ring \in [0..Retention-1 -> Buckets]
        /\ ring[i] \in Buckets /\ a \in Seconds
    BY <1>2, ItsBucket
  <1>6. /\ OnlyItsBucket(t) /\ ring'[i].second = ring[i].second
        /\ ring'[i].count = [ring[i].count EXCEPT ![c] = 0]
    <2> DEFINE after == [ring[i] EXCEPT !.count = [@ EXCEPT ![c] = 0]]
    <2> HIDE DEF c, place, i, left
    <2>1. /\ after \in Buckets /\ after.second = ring[i].second
          /\ after.count = [ring[i].count EXCEPT ![c] = 0]
      BY <1>3, <1>5 DEF Buckets, Counts
    <2>2. ring' = [ring EXCEPT ![i] = after]
      BY <1>1
    <2> HIDE DEF after
    <2>3. ring'[i] = after
      BY <1>5, <2>2
    <2>4. OnlyItsBucket(t)
      BY <1>5, <2>1, <2>2 DEF OnlyItsBucket, i
    <2> QED
      BY <2>1, <2>3, <2>4
  <1> HIDE DEF c, place, left
  <1>7. \A j \in 0..Retention-1 : ring'[j].second = ring[j].second
    BY <1>6 DEF OnlyItsBucket
  <1>8. \A s \in Seconds : /\ bucket(s)' = ring'[Index(s)] /\ bucket(s) = ring[Index(s)]
                           /\ bucket(s)'.second = bucket(s).second
                           /\ Stale(s)' <=> Stale(s)
    BY <1>7, IndexType DEF bucket, Index, Stale
  <1>9. a \in Sound => /\ ~Current(t)
                       /\ \A d \in Counters \ In(left) : ring[i].count[d] = 0
    BY <1>1, <1>2, <1>5, <1>8, ItsBucket DEF SoundShape, left
  <1>10. ThreadShape(t)'
    <2>1. thread'[t].at = "clear" => thread'[t].left \in Remaining
      BY <1>3, <1>4
    <2>2. ASSUME a \in Sound
          PROVE  SoundShape(t)'
      <3>1. ~Current(t)'
        BY <1>4, <1>5, <1>8, <1>9, <2>2 DEF Current, SameLocals
      <3>2. \A d \in Counters \ In(Tail(left)) : ring'[i].count[d] = 0
        <4>1. ring[i].count \in [Counters -> Nat]
          BY <1>5 DEF Buckets, Counts
        <4> QED
          BY <1>3, <1>6, <1>9, <2>2, <4>1
      <3>3. place = "store" => ring'[i].count = Zero
        <4>1. ring'[i].count \in [Counters -> Nat]
          BY <1>5, <1>6 DEF OnlyItsBucket, Buckets, Counts
        <4>2. place = "store" => \A d \in Counters : ring'[i].count[d] = 0
          BY <1>3, <3>2
        <4> HIDE DEF i
        <4> QED
          BY <4>1, <4>2 DEF Zero
      <3>4. bucket(thread[t].second)' = ring'[i]
        BY <1>4 DEF bucket, Index, SameLocals
      <3> QED
        BY <1>3, <1>4, <3>1, <3>2, <3>3, <3>4 DEF SoundShape, SameLocals
    <2> QED
      BY <1>1, <1>2, <1>4, <2>1, <2>2, ShapeGoesOn
  <1>11. ASSUME NEW u \in Threads \ {t}
         PROVE  ThreadShape(u)'
    <2>1. ASSUME thread[u].second \in Sound, Index(thread[u].second) = i
          PROVE  SoundShape(u)'
      <3>1. thread[u].second = a /\ thread'[u] = thread[u] /\ ThreadShape(u)
        BY <1>2, <1>4, <2>1, ItsBucket DEF OnlyMoves, IInv
      <3>2. thread[u].at \notin {"clear", "store"}
        <4>1. thread[u].at \in {"clear", "store"} => Holds(u, i) /\ Holds(t, i)
          BY <1>1, <2>1 DEF Holds
        <4> QED
          BY <1>5, <4>1 DEF IInv, TypeOK, OneResets
      <3>3. thread[u].at # "add"
        <4>1. Current(u) <=> Current(t)
          BY <3>1 DEF Current
        <4> QED
          BY <1>9, <2>1, <3>1, <4>1 DEF ThreadShape, SoundShape
      <3> QED
        BY <3>1, <3>2, <3>3 DEF SoundShape
    <2> QED
      BY <1>1, <1>2, <1>4, <1>6, <2>1, OthersKeepShape
  <1>12. CountsExact'
    <2>1. Sound' = Sound /\ Sound = Retained \ spoilt
      BY <1>1 DEF Sound, Retained
    <2> SUFFICES ASSUME NEW s \in Sound
                 PROVE  IF Stale(s)' THEN recorded'[s] = Zero
                        ELSE bucket(s)'.count = recorded'[s]
      BY <2>1 DEF CountsExact, Sound
    <2>2. /\ s \in Seconds /\ Index(s) \in 0..Retention-1 /\ (Index(s) = i => s = a)
      BY <1>2, ItsBucket
    <2>3. IF Stale(s) THEN recorded[s] = Zero ELSE bucket(s).count = recorded[s]
      BY <2>1 DEF IInv, CountsExact
    <2>4. CASE Index(s) = i
      <3>1. Stale(s)
        BY <1>9, <2>2, <2>4 DEF Stale, Current
      <3> QED
        BY <1>1, <1>8, <2>2, <2>3, <3>1
    <2>5. CASE Index(s) # i
      <3>1. bucket(s)' = bucket(s)
        BY <1>6, <1>8, <2>2, <2>5 DEF OnlyItsBucket
      <3> QED
        BY <1>1, <1>8, <2>2, <2>3, <3>1
    <2> QED
      BY <2>4, <2>5
  <1>13. TakesFreeLock(t)
    BY <1>1, <1>4 DEF TakesFreeLock, SameLocals
  <1>14. CohortsPast'
    BY <1>1, <1>2, <1>4, CohortsGoOn DEF SameLocals
  <1>15. RingPast'
    BY <1>1, <1>7 DEF IInv, RingPast
  <1>16. SnapshotBounds' /\ UnfinishedBound'
    BY <1>1 DEF IInv, SnapshotBounds, UnfinishedBound, Read, WindowOf, Sum, Calm, HalfRead, In
  <1>17. BatchingType' /\ recorded' \in [Seconds -> Counts]
    BY <1>1, BatchingFramed DEF IInv, TypeOK
  <1> QED
    BY <1>1, <1>2, <1>4, <1>6, <1>10, <1>11, <1>12, <1>13, <1>14, <1>15, <1>16, <1>17,
       BucketStepKeeps

(* A reset ends by storing the second: of a sound second the counters are   *)
(* zero, as is what was recorded.                                           *)
LEMMA StoreSecondKeeps ==
    ASSUME IInv, NEW t \in Threads, StoreSecond(t)
    PROVE  IInv'
  <1> DEFINE a == thread[t].second
             i == Index(thread[t].second)
  <1>1. /\ thread[t].at = "store" /\ ring' = [ring EXCEPT ![i].second = a]
        /\ Goto(t, "add") /\ "add" \in ThreadPlaces
        /\ UNCHANGED <<now, batching, snap, recorded, spoilt>>
    BY DEF StoreSecond, bucketUnchanged, ThreadPlaces
  <1>2. Recording(t)
    BY <1>1 DEF Recording
  <1>3. OnlyMoves(t) /\ thread'[t].at = "add" /\ SameLocals(t)
    BY <1>1, Goes DEF IInv
  <1>4. /\ i \in 0..Retention-1 /\ ring \in [0..Retention-1 -> Buckets]
        /\ ring[i] \in Buckets /\ a \in Seconds /\ a <= now
    BY <1>2, ItsBucket
  <1>5. /\ OnlyItsBucket(t) /\ ring'[i].second = a /\ ring'[i].count = ring[i].count
    <2> DEFINE after == [ring[i] EXCEPT !.second = a]
    <2> HIDE DEF i, a
    <2>1. after \in Buckets /\ after.second = a /\ after.count = ring[i].count
      BY <1>4 DEF Buckets
    <2>2. ring' = [ring EXCEPT ![i] = after]
      BY <1>1
    <2> HIDE DEF after
    <2>3. ring'[i] = after
      BY <1>4, <2>2
    <2>4. OnlyItsBucket(t)
      BY <1>4, <2>1, <2>2 DEF OnlyItsBucket, i
    <2> QED
      BY <2>1, <2>3, <2>4
  <1>6. \A s \in Seconds : bucket(s)' = ring'[Index(s)] /\ bucket(s) = ring[Index(s)]
    BY DEF bucket, Index
  <1>7. a \in Sound => ~Current(t) /\ ring[i].count = Zero
    BY <1>1, <1>2, <1>4, <1>6, ItsBucket DEF SoundShape
  <1>8. ThreadShape(t)'
    <2>1. Current(t)'
      BY <1>3, <1>4, <1>5, <1>6 DEF Current, SameLocals
    <2> QED
      BY <1>1, <1>2, <1>3, <2>1, ShapeGoesOn DEF SoundShape
  <1>9. ASSUME NEW u \in Threads \ {t}
        PROVE  ThreadShape(u)'
    <2>1. ASSUME thread[u].second \in Sound, Index(thread[u].second) = i
          PROVE  SoundShape(u)'
      <3>1. thread[u].second = a /\ thread'[u] = thread[u] /\ ThreadShape(u)
        BY <1>2, <1>3, <2>1, ItsBucket DEF OnlyMoves, IInv
      <3>2. thread[u].at \notin {"clear", "store"}
        <4>1. thread[u].at \in {"clear", "store"} => Holds(u, i) /\ Holds(t, i)
          BY <1>1, <2>1 DEF Holds
        <4> QED
          BY <1>4, <4>1 DEF IInv, TypeOK, OneResets
      <3>3. thread[u].at # "add"
        <4>1. Current(u) <=> Current(t)
          BY <3>1 DEF Current
        <4> QED
          BY <1>7, <2>1, <3>1, <4>1 DEF ThreadShape, SoundShape
      <3> QED
        BY <3>1, <3>2, <3>3 DEF SoundShape
    <2> QED
      BY <1>1, <1>2, <1>3, <1>5, <2>1, OthersKeepShape
  <1>10. CountsExact'
    <2>1. Sound' = Sound /\ Sound = Retained \ spoilt
      BY <1>1 DEF Sound, Retained
    <2> SUFFICES ASSUME NEW s \in Sound
                 PROVE  IF Stale(s)' THEN recorded'[s] = Zero
                        ELSE bucket(s)'.count = recorded'[s]
      BY <2>1 DEF CountsExact, Sound
    <2>2. /\ s \in Seconds /\ Index(s) \in 0..Retention-1 /\ (Index(s) = i => s = a)
      BY <1>2, ItsBucket
    <2>3. IF Stale(s) THEN recorded[s] = Zero ELSE bucket(s).count = recorded[s]
      BY <2>1 DEF IInv, CountsExact
    <2>4. CASE Index(s) = i
      <3>1. Stale(s)
        BY <1>7, <2>2, <2>4 DEF Stale, Current
      <3>2. bucket(s)' = ring'[i]
        BY <1>6, <2>2, <2>4
      <3> QED
        BY <1>1, <1>5, <1>7, <2>2, <2>3, <2>4, <3>1, <3>2 DEF Stale
    <2>5. CASE Index(s) # i
      <3>1. bucket(s)' = bucket(s)
        BY <1>5, <1>6, <2>2, <2>5 DEF OnlyItsBucket
      <3> QED
        BY <1>1, <2>3, <3>1 DEF Stale
    <2> QED
      BY <2>4, <2>5
  <1>11. TakesFreeLock(t)
    BY <1>3 DEF TakesFreeLock
  <1>12. CohortsPast'
    BY <1>1, <1>2, <1>3, CohortsGoOn DEF SameLocals
  <1>13. RingPast'
    <2>1. \A j \in 0..Retention-1 : ring'[j].second <= now
      BY <1>4, <1>5 DEF IInv, RingPast, OnlyItsBucket
    <2> QED
      BY <1>1, <2>1 DEF IInv, RingPast
  <1>14. SnapshotBounds' /\ UnfinishedBound'
    BY <1>1 DEF IInv, SnapshotBounds, UnfinishedBound, Read, WindowOf, Sum, Calm, HalfRead, In
  <1>15. BatchingType' /\ recorded' \in [Seconds -> Counts]
    BY <1>1, BatchingFramed DEF IInv, TypeOK
  <1> QED
    BY <1>1, <1>2, <1>3, <1>5, <1>8, <1>9, <1>10, <1>11, <1>12, <1>13, <1>14, <1>15,
       BucketStepKeeps

-----------------------------------------------------------------------------
(* Additions                                                                *)

(* The bucket that a goroutine adds to is the one of its second if that is  *)
(* sound, and the sums only grow.                                           *)
LEMMA AddsKeeps ==
    ASSUME IInv, NEW t \in Threads, Adds(t), OnlyMoves(t),
           thread'[t].at \in {"idle", "next"}, UNCHANGED <<now, snap, spoilt>>,
           BatchingType', CohortsPast'
    PROVE  IInv'
  <1> DEFINE i == Index(thread[t].second)
             a == thread[t].second
             c == thread[t].counter
             rows == thread[t].rows
  <1>1. /\ thread[t].at = "add" /\ ring' = [ring EXCEPT ![i].count[c] = @ + rows]
        /\ recorded' = [recorded EXCEPT ![a][c] = @ + rows]
    BY DEF Adds
  <1>2. Recording(t) /\ rows \in Nat /\ c \in Counters
    BY <1>1, ThreadTypes DEF Recording, IInv
  <1>3. /\ i \in 0..Retention-1 /\ ring \in [0..Retention-1 -> Buckets]
        /\ ring[i] \in Buckets /\ a \in Seconds /\ a <= now
        /\ a \in Sound => ring[i].second = a
    BY <1>1, <1>2, ItsBucket DEF SoundShape
  <1>4. recorded \in [Seconds -> Counts] /\ recorded[a] \in Counts
    BY <1>3 DEF IInv, TypeOK
  <1>5. /\ OnlyItsBucket(t) /\ ring'[i].second = ring[i].second
        /\ ring'[i].count = [ring[i].count EXCEPT ![c] = @ + rows]
    <2> DEFINE added == [ring[i].count EXCEPT ![c] = ring[i].count[c] + rows]
               after == [ring[i] EXCEPT !.count = added]
    <2> HIDE DEF i, rows, c
    <2>0. added \in Counts
      BY <1>2, <1>3 DEF Buckets, Counts
    <2>1. /\ after \in Buckets /\ after.second = ring[i].second
          /\ after.count = [ring[i].count EXCEPT ![c] = @ + rows]
      <3>1. added = [ring[i].count EXCEPT ![c] = @ + rows]
        OBVIOUS
      <3> HIDE DEF added
      <3> QED
        BY <1>3, <2>0, <3>1 DEF Buckets
    <2>2. ring' = [ring EXCEPT ![i] = after]
      BY <1>1
    <2> HIDE DEF after
    <2>3. ring'[i] = after
      BY <1>3, <2>2
    <2>4. OnlyItsBucket(t)
      BY <1>3, <2>1, <2>2 DEF OnlyItsBucket, i
    <2> QED
      BY <2>1, <2>3, <2>4
  <1>6. /\ recorded' \in [Seconds -> Counts]
        /\ recorded'[a] = [recorded[a] EXCEPT ![c] = @ + rows]
        /\ \A s \in Seconds \ {a} : recorded'[s] = recorded[s]
    <2> DEFINE after == [recorded[a] EXCEPT ![c] = @ + rows]
    <2> HIDE DEF a, rows, c
    <2>1. after \in Counts
      BY <1>2, <1>4 DEF Counts
    <2>2. recorded' = [recorded EXCEPT ![a] = after]
      BY <1>1
    <2> HIDE DEF after
    <2>3. recorded'[a] = after
      BY <1>3, <1>4, <2>2
    <2>4. recorded' \in [Seconds -> Counts] /\ \A s \in Seconds \ {a} : recorded'[s] = recorded[s]
      BY <1>4, <2>1, <2>2
    <2> QED
      BY <2>3, <2>4 DEF after
  <1> HIDE DEF c
  <1>7. \A s \in Seconds, d \in Counters : recorded[s][d] <= recorded'[s][d]
    <2> HIDE DEF a, rows
    <2>1. \A d \in Counters : recorded[a][d] \in Nat /\ recorded[a][d] <= recorded'[a][d]
      BY <1>2, <1>4, <1>6 DEF Counts
    <2>2. \A s \in Seconds, d \in Counters : recorded[s][d] \in Nat
      BY <1>4 DEF Counts
    <2> SUFFICES ASSUME NEW s \in Seconds, NEW d \in Counters
                 PROVE  recorded[s][d] <= recorded'[s][d]
      OBVIOUS
    <2>3. CASE s = a
      BY <2>1, <2>3
    <2>4. CASE s # a
      <3>1. recorded'[s] = recorded[s] /\ recorded[s][d] \in Nat
        BY <1>6, <2>2, <2>4
      <3> QED
        BY <3>1
    <2> QED
      BY <2>3, <2>4
  <1>8. \A s \in Seconds : /\ bucket(s)' = ring'[Index(s)] /\ bucket(s) = ring[Index(s)]
                           /\ bucket(s)'.second = bucket(s).second
                           /\ Stale(s)' <=> Stale(s)
    <2>1. \A j \in 0..Retention-1 : ring'[j].second = ring[j].second
      BY <1>5 DEF OnlyItsBucket
    <2> QED
      BY <2>1, IndexType DEF bucket, Index, Stale
  <1>9. ASSUME NEW u \in Threads
        PROVE  ThreadShape(u)'
    <2>1. CASE u = t
      BY <2>1 DEF ThreadShape, Recording, SoundShape
    <2>2. CASE u # t
      <3>1. thread'[u] = thread[u] /\ ThreadShape(u) /\ thread[u].second \in Seconds
        BY <2>2, ThreadTypes DEF OnlyMoves, IInv
      <3>2. Current(u)' <=> Current(u)
        BY <1>8, <3>1 DEF Current
      <3>3. ASSUME thread[u].second \in Sound, Index(thread[u].second) = i
            PROVE  SoundShape(u)'
        <4>1. thread[u].second = a
          BY <1>2, <3>3, ItsBucket
        <4>2. Current(u) /\ SoundShape(u)
          BY <1>3, <1>8, <3>1, <3>3, <4>1 DEF Current, ThreadShape
        <4> QED
          BY <3>1, <3>2, <4>2 DEF SoundShape
      <3> QED
        BY <1>2, <1>5, <2>2, <3>3, OthersKeepShape
    <2> QED
      BY <2>1, <2>2
  <1>10. CountsExact'
    <2>1. Sound' = Sound /\ Sound = Retained \ spoilt
      BY DEF Sound, Retained
    <2> SUFFICES ASSUME NEW s \in Sound
                 PROVE  IF Stale(s)' THEN recorded'[s] = Zero
                        ELSE bucket(s)'.count = recorded'[s]
      BY <2>1 DEF CountsExact, Sound
    <2>2. /\ s \in Seconds /\ Index(s) \in 0..Retention-1 /\ (Index(s) = i => s = a)
      BY <1>2, ItsBucket
    <2>3. IF Stale(s) THEN recorded[s] = Zero ELSE bucket(s).count = recorded[s]
      BY <2>1 DEF IInv, CountsExact
    <2>4. CASE s = a
      <3>1. ~Stale(s) /\ bucket(s) = ring[i] /\ bucket(s)' = ring'[i]
        BY <1>3, <1>8, <2>2, <2>4 DEF Stale
      <3>2. ring[i].count = recorded[a]
        BY <2>3, <2>4, <3>1
      <3> QED
        BY <1>5, <1>6, <1>8, <2>2, <2>4, <3>1, <3>2
    <2>5. CASE s # a
      <3>1. bucket(s)' = bucket(s) /\ recorded'[s] = recorded[s]
        BY <1>5, <1>6, <1>8, <2>2, <2>5 DEF OnlyItsBucket
      <3> QED
        BY <1>8, <2>2, <2>3, <3>1
    <2> QED
      BY <2>4, <2>5
  <1>11. TakesFreeLock(t)
    BY DEF TakesFreeLock
  <1>12. RingPast'
    <2>1. \A j \in 0..Retention-1 : ring'[j].second = ring[j].second
      BY <1>5 DEF OnlyItsBucket
    <2>2. \A s \in Seconds : s > now => s # a
      BY <1>3, TimeTypes DEF IInv
    <2> QED
      BY <1>6, <2>1, <2>2 DEF IInv, RingPast
  <1>13. Calm' <=> Calm
    BY DEF Calm, WindowOf
  <1>14. SnapshotBounds'
    <2> SUFFICES ASSUME snap.at # "idle", Calm, NEW d \in Counters
                 PROVE  /\ snap.atStart[d] <=
                              snap.sum[d] + Sum(d, WindowOf(snap.last) \ Read(d))'
                        /\ snap.sum[d] <= Sum(d, Read(d))'
      BY <1>13 DEF SnapshotBounds
    <2> DEFINE R == Read(d)
               W == WindowOf(snap.last) \ R
    <2>1. R \in SUBSET Seconds /\ W \in SUBSET Seconds
      BY DEF Read, WindowOf
    <2>2. Sum(d, W) = SumOf(recorded, d, W) /\ Sum(d, R) = SumOf(recorded, d, R)
      BY SumIs
    <2>3. /\ Sum(d, WindowOf(snap.last) \ Read(d))' = SumOf(recorded', d, W)
          /\ Sum(d, Read(d))' = SumOf(recorded', d, R)
      BY DEF Sum, SumOf, CountsOf, Read, WindowOf, In
    <2>4. snap.atStart[d] <= snap.sum[d] + Sum(d, W) /\ snap.sum[d] <= Sum(d, R)
      BY DEF IInv, SnapshotBounds
    <2> HIDE DEF R, W
    <2>5. /\ SumOf(recorded, d, W) <= SumOf(recorded', d, W)
          /\ SumOf(recorded, d, R) <= SumOf(recorded', d, R)
      BY <1>4, <1>6, <1>7, <2>1, SumGrows
    <2>6. /\ SumOf(recorded, d, W) \in Int /\ SumOf(recorded', d, W) \in Int
          /\ SumOf(recorded, d, R) \in Int /\ SumOf(recorded', d, R) \in Int
      BY <1>4, <1>6, <2>1, SumOfRecorded
    <2>7. snap.atStart[d] \in Nat /\ snap.sum[d] \in Nat
      BY DEF IInv, TypeOK, SnapshotState, Counts
    <2> QED
      BY <2>2, <2>3, <2>4, <2>5, <2>6, <2>7
  <1>15. UnfinishedBound'
    <2>1. /\ snap.second \in Seconds /\ "inserted" \in Counters /\ "expected" \in Counters
          /\ snap.sum["expected"] \in Nat /\ snap.sum["inserted"] \in Nat /\ snap.unfinished \in Int
      BY CountersAre DEF IInv, TypeOK, SnapshotState, Counts
    <2>2. /\ recorded[snap.second]["inserted"] <= recorded'[snap.second]["inserted"]
          /\ recorded[snap.second]["inserted"] \in Nat
          /\ recorded'[snap.second]["inserted"] \in Nat
      BY <1>4, <1>6, <1>7, <2>1 DEF Counts
    <2>3. HalfRead' <=> HalfRead
      BY DEF HalfRead
    <2> QED
      BY <1>13, <2>1, <2>2, <2>3 DEF IInv, UnfinishedBound
  <1> QED
    BY <1>2, <1>5, <1>6, <1>9, <1>10, <1>11, <1>12, <1>14, <1>15, BucketStepKeeps

(* An addition to the expected rows of a second counts them once, and the   *)
(* packet's rows come next.                                                 *)
LEMMA AddExpectedKeeps ==
    ASSUME IInv, NEW w \in Workers, AddExpected(w)
    PROVE  IInv'
  <1> DEFINE q == [second |-> thread[w].second, rows |-> thread[w].rows]
  <1>1. /\ w \in Threads /\ Adds(w) /\ thread[w].at = "add"
        /\ packet' = [packet EXCEPT ![w] = q]
        /\ thread' = [thread EXCEPT ![w] = IdleThread]
        /\ UNCHANGED <<now, pending, batches, snap, spoilt>>
        /\ thread \in [Threads -> ThreadState] /\ packet \in [Workers -> Packets]
    BY KindsOfThread DEF AddExpected, Adds, IInv, TypeOK
  <1>2. Recording(w)
    BY <1>1 DEF Recording
  <1>3. q \in Packets /\ q.second <= now
    <2>1. thread[w].second \in Seconds /\ thread[w].rows \in Nat /\ thread[w].second <= now
      BY <1>1, <1>2, ThreadTypes, ItsBucket DEF IInv
    <2> QED
      BY <2>1 DEF Packets
  <1> HIDE DEF q
  <1>4. thread'[w] = IdleThread /\ OnlyMoves(w)
    BY <1>1, IdleType DEF OnlyMoves
  <1>5. /\ packet' \in [Workers -> Packets]
        /\ \A v \in Workers : packet'[v] = IF v = w THEN q ELSE packet[v]
    BY <1>1, <1>3
  <1>6. CohortsPast'
    <2>1. \A v \in Workers : packet'[v].second <= now /\ Reached(pending'[v], now)
      BY <1>1, <1>3, <1>5, PastCohorts
    <2>2. \A n \in DOMAIN batches' : Reached(batches'[n], now)
      BY <1>1, PastCohorts
    <2>3. DOMAIN thread'[w].cohorts = {}
      BY <1>4, IdleType
    <2>4. Reached(thread'[w].cohorts, now)
      BY <2>3 DEF Reached
    <2> QED
      BY <1>1, <1>4, <2>1, <2>2, <2>3, <2>4, CohortsMoved
  <1>7. BatchingType'
    BY <1>1, <1>5 DEF IInv, TypeOK, BatchingType
  <1> QED
    BY <1>1, <1>4, <1>6, <1>7, IdleType, AddsKeeps

(* An addition to the inserted or spooled rows of a second counts them      *)
(* once.                                                                    *)
LEMMA AddOutcomeKeeps ==
    ASSUME IInv, NEW t \in Threads, AddOutcome(t)
    PROVE  IInv'
  <1> DEFINE after == [thread[t] EXCEPT !.at = "next", !.second = 0, !.rows = 0]
  <1>1. /\ Adds(t) /\ thread[t].at = "add"
        /\ thread' = [thread EXCEPT ![t] = after]
        /\ UNCHANGED <<now, batching, snap, spoilt>>
        /\ thread \in [Threads -> ThreadState]
    BY DEF AddOutcome, Adds, IInv, TypeOK
  <1>2. /\ after \in ThreadState /\ after.at = "next"
        /\ after.cohorts = thread[t].cohorts /\ after.clock = thread[t].clock
    <2>1. thread[t] \in ThreadState /\ 0 \in Seconds /\ 0 \in Nat
      BY <1>1, Constants
    <2> QED
      BY <2>1 DEF ThreadState
  <1> HIDE DEF after
  <1>3. thread'[t] = after /\ OnlyMoves(t)
    BY <1>1, <1>2 DEF OnlyMoves
  <1>4. CohortsPast'
    BY <1>1, <1>2, <1>3, CohortsGoOn DEF Recording
  <1>5. BatchingType'
    BY <1>1, BatchingFramed DEF IInv
  <1> QED
    BY <1>1, <1>2, <1>3, <1>4, <1>5, AddsKeeps

-----------------------------------------------------------------------------
(* The evaluator                                                            *)

(* A snapshot's step leaves everything that is not the snapshot.            *)
LEMMA SnapshotStepKeeps ==
    ASSUME IInv, UNCHANGED snapUnchanged, snap' \in SnapshotState,
           SnapshotShape', SnapshotBounds', UnfinishedBound'
    PROVE  IInv'
  <1>1. UNCHANGED <<now, ring, thread, packet, pending, batches, recorded, spoilt>>
    BY DEF snapUnchanged, batching
  <1>2. TypeOK'
    BY <1>1 DEF IInv, TypeOK, OneResets, Holds, Index
  <1>3. CohortsPast' /\ RingPast'
    <2>1. CohortsPast'
      BY <1>1, CohortsFramed DEF IInv, batching
    <2> QED
      BY <1>1, <2>1 DEF IInv, RingPast
  <1>4. \A t \in Threads : ThreadShape(t)'
    BY <1>1, ShapeFramed DEF IInv
  <1>5. CountsExact'
    BY <1>1, CountsFramed DEF IInv
  <1> QED
    BY <1>2, <1>3, <1>4, <1>5 DEF IInv

(* The fields of a snapshot.                                                *)
LEMMA SnapshotTypes ==
    ASSUME TypeOK
    PROVE  /\ snap \in SnapshotState /\ snap.at \in {"idle", "check", "read", "done"}
           /\ snap.second \in Seconds /\ snap.last \in Seconds /\ snap.left \in Seq(Counters)
           /\ snap.sum \in Counts /\ snap.atStart \in Counts /\ snap.unfinished \in Int
           /\ \A c \in Counters : snap.sum[c] \in Nat /\ snap.atStart[c] \in Nat
           /\ recorded \in [Seconds -> Counts]
           /\ \A s \in Seconds, c \in Counters : recorded[s][c] \in Nat
  BY DEF TypeOK, SnapshotState, Counts

(* A snapshot starts with nothing read.                                     *)
LEMMA BeginSnapshotKeeps ==
    ASSUME IInv, BeginSnapshot
    PROVE  IInv'
  <1>1. PICK last \in {now - 1, now - Sla - 1} :
          snap' = [NoSnapshot EXCEPT
             !.at = "check", !.second = last - Window + 1, !.last = last,
             !.atStart = [c \in Counters |-> Sum(c, WindowOf(last))]]
    BY DEF BeginSnapshot
  <1> DEFINE starts == [c \in Counters |-> Sum(c, WindowOf(last))]
             first == last - Window + 1
  <1>2. /\ last \in Seconds /\ first \in Seconds /\ last < now /\ first \in Retained
        /\ last - Window < first /\ first <= last
    <2>1. now \in Nat /\ Retention <= now /\ now <= MaxSecond
      BY TimeTypes DEF IInv
    <2>2. last \in Int /\ last < now /\ first > now - Retention /\ first >= 1 /\ first <= last
      BY <1>1, <2>1, Constants
    <2>3. last \in Seconds /\ first \in Seconds
      BY <2>1, <2>2, Constants
    <2> QED
      BY <2>2, <2>3, RetainedAre, TimeTypes, Constants DEF IInv
  <1>3. \A c \in Counters : starts[c] = SumOf(recorded, c, WindowOf(last)) /\ starts[c] \in Nat
    <2>1. WindowOf(last) \in SUBSET Seconds
      BY DEF WindowOf
    <2> QED
      BY <2>1, SnapshotTypes, SumIs, SumIsNat DEF IInv
  <1>4. starts \in Counts
    BY <1>3 DEF Counts
  <1>5. UNCHANGED snapUnchanged
    BY DEF BeginSnapshot
  <1> HIDE DEF starts, first
  <1>6. /\ snap'.at = "check" /\ snap'.second = first /\ snap'.last = last
        /\ snap'.left = <<>> /\ snap'.sum = Zero /\ snap'.atStart = starts
        /\ snap'.unfinished = 0 /\ snap' \in SnapshotState
    <2>1. snap' = [at |-> "check", second |-> first, last |-> last, left |-> <<>>, sum |-> Zero,
                   atStart |-> starts, unfinished |-> 0]
      BY <1>1 DEF NoSnapshot, starts, first
    <2>2. <<>> \in Seq(Counters) /\ Zero \in Counts
      BY CountersAre
    <2> QED
      BY <1>2, <1>4, <2>1, <2>2 DEF SnapshotState
  <1>7. SnapshotShape'
    BY <1>2, <1>5, <1>6 DEF SnapshotShape, Retained, snapUnchanged
  <1>8. SnapshotBounds'
    <2> SUFFICES ASSUME NEW c \in Counters
                 PROVE  /\ snap'.atStart[c] <=
                              snap'.sum[c] + Sum(c, WindowOf(snap.last) \ Read(c))'
                        /\ snap'.sum[c] <= Sum(c, Read(c))'
      BY DEF SnapshotBounds
    <2>1. Read(c)' = {}
      <3>1. \A s \in WindowOf(last) : ~(s < first)
        <4>1. \A s \in WindowOf(last) : s \in Int /\ s > last - Window /\ last \in Int
          BY <1>2, Constants DEF WindowOf
        <4> QED
          BY <4>1, Constants DEF first
      <3> QED
        BY <1>6, <3>1 DEF Read, WindowOf
    <2>2. WindowOf(snap.last)' = WindowOf(last)
      BY <1>6 DEF WindowOf
    <2>3. Sum(c, Read(c))' = SumOf(recorded, c, {})
      BY <1>5, <2>1 DEF Sum, SumOf, CountsOf, snapUnchanged
    <2>4. Sum(c, WindowOf(snap.last) \ Read(c))' = SumOf(recorded, c, WindowOf(last))
      <3>1. (WindowOf(snap.last) \ Read(c))' = WindowOf(last)
        BY <2>1, <2>2
      <3> QED
        BY <1>5, <3>1 DEF Sum, SumOf, CountsOf, snapUnchanged
    <2>5. SumOf(recorded, c, {}) = 0
      BY SnapshotTypes, SumOfRecorded DEF IInv
    <2>6. snap'.sum[c] = 0 /\ snap'.atStart[c] = starts[c]
      BY <1>6, CountersAre
    <2> QED
      BY <1>3, <2>3, <2>4, <2>5, <2>6
  <1>9. UnfinishedBound'
    BY <1>6, CountersAre DEF UnfinishedBound, HalfRead
  <1> QED
    BY <1>5, <1>6, <1>7, <1>8, <1>9, SnapshotStepKeeps

(* What a snapshot promises of one counter.                                 *)
BoundsOf(c) ==
    /\ snap.atStart[c] <= snap.sum[c] + Sum(c, WindowOf(snap.last) \ Read(c))
    /\ snap.sum[c] <= Sum(c, Read(c))

(* A step of the snapshot that reads no counter of a kind keeps its bounds. *)
LEMMA CounterNotRead ==
    ASSUME IInv, snap.at # "idle", Calm, NEW c \in Counters, UNCHANGED recorded,
           Read(c)' = Read(c), snap'.last = snap.last, snap'.atStart = snap.atStart,
           snap'.sum[c] = snap.sum[c]
    PROVE  BoundsOf(c)'
  <1>1. BoundsOf(c)
    BY DEF IInv, SnapshotBounds, BoundsOf
  <1>2. Sum(c, Read(c))' = Sum(c, Read(c))
    BY DEF Sum
  <1>3. Sum(c, WindowOf(snap.last) \ Read(c))' = Sum(c, WindowOf(snap.last) \ Read(c))
    <2>1. (WindowOf(snap.last) \ Read(c))' = WindowOf(snap.last) \ Read(c)
      BY DEF WindowOf
    <2> QED
      BY <2>1 DEF Sum
  <1> QED
    BY <1>1, <1>2, <1>3 DEF BoundsOf

(* A counter that a snapshot reads lies between its value at the start and  *)
(* now.                                                                     *)
LEMMA CounterRead ==
    ASSUME IInv, snap.at # "idle", Calm, NEW c \in Counters, UNCHANGED recorded,
           snap.second \in WindowOf(snap.last) \ Read(c),
           Read(c)' = Read(c) \cup {snap.second},
           snap'.last = snap.last, snap'.atStart = snap.atStart,
           snap'.sum[c] = snap.sum[c] + recorded[snap.second][c]
    PROVE  BoundsOf(c)'
  <1> DEFINE W == WindowOf(snap.last)
             R == Read(c)
             a == snap.second
  <1>1. W \in SUBSET Seconds /\ R \in SUBSET W /\ a \in W \ R
    BY DEF WindowOf, Read
  <1>2. /\ snap.atStart[c] <= snap.sum[c] + SumOf(recorded, c, W \ R)
        /\ snap.sum[c] <= SumOf(recorded, c, R)
    <2>1. /\ snap.atStart[c] <= snap.sum[c] + Sum(c, W \ R)
          /\ snap.sum[c] <= Sum(c, R)
      BY DEF IInv, SnapshotBounds
    <2> HIDE DEF W, R
    <2> QED
      BY <2>1, SumIs
  <1>3. /\ Sum(c, Read(c))' = SumOf(recorded, c, R \cup {a})
        /\ Sum(c, WindowOf(snap.last) \ Read(c))' = SumOf(recorded, c, W \ (R \cup {a}))
    <2>1. (WindowOf(snap.last) \ Read(c))' = W \ (R \cup {a})
      BY DEF WindowOf
    <2> QED
      BY <2>1 DEF Sum, SumOf, CountsOf
  <1>4. /\ recorded \in [Seconds -> Counts]
        /\ snap.atStart[c] \in Int /\ snap.sum[c] \in Int
    BY SnapshotTypes DEF IInv
  <1> HIDE DEF W, R, a
  <1>5. /\ snap.atStart[c] <= (snap.sum[c] + recorded[a][c]) + SumOf(recorded, c, W \ (R \cup {a}))
        /\ snap.sum[c] + recorded[a][c] <= SumOf(recorded, c, R \cup {a})
    <2> DEFINE start == snap.atStart[c]
               sum == snap.sum[c]
    <2>1. /\ start \in Int /\ sum \in Int /\ start <= sum + SumOf(recorded, c, W \ R)
          /\ sum <= SumOf(recorded, c, R)
      BY <1>2, <1>4
    <2> HIDE DEF start, sum
    <2>2. /\ start <= (sum + recorded[a][c]) + SumOf(recorded, c, W \ (R \cup {a}))
          /\ sum + recorded[a][c] <= SumOf(recorded, c, R \cup {a})
      BY <1>1, <1>4, <2>1, ReadOneMore
    <2> QED
      BY <2>2 DEF start, sum
  <1> QED
    BY <1>3, <1>5 DEF BoundsOf, a

(* A snapshot on its way through the window.                                *)
LEMMA SnapshotPlace ==
    ASSUME IInv, snap.at # "idle"
    PROVE  /\ snap.second \in Seconds /\ snap.second \in Retained /\ snap.last \in Seconds
           /\ snap.second \in Nat /\ snap.last \in Nat /\ snap.last < now /\ now \in Nat
           /\ snap.last - Window < snap.second /\ snap.second <= snap.last
           /\ snap.second \in WindowOf(snap.last)
           /\ now \in Retention..MaxSecond
           /\ Calm => IF Stale(snap.second) THEN recorded[snap.second] = Zero
                      ELSE bucket(snap.second).count = recorded[snap.second]
  <1>1. now \in Retention..MaxSecond
    BY TimeTypes DEF IInv
  <1>2. /\ snap.second \in Seconds /\ snap.second \in Retained /\ snap.last \in Seconds
        /\ snap.last - Window < snap.second /\ snap.second <= snap.last /\ snap.last < now
    BY SnapshotTypes DEF IInv, SnapshotShape
  <1>3. snap.second \in Nat /\ snap.last \in Nat /\ now \in Nat
    BY <1>1, <1>2, Constants
  <1>4. Calm => IF Stale(snap.second) THEN recorded[snap.second] = Zero
                ELSE bucket(snap.second).count = recorded[snap.second]
    BY SnapshotSecond DEF IInv, CountsExact, Sound
  <1> QED
    BY <1>1, <1>2, <1>3, <1>4 DEF WindowOf

(* On to the next second: the one before has been read.                     *)
LEMMA MovesBeyond ==
    ASSUME IInv, snap.at \in {"check", "read"}, UNCHANGED snapUnchanged,
           NEW r \in SnapshotState, r.second = snap.second, r.last = snap.last,
           snap' = Beyond(r)
    PROVE  /\ snap' \in SnapshotState /\ snap'.last = snap.last
           /\ snap'.sum = r.sum /\ snap'.atStart = r.atStart /\ snap'.unfinished = r.unfinished
           /\ snap'.at \in {"check", "done"} /\ (Calm' <=> Calm)
           /\ SnapshotShape'
           /\ \A c \in Counters : Read(c)' = Read(c) \cup {snap.second}
  <1>1. /\ snap.second \in Seconds /\ snap.last \in Seconds /\ snap.second \in WindowOf(snap.last)
        /\ snap.second \in Nat /\ snap.last \in Nat /\ snap.last < now /\ now \in Nat
        /\ snap.second <= snap.last /\ snap.last - Window < snap.second
    BY SnapshotPlace
  <1>2. UNCHANGED <<now, ring, recorded, spoilt>>
    BY DEF snapUnchanged
  <1>3. CASE snap.second = snap.last
    <2>1. snap' = [r EXCEPT !.at = "done"]
      BY <1>3 DEF Beyond
    <2>2. /\ snap'.at = "done" /\ snap'.second = snap.second /\ snap' \in SnapshotState
          /\ snap'.last = snap.last /\ snap'.sum = r.sum /\ snap'.atStart = r.atStart
          /\ snap'.unfinished = r.unfinished
      BY <2>1 DEF SnapshotState
    <2>3. SnapshotShape'
      BY <1>1, <1>2, <1>3, <2>2, SnapshotPlace DEF SnapshotShape, Retained
    <2>4. ASSUME NEW c \in Counters
          PROVE  Read(c)' = Read(c) \cup {snap.second}
      <3>1. Read(c)' = WindowOf(snap.last)
        BY <2>2 DEF Read, WindowOf
      <3>2. \A s \in WindowOf(snap.last) : s < snap.second \/ s = snap.second
        <4>1. \A s \in WindowOf(snap.last) : s \in Nat /\ s <= snap.last
          BY Constants DEF WindowOf
        <4> QED
          BY <1>1, <1>3, <4>1
      <3> QED
        BY <1>1, <3>1, <3>2 DEF Read
    <2> QED
      BY <1>2, <2>2, <2>3, <2>4 DEF Calm, WindowOf
  <1>4. CASE snap.second # snap.last
    <2>1. snap' = [r EXCEPT !.at = "check", !.second = r.second + 1]
      BY <1>4 DEF Beyond
    <2>2. snap.second + 1 \in Seconds /\ snap.second + 1 <= snap.last
      BY <1>1, <1>4, Constants
    <2>3. /\ snap'.at = "check" /\ snap'.second = snap.second + 1 /\ snap' \in SnapshotState
          /\ snap'.last = snap.last /\ snap'.sum = r.sum /\ snap'.atStart = r.atStart
          /\ snap'.unfinished = r.unfinished
      BY <2>1, <2>2 DEF SnapshotState
    <2>4. snap.second + 1 \in Retained
      <3>1. snap.second > now - Retention /\ now \in Retention..MaxSecond
        BY SnapshotPlace, RetainedAre
      <3>2. snap.second + 1 > now - Retention /\ snap.second + 1 <= now
        BY <1>1, <2>2, <3>1, Constants
      <3> QED
        BY <2>2, <3>1, <3>2, RetainedAre
    <2>5. SnapshotShape'
      BY <1>1, <1>2, <2>2, <2>3, <2>4, Constants DEF SnapshotShape, Retained
    <2>6. ASSUME NEW c \in Counters
          PROVE  Read(c)' = Read(c) \cup {snap.second}
      <3>1. Read(c)' = {s \in WindowOf(snap.last) : s < snap.second + 1}
        BY <2>3 DEF Read, WindowOf
      <3>2. \A s \in WindowOf(snap.last) :
               s < snap.second + 1 <=> s < snap.second \/ s = snap.second
        <4>1. \A s \in WindowOf(snap.last) : s \in Nat
          BY Constants DEF WindowOf
        <4> QED
          BY <1>1, <4>1
      <3> QED
        BY <1>1, <3>1, <3>2 DEF Read
    <2> QED
      BY <1>2, <2>3, <2>5, <2>6 DEF Calm, WindowOf
  <1> QED
    BY <1>3, <1>4

(* What a snapshot reads next, and what is left then.                       *)
LEMMA RemainingCases ==
    /\ ReadOrder # <<"inserted", "spooled", "spoolFailed">>
    /\ \A left \in Remaining :
          \/ /\ left = ReadOrder /\ Head(left) = "expected"
             /\ Tail(left) = <<"inserted", "spooled", "spoolFailed">>
          \/ /\ left = <<"inserted", "spooled", "spoolFailed">> /\ Head(left) = "inserted"
             /\ Tail(left) # <<"inserted", "spooled", "spoolFailed">>
          \/ /\ left # <<"inserted", "spooled", "spoolFailed">>
             /\ Head(left) \in {"spooled", "spoolFailed"}
             /\ Tail(left) # <<"inserted", "spooled", "spoolFailed">>
  <1> DEFINE three == <<"inserted", "spooled", "spoolFailed">>
             two == <<"spooled", "spoolFailed">>
             one == <<"spoolFailed">>
  <1>1. /\ Tail(ReadOrder) = three /\ Tail(three) = two /\ Tail(two) = one /\ Tail(one) = <<>>
        /\ Head(ReadOrder) = "expected" /\ Head(three) = "inserted" /\ Head(two) = "spooled"
        /\ Head(one) = "spoolFailed"
        /\ Len(ReadOrder) = 4 /\ Len(three) = 3 /\ Len(two) = 2 /\ Len(one) = 1 /\ Len(<<>>) = 0
    BY DEF ReadOrder
  <1>2. Remaining = {ReadOrder, three, two, one}
    BY DEF Remaining
  <1> HIDE DEF three, two, one
  <1>3. ReadOrder # three /\ two # three /\ one # three /\ <<>> # three
    BY <1>1
  <1> QED
    BY <1>1, <1>2, <1>3 DEF three

(* A snapshot looks at the second of a bucket before it reads its counters. *)
LEMMA CheckBucketKeeps ==
    ASSUME IInv, CheckBucket
    PROVE  IInv'
  <1>1. snap.at = "check" /\ UNCHANGED snapUnchanged /\ UNCHANGED recorded
    BY DEF CheckBucket, snapUnchanged
  <1>2. CASE Stale(snap.second)
    <2>1. snap' = Beyond(snap)
      BY <1>2 DEF CheckBucket
    <2>2. /\ snap' \in SnapshotState /\ snap'.last = snap.last
          /\ snap'.sum = snap.sum /\ snap'.atStart = snap.atStart
          /\ snap'.unfinished = snap.unfinished /\ snap'.at \in {"check", "done"}
          /\ SnapshotShape' /\ (Calm' <=> Calm)
          /\ \A c \in Counters : Read(c)' = Read(c) \cup {snap.second}
      BY <1>1, <2>1, SnapshotTypes, MovesBeyond DEF IInv
    <2>3. ASSUME Calm, NEW c \in Counters
          PROVE  BoundsOf(c)'
      <3>1. snap.second \in WindowOf(snap.last) \ Read(c)
        BY <1>1, SnapshotPlace DEF Read
      <3>2. recorded[snap.second][c] = 0 /\ snap.sum[c] \in Nat
        BY <1>1, <1>2, <2>3, SnapshotPlace, SnapshotTypes, CountersAre DEF IInv
      <3>3. snap'.sum[c] = snap.sum[c] + recorded[snap.second][c]
        BY <2>2, <3>2
      <3> QED
        BY <1>1, <2>2, <2>3, <3>1, <3>3, CounterRead
    <2>4. SnapshotBounds'
      BY <2>2, <2>3 DEF SnapshotBounds, BoundsOf
    <2>5. UnfinishedBound'
      BY <1>1, <2>2 DEF IInv, UnfinishedBound, HalfRead
    <2> QED
      BY <1>1, <2>2, <2>4, <2>5, SnapshotStepKeeps
  <1>3. CASE ~Stale(snap.second)
    <2>1. snap' = [snap EXCEPT !.at = "read", !.left = ReadOrder]
      BY <1>3 DEF CheckBucket
    <2>2. /\ snap' \in SnapshotState /\ snap'.last = snap.last /\ snap'.second = snap.second
          /\ snap'.sum = snap.sum /\ snap'.atStart = snap.atStart
          /\ snap'.unfinished = snap.unfinished /\ snap'.at = "read" /\ snap'.left = ReadOrder
      <3>1. ReadOrder \in Seq(Counters)
        BY RemainingAre
      <3> QED
        BY <2>1, <3>1, SnapshotTypes DEF IInv, SnapshotState
    <2>3. SnapshotShape'
      BY <1>1, <1>3, <2>2, RemainingAre
         DEF IInv, SnapshotShape, snapUnchanged, Stale, bucket, Retained, Index
    <2>4. \A c \in Counters : Read(c)' = Read(c)
      BY <1>1, <2>2, RemainingAre DEF Read, WindowOf
    <2>4a. Calm' <=> Calm
      BY <1>1, <2>2 DEF Calm, WindowOf, snapUnchanged
    <2>5. Calm => \A c \in Counters : BoundsOf(c)'
      BY <1>1, <2>2, <2>4, CounterNotRead
    <2>6. SnapshotBounds'
      BY <2>4a, <2>5 DEF SnapshotBounds, BoundsOf
    <2>7. UnfinishedBound'
      <3>1. ~HalfRead' /\ ~HalfRead
        BY <1>1, <2>2, RemainingCases DEF HalfRead
      <3> QED
        BY <1>1, <2>2, <2>4a, <3>1 DEF IInv, UnfinishedBound
    <2> QED
      BY <1>1, <2>2, <2>3, <2>6, <2>7, SnapshotStepKeeps
  <1> QED
    BY <1>2, <1>3

(* A snapshot takes the next counter of a bucket.                           *)
LEMMA ReadCounterKeeps ==
    ASSUME IInv, ReadCounter
    PROVE  IInv'
  <1> DEFINE a == snap.second
             left == snap.left
  <1>0. PICK c \in Counters : c = Head(left)
    BY RemainingAre DEF ReadCounter, IInv, SnapshotShape
  <1> DEFINE count == bucket(a).count[c]
             unfinished == IF c = "expected" THEN snap.unfinished + Unfinished(a)
                           ELSE snap.unfinished
             sum == [snap.sum EXCEPT ![c] = @ + count]
             r == [snap EXCEPT !.left = Tail(left), !.sum = sum, !.unfinished = unfinished]
  <1>1. /\ snap.at = "read" /\ UNCHANGED snapUnchanged
        /\ UNCHANGED <<now, ring, recorded, spoilt>> /\ left \in Remaining
    BY DEF ReadCounter, snapUnchanged, IInv, SnapshotShape
  <1>2. snap' = IF Tail(left) = <<>> THEN Beyond(r) ELSE r
    <2>1. [snap EXCEPT !.left = Tail(@), !.sum[c] = @ + bucket(snap.second).count[c],
                       !.unfinished = IF c = "expected" THEN @ + Unfinished(snap.second) ELSE @]
            = r
      OBVIOUS
    <2>2. r.left = Tail(left)
      BY SnapshotTypes DEF IInv, SnapshotState
    <2>3. snap' = IF r.left = <<>> THEN Beyond(r) ELSE r
      <3> DEFINE reads(d) ==
                   [snap EXCEPT
                      !.left = Tail(@), !.sum[d] = @ + bucket(snap.second).count[d],
                      !.unfinished = IF d = "expected" THEN @ + Unfinished(snap.second) ELSE @]
      <3>1. snap' = IF reads(Head(snap.left)).left = <<>> THEN Beyond(reads(Head(snap.left)))
                    ELSE reads(Head(snap.left))
        BY ONLY ReadCounter DEF ReadCounter
      <3>2. reads(c) = r
        BY <2>1
      <3> HIDE DEF reads, r
      <3> QED
        BY <1>0, <3>1, <3>2
    <2> QED
      BY <2>2, <2>3
  <1>3. /\ c \in Counters /\ c \in In(left) /\ Tail(left) \in Seq(Counters)
        /\ In(Tail(left)) = In(left) \ {c}
        /\ Tail(left) # <<>> => Tail(left) \in Remaining
        /\ Tail(left) = <<>> => In(left) = {c}
    BY <1>0, <1>1, RemainingAre
  <1>4. /\ a \in Seconds /\ a \in WindowOf(snap.last) /\ ~(a < a)
        /\ Calm => bucket(a).count = recorded[a] /\ count = recorded[a][c]
    <2>1. Calm => ~Stale(a)
      BY <1>1 DEF IInv, SnapshotShape
    <2>2. a \in Seconds /\ a \in WindowOf(snap.last) /\ a \in Nat
      BY <1>1, SnapshotPlace
    <2>3. Calm => bucket(a).count = recorded[a]
      BY <1>1, <2>1, SnapshotPlace
    <2> QED
      BY <2>2, <2>3
  <1>5. /\ count \in Nat /\ Unfinished(a) = recorded[a]["expected"] - recorded[a]["inserted"]
        /\ recorded[a]["expected"] \in Nat /\ recorded[a]["inserted"] \in Nat
        /\ unfinished \in Int /\ "expected" \in Counters /\ "inserted" \in Counters
    <2>1. count \in Nat
      BY <1>3, <1>4, BucketType DEF IInv
    <2>2. /\ recorded[a]["expected"] \in Nat /\ recorded[a]["inserted"] \in Nat
          /\ "expected" \in Counters /\ "inserted" \in Counters /\ snap.unfinished \in Int
      BY <1>4, SnapshotTypes, CountersAre DEF IInv
    <2> QED
      BY <2>1, <2>2 DEF Unfinished
  <1>6. sum \in Counts /\ sum[c] = snap.sum[c] + count
        /\ \A d \in Counters \ {c} : sum[d] = snap.sum[d]
    <2>1. snap.sum \in [Counters -> Nat]
      BY SnapshotTypes DEF IInv, Counts
    <2> HIDE DEF count
    <2> QED
      BY <1>3, <1>5, <2>1 DEF Counts
  <1> HIDE DEF count, unfinished, sum, left, a
  <1>7. /\ r \in SnapshotState /\ r.at = snap.at /\ r.second = snap.second
        /\ r.last = snap.last /\ r.left = Tail(left) /\ r.sum = sum
        /\ r.atStart = snap.atStart /\ r.unfinished = unfinished
    BY <1>3, <1>5, <1>6, SnapshotTypes DEF IInv, SnapshotState
  <1> HIDE DEF r
  <1>8. /\ snap' \in SnapshotState /\ snap'.last = snap.last /\ snap'.sum = sum
        /\ snap'.atStart = snap.atStart /\ snap'.unfinished = unfinished
        /\ SnapshotShape' /\ (Calm' <=> Calm)
        /\ Read(c)' = Read(c) \cup {a} /\ \A d \in Counters \ {c} : Read(d)' = Read(d)
        /\ HalfRead' => snap'.second = a /\ Tail(left) = <<"inserted", "spooled", "spoolFailed">>
        /\ Tail(left) = <<"inserted", "spooled", "spoolFailed">> => HalfRead' /\ snap'.second = a
    <2>0. a \notin Read(c) /\ \A d \in Counters \ In(left) : a \in Read(d)
      BY <1>1, <1>3, <1>4 DEF Read, a, left
    <2>1. CASE Tail(left) = <<>>
      <3>1. snap' = Beyond(r)
        BY <1>2, <2>1
      <3>2. /\ snap' \in SnapshotState /\ snap'.last = snap.last
            /\ snap'.sum = r.sum /\ snap'.atStart = r.atStart /\ snap'.unfinished = r.unfinished
            /\ snap'.at \in {"check", "done"} /\ SnapshotShape' /\ (Calm' <=> Calm)
            /\ \A d \in Counters : Read(d)' = Read(d) \cup {snap.second}
        BY <1>1, <1>7, <3>1, MovesBeyond
      <3>3. ASSUME NEW d \in Counters \ {c}
            PROVE  Read(d)' = Read(d)
        <4>1. snap.second \in Read(d)
          BY <1>3, <2>0, <2>1 DEF a
        <4>2. Read(d)' = Read(d) \cup {snap.second}
          BY <3>2
        <4> QED
          BY <4>1, <4>2
      <3>4. ~HalfRead'
        BY <3>2 DEF HalfRead
      <3>5. <<"inserted", "spooled", "spoolFailed">> # <<>>
        OBVIOUS
      <3> QED
        BY <1>3, <1>7, <2>1, <3>2, <3>3, <3>4, <3>5 DEF a
    <2>2. CASE Tail(left) # <<>>
      <3>1. snap' = r
        BY <1>2, <2>2
      <3>2. snap'.at = "read" /\ snap'.second = a /\ snap'.left = Tail(left)
        BY <1>1, <1>7, <3>1 DEF a
      <3>3. Calm' <=> Calm
        BY <1>1, <1>7, <3>1 DEF Calm, WindowOf
      <3>4. SnapshotShape'
        <4>1. Retained' = Retained
          BY <1>1 DEF Retained
        <4>2. Stale(snap.second)' <=> Stale(snap.second)
          BY <1>1, <3>2 DEF Stale, bucket, Index, a
        <4> QED
          BY <1>1, <1>3, <1>7, <2>2, <3>1, <3>2, <3>3, <4>1, <4>2 DEF IInv, SnapshotShape, a
      <3>5. \A d : Read(d)' = {s \in WindowOf(snap.last) :
                                  s < a \/ (s = a /\ d \notin In(left) \ {c})}
        BY <1>3, <1>7, <3>1, <3>2 DEF Read, WindowOf, In
      <3>6. \A d : Read(d) = {s \in WindowOf(snap.last) :
                                  s < a \/ (s = a /\ d \notin In(left))}
        BY <1>1 DEF Read, a, left
      <3>7. Read(c)' = Read(c) \cup {a} /\ \A d \in Counters \ {c} : Read(d)' = Read(d)
        BY <1>4, <3>5, <3>6
      <3>8. HalfRead' <=> Tail(left) = <<"inserted", "spooled", "spoolFailed">>
        BY <3>2 DEF HalfRead
      <3> QED
        BY <1>7, <3>1, <3>2, <3>3, <3>4, <3>7, <3>8
    <2> QED
      BY <2>1, <2>2
  <1>9. ASSUME Calm
        PROVE  \A d \in Counters : BoundsOf(d)'
    <2>1. BoundsOf(c)'
      <3>1. snap.second \in WindowOf(snap.last) \ Read(c)
        BY <1>1, <1>3, <1>4 DEF Read, a, left
      <3>2. snap'.sum[c] = snap.sum[c] + recorded[snap.second][c]
        BY <1>4, <1>6, <1>8, <1>9 DEF a
      <3> QED
        BY <1>1, <1>3, <1>8, <1>9, <3>1, <3>2, CounterRead DEF a
    <2>2. ASSUME NEW d \in Counters \ {c}
          PROVE  BoundsOf(d)'
      BY <1>1, <1>6, <1>8, <1>9, CounterNotRead
    <2> QED
      BY <2>1, <2>2
  <1>10. SnapshotBounds'
    BY <1>8, <1>9 DEF SnapshotBounds, BoundsOf
  <1>11. ASSUME Calm
         PROVE  snap'.sum["expected"] - snap'.sum["inserted"] <=
                   snap'.unfinished + (IF HalfRead' THEN recorded'[snap'.second]["inserted"] ELSE 0)
    <2>1. snap.sum["expected"] - snap.sum["inserted"] <=
             snap.unfinished + (IF HalfRead THEN recorded[a]["inserted"] ELSE 0)
      BY <1>1, <1>11 DEF IInv, UnfinishedBound, a
    <2>2. /\ snap.sum["expected"] \in Nat /\ snap.sum["inserted"] \in Nat
          /\ snap.unfinished \in Int
      BY <1>5, SnapshotTypes DEF IInv
    <2>3. count = recorded[a][c]
      BY <1>4, <1>11
    <2>4. HalfRead <=> left = <<"inserted", "spooled", "spoolFailed">>
      BY <1>1 DEF HalfRead, left
    <2>5. CASE left = ReadOrder /\ c = "expected"
               /\ Tail(left) = <<"inserted", "spooled", "spoolFailed">>
      <3>1. /\ ~HalfRead /\ HalfRead' /\ snap'.second = a
            /\ unfinished = snap.unfinished + Unfinished(a)
        BY <1>8, <2>4, <2>5, RemainingCases DEF unfinished
      <3>2. /\ snap'.sum["expected"] = snap.sum["expected"] + recorded[a]["expected"]
            /\ snap'.sum["inserted"] = snap.sum["inserted"]
        BY <1>5, <1>6, <1>8, <2>3, <2>5
      <3>3. recorded'[snap'.second]["inserted"] = recorded[a]["inserted"]
        BY <1>1, <3>1
      <3>4. PICK e, n, u, x, y :
               /\ e = snap.sum["expected"] /\ n = snap.sum["inserted"] /\ u = snap.unfinished
               /\ x = recorded[a]["expected"] /\ y = recorded[a]["inserted"]
        OBVIOUS
      <3>5. (e + x) - n <= (u + (x - y)) + y
        BY <1>5, <2>1, <2>2, <3>1, <3>4
      <3>6. /\ snap'.sum["expected"] = e + x /\ snap'.sum["inserted"] = n
            /\ snap'.unfinished = u + (x - y)
            /\ (IF HalfRead' THEN recorded'[snap'.second]["inserted"] ELSE 0) = y
        BY <1>5, <1>8, <3>1, <3>2, <3>3, <3>4
      <3> HIDE DEF a
      <3> QED
        BY <3>5, <3>6
    <2>6. CASE left = <<"inserted", "spooled", "spoolFailed">> /\ c = "inserted"
               /\ Tail(left) # <<"inserted", "spooled", "spoolFailed">>
      <3>1. HalfRead /\ ~HalfRead' /\ unfinished = snap.unfinished
        BY <1>8, <2>4, <2>6 DEF unfinished
      <3>2. /\ snap'.sum["inserted"] = snap.sum["inserted"] + recorded[a]["inserted"]
            /\ snap'.sum["expected"] = snap.sum["expected"]
        BY <1>5, <1>6, <1>8, <2>3, <2>6
      <3> QED
        BY <1>5, <1>8, <2>1, <2>2, <3>1, <3>2
    <2>7. CASE left # <<"inserted", "spooled", "spoolFailed">>
               /\ c \in {"spooled", "spoolFailed"}
               /\ Tail(left) # <<"inserted", "spooled", "spoolFailed">>
      <3>1. ~HalfRead /\ ~HalfRead' /\ unfinished = snap.unfinished
        BY <1>8, <2>4, <2>7 DEF unfinished
      <3>2. /\ snap'.sum["inserted"] = snap.sum["inserted"]
            /\ snap'.sum["expected"] = snap.sum["expected"]
        BY <1>5, <1>6, <1>8, <2>7
      <3> QED
        BY <1>8, <2>1, <2>2, <3>1, <3>2
    <2> QED
      BY <1>0, <1>1, <2>5, <2>6, <2>7, RemainingCases
  <1>12. UnfinishedBound'
    BY <1>8, <1>11 DEF UnfinishedBound
  <1> QED
    BY <1>1, <1>8, <1>10, <1>12, SnapshotStepKeeps

(* A snapshot is done with.                                                 *)
LEMMA EndSnapshotKeeps ==
    ASSUME IInv, EndSnapshot
    PROVE  IInv'
  <1>1. UNCHANGED snapUnchanged /\ snap' = NoSnapshot
    BY DEF EndSnapshot
  <1>2. snap'.at = "idle"
    BY <1>1 DEF NoSnapshot
  <1>3. snap' \in SnapshotState
    BY <1>1, Constants, CountersAre DEF NoSnapshot, SnapshotState, Counts
  <1> QED
    BY <1>1, <1>2, <1>3, SnapshotStepKeeps DEF SnapshotShape, SnapshotBounds, UnfinishedBound

-----------------------------------------------------------------------------
(* The clock                                                                *)

(* The seconds that somebody is about to record.                            *)
LEMMA InUseHas ==
    /\ \A t \in Threads : Recording(t) => thread[t].second \in InUse
    /\ \A t \in Threads : \A k \in Due(t) : thread[t].cohorts[k].second \in InUse
  <1> DEFINE cohortsOf(t) == {thread[t].cohorts[k].second : k \in Due(t)}
  <1>1. \A t \in Threads : \A k \in Due(t) : thread[t].cohorts[k].second \in cohortsOf(t)
    OBVIOUS
  <1>2. (UNION {cohortsOf(t) : t \in Threads}) \subseteq InUse
    BY Zenon DEF InUse
  <1> HIDE DEF cohortsOf
  <1>3. \A t \in Threads : cohortsOf(t) \subseteq UNION {cohortsOf(u) : u \in Threads}
    BY Zenon
  <1>4. \A t \in Threads : Recording(t) => thread[t].second \in InUse
    BY DEF InUse
  <1> QED
    BY <1>1, <1>2, <1>3, <1>4

(* What is in use stays guarded: the new second is spoilt if it shares its  *)
(* bucket with that, and nothing has been recorded for it.                  *)
LEMMA TickKeeps ==
    ASSUME IInv, Tick
    PROVE  IInv'
  <1>1. /\ now < MaxSecond /\ now' = now + 1
        /\ snap.at # "idle" => snap.second > now + 1 - Retention
        /\ spoilt' = spoilt \cup SharedWith(InUse, {now + 1})
        /\ UNCHANGED <<ring, thread, packet, pending, batches, snap, recorded>>
    BY DEF Tick, batching
  <1>2. now \in Nat /\ Retention <= now /\ now' \in Retention..MaxSecond /\ now' \in Nat
        /\ now \in Retention..MaxSecond /\ now + 1 \in Seconds
    BY <1>1, TimeTypes, Constants DEF IInv
  <1>3. \A s \in Retained : s > now + 1 - Retention => s \in Retained'
    <2> SUFFICES ASSUME NEW s \in Retained, s > now + 1 - Retention
                 PROVE  s \in Retained'
      OBVIOUS
    <2>1. s \in 1..now
      BY DEF Retained
    <2>2. s \in 1..now' /\ s > now' - Retention
      BY <1>1, <1>2, <2>1, Constants
    <2> QED
      BY <2>2 DEF Retained
  <1>4. ASSUME NEW s \in Retained'
        PROVE  \/ s \in Retained
               \/ s = now + 1 /\ s \in Seconds
    <2>1. s \in 1..now' /\ s > now' - Retention
      BY DEF Retained
    <2>2. CASE s = now + 1
      BY <1>1, <1>2, <2>2, Constants
    <2>3. CASE s # now + 1
      BY <1>1, <1>2, <2>1, <2>3, Constants DEF Retained
    <2> QED
      BY <2>2, <2>3
  <1>5. \A s \in Sound' : s \in Sound \/ s = now + 1
    BY <1>1, <1>4 DEF Sound
  <1>6. ASSUME NEW s \in InUse, Guarded(s)
        PROVE  \A r \in Sound' : Index(r) = Index(s) => r = s
    <2> SUFFICES ASSUME NEW r \in Sound', Index(r) = Index(s), r # s
                 PROVE  FALSE
      OBVIOUS
    <2>1. CASE r \in Sound
      BY <1>6, <2>1 DEF Guarded
    <2>2. CASE r = now + 1
      <3>1. r \in SharedWith(InUse, {now + 1})
        BY <2>2 DEF SharedWith
      <3> QED
        BY <1>1, <3>1 DEF Sound
    <2> QED
      BY <1>5, <2>1, <2>2
  <1>7. \A s \in Seconds : s <= now => s <= now'
    BY <1>1, <1>2, Constants
  <1>8. TypeOK'
    <2>1. spoilt' \subseteq Seconds
      BY <1>1, <1>2 DEF SharedWith, IInv, TypeOK
    <2> QED
      BY <1>1, <1>2, <2>1 DEF IInv, TypeOK, OneResets, Holds, Index
  <1>9. CohortsPast'
    <2>1. \A w \in Workers : packet'[w].second <= now'
      <3>1. \A w \in Workers : packet[w].second \in Seconds
        BY DEF IInv, TypeOK, Packets
      <3> QED
        BY <1>1, <1>7, <3>1 DEF IInv, CohortsPast
    <2>2. ASSUME NEW cohorts \in Cohorts, Reached(cohorts, now)
          PROVE  Reached(cohorts, now')
      BY <1>7, <2>2, CohortIs DEF Reached
    <2>3. /\ \A w \in Workers : pending[w] \in Cohorts
          /\ \A n \in DOMAIN batches : batches[n] \in Cohorts
          /\ \A t \in Threads : thread[t].cohorts \in Cohorts
      BY ThreadTypes DEF IInv, TypeOK
    <2>4. /\ \A w \in Workers : Reached(pending'[w], now')
          /\ \A n \in DOMAIN batches' : Reached(batches'[n], now')
          /\ \A t \in Threads : Reached(thread'[t].cohorts, now')
      BY <1>1, <2>2, <2>3, PastCohorts
    <2>5. ASSUME NEW t \in Threads, NEW k \in DOMAIN thread'[t].cohorts, k \in Due(t)'
          PROVE  \A r \in Sound' : Index(r) = Index(thread'[t].cohorts[k].second)
                                      => r = thread'[t].cohorts[k].second
      <3>1. k \in Due(t) /\ k \in DOMAIN thread[t].cohorts /\ thread'[t] = thread[t]
        BY <1>1, <2>5 DEF Due, isRetained
      <3>2. Guarded(thread[t].cohorts[k].second) /\ thread[t].cohorts[k].second \in InUse
        BY <3>1, InUseHas DEF IInv, CohortsPast
      <3> QED
        BY <1>6, <3>1, <3>2
    <2> QED
      BY <2>1, <2>4, <2>5 DEF CohortsPast, Reached, Guarded, Index
  <1>10. RingPast'
    <2>1. ASSUME NEW i \in 0..Retention-1
          PROVE  ring'[i].second <= now'
      <3>1. ring[i].second \in Seconds /\ ring[i].second <= now
        BY DEF IInv, TypeOK, RingPast
      <3> QED
        BY <1>1, <1>7, <3>1
    <2>2. ASSUME NEW s \in Seconds, s > now'
          PROVE  recorded'[s] = Zero
      <3>1. s > now
        BY <1>1, <1>2, <2>2, Constants
      <3> QED
        BY <1>1, <3>1 DEF IInv, RingPast
    <2> QED
      BY <2>1, <2>2 DEF RingPast
  <1>11. ASSUME NEW t \in Threads
         PROVE  ThreadShape(t)'
    <2>1. ThreadShape(t) /\ thread'[t] = thread[t] /\ ring' = ring
          /\ thread[t].second \in Seconds
      BY <1>1, ThreadTypes DEF IInv
    <2>2. Recording(t) => /\ thread[t].second <= now'
                          /\ \A r \in Sound' : Index(r) = Index(thread[t].second)
                                                  => r = thread[t].second
      BY <1>6, <1>7, <2>1, InUseHas DEF ThreadShape
    <2>3. (Recording(t)' <=> Recording(t)) /\ (SoundShape(t)' <=> SoundShape(t))
      BY <2>1 DEF Recording, SoundShape, Current, bucket, Index
    <2>4. ASSUME thread[t].second \in Sound'
          PROVE  SoundShape(t)
      <3>1. CASE thread[t].second \in Sound
        BY <2>1, <3>1 DEF ThreadShape
      <3>2. CASE thread[t].second = now + 1
        <4>1. ~Recording(t)
          BY <1>2, <2>1, <3>2 DEF ThreadShape
        <4> QED
          BY <4>1 DEF Recording, SoundShape
      <3> QED
        BY <1>5, <2>4, <3>1, <3>2
    <2> QED
      BY <2>1, <2>2, <2>3, <2>4 DEF ThreadShape, Guarded, Index
  <1>12. CountsExact'
    <2> SUFFICES ASSUME NEW s \in Sound'
                 PROVE  IF Stale(s)' THEN recorded'[s] = Zero
                        ELSE bucket(s)'.count = recorded'[s]
      BY DEF CountsExact, Sound
    <2>1. CASE s \in Sound
      BY <1>1, <2>1 DEF IInv, CountsExact, Sound, Stale, bucket, Index
    <2>2. CASE s = now + 1
      <3>1. bucket(s) = ring[Index(s)] /\ Index(s) \in 0..Retention-1
        BY <1>2, <2>2, IndexType DEF bucket
      <3>2. ring[Index(s)].second \in Nat /\ ring[Index(s)].second <= now
        BY <3>1, Constants DEF IInv, TypeOK, RingPast
      <3>3. Stale(s)
        BY <1>2, <2>2, <3>1, <3>2 DEF Stale
      <3>4. recorded[s] = Zero
        <4>1. s > now
          BY <1>2, <2>2
        <4> QED
          BY <1>2, <2>2, <4>1 DEF IInv, RingPast
      <3> QED
        BY <1>1, <3>3, <3>4 DEF Stale, bucket, Index
    <2> QED
      BY <1>5, <2>1, <2>2
  <1>13. Calm' => Calm
    BY <1>1 DEF Calm, WindowOf
  <1>14. SnapshotShape'
    <2> SUFFICES ASSUME snap.at # "idle"
                 PROVE  snap.last < now' /\ snap.second \in Retained'
      BY <1>1, <1>13 DEF IInv, SnapshotShape, Stale, bucket, Index
    <2>1. snap.second \in Retained /\ snap.last < now /\ snap.last \in Nat
      BY SnapshotPlace
    <2> QED
      BY <1>1, <1>2, <1>3, <2>1
  <1>15. SnapshotBounds' /\ UnfinishedBound'
    BY <1>1, <1>13 DEF IInv, SnapshotBounds, UnfinishedBound, Read, WindowOf, Sum, HalfRead, In
  <1> QED
    BY <1>8, <1>9, <1>10, <1>11, <1>12, <1>14, <1>15 DEF IInv

-----------------------------------------------------------------------------
(* The invariant                                                            *)

LEMMA InitIInv == Init => IInv
  <1> SUFFICES ASSUME Init PROVE IInv
    OBVIOUS
  <1>1. /\ now = Retention /\ ring = [i \in 0..Retention-1 |-> [second |-> 0, count |-> Zero]]
        /\ thread = [t \in Threads |-> IdleThread] /\ pending = [w \in Workers |-> <<>>]
        /\ packet = [w \in Workers |-> NoRows] /\ spoilt = {}
        /\ batches = <<>> /\ snap = NoSnapshot /\ recorded = [s \in Seconds |-> Zero]
    BY DEF Init
  <1>2. /\ 0 \in Seconds /\ Zero \in Counts /\ <<>> \in Cohorts /\ <<>> \in Seq(Cohorts)
        /\ <<>> \in Seq(Counters) /\ now \in Retention..MaxSecond /\ now > 0
        /\ NoRows \in Packets /\ NoRows.second = 0
    BY <1>1, Constants, CountersAre DEF Cohorts, NoRows, Packets
  <1>3. snap \in SnapshotState /\ snap.at = "idle"
    BY <1>1, <1>2 DEF NoSnapshot, SnapshotState
  <1>4. \A t \in Threads : thread[t] = IdleThread
    BY <1>1
  <1>5. TypeOK
    <2>1. thread \in [Threads -> ThreadState] /\ OneResets
      BY <1>1, <1>4, IdleType DEF OneResets, Holds
    <2> QED
      BY <1>1, <1>2, <1>3, <2>1 DEF TypeOK
  <1>6. CohortsPast
    BY <1>1, <1>2, <1>4, IdleType DEF CohortsPast
  <1>7. RingPast
    BY <1>1, <1>2 DEF RingPast
  <1>8. \A t \in Threads : ThreadShape(t)
    BY <1>4, IdleType DEF ThreadShape, Recording, SoundShape
  <1>9. CountsExact
    <2> SUFFICES ASSUME NEW s \in Retained PROVE Stale(s) /\ recorded[s] = Zero
      BY DEF CountsExact
    <2>1. s \in Seconds /\ s # 0
      <3>1. s \in 1..now
        BY DEF Retained
      <3> QED
        BY <1>2, <3>1, RetainedAre
    <2> QED
      BY <1>1, <2>1, IndexType DEF Stale, bucket
  <1> QED
    BY <1>3, <1>5, <1>6, <1>7, <1>8, <1>9
       DEF IInv, SnapshotShape, SnapshotBounds, UnfinishedBound

(* Every step keeps the invariant.                                          *)
LEMMA NextIInv == IInv /\ [Next]_vars => IInv'
  <1> SUFFICES ASSUME IInv, [Next]_vars PROVE IInv'
    OBVIOUS
  <1>1. ASSUME NEW t \in Threads, Step(t) PROVE IInv'
    BY <1>1, LoadSecondKeeps, LockBucketKeeps, ClearCounterKeeps, StoreSecondKeeps,
       AddOutcomeKeeps, NextCohortKeeps DEF Step
  <1>2. ASSUME NEW w \in Workers, NEW s \in Seconds, NEW n \in PacketRows, Parse(w, s, n)
        PROVE  IInv'
    BY <1>2, ParseKeeps
  <1>3. ASSUME NEW w \in Workers, AddExpected(w) \/ AppendRow(w) \/ HandOver(w) \/ Refuse(w)
        PROVE  IInv'
    BY <1>3, AddExpectedKeeps, AppendRowKeeps, HandOverKeeps, RefuseKeeps
  <1>4. ASSUME NEW i \in Inserters, Receive(i) \/ Settle(i) PROVE IInv'
    BY <1>4, ReceiveKeeps, SettleKeeps
  <1>5. CASE Tick
    BY <1>5, TickKeeps
  <1>6. CASE BeginSnapshot \/ CheckBucket \/ ReadCounter \/ EndSnapshot
    BY <1>6, BeginSnapshotKeeps, CheckBucketKeeps, ReadCounterKeeps, EndSnapshotKeeps
  <1>7. CASE UNCHANGED vars
    <2>1. UNCHANGED <<now, ring, thread, batching, snap, recorded, spoilt>>
      BY <1>7 DEF vars
    <2>2. UNCHANGED snapUnchanged /\ snap' \in SnapshotState
      BY <2>1, SnapshotTypes DEF IInv, snapUnchanged
    <2>3. SnapshotShape' /\ SnapshotBounds' /\ UnfinishedBound'
      BY <2>1, SnapshotFramed DEF IInv
    <2> QED
      BY <2>2, <2>3, SnapshotStepKeeps
  <1> QED
    BY <1>1, <1>2, <1>3, <1>4, <1>5, <1>6, <1>7, KindsOfThread DEF Next

(* Whatever the goroutines, the clock and the evaluator do.                 *)
THEOREM Invariance == Spec => []IInv
  <1> QED
    BY InitIInv, NextIInv, PTL DEF Spec

(* bucket() lets one goroutine at a time reset a bucket, and every second,  *)
(* counter and cohort has its type.                                         *)
THEOREM TypeCorrect == Spec => []TypeOK
  <1>1. IInv => TypeOK
    BY DEF IInv
  <1> QED
    BY <1>1, Invariance, PTL

(* The ring holds exactly what was added for each retained second, despite  *)
(* the fast path that takes no mutex and a clock that may move on at any    *)
(* point of it.  What isRetained and the unchecked recordParseResult do not *)
(* exclude is left out: a second that shares its bucket with an expired one *)
(* whose addition was still to come, and CountsExact names those.           *)
THEOREM RingExact == Spec => []CountsExact
  <1>1. IInv => CountsExact
    BY DEF IInv
  <1> QED
    BY <1>1, Invariance, PTL

(* snapshot() misses nothing that was recorded before it began, and counts  *)
(* nothing of another second, if no late addition spoilt its window.        *)
THEOREM SnapshotsExact == Spec => []SnapshotExact
  <1>1. IInv => SnapshotExact
    <2> SUFFICES ASSUME IInv, snap.at = "done", Calm, NEW c \in Counters
                 PROVE  /\ snap.atStart[c] <= snap.sum[c]
                        /\ snap.sum[c] <= Sum(c, WindowOf(snap.last))
      BY DEF SnapshotExact, Reliable, Calm
    <2>1. Read(c) = WindowOf(snap.last) /\ WindowOf(snap.last) \ Read(c) = {}
      BY DEF Read
    <2>2. /\ snap.atStart[c] <= snap.sum[c] + Sum(c, WindowOf(snap.last) \ Read(c))
          /\ snap.sum[c] <= Sum(c, Read(c))
      BY DEF IInv, SnapshotBounds
    <2>3. Sum(c, {}) = 0
      BY SumIs, SnapshotTypes, SumOfRecorded DEF IInv
    <2>4. snap.atStart[c] \in Nat /\ snap.sum[c] \in Nat
      BY SnapshotTypes DEF IInv
    <2> QED
      BY <2>1, <2>2, <2>3, <2>4
  <1> QED
    BY <1>1, Invariance, PTL

(* Because snapshot() reads what began before what ended, the SLA alerts    *)
(* never see more unfinished work than there was, if no late addition       *)
(* spoilt the window.                                                       *)
THEOREM NotOverstated == Spec => []UnfinishedNotOverstated
  <1>1. IInv => UnfinishedNotOverstated
    <2> SUFFICES ASSUME IInv, snap.at = "done", Calm
                 PROVE  snap.sum["expected"] - snap.sum["inserted"] <= snap.unfinished
      BY DEF UnfinishedNotOverstated, Reliable, Calm
    <2>1. /\ snap.sum["expected"] \in Nat /\ snap.sum["inserted"] \in Nat
          /\ snap.unfinished \in Int
      BY SnapshotTypes, CountersAre DEF IInv
    <2>2. ~HalfRead
      BY DEF HalfRead
    <2> QED
      BY <2>1, <2>2 DEF IInv, UnfinishedBound
  <1> QED
    BY <1>1, Invariance, PTL

-----------------------------------------------------------------------------
(* The rows of cohorts                                                      *)

(* The rows that the k-th cohort has of second s.                           *)
Term(cohorts, s) ==
    [k \in DOMAIN cohorts |-> IF cohorts[k].second = s THEN cohorts[k].rows ELSE 0]

(* The rows of a second in the cohorts of a batch.                          *)
LEMMA RowsOfIs ==
    ASSUME NEW cohorts \in Cohorts, NEW s
    PROVE  /\ RowsOf(cohorts, s) = SumOver(Term(cohorts, s), 1..Len(cohorts))
           /\ RowsOf(cohorts, s) \in Int
           /\ \A k \in 1..Len(cohorts) :
                 /\ Term(cohorts, s)[k] \in Int
                 /\ Term(cohorts, s)[k] = IF cohorts[k].second = s THEN cohorts[k].rows ELSE 0
  <1>1. /\ DOMAIN cohorts = 1..Len(cohorts) /\ Len(cohorts) \in Nat
        /\ \A k \in 1..Len(cohorts) : cohorts[k].rows \in Nat
    BY CohortIs
  <1>2. \A k \in 1..Len(cohorts) :
           /\ Term(cohorts, s)[k] \in Int
           /\ Term(cohorts, s)[k] = IF cohorts[k].second = s THEN cohorts[k].rows ELSE 0
    BY <1>1 DEF Term
  <1>3. RowsOf(cohorts, s) = SumOver(Term(cohorts, s), 1..Len(cohorts))
    BY <1>1 DEF RowsOf, Term
  <1>4. IsFiniteSet(1..Len(cohorts))
    BY <1>1, FS_Interval
  <1> QED
    BY <1>2, <1>3, <1>4, SumType

(* No cohort, no rows; nor in cohorts of other seconds.                     *)
LEMMA RowsOfNone ==
    ASSUME NEW cohorts \in Cohorts, NEW s, \A k \in DOMAIN cohorts : cohorts[k].second # s
    PROVE  RowsOf(cohorts, s) = 0
  <1>1. DOMAIN cohorts = 1..Len(cohorts) /\ Len(cohorts) \in Nat
    BY CohortIs
  <1>2. \A k \in 1..Len(cohorts) : Term(cohorts, s)[k] = 0
    BY <1>1, RowsOfIs
  <1>3. IsFiniteSet(1..Len(cohorts))
    BY <1>1, FS_Interval
  <1> QED
    BY <1>2, <1>3, RowsOfIs, SumZero

(* The empty batch.                                                         *)
LEMMA RowsOfEmpty == <<>> \in Cohorts /\ \A s : RowsOf(<<>>, s) = 0
  <1>1. <<>> \in Cohorts
    BY DEF Cohorts
  <1> QED
    BY <1>1, RowsOfNone

(* addInsertCohort counts one row more of its second, and no other.         *)
LEMMA RowsOfAdded ==
    ASSUME NEW cohorts \in Cohorts, NEW q \in Seconds, NEW s
    PROVE  RowsOf(AddInsertCohort(cohorts, q), s) =
             RowsOf(cohorts, s) + (IF q = s THEN 1 ELSE 0)
  <1> DEFINE recent == {k \in DOMAIN cohorts : k > Len(cohorts) - Lookback
                                               /\ cohorts[k].second = q}
             place == Max(recent)
             n == Len(cohorts)
             f == Term(cohorts, s)
             after == AddInsertCohort(cohorts, q)
             g == Term(after, s)
             Cohort == [second : Seconds, rows : Nat \ {0}]
  <1>1. /\ DOMAIN cohorts = 1..n /\ n \in Nat /\ IsFiniteSet(1..n)
        /\ \A k \in 1..n : cohorts[k] \in Cohort
    <2>1. DOMAIN cohorts = 1..n /\ n \in Nat /\ \A k \in DOMAIN cohorts : cohorts[k] \in Cohort
      BY CohortIs
    <2>2. IsFiniteSet(1..n)
      <3> HIDE DEF n
      <3> QED
        BY <2>1, FS_Interval
    <2>3. \A k \in 1..n : cohorts[k] \in Cohort
      <3> HIDE DEF n, Cohort
      <3> QED
        BY ONLY <2>1
    <2> QED
      BY ONLY <2>1, <2>2, <2>3
  <1>2. \A k \in 1..n : f[k] \in Int /\ f[k] = IF cohorts[k].second = s THEN cohorts[k].rows ELSE 0
    BY RowsOfIs
  <1>3. RowsOf(cohorts, s) = SumOver(f, 1..n) /\ RowsOf(cohorts, s) \in Int
    BY RowsOfIs
  <1>4. CASE recent = {}
    <2> DEFINE e == [second |-> q, rows |-> 1]
    <2>1. after = Append(cohorts, e)
      BY <1>4 DEF AddInsertCohort
    <2>2. e \in Cohort /\ e.second = q /\ e.rows = 1
      OBVIOUS
    <2>3. cohorts \in Seq(Cohort)
      BY DEF Cohorts
    <2> HIDE DEF e, Cohort, after
    <2>4. /\ after \in Seq(Cohort) /\ Len(after) = n + 1
          /\ \A k \in 1..n : after[k] = cohorts[k]
          /\ after[n + 1] = e
      BY <2>1, <2>2, <2>3
    <2>5. after \in Cohorts
      BY <2>4 DEF Cohorts, Cohort
    <2>6. RowsOf(after, s) = SumOver(g, 1..n+1)
      BY <2>4, <2>5, RowsOfIs
    <2>7. \A k \in 1..n+1 :
             g[k] \in Int /\ g[k] = IF after[k].second = s THEN after[k].rows ELSE 0
      BY <2>4, <2>5, RowsOfIs
    <2> HIDE DEF f, g, n, recent, place
    <2>8. \A k \in 1..n : f[k] = g[k]
      <3> TAKE k \in 1..n
      <3>1. k \in 1..n+1
        BY <1>1
      <3> QED
        BY <1>2, <2>4, <2>7, <3>1
    <2>9. SumOver(g, 1..n+1) = SumOver(f, 1..n) + g[n + 1]
      BY <1>1, <2>7, <2>8, SumOfAppend
    <2>10. g[n + 1] = IF q = s THEN 1 ELSE 0
      <3>1. n + 1 \in 1..n+1
        BY <1>1
      <3> QED
        BY <2>2, <2>4, <2>7, <3>1
    <2> QED
      BY <1>3, <2>6, <2>9, <2>10 DEF after
  <1>5. CASE recent # {}
    <2>1. place \in recent
      <3>1. recent \subseteq 1..n
        BY <1>1
      <3> HIDE DEF recent, n
      <3>2. PICK k \in recent : \A j \in recent : j <= k
        BY <1>1, <1>5, <3>1, LastPosition
      <3>3. \A j \in recent : k >= j
        BY <1>1, <3>1, <3>2
      <3> QED
        BY <3>2, <3>3 DEF Max
    <2>2. place \in 1..n /\ cohorts[place].second = q
      BY <1>1, <2>1
    <2>3. after = [cohorts EXCEPT ![place].rows = @ + 1]
      BY <1>5 DEF AddInsertCohort
    <2>4. after \in Cohorts
      <3> DEFINE clock == MaxSecond
      <3>1. clock \in Nat /\ q <= clock /\ Reached(cohorts, clock)
        BY <1>1, Constants DEF Reached
      <3> HIDE DEF after, clock
      <3> QED
        BY <3>1, CohortAdded DEF after
    <2> HIDE DEF place, recent
    <2>5. /\ DOMAIN after = 1..n
          /\ after[place].second = q /\ after[place].rows = cohorts[place].rows + 1
          /\ \A k \in 1..n \ {place} : after[k] = cohorts[k]
      <3> DEFINE x == [cohorts[place] EXCEPT !.rows = @ + 1]
      <3>1. x.second = q /\ x.rows = cohorts[place].rows + 1
        BY <1>1, <2>2
      <3>2. after = [cohorts EXCEPT ![place] = x]
        BY <2>3
      <3> HIDE DEF x, after
      <3> QED
        BY <1>1, <2>2, <3>1, <3>2
    <2> HIDE DEF after, Cohort
    <2>6. Len(after) = n
      <3>1. 1..Len(after) = 1..n /\ Len(after) \in Nat
        BY <2>4, <2>5, CohortIs
      <3> QED
        BY <1>1, <3>1
    <2>7. /\ RowsOf(after, s) = SumOver(g, 1..n)
          /\ \A k \in 1..n :
                g[k] \in Int /\ g[k] = IF after[k].second = s THEN after[k].rows ELSE 0
      BY <2>4, <2>6, RowsOfIs
    <2> HIDE DEF f, g, n
    <2>8. \A k \in 1..n \ {place} : g[k] = f[k]
      BY <1>2, <2>5, <2>7
    <2>9. SumOver(g, 1..n) = SumOver(f, 1..n) - f[place] + g[place]
      <3> DEFINE places == 1..n
      <3>1. \A k \in places : f[k] \in Int /\ g[k] \in Int
        BY <1>2, <2>7
      <3>2. IsFiniteSet(places) /\ place \in places /\ \A k \in places \ {place} : g[k] = f[k]
        BY <1>1, <2>2, <2>8
      <3> HIDE DEF places
      <3>3. SumOver(g, places) = SumOver(f, places) - f[place] + g[place]
        BY ONLY <3>1, <3>2, SumUpdate
      <3> QED
        BY ONLY <3>3 DEF places
    <2>10. g[place] = f[place] + (IF q = s THEN 1 ELSE 0) /\ f[place] \in Int
      <3>1. cohorts[place].rows \in Nat
        BY <1>1, <2>2 DEF Cohort
      <3> QED
        BY <1>2, <2>2, <2>5, <2>7, <3>1
    <2> QED
      BY <1>3, <2>7, <2>9, <2>10 DEF after
  <1> QED
    BY <1>4, <1>5

(* The first cohort's rows and those of the others.                         *)
LEMMA RowsOfTail ==
    ASSUME NEW cohorts \in Cohorts, cohorts # <<>>, NEW s
    PROVE  /\ RowsOf(cohorts, s) =
                (IF Head(cohorts).second = s THEN Head(cohorts).rows ELSE 0)
                + RowsOf(Tail(cohorts), s)
           /\ RowsOf(Tail(cohorts), s) \in Int
  <1> DEFINE Cohort == [second : Seconds, rows : Nat \ {0}]
             rest == Tail(cohorts)
             n == Len(rest)
             f == Term(cohorts, s)
             g == Term(rest, s)
  <1>1. cohorts \in Seq(Cohort) /\ rest \in Cohorts
    BY CohortsTail DEF Cohorts
  <1>2. /\ n \in Nat /\ Len(cohorts) = n + 1 /\ Head(cohorts) = cohorts[1]
        /\ \A k \in 1..n : rest[k] = cohorts[k + 1]
    <2> HIDE DEF Cohort
    <2> QED
      BY <1>1
  <1>3. /\ RowsOf(cohorts, s) = SumOver(f, 1..n+1)
        /\ \A k \in 1..n+1 :
              f[k] \in Int /\ f[k] = IF cohorts[k].second = s THEN cohorts[k].rows ELSE 0
    BY <1>2, RowsOfIs
  <1>4. /\ RowsOf(rest, s) = SumOver(g, 1..n) /\ RowsOf(rest, s) \in Int
        /\ \A k \in 1..n : g[k] = IF rest[k].second = s THEN rest[k].rows ELSE 0
    BY <1>1, RowsOfIs
  <1> HIDE DEF f, g, n, rest, Cohort
  <1>5. \A k \in 1..n : g[k] = f[k + 1]
    <2> TAKE k \in 1..n
    <2>1. k + 1 \in 1..n+1
      BY <1>2
    <2> QED
      BY <1>2, <1>3, <1>4, <2>1
  <1>6. SumOver(f, 1..n+1) = f[1] + SumOver(g, 1..n)
    BY <1>2, <1>3, <1>5, SumOfTail
  <1>7. f[1] = IF Head(cohorts).second = s THEN Head(cohorts).rows ELSE 0
    <2>1. 1 \in 1..n+1
      BY <1>2
    <2> QED
      BY <1>2, <1>3, <2>1
  <1> QED
    BY <1>3, <1>4, <1>6, <1>7 DEF rest

-----------------------------------------------------------------------------
(* Where the rows of a second are                                           *)

PacketHas(p, s) == IF p.second = s THEN p.rows ELSE 0
PacketsOf(q, s) == SumOver([w \in Workers |-> PacketHas(q[w], s)], Workers)
PendingOf(p, s) == SumOver([w \in Workers |-> RowsOf(p[w], s)], Workers)
BatchesOf(b, s) == SumOver([n \in DOMAIN b |-> RowsOf(b[n], s)], DOMAIN b)

HeldBy(t, s) ==
    RowsOf(t.cohorts, s)
        + (IF t.at \notin {"idle", "insert", "next"} /\ t.counter # "expected" /\ t.second = s
           THEN t.rows ELSE 0)

HeldOf(th, s) == SumOver([t \in Threads |-> HeldBy(th[t], s)], Threads)

(* The sums of the property, before and after a step.                       *)
LEMMA SumsOfRows ==
    \A s : /\ InPackets(s) = PacketsOf(packet, s) /\ InPackets(s)' = PacketsOf(packet', s)
           /\ InPending(s) = PendingOf(pending, s) /\ InPending(s)' = PendingOf(pending', s)
           /\ InBatches(s) = BatchesOf(batches, s) /\ InBatches(s)' = BatchesOf(batches', s)
           /\ InThreads(s) = HeldOf(thread, s) /\ InThreads(s)' = HeldOf(thread', s)
  BY DEF InPackets, InPending, InBatches, InThreads, PacketsOf, PacketHas, PendingOf, BatchesOf,
         HeldOf, HeldBy, RowsHeld, Recording

(* The packet of one worker changes.                                        *)
LEMMA PacketsChanges ==
    ASSUME NEW q \in [Workers -> Packets], NEW after \in [Workers -> Packets],
           NEW w \in Workers, \A v \in Workers \ {w} : after[v] = q[v], NEW s
    PROVE  /\ PacketsOf(after, s) =
                 PacketsOf(q, s) - PacketHas(q[w], s) + PacketHas(after[w], s)
           /\ PacketsOf(q, s) \in Int
           /\ PacketHas(q[w], s) \in Int /\ PacketHas(after[w], s) \in Int
  <1> DEFINE f == [v \in Workers |-> PacketHas(q[v], s)]
             g == [v \in Workers |-> PacketHas(after[v], s)]
  <1>1. \A p \in Packets : PacketHas(p, s) \in Int
    BY DEF Packets, PacketHas
  <1>2. /\ \A v \in Workers : f[v] = PacketHas(q[v], s) /\ f[v] \in Int
        /\ \A v \in Workers : g[v] = PacketHas(after[v], s) /\ g[v] \in Int
    BY <1>1
  <1>3. PacketsOf(q, s) = SumOver(f, Workers) /\ PacketsOf(after, s) = SumOver(g, Workers)
    BY DEF PacketsOf
  <1> HIDE DEF f, g
  <1>4. \A v \in Workers \ {w} : g[v] = f[v]
    BY <1>2
  <1>5. IsFiniteSet(Workers) /\ \A v \in Workers : f[v] \in Int /\ g[v] \in Int
    BY <1>2, CohortAssumption
  <1>6. SumOver(g, Workers) = SumOver(f, Workers) - f[w] + g[w] /\ SumOver(f, Workers) \in Int
    BY ONLY w \in Workers, <1>4, <1>5, SumUpdate, SumType
  <1> QED
    BY <1>2, <1>3, <1>6

(* The batch that one packet worker fills changes.                          *)
LEMMA PendingChanges ==
    ASSUME NEW p \in [Workers -> Cohorts], NEW after \in [Workers -> Cohorts],
           NEW w \in Workers, \A v \in Workers \ {w} : after[v] = p[v], NEW s
    PROVE  /\ PendingOf(after, s) = PendingOf(p, s) - RowsOf(p[w], s) + RowsOf(after[w], s)
           /\ PendingOf(p, s) \in Int
  <1> DEFINE f == [v \in Workers |-> RowsOf(p[v], s)]
             g == [v \in Workers |-> RowsOf(after[v], s)]
  <1>1. /\ \A v \in Workers : f[v] = RowsOf(p[v], s) /\ f[v] \in Int
        /\ \A v \in Workers : g[v] = RowsOf(after[v], s) /\ g[v] \in Int
    BY RowsOfIs
  <1>2. PendingOf(p, s) = SumOver(f, Workers) /\ PendingOf(after, s) = SumOver(g, Workers)
    BY DEF PendingOf
  <1> HIDE DEF f, g
  <1>3. \A v \in Workers \ {w} : g[v] = f[v]
    BY <1>1
  <1>4. IsFiniteSet(Workers) /\ \A v \in Workers : f[v] \in Int /\ g[v] \in Int
    BY <1>1, CohortAssumption
  <1>5. SumOver(g, Workers) = SumOver(f, Workers) - f[w] + g[w] /\ SumOver(f, Workers) \in Int
    BY ONLY w \in Workers, <1>3, <1>4, SumUpdate, SumType
  <1> QED
    BY <1>1, <1>2, <1>5

(* What one goroutine holds changes.                                        *)
LEMMA HeldChanges ==
    ASSUME NEW th \in [Threads -> ThreadState], NEW after \in [Threads -> ThreadState],
           NEW i \in Threads, NEW s,
           \A j \in Threads \ {i} : HeldBy(after[j], s) = HeldBy(th[j], s)
    PROVE  /\ HeldOf(after, s) = HeldOf(th, s) - HeldBy(th[i], s) + HeldBy(after[i], s)
           /\ HeldOf(th, s) \in Int /\ HeldBy(th[i], s) \in Int /\ HeldBy(after[i], s) \in Int
  <1> DEFINE f == [j \in Threads |-> HeldBy(th[j], s)]
             g == [j \in Threads |-> HeldBy(after[j], s)]
  <1>1. \A t \in ThreadState : HeldBy(t, s) \in Int
    <2> TAKE t \in ThreadState
    <2>1. t.cohorts \in Cohorts /\ t.rows \in Nat
      BY DEF ThreadState
    <2>2. RowsOf(t.cohorts, s) \in Int
      BY <2>1, RowsOfIs
    <2> QED
      BY <2>1, <2>2 DEF HeldBy
  <1>2. /\ \A j \in Threads : f[j] = HeldBy(th[j], s) /\ f[j] \in Int
        /\ \A j \in Threads : g[j] = HeldBy(after[j], s) /\ g[j] \in Int
    BY <1>1
  <1>3. HeldOf(th, s) = SumOver(f, Threads) /\ HeldOf(after, s) = SumOver(g, Threads)
    BY DEF HeldOf
  <1> HIDE DEF f, g
  <1>4. \A j \in Threads \ {i} : g[j] = f[j]
    BY <1>2
  <1>5. IsFiniteSet(Threads) /\ \A j \in Threads : f[j] \in Int /\ g[j] \in Int
    BY <1>2, KindsOfThread
  <1>6. SumOver(g, Threads) = SumOver(f, Threads) - f[i] + g[i]
    BY ONLY i \in Threads, <1>4, <1>5, SumUpdate
  <1>7. SumOver(f, Threads) \in Int
    BY ONLY <1>5, SumType
  <1> QED
    BY <1>2, <1>3, <1>6, <1>7

(* The goroutines hold the same rows if each does.                          *)
LEMMA HeldSame ==
    ASSUME NEW th \in [Threads -> ThreadState], NEW after, NEW s,
           \A i \in Threads : HeldBy(after[i], s) = HeldBy(th[i], s)
    PROVE  HeldOf(after, s) = HeldOf(th, s)
  <1>1. [i \in Threads |-> HeldBy(after[i], s)] = [i \in Threads |-> HeldBy(th[i], s)]
    OBVIOUS
  <1> QED
    BY <1>1 DEF HeldOf

(* The rows of the batches handed over, with one more behind them.          *)
LEMMA BatchAppended ==
    ASSUME NEW b \in Seq(Cohorts), NEW cohorts \in Cohorts, NEW s
    PROVE  /\ BatchesOf(Append(b, cohorts), s) = BatchesOf(b, s) + RowsOf(cohorts, s)
           /\ BatchesOf(b, s) \in Int
  <1> DEFINE n == Len(b)
             after == Append(b, cohorts)
             f == [k \in DOMAIN after |-> RowsOf(after[k], s)]
             g == [k \in DOMAIN b |-> RowsOf(b[k], s)]
  <1>1. /\ n \in Nat /\ DOMAIN b = 1..n /\ DOMAIN after = 1..n+1
        /\ \A k \in 1..n : b[k] \in Cohorts /\ after[k] = b[k] /\ k \in 1..n+1
        /\ \A k \in 1..n+1 : after[k] \in Cohorts
        /\ after[n + 1] = cohorts /\ n + 1 \in 1..n+1
    OBVIOUS
  <1>2. /\ \A k \in 1..n+1 : f[k] = RowsOf(after[k], s) /\ f[k] \in Int
        /\ \A k \in 1..n : g[k] = RowsOf(b[k], s) /\ g[k] \in Int
    <2> HIDE DEF after, n
    <2> QED
      BY <1>1, RowsOfIs
  <1>3. BatchesOf(after, s) = SumOver(f, 1..n+1) /\ BatchesOf(b, s) = SumOver(g, 1..n)
    <2> HIDE DEF after, n
    <2> QED
      BY <1>1 DEF BatchesOf
  <1> HIDE DEF f, g, n, after
  <1>4. \A k \in 1..n : g[k] = f[k]
    BY <1>1, <1>2
  <1>5. SumOver(f, 1..n+1) = SumOver(g, 1..n) + f[n + 1]
    <2>1. \A k \in 1..n+1 : f[k] \in Int
      BY <1>2
    <2> QED
      BY ONLY <1>1, <1>4, <2>1, SumOfAppend
  <1>6. SumOver(g, 1..n) \in Int
    <2>1. n \in Nat
      BY <1>1
    <2>2. IsFiniteSet(1..n)
      BY ONLY <2>1, FS_Interval
    <2>3. \A k \in 1..n : g[k] \in Int
      BY <1>2
    <2> QED
      BY ONLY <2>2, <2>3, SumType
  <1> QED
    BY <1>1, <1>2, <1>3, <1>5, <1>6 DEF after

(* The rows of the oldest batch and of those behind it.                     *)
LEMMA BatchTaken ==
    ASSUME NEW b \in Seq(Cohorts), b # <<>>, NEW s
    PROVE  /\ BatchesOf(b, s) = RowsOf(Head(b), s) + BatchesOf(Tail(b), s)
           /\ BatchesOf(Tail(b), s) \in Int
  <1> DEFINE rest == Tail(b)
             n == Len(rest)
             f == [k \in DOMAIN b |-> RowsOf(b[k], s)]
             g == [k \in DOMAIN rest |-> RowsOf(rest[k], s)]
  <1>1. /\ n \in Nat /\ DOMAIN rest = 1..n /\ DOMAIN b = 1..n+1
        /\ \A k \in 1..n+1 : b[k] \in Cohorts
        /\ \A k \in 1..n : rest[k] = b[k + 1] /\ k + 1 \in 1..n+1
        /\ Head(b) = b[1] /\ 1 \in 1..n+1
    OBVIOUS
  <1>2. /\ \A k \in 1..n+1 : f[k] = RowsOf(b[k], s) /\ f[k] \in Int
        /\ \A k \in 1..n : g[k] = RowsOf(rest[k], s) /\ g[k] \in Int
    <2> HIDE DEF rest, n
    <2> QED
      BY <1>1, RowsOfIs
  <1>3. BatchesOf(b, s) = SumOver(f, 1..n+1) /\ BatchesOf(rest, s) = SumOver(g, 1..n)
    <2> HIDE DEF rest, n
    <2> QED
      BY <1>1 DEF BatchesOf
  <1> HIDE DEF f, g, n, rest
  <1>4. \A k \in 1..n : g[k] = f[k + 1]
    BY <1>1, <1>2
  <1>5. SumOver(f, 1..n+1) = f[1] + SumOver(g, 1..n)
    <2>1. \A k \in 1..n+1 : f[k] \in Int
      BY <1>2
    <2> QED
      BY ONLY <1>1, <1>4, <2>1, SumOfTail
  <1>6. SumOver(g, 1..n) \in Int
    <2>1. n \in Nat
      BY <1>1
    <2>2. IsFiniteSet(1..n)
      BY ONLY <2>1, FS_Interval
    <2>3. \A k \in 1..n : g[k] \in Int
      BY <1>2
    <2> QED
      BY ONLY <2>2, <2>3, SumType
  <1> QED
    BY <1>1, <1>2, <1>3, <1>5, <1>6 DEF rest

(* The sums are integers.                                                   *)
LEMMA PacketsType ==
    ASSUME NEW q \in [Workers -> Packets], NEW s
    PROVE  PacketsOf(q, s) \in Int
  <1> DEFINE f == [v \in Workers |-> PacketHas(q[v], s)]
  <1>1. \A v \in Workers : f[v] \in Int
    BY DEF Packets, PacketHas
  <1>2. PacketsOf(q, s) = SumOver(f, Workers) /\ IsFiniteSet(Workers)
    BY CohortAssumption DEF PacketsOf
  <1> HIDE DEF f
  <1> QED
    BY <1>1, <1>2, SumType

LEMMA PendingType ==
    ASSUME NEW p \in [Workers -> Cohorts], NEW s
    PROVE  PendingOf(p, s) \in Int
  <1> DEFINE f == [v \in Workers |-> RowsOf(p[v], s)]
  <1>1. \A v \in Workers : f[v] \in Int
    BY RowsOfIs
  <1>2. PendingOf(p, s) = SumOver(f, Workers) /\ IsFiniteSet(Workers)
    BY CohortAssumption DEF PendingOf
  <1> HIDE DEF f
  <1> QED
    BY <1>1, <1>2, SumType

LEMMA HeldType ==
    ASSUME NEW th \in [Threads -> ThreadState], NEW s
    PROVE  HeldOf(th, s) \in Int
  <1> DEFINE f == [j \in Threads |-> HeldBy(th[j], s)]
  <1>1. ASSUME NEW j \in Threads PROVE HeldBy(th[j], s) \in Int
    <2>1. th[j].cohorts \in Cohorts /\ th[j].rows \in Nat
      BY DEF ThreadState
    <2>2. RowsOf(th[j].cohorts, s) \in Int
      BY <2>1, RowsOfIs
    <2> QED
      BY <2>1, <2>2 DEF HeldBy
  <1>2. \A j \in Threads : f[j] \in Int
    BY <1>1
  <1>3. HeldOf(th, s) = SumOver(f, Threads) /\ IsFiniteSet(Threads)
    BY KindsOfThread DEF HeldOf
  <1> HIDE DEF f
  <1> QED
    BY <1>2, <1>3, SumType

LEMMA BatchesType ==
    ASSUME NEW b \in Seq(Cohorts), NEW s
    PROVE  BatchesOf(b, s) \in Int
  BY RowsOfEmpty, BatchAppended

-----------------------------------------------------------------------------
(* What the goroutines hold of the rows                                     *)

(* A goroutine read its clock when all of its cohorts were past, leaves no  *)
(* cohort behind when it is done, and has none while it records expected    *)
(* rows.                                                                    *)
ThreadRows(tr, clock) ==
    /\ tr.clock <= clock
    /\ tr.at # "insert" => Reached(tr.cohorts, tr.clock)
    /\ tr.at # "insert" /\ tr.counter = "expected" => tr.cohorts = <<>>
    /\ tr.at = "next" => tr.counter # "expected"
    /\ tr.at = "idle" => tr.cohorts = <<>>

(* Its packet is empty while a packet worker records the next one.          *)
PacketEmpty(tr, p) ==
    tr.at \notin {"idle", "insert", "next"} /\ tr.counter = "expected" => p.rows = 0

RowsShape ==
    /\ \A t \in Threads : ThreadRows(thread[t], now)
    /\ \A w \in Workers : PacketEmpty(thread[w], packet[w])

OnTheWay(q, p, b, th, s) ==
    PacketsOf(q, s) + PendingOf(p, s) + BatchesOf(b, s) + HeldOf(th, s)

Unsettled(counts) ==
    counts["expected"] - counts["inserted"] - counts["spooled"] - counts["spoolFailed"]

Balanced(rec, q, p, b, th, s) == Unsettled(rec[s]) = OnTheWay(q, p, b, th, s)

(* The property, before and after a step.                                   *)
LEMMA KeepsRowsIs ==
    /\ CohortsKeepRows <=>
          \A s \in Retained : Balanced(recorded, packet, pending, batches, thread, s)
    /\ CohortsKeepRows' <=>
          \A s \in Retained' : Balanced(recorded', packet', pending', batches', thread', s)
  BY SumsOfRows DEF CohortsKeepRows, Balanced, Unsettled, OnTheWay, Unfinished

(* A step of one goroutine leaves the shape of the others.                  *)
LEMMA RowsShapeMoves ==
    ASSUME RowsShape, NEW t \in Threads, UNCHANGED now,
           \A u \in Threads \ {t} : thread'[u] = thread[u],
           \A w \in Workers \ {t} : packet'[w] = packet[w],
           ThreadRows(thread'[t], now),
           t \in Workers => PacketEmpty(thread'[t], packet'[t])
    PROVE  RowsShape'
  <1>1. ASSUME NEW u \in Threads PROVE ThreadRows(thread'[u], now)
    BY DEF RowsShape
  <1>2. ASSUME NEW w \in Workers PROVE PacketEmpty(thread'[w], packet'[w])
    BY KindsOfThread DEF RowsShape
  <1>3. (\A u \in Threads : ThreadRows(thread[u], now))'
           <=> \A u \in Threads : ThreadRows(thread'[u], now')
    BY DEF ThreadRows, Reached
  <1>4. (\A w \in Workers : PacketEmpty(thread[w], packet[w]))'
           <=> \A w \in Workers : PacketEmpty(thread'[w], packet'[w])
    BY DEF PacketEmpty
  <1> QED
    BY <1>1, <1>2, <1>3, <1>4 DEF RowsShape

(* The sums are integers, before and after.                                 *)
LEMMA SumsAreInts ==
    ASSUME TypeOK, NEW s
    PROVE  /\ PacketsOf(packet, s) \in Int /\ PendingOf(pending, s) \in Int
           /\ BatchesOf(batches, s) \in Int /\ HeldOf(thread, s) \in Int
           /\ \A t \in Threads : HeldBy(thread[t], s) \in Int
  <1>1. /\ packet \in [Workers -> Packets] /\ pending \in [Workers -> Cohorts]
        /\ batches \in Seq(Cohorts) /\ thread \in [Threads -> ThreadState]
    BY DEF TypeOK
  <1>2. \A t \in Threads : HeldBy(thread[t], s) \in Int
    BY <1>1, HeldChanges
  <1> QED
    BY <1>1, <1>2, PacketsType, PendingType, BatchesType, HeldType

(* A step after which the goroutine still holds the same rows.              *)
LEMMA RowsStay ==
    ASSUME IInv, CohortsKeepRows, NEW t \in Threads, OnlyMoves(t),
           UNCHANGED <<now, batching, recorded>>,
           \A s \in Retained : HeldBy(thread'[t], s) = HeldBy(thread[t], s)
    PROVE  CohortsKeepRows'
  <1>1. Retained' = Retained /\ UNCHANGED <<packet, pending, batches>>
    BY DEF Retained, batching
  <1>2. thread \in [Threads -> ThreadState]
    BY DEF IInv, TypeOK
  <1>3. ASSUME NEW s \in Retained
        PROVE  HeldOf(thread', s) = HeldOf(thread, s)
    <2>1. \A u \in Threads : HeldBy(thread'[u], s) = HeldBy(thread[u], s)
      BY DEF OnlyMoves
    <2> QED
      BY <1>2, <2>1, HeldSame
  <1>4. \A s \in Retained : Balanced(recorded, packet, pending, batches, thread, s)
    BY KeepsRowsIs
  <1>5. \A s \in Retained : Balanced(recorded', packet', pending', batches', thread', s)
    BY <1>1, <1>3, <1>4 DEF Balanced, OnTheWay
  <1> QED
    BY <1>1, <1>5, KeepsRowsIs

(* What the goroutine holds between its records: the rows of its cohorts.   *)
LEMMA HeldByIs ==
    ASSUME NEW tr \in ThreadState, NEW s
    PROVE  /\ RowsOf(tr.cohorts, s) \in Int
           /\ tr.at \in {"idle", "insert", "next"} \/ tr.counter = "expected" =>
                 HeldBy(tr, s) = RowsOf(tr.cohorts, s)
           /\ tr.at \notin {"idle", "insert", "next"} /\ tr.counter # "expected" =>
                 HeldBy(tr, s) = RowsOf(tr.cohorts, s)
                                    + (IF tr.second = s THEN tr.rows ELSE 0)
  <1>1. tr.cohorts \in Cohorts
    BY DEF ThreadState
  <1>2. RowsOf(tr.cohorts, s) \in Int
    BY <1>1, RowsOfIs
  <1> QED
    BY <1>2 DEF HeldBy

(* The goroutines at a bucket.                                              *)
LEMMA BucketStepKeepsRows ==
    ASSUME IInv, RowsShape, CohortsKeepRows, NEW t \in Threads,
           LoadSecond(t) \/ LockBucket(t) \/ ClearCounter(t) \/ StoreSecond(t)
    PROVE  RowsShape' /\ CohortsKeepRows'
  <1>1. thread[t].at \in {"load", "lock", "clear", "store"}
    BY DEF LoadSecond, LockBucket, ClearCounter, StoreSecond
  <1>2. UNCHANGED <<now, batching, recorded>> /\ UNCHANGED packet
    BY DEF LoadSecond, LockBucket, ClearCounter, StoreSecond, bucketUnchanged, batching
  <1>3. OnlyMoves(t) /\ SameLocals(t) /\ thread'[t].at \in {"lock", "clear", "store", "add"}
    <2>1. ASSUME NEW place \in {"lock", "clear", "store", "add"}, Goto(t, place)
          PROVE  OnlyMoves(t) /\ SameLocals(t) /\ thread'[t].at = place
      <3>1. place \in ThreadPlaces
        BY DEF ThreadPlaces
      <3> QED
        BY <2>1, <3>1, Goes DEF IInv
    <2>2. ASSUME NEW place \in {"clear", "store"}, NEW left \in Seq(Counters),
                 thread' = [thread EXCEPT ![t].left = left, ![t].at = place]
          PROVE  OnlyMoves(t) /\ SameLocals(t) /\ thread'[t].at = place
      <3>1. thread' = [thread EXCEPT ![t] = [thread[t] EXCEPT !.at = place, !.left = left]]
        BY <2>2, ThreadTypes DEF IInv, ThreadState
      <3>2. place \in ThreadPlaces
        BY DEF ThreadPlaces
      <3> QED
        BY <3>1, <3>2, GoesClearing DEF IInv
    <2>3. CASE LoadSecond(t)
      BY <2>1, <2>3 DEF LoadSecond
    <2>4. CASE LockBucket(t)
      <3>1. CASE Current(t)
        BY <2>1, <2>4, <3>1 DEF LockBucket
      <3>2. CASE ~Current(t)
        <4>1. thread' = [thread EXCEPT ![t].left = ReadOrder, ![t].at = "clear"]
          BY <2>4, <3>2, RemainingAre DEF LockBucket, Clear, IInv, TypeOK
        <4>2. ReadOrder \in Seq(Counters)
          BY RemainingAre
        <4> QED
          BY <2>2, <4>1, <4>2
      <3> QED
        BY <3>1, <3>2
    <2>5. CASE ClearCounter(t)
      <3>1. Tail(thread[t].left) \in Seq(Counters)
        <4>1. thread[t].left \in Remaining
          BY <2>5 DEF ClearCounter, IInv, ThreadShape
        <4> QED
          BY <4>1, RemainingAre
      <3> DEFINE left == Tail(thread[t].left)
                 place == IF Len(thread[t].left) = 1 THEN "store" ELSE "clear"
      <3>2. thread' = [thread EXCEPT ![t].left = left, ![t].at = place]
        BY <2>5 DEF ClearCounter
      <3>3. place \in {"clear", "store"}
        OBVIOUS
      <3> HIDE DEF left, place
      <3> QED
        BY <2>2, <3>1, <3>2, <3>3 DEF left
    <2>6. CASE StoreSecond(t)
      BY <2>1, <2>6 DEF StoreSecond
    <2> QED
      BY <2>3, <2>4, <2>5, <2>6
  <1>4. RowsShape'
    <2>1. ThreadRows(thread[t], now)
      BY DEF RowsShape
    <2>2. ThreadRows(thread'[t], now)
      BY <1>1, <1>3, <2>1 DEF ThreadRows, SameLocals, Reached
    <2>3. t \in Workers => PacketEmpty(thread'[t], packet'[t])
      BY <1>1, <1>2, <1>3 DEF RowsShape, PacketEmpty, SameLocals
    <2> QED
      BY <1>2, <1>3, <2>2, <2>3, RowsShapeMoves DEF OnlyMoves
  <1>5. \A s : HeldBy(thread'[t], s) = HeldBy(thread[t], s)
    BY <1>1, <1>3 DEF HeldBy, SameLocals
  <1> QED
    BY <1>2, <1>3, <1>4, <1>5, RowsStay

(* A packet worker has the rows of a packet to record as expected.          *)
LEMMA ParseKeepsRows ==
    ASSUME IInv, RowsShape, CohortsKeepRows,
           NEW w \in Workers, NEW s \in Seconds, NEW n \in PacketRows, Parse(w, s, n)
    PROVE  RowsShape' /\ CohortsKeepRows'
  <1> DEFINE after == [IdleThread EXCEPT !.at = "load", !.second = s, !.rows = n]
  <1>1. /\ w \in Threads /\ thread \in [Threads -> ThreadState]
        /\ thread[w].at = "idle" /\ packet[w].rows = 0
        /\ UNCHANGED <<now, batching, recorded>> /\ UNCHANGED packet /\ n \in Nat
    BY KindsOfThread, CohortAssumption DEF Parse, IInv, TypeOK, batching
  <1>2. /\ after \in ThreadState /\ after.at = "load" /\ after.cohorts = <<>>
        /\ after.counter = "expected" /\ after.clock = 0
    BY <1>1, IdleType DEF ThreadState
  <1>3. thread' = [thread EXCEPT ![w] = after]
    BY DEF Parse
  <1> HIDE DEF after
  <1>4. thread'[w] = after /\ OnlyMoves(w)
    BY <1>1, <1>2, <1>3 DEF OnlyMoves
  <1>5. RowsShape'
    <2>1. ThreadRows(after, now)
      BY <1>2, TimeTypes DEF ThreadRows, Reached, IInv
    <2> QED
      BY <1>1, <1>4, <2>1, RowsShapeMoves DEF OnlyMoves, PacketEmpty
  <1>6. \A s2 : HeldBy(thread'[w], s2) = HeldBy(thread[w], s2)
    <2>1. thread[w].cohorts = <<>> /\ thread[w] \in ThreadState
      BY <1>1 DEF RowsShape, ThreadRows
    <2> QED
      BY <1>1, <1>2, <1>4, <2>1, HeldByIs
  <1> QED
    BY <1>1, <1>4, <1>5, <1>6, RowsStay

(* The batch is settled one way or the other: its cohorts are the ones to   *)
(* record.                                                                  *)
LEMMA SettleKeepsRows ==
    ASSUME IInv, RowsShape, CohortsKeepRows, NEW i \in Inserters, Settle(i)
    PROVE  RowsShape' /\ CohortsKeepRows'
  <1>1. /\ i \in Threads /\ i \notin Workers /\ thread[i].at = "insert"
        /\ thread \in [Threads -> ThreadState] /\ thread[i] \in ThreadState
        /\ UNCHANGED <<now, batching, recorded>> /\ UNCHANGED packet /\ now \in Seconds
    BY KindsOfThread, TimeTypes DEF Settle, IInv, TypeOK, batching
  <1>2. PICK outcome \in Outcomes :
          thread' = [thread EXCEPT ![i].at = "next", ![i].counter = outcome, ![i].clock = now]
    BY DEF Settle
  <1> DEFINE after == [thread[i] EXCEPT !.at = "next", !.counter = outcome, !.clock = now]
  <1>3. /\ after \in ThreadState /\ after.at = "next" /\ after.cohorts = thread[i].cohorts
        /\ after.counter = outcome /\ after.clock = now
    BY <1>1 DEF ThreadState, Counters
  <1>4. thread' = [thread EXCEPT ![i] = after]
    BY <1>1, <1>2
  <1> HIDE DEF after
  <1>5. thread'[i] = after /\ OnlyMoves(i)
    BY <1>1, <1>3, <1>4 DEF OnlyMoves
  <1>6. RowsShape'
    <2>1. outcome # "expected"
      BY DEF Outcomes
    <2>2. ThreadRows(after, now)
      BY <1>1, <1>3, <2>1, PastCohorts, TimeTypes DEF ThreadRows, IInv
    <2> QED
      BY <1>1, <1>5, <2>2, RowsShapeMoves DEF OnlyMoves
  <1>7. \A s : HeldBy(thread'[i], s) = HeldBy(thread[i], s)
    BY <1>1, <1>3, <1>5, HeldByIs
  <1> QED
    BY <1>1, <1>5, <1>6, <1>7, RowsStay

(* A second that clock's isRetained refuses is not retained now.            *)
LEMMA RefusedIsGone ==
    ASSUME TypeOK, NEW q \in Seconds, NEW clock \in Seconds, q <= clock, clock <= now,
           ~isRetained(q, clock)
    PROVE  q \notin Retained
  <1>1. q \in Nat /\ clock \in Nat /\ now \in Nat
    BY TimeTypes
  <1>2. q <= clock - Retention
    BY <1>1, Constants DEF isRetained
  <1> QED
    BY <1>1, <1>2, Constants DEF Retained

(* A goroutine takes its next cohort: it holds the same rows of the seconds *)
(* that are retained.                                                       *)
LEMMA NextCohortKeepsRows ==
    ASSUME IInv, RowsShape, CohortsKeepRows, NEW t \in Threads, NextCohort(t)
    PROVE  RowsShape' /\ CohortsKeepRows'
  <1> DEFINE cohorts == thread[t].cohorts
  <1>1. /\ thread[t].at = "next" /\ cohorts \in Cohorts
        /\ thread \in [Threads -> ThreadState] /\ thread[t] \in ThreadState
        /\ UNCHANGED <<now, batching, recorded>> /\ UNCHANGED packet
    BY ThreadTypes DEF NextCohort, IInv, TypeOK, batching
  <1>2. /\ thread[t].clock <= now /\ thread[t].clock \in Seconds
        /\ Reached(cohorts, thread[t].clock) /\ thread[t].counter # "expected"
    BY <1>1, ThreadTypes DEF RowsShape, ThreadRows, IInv
  <1>3. \A s : HeldBy(thread[t], s) = RowsOf(cohorts, s) /\ RowsOf(cohorts, s) \in Int
    BY <1>1, HeldByIs
  <1>4. ASSUME OnlyMoves(t), ThreadRows(thread'[t], now),
               t \in Workers => PacketEmpty(thread'[t], packet[t]),
               \A s \in Retained : HeldBy(thread'[t], s) = RowsOf(cohorts, s)
        PROVE  RowsShape' /\ CohortsKeepRows'
    <2>1. RowsShape'
      BY <1>1, <1>4, RowsShapeMoves DEF OnlyMoves
    <2>2. \A s \in Retained : HeldBy(thread'[t], s) = HeldBy(thread[t], s)
      BY <1>3, <1>4
    <2> QED
      BY <1>1, <1>4, <2>1, <2>2, RowsStay
  <1>5. CASE cohorts = <<>>
    <2>1. thread' = [thread EXCEPT ![t] = IdleThread]
      BY <1>5 DEF NextCohort
    <2>2. thread'[t] = IdleThread /\ OnlyMoves(t)
      BY <1>1, <2>1, IdleType DEF OnlyMoves
    <2>3. ThreadRows(IdleThread, now)
      BY IdleType, TimeTypes DEF ThreadRows, Reached, IInv
    <2>4. \A s : HeldBy(IdleThread, s) = RowsOf(cohorts, s)
      BY <1>5, IdleType, HeldByIs
    <2> QED
      BY <1>4, <2>2, <2>3, <2>4, IdleType DEF PacketEmpty
  <1>6. ASSUME cohorts # <<>>
        PROVE  /\ Tail(cohorts) \in Cohorts /\ Reached(Tail(cohorts), thread[t].clock)
               /\ Head(cohorts).second \in Seconds /\ Head(cohorts).rows \in Nat
               /\ Head(cohorts).second <= thread[t].clock
    BY <1>1, <1>2, <1>6, CohortsTail DEF Reached
  <1>7. CASE cohorts # <<>> /\ isRetained(Head(cohorts).second, thread[t].clock)
    <2> DEFINE after == [thread[t] EXCEPT !.at = "load", !.cohorts = Tail(cohorts),
                            !.second = Head(cohorts).second, !.rows = Head(cohorts).rows]
    <2>1. /\ after \in ThreadState /\ after.at = "load" /\ after.cohorts = Tail(cohorts)
          /\ after.second = Head(cohorts).second /\ after.rows = Head(cohorts).rows
          /\ after.clock = thread[t].clock /\ after.counter = thread[t].counter
      BY <1>1, <1>6, <1>7, ThreadTypes DEF ThreadState
    <2>2. thread' = [thread EXCEPT ![t] = after]
      BY <1>7 DEF NextCohort
    <2> HIDE DEF after
    <2>3. thread'[t] = after /\ OnlyMoves(t)
      BY <1>1, <2>1, <2>2 DEF OnlyMoves
    <2>4. ThreadRows(after, now)
      BY <1>2, <1>6, <1>7, <2>1 DEF ThreadRows
    <2>5. ASSUME NEW s
          PROVE  HeldBy(after, s) = RowsOf(cohorts, s)
      <3>1. /\ RowsOf(cohorts, s) = (IF Head(cohorts).second = s THEN Head(cohorts).rows ELSE 0)
                                    + RowsOf(Tail(cohorts), s)
            /\ RowsOf(Tail(cohorts), s) \in Int
        BY <1>1, <1>7, RowsOfTail
      <3>2. HeldBy(after, s) = RowsOf(Tail(cohorts), s)
                    + (IF Head(cohorts).second = s THEN Head(cohorts).rows ELSE 0)
        BY <1>2, <2>1, HeldByIs
      <3> HIDE DEF cohorts
      <3> QED
        BY <1>6, <1>7, <3>1, <3>2
    <2> QED
      BY <1>2, <1>4, <2>1, <2>3, <2>4, <2>5 DEF PacketEmpty
  <1>8. CASE cohorts # <<>> /\ ~isRetained(Head(cohorts).second, thread[t].clock)
    <2> DEFINE after == [thread[t] EXCEPT !.cohorts = Tail(cohorts)]
    <2>1. /\ after \in ThreadState /\ after.at = "next" /\ after.cohorts = Tail(cohorts)
          /\ after.clock = thread[t].clock /\ after.counter = thread[t].counter
      BY <1>1, <1>6, <1>8, ThreadTypes DEF ThreadState
    <2>2. thread' = [thread EXCEPT ![t] = after]
      BY <1>8 DEF NextCohort
    <2> HIDE DEF after
    <2>3. thread'[t] = after /\ OnlyMoves(t)
      BY <1>1, <2>1, <2>2 DEF OnlyMoves
    <2>4. ThreadRows(after, now)
      BY <1>2, <1>6, <1>8, <2>1 DEF ThreadRows
    <2>5. Head(cohorts).second \notin Retained
      BY <1>2, <1>6, <1>8, RefusedIsGone DEF IInv
    <2>6. ASSUME NEW s \in Retained
          PROVE  HeldBy(after, s) = RowsOf(cohorts, s)
      <3>1. /\ RowsOf(cohorts, s) = (IF Head(cohorts).second = s THEN Head(cohorts).rows ELSE 0)
                                    + RowsOf(Tail(cohorts), s)
            /\ RowsOf(Tail(cohorts), s) \in Int
        BY <1>1, <1>8, RowsOfTail
      <3>2. HeldBy(after, s) = RowsOf(Tail(cohorts), s)
        BY <2>1, HeldByIs
      <3>3. Head(cohorts).second # s
        BY <2>5
      <3> HIDE DEF cohorts
      <3> QED
        BY <3>1, <3>2, <3>3
    <2> QED
      BY <1>2, <1>4, <2>1, <2>3, <2>4, <2>6 DEF PacketEmpty
  <1> QED
    BY <1>5, <1>7, <1>8

(* What a packet worker has of a second: in its packet, in the batch it     *)
(* fills and in the cohorts it records itself.                              *)
Mine(p, cohorts, tr, s) == PacketHas(p, s) + RowsOf(cohorts, s) + HeldBy(tr, s)

(* The step of one packet worker changes the sums by what it has.           *)
LEMMA WorkerMoves ==
    ASSUME TypeOK, TypeOK', NEW w \in Workers,
           \A v \in Workers \ {w} : packet'[v] = packet[v] /\ pending'[v] = pending[v],
           \A u \in Threads \ {w} : thread'[u] = thread[u], NEW s
    PROVE  /\ OnTheWay(packet', pending', batches', thread', s) =
                 OnTheWay(packet, pending, batches, thread, s)
                 - Mine(packet[w], pending[w], thread[w], s)
                 + Mine(packet'[w], pending'[w], thread'[w], s)
                 - BatchesOf(batches, s) + BatchesOf(batches', s)
           /\ OnTheWay(packet, pending, batches, thread, s) \in Int
           /\ Mine(packet[w], pending[w], thread[w], s) \in Int
           /\ Mine(packet'[w], pending'[w], thread'[w], s) \in Int
           /\ BatchesOf(batches, s) \in Int /\ BatchesOf(batches', s) \in Int
  <1>1. /\ packet \in [Workers -> Packets] /\ packet' \in [Workers -> Packets]
        /\ pending \in [Workers -> Cohorts] /\ pending' \in [Workers -> Cohorts]
        /\ thread \in [Threads -> ThreadState] /\ thread' \in [Threads -> ThreadState]
        /\ batches \in Seq(Cohorts) /\ batches' \in Seq(Cohorts) /\ w \in Threads
    BY KindsOfThread DEF TypeOK
  <1>2. /\ PacketsOf(packet', s) = PacketsOf(packet, s) - PacketHas(packet[w], s)
                                   + PacketHas(packet'[w], s)
        /\ PacketsOf(packet, s) \in Int
        /\ PacketHas(packet[w], s) \in Int /\ PacketHas(packet'[w], s) \in Int
    BY <1>1, PacketsChanges
  <1>3. /\ PendingOf(pending', s) = PendingOf(pending, s) - RowsOf(pending[w], s)
                                    + RowsOf(pending'[w], s)
        /\ PendingOf(pending, s) \in Int
    BY <1>1, PendingChanges
  <1>4. RowsOf(pending[w], s) \in Int /\ RowsOf(pending'[w], s) \in Int
    BY <1>1, RowsOfIs
  <1>5. /\ HeldOf(thread', s) = HeldOf(thread, s) - HeldBy(thread[w], s)
                                + HeldBy(thread'[w], s)
        /\ HeldOf(thread, s) \in Int
        /\ HeldBy(thread[w], s) \in Int /\ HeldBy(thread'[w], s) \in Int
    <2>1. \A u \in Threads \ {w} : HeldBy(thread'[u], s) = HeldBy(thread[u], s)
      OBVIOUS
    <2> QED
      BY <1>1, <2>1, HeldChanges
  <1>6. BatchesOf(batches, s) \in Int /\ BatchesOf(batches', s) \in Int
    BY <1>1, BatchesType
  <1> QED
    BY ONLY <1>2, <1>3, <1>4, <1>5, <1>6 DEF OnTheWay, Mine

(* A row leaves the packet and joins a cohort of its second.                *)
LEMMA AppendRowKeepsRows ==
    ASSUME IInv, TypeOK', RowsShape, CohortsKeepRows, NEW w \in Workers, AppendRow(w)
    PROVE  RowsShape' /\ CohortsKeepRows'
  <1> DEFINE q == packet[w].second
             after == AddInsertCohort(pending[w], q)
             rest == WithoutRow(packet[w])
  <1>1. /\ w \in Threads /\ packet[w].rows > 0 /\ thread[w].at = "idle"
        /\ pending' = [pending EXCEPT ![w] = after] /\ packet' = [packet EXCEPT ![w] = rest]
        /\ UNCHANGED <<now, thread, batches, recorded>>
        /\ pending \in [Workers -> Cohorts] /\ packet \in [Workers -> Packets]
        /\ packet[w] \in Packets /\ pending[w] \in Cohorts /\ q \in Seconds
    BY KindsOfThread DEF AppendRow, IInv, TypeOK, Packets
  <1>2. \A s : /\ RowsOf(after, s) = RowsOf(pending[w], s) + (IF q = s THEN 1 ELSE 0)
               /\ RowsOf(pending[w], s) \in Int
    BY <1>1, RowsOfAdded, RowsOfIs
  <1>3. ASSUME NEW s \in Retained
        PROVE  /\ PacketHas(packet[w], s) = PacketHas(rest, s) + (IF q = s THEN 1 ELSE 0)
               /\ PacketHas(rest, s) \in Int
    <2>1. s # 0 /\ packet[w].rows \in Nat
      BY <1>1, RetainedAre, TimeTypes DEF IInv, Packets, Retained
    <2>2. CASE packet[w].rows = 1
      BY <1>1, <2>1, <2>2 DEF WithoutRow, NoRows, PacketHas
    <2>3. CASE packet[w].rows # 1
      <3>1. rest.second = q /\ rest.rows = packet[w].rows - 1
        BY <1>1, <2>3 DEF WithoutRow, Packets
      <3> HIDE DEF rest, q
      <3>2. PacketHas(rest, s) = IF q = s THEN packet[w].rows - 1 ELSE 0
        BY <3>1 DEF PacketHas
      <3>3. PacketHas(packet[w], s) = IF q = s THEN packet[w].rows ELSE 0
        BY DEF PacketHas, q
      <3> QED
        BY <2>1, <3>2, <3>3
    <2> QED
      BY <2>2, <2>3
  <1> HIDE DEF after, rest, q
  <1>4. /\ pending'[w] = after /\ packet'[w] = rest /\ thread'[w] = thread[w]
        /\ \A v \in Workers \ {w} : packet'[v] = packet[v] /\ pending'[v] = pending[v]
        /\ \A u \in Threads \ {w} : thread'[u] = thread[u]
    BY <1>1
  <1>5. RowsShape'
    <2>1. ThreadRows(thread'[w], now) /\ PacketEmpty(thread'[w], packet'[w])
      BY <1>1 DEF RowsShape, PacketEmpty
    <2> QED
      BY <1>1, <1>4, <2>1, RowsShapeMoves
  <1>6. Retained' = Retained
    BY <1>1 DEF Retained
  <1>7. ASSUME NEW s \in Retained
        PROVE  Balanced(recorded', packet', pending', batches', thread', s)
    <2>1. Mine(packet'[w], pending'[w], thread'[w], s) = Mine(packet[w], pending[w], thread[w], s)
      <3>1. HeldBy(thread[w], s) \in Int
        BY <1>1, SumsAreInts DEF IInv
      <3> QED
        BY <1>2, <1>3, <1>4, <3>1 DEF Mine
    <2>2. BatchesOf(batches', s) = BatchesOf(batches, s)
      BY <1>1
    <2>3. OnTheWay(packet', pending', batches', thread', s) =
             OnTheWay(packet, pending, batches, thread, s)
      <3>1. /\ OnTheWay(packet', pending', batches', thread', s) =
                 OnTheWay(packet, pending, batches, thread, s)
                 - Mine(packet[w], pending[w], thread[w], s)
                 + Mine(packet'[w], pending'[w], thread'[w], s)
                 - BatchesOf(batches, s) + BatchesOf(batches', s)
            /\ OnTheWay(packet, pending, batches, thread, s) \in Int
            /\ Mine(packet[w], pending[w], thread[w], s) \in Int
            /\ BatchesOf(batches, s) \in Int
        BY <1>4, WorkerMoves DEF IInv
      <3> QED
        BY ONLY <2>1, <2>2, <3>1
    <2> QED
      BY <1>1, <2>3, KeepsRowsIs DEF Balanced
  <1> QED
    BY <1>5, <1>6, <1>7, KeepsRowsIs

(* A batch is handed over with all its rows.                                *)
LEMMA HandOverKeepsRows ==
    ASSUME IInv, TypeOK', RowsShape, CohortsKeepRows, NEW w \in Workers, HandOver(w)
    PROVE  RowsShape' /\ CohortsKeepRows'
  <1>1. /\ pending[w] \in Cohorts /\ batches \in Seq(Cohorts) /\ w \in Threads
        /\ pending \in [Workers -> Cohorts] /\ thread[w].at = "idle"
        /\ batches' = Append(batches, pending[w])
        /\ pending' = [pending EXCEPT ![w] = <<>>]
        /\ UNCHANGED <<now, thread, packet, recorded>>
    BY KindsOfThread DEF HandOver, IInv, TypeOK
  <1>2. /\ pending'[w] = <<>> /\ packet'[w] = packet[w] /\ thread'[w] = thread[w]
        /\ \A v \in Workers \ {w} : packet'[v] = packet[v] /\ pending'[v] = pending[v]
        /\ \A u \in Threads \ {w} : thread'[u] = thread[u]
    BY <1>1
  <1>3. RowsShape'
    <2>1. ThreadRows(thread'[w], now) /\ PacketEmpty(thread'[w], packet'[w])
      BY <1>1 DEF RowsShape, PacketEmpty
    <2> QED
      BY <1>1, <1>2, <2>1, RowsShapeMoves
  <1>4. Retained' = Retained
    BY <1>1 DEF Retained
  <1>5. ASSUME NEW s \in Retained
        PROVE  Balanced(recorded', packet', pending', batches', thread', s)
    <2> DEFINE its == RowsOf(pending[w], s)
    <2>1. Mine(packet'[w], pending'[w], thread'[w], s) =
             Mine(packet[w], pending[w], thread[w], s) - its /\ its \in Int
      <3>1. /\ HeldBy(thread[w], s) \in Int /\ its \in Int /\ RowsOf(<<>>, s) = 0
            /\ PacketHas(packet[w], s) \in Int
        <4>1. HeldBy(thread[w], s) \in Int
          BY <1>1, SumsAreInts DEF IInv
        <4>2. its \in Int /\ RowsOf(<<>>, s) = 0
          BY <1>1, RowsOfIs, RowsOfEmpty
        <4>3. PacketHas(packet[w], s) \in Int
          BY DEF IInv, TypeOK, Packets, PacketHas
        <4> QED
          BY <4>1, <4>2, <4>3
      <3>2. Mine(packet'[w], pending'[w], thread'[w], s) =
               PacketHas(packet[w], s) + RowsOf(<<>>, s) + HeldBy(thread[w], s)
        BY <1>2 DEF Mine
      <3>3. Mine(packet[w], pending[w], thread[w], s) =
               PacketHas(packet[w], s) + its + HeldBy(thread[w], s)
        BY DEF Mine
      <3> QED
        BY ONLY <3>1, <3>2, <3>3
    <2>2. BatchesOf(batches', s) = BatchesOf(batches, s) + its
      BY <1>1, BatchAppended
    <2>3. OnTheWay(packet', pending', batches', thread', s) =
             OnTheWay(packet, pending, batches, thread, s)
      <3>1. /\ OnTheWay(packet', pending', batches', thread', s) =
                 OnTheWay(packet, pending, batches, thread, s)
                 - Mine(packet[w], pending[w], thread[w], s)
                 + Mine(packet'[w], pending'[w], thread'[w], s)
                 - BatchesOf(batches, s) + BatchesOf(batches', s)
            /\ OnTheWay(packet, pending, batches, thread, s) \in Int
            /\ Mine(packet[w], pending[w], thread[w], s) \in Int
            /\ BatchesOf(batches, s) \in Int
        BY <1>2, WorkerMoves DEF IInv
      <3> HIDE DEF its
      <3> QED
        BY ONLY <2>1, <2>2, <3>1
    <2> QED
      BY <1>1, <2>3, KeepsRowsIs DEF Balanced
  <1> QED
    BY <1>3, <1>4, <1>5, KeepsRowsIs

(* A packet worker takes the cohorts of the batch that it spools itself.    *)
LEMMA RefuseKeepsRows ==
    ASSUME IInv, TypeOK', RowsShape, CohortsKeepRows, NEW w \in Workers, Refuse(w)
    PROVE  RowsShape' /\ CohortsKeepRows'
  <1>1. /\ w \in Threads /\ pending[w] \in Cohorts /\ pending \in [Workers -> Cohorts]
        /\ thread[w].at = "idle" /\ thread \in [Threads -> ThreadState]
        /\ thread[w] \in ThreadState /\ now \in Seconds
        /\ pending' = [pending EXCEPT ![w] = <<>>]
        /\ UNCHANGED <<now, packet, batches, recorded>>
    BY KindsOfThread, TimeTypes DEF Refuse, IInv, TypeOK
  <1>2. PICK outcome \in {"spooled", "spoolFailed"} :
          thread' = [thread EXCEPT ![w] =
                      [IdleThread EXCEPT !.at = "next", !.counter = outcome,
                                         !.cohorts = pending[w], !.clock = now]]
    BY DEF Refuse
  <1> DEFINE after == [IdleThread EXCEPT !.at = "next", !.counter = outcome,
                                         !.cohorts = pending[w], !.clock = now]
  <1>3. /\ after \in ThreadState /\ after.at = "next" /\ after.cohorts = pending[w]
        /\ after.counter = outcome /\ after.clock = now
    BY <1>1, IdleType, CountersAre DEF ThreadState
  <1>4. thread' = [thread EXCEPT ![w] = after]
    BY <1>2
  <1> HIDE DEF after
  <1>5. /\ thread'[w] = after /\ pending'[w] = <<>> /\ packet'[w] = packet[w]
        /\ \A v \in Workers \ {w} : packet'[v] = packet[v] /\ pending'[v] = pending[v]
        /\ \A u \in Threads \ {w} : thread'[u] = thread[u]
    BY <1>1, <1>4
  <1>6. RowsShape'
    <2>1. ThreadRows(after, now)
      BY <1>1, <1>3, PastCohorts, TimeTypes DEF ThreadRows, IInv
    <2>2. PacketEmpty(after, packet'[w])
      BY <1>3 DEF PacketEmpty
    <2> QED
      BY <1>1, <1>5, <2>1, <2>2, RowsShapeMoves
  <1>7. Retained' = Retained
    BY <1>1 DEF Retained
  <1>8. ASSUME NEW s \in Retained
        PROVE  Balanced(recorded', packet', pending', batches', thread', s)
    <2> DEFINE its == RowsOf(pending[w], s)
    <2>1. Mine(packet'[w], pending'[w], thread'[w], s) = Mine(packet[w], pending[w], thread[w], s)
      <3>1. thread[w].cohorts = <<>>
        BY <1>1 DEF RowsShape, ThreadRows
      <3>2. HeldBy(thread[w], s) = 0 /\ RowsOf(<<>>, s) = 0
        BY <1>1, <3>1, HeldByIs, RowsOfEmpty
      <3>3. HeldBy(thread'[w], s) = its /\ its \in Int
        BY <1>1, <1>3, <1>5, HeldByIs
      <3>4. PacketHas(packet[w], s) \in Int
        BY DEF IInv, TypeOK, Packets, PacketHas
      <3>5. Mine(packet'[w], pending'[w], thread'[w], s) =
               PacketHas(packet[w], s) + RowsOf(<<>>, s) + HeldBy(thread'[w], s)
        BY <1>5 DEF Mine
      <3>6. Mine(packet[w], pending[w], thread[w], s) =
               PacketHas(packet[w], s) + its + HeldBy(thread[w], s)
        BY DEF Mine
      <3> HIDE DEF its
      <3> QED
        BY ONLY <3>2, <3>3, <3>4, <3>5, <3>6
    <2>2. BatchesOf(batches', s) = BatchesOf(batches, s)
      BY <1>1
    <2>3. OnTheWay(packet', pending', batches', thread', s) =
             OnTheWay(packet, pending, batches, thread, s)
      <3>1. /\ OnTheWay(packet', pending', batches', thread', s) =
                 OnTheWay(packet, pending, batches, thread, s)
                 - Mine(packet[w], pending[w], thread[w], s)
                 + Mine(packet'[w], pending'[w], thread'[w], s)
                 - BatchesOf(batches, s) + BatchesOf(batches', s)
            /\ OnTheWay(packet, pending, batches, thread, s) \in Int
            /\ Mine(packet[w], pending[w], thread[w], s) \in Int
            /\ BatchesOf(batches, s) \in Int
        BY <1>5, WorkerMoves DEF IInv
      <3> QED
        BY ONLY <2>1, <2>2, <3>1
    <2> QED
      BY <1>1, <2>3, KeepsRowsIs DEF Balanced
  <1> QED
    BY <1>6, <1>7, <1>8, KeepsRowsIs


(* An insert worker takes the oldest batch.                                 *)
LEMMA ReceiveKeepsRows ==
    ASSUME IInv, TypeOK', RowsShape, CohortsKeepRows, NEW i \in Inserters, Receive(i)
    PROVE  RowsShape' /\ CohortsKeepRows'
  <1>1. /\ i \in Threads /\ i \notin Workers /\ thread[i].at = "idle" /\ batches # <<>>
        /\ batches \in Seq(Cohorts) /\ Head(batches) \in Cohorts
        /\ thread \in [Threads -> ThreadState] /\ thread[i] \in ThreadState
        /\ batches' = Tail(batches)
        /\ UNCHANGED <<now, packet, pending, recorded>>
    BY KindsOfThread DEF Receive, IInv, TypeOK
  <1> DEFINE after == [thread[i] EXCEPT !.at = "insert", !.cohorts = Head(batches)]
  <1>2. /\ after \in ThreadState /\ after.at = "insert" /\ after.cohorts = Head(batches)
        /\ after.clock = thread[i].clock
    BY <1>1 DEF ThreadState
  <1>3. thread' = [thread EXCEPT ![i] = after]
    BY <1>1 DEF Receive
  <1> HIDE DEF after
  <1>4. thread'[i] = after /\ \A u \in Threads \ {i} : thread'[u] = thread[u]
    BY <1>1, <1>3
  <1>5. RowsShape'
    <2>1. ThreadRows(after, now)
      BY <1>1, <1>2 DEF RowsShape, ThreadRows
    <2> QED
      BY <1>1, <1>4, <2>1, RowsShapeMoves
  <1>6. Retained' = Retained
    BY <1>1 DEF Retained
  <1>7. ASSUME NEW s \in Retained
        PROVE  Balanced(recorded', packet', pending', batches', thread', s)
    <2> DEFINE its == RowsOf(Head(batches), s)
    <2>1. BatchesOf(batches, s) = its + BatchesOf(batches', s) /\ BatchesOf(batches', s) \in Int
      BY <1>1, BatchTaken
    <2>2. HeldBy(thread[i], s) = 0 /\ HeldBy(thread'[i], s) = its /\ its \in Int
      <3>1. thread[i].cohorts = <<>>
        BY <1>1 DEF RowsShape, ThreadRows
      <3> QED
        BY <1>1, <1>2, <1>4, <3>1, HeldByIs, RowsOfEmpty
    <2>3. /\ HeldOf(thread', s) = HeldOf(thread, s) - HeldBy(thread[i], s)
                                  + HeldBy(thread'[i], s)
          /\ HeldOf(thread, s) \in Int
      <3>1. \A u \in Threads \ {i} : HeldBy(thread'[u], s) = HeldBy(thread[u], s)
        BY <1>4
      <3>2. thread \in [Threads -> ThreadState] /\ thread' \in [Threads -> ThreadState]
        BY <1>1 DEF TypeOK
      <3>3. i \in Threads
        BY <1>1
      <3> QED
        BY ONLY <3>1, <3>2, <3>3, HeldChanges
    <2>4. PacketsOf(packet, s) \in Int /\ PendingOf(pending, s) \in Int
      BY SumsAreInts DEF IInv
    <2>5. PacketsOf(packet', s) = PacketsOf(packet, s) /\ PendingOf(pending', s) = PendingOf(pending, s)
      BY <1>1
    <2>6. OnTheWay(packet', pending', batches', thread', s) =
             OnTheWay(packet, pending, batches, thread, s)
      <3> HIDE DEF its
      <3> QED
        BY ONLY <2>1, <2>2, <2>3, <2>4, <2>5 DEF OnTheWay
    <2> QED
      BY <1>1, <2>6, KeepsRowsIs DEF Balanced
  <1> QED
    BY <1>5, <1>6, <1>7, KeepsRowsIs

(* The history after an addition.                                           *)
LEMMA RecordedChanges ==
    ASSUME TypeOK, NEW t \in Threads, Adds(t), NEW s \in Seconds
    PROVE  /\ \A d \in Counters :
                 recorded'[s][d] = recorded[s][d]
                    + (IF d = thread[t].counter /\ thread[t].second = s THEN thread[t].rows ELSE 0)
           /\ \A d \in Counters : recorded[s][d] \in Nat
  <1>1. /\ recorded \in [Seconds -> [Counters -> Nat]]
        /\ recorded' = [recorded EXCEPT ![thread[t].second][thread[t].counter] =
                                           @ + thread[t].rows]
    BY DEF TypeOK, Adds, Counts
  <1>2. /\ thread[t].second \in Seconds /\ thread[t].counter \in Counters
        /\ thread[t].rows \in Nat
    BY ThreadTypes
  <1>3. \A d \in Counters : recorded[s][d] \in Nat
    BY <1>1
  <1>4. ASSUME NEW d \in Counters
        PROVE  recorded'[s][d] = recorded[s][d]
                  + (IF d = thread[t].counter /\ thread[t].second = s THEN thread[t].rows ELSE 0)
    <2>1. CASE d = thread[t].counter /\ thread[t].second = s
      BY <1>1, <1>2, <2>1
    <2>2. CASE ~(d = thread[t].counter /\ thread[t].second = s)
      <3>1. recorded'[s][d] = recorded[s][d]
        BY <1>1, <1>2, <2>2
      <3> QED
        BY <1>3, <2>2, <3>1
    <2> QED
      BY <2>1, <2>2
  <1> QED
    BY <1>3, <1>4

(* What is unsettled of a second after an addition.                         *)
LEMMA UnsettledChanges ==
    ASSUME TypeOK, NEW t \in Threads, Adds(t), NEW s \in Seconds
    PROVE  /\ Unsettled(recorded[s]) \in Int
           /\ thread[t].counter = "expected" =>
                 Unsettled(recorded'[s]) = Unsettled(recorded[s])
                    + (IF thread[t].second = s THEN thread[t].rows ELSE 0)
           /\ thread[t].counter # "expected" =>
                 Unsettled(recorded'[s]) = Unsettled(recorded[s])
                    - (IF thread[t].second = s THEN thread[t].rows ELSE 0)
  <1>1. /\ thread[t].counter \in {"expected", "inserted", "spooled", "spoolFailed"}
        /\ thread[t].rows \in Nat
    BY ThreadTypes, CountersAre
  <1>2. PICK new \in Nat : new = IF thread[t].second = s THEN thread[t].rows ELSE 0
    BY <1>1
  <1>3. PICK counter : counter = thread[t].counter
    OBVIOUS
  <1>4. /\ \A d \in {"expected", "inserted", "spooled", "spoolFailed"} :
              recorded'[s][d] = recorded[s][d] + (IF d = counter THEN new ELSE 0)
        /\ \A d \in {"expected", "inserted", "spooled", "spoolFailed"} : recorded[s][d] \in Nat
    <2>1. \A d \in Counters : recorded'[s][d] = recorded[s][d]
                    + (IF d = thread[t].counter /\ thread[t].second = s THEN thread[t].rows ELSE 0)
      BY RecordedChanges
    <2>2. \A d \in Counters : recorded[s][d] \in Nat
      BY RecordedChanges
    <2>3. ASSUME NEW d \in Counters
          PROVE  recorded'[s][d] = recorded[s][d] + (IF d = counter THEN new ELSE 0)
      BY <1>2, <1>3, <2>1
    <2> QED
      BY <2>2, <2>3, CountersAre
  <1>5. /\ recorded[s]["expected"] \in Nat /\ recorded[s]["inserted"] \in Nat
        /\ recorded[s]["spooled"] \in Nat /\ recorded[s]["spoolFailed"] \in Nat
    BY <1>4
  <1>6. /\ recorded'[s]["expected"] =
              recorded[s]["expected"] + (IF counter = "expected" THEN new ELSE 0)
        /\ recorded'[s]["inserted"] =
              recorded[s]["inserted"] + (IF counter = "inserted" THEN new ELSE 0)
        /\ recorded'[s]["spooled"] =
              recorded[s]["spooled"] + (IF counter = "spooled" THEN new ELSE 0)
        /\ recorded'[s]["spoolFailed"] =
              recorded[s]["spoolFailed"] + (IF counter = "spoolFailed" THEN new ELSE 0)
    BY <1>4
  <1>7. /\ Unsettled(recorded[s]) \in Int
        /\ counter = "expected" =>
              Unsettled(recorded'[s]) = Unsettled(recorded[s]) + new
        /\ counter \in {"inserted", "spooled", "spoolFailed"} =>
              Unsettled(recorded'[s]) = Unsettled(recorded[s]) - new
    BY ONLY <1>2, <1>5, <1>6 DEF Unsettled
  <1> QED
    BY <1>1, <1>2, <1>3, <1>7

(* The rows of a packet are expected from here on, and they are in it.      *)
LEMMA AddExpectedKeepsRows ==
    ASSUME IInv, TypeOK', RowsShape, CohortsKeepRows, NEW w \in Workers, AddExpected(w)
    PROVE  RowsShape' /\ CohortsKeepRows'
  <1> DEFINE p == [second |-> thread[w].second, rows |-> thread[w].rows]
  <1>1. /\ w \in Threads /\ Adds(w) /\ thread[w].at = "add" /\ thread[w].counter = "expected"
        /\ packet' = [packet EXCEPT ![w] = p] /\ thread' = [thread EXCEPT ![w] = IdleThread]
        /\ UNCHANGED <<now, pending, batches>>
        /\ packet \in [Workers -> Packets] /\ thread \in [Threads -> ThreadState]
        /\ thread[w] \in ThreadState
    BY KindsOfThread DEF AddExpected, Adds, IInv, TypeOK
  <1>2. thread[w].cohorts = <<>> /\ packet[w].rows = 0
    BY <1>1 DEF RowsShape, ThreadRows, PacketEmpty
  <1> HIDE DEF p
  <1>3. /\ pending'[w] = pending[w] /\ packet'[w] = p /\ thread'[w] = IdleThread
        /\ \A v \in Workers \ {w} : packet'[v] = packet[v] /\ pending'[v] = pending[v]
        /\ \A u \in Threads \ {w} : thread'[u] = thread[u]
    BY <1>1
  <1>4. RowsShape'
    <2>1. ThreadRows(IdleThread, now)
      BY IdleType, TimeTypes DEF ThreadRows, Reached, IInv
    <2>2. PacketEmpty(IdleThread, p)
      BY IdleType DEF PacketEmpty
    <2> QED
      BY <1>1, <1>3, <2>1, <2>2, RowsShapeMoves
  <1>5. Retained' = Retained /\ Retained \subseteq Seconds
    BY <1>1, RetainedAre, TimeTypes DEF Retained, IInv
  <1>6. ASSUME NEW s \in Retained
        PROVE  Balanced(recorded', packet', pending', batches', thread', s)
    <2>1. PICK new \in Nat : new = IF thread[w].second = s THEN thread[w].rows ELSE 0
      BY ThreadTypes, <1>1 DEF IInv
    <2>2. Mine(packet'[w], pending'[w], thread'[w], s) =
             Mine(packet[w], pending[w], thread[w], s) + new
      <3>1. HeldBy(thread[w], s) = 0 /\ HeldBy(thread'[w], s) = 0
        BY <1>1, <1>2, <1>3, HeldByIs, IdleType, RowsOfEmpty
      <3>2. PacketHas(packet[w], s) = 0
        BY <1>2 DEF PacketHas
      <3>3. PacketHas(packet'[w], s) = new
        BY <1>3, <2>1 DEF PacketHas, p
      <3>4. RowsOf(pending[w], s) \in Int /\ RowsOf(pending'[w], s) = RowsOf(pending[w], s)
        <4>1. pending[w] \in Cohorts
          BY DEF IInv, TypeOK
        <4> QED
          BY <1>3, <4>1, RowsOfIs
      <3> QED
        BY ONLY <2>1, <3>1, <3>2, <3>3, <3>4 DEF Mine
    <2>3. BatchesOf(batches', s) = BatchesOf(batches, s)
      BY <1>1
    <2>4. OnTheWay(packet', pending', batches', thread', s) =
             OnTheWay(packet, pending, batches, thread, s) + new
          /\ OnTheWay(packet, pending, batches, thread, s) \in Int
      <3>1. /\ OnTheWay(packet', pending', batches', thread', s) =
                 OnTheWay(packet, pending, batches, thread, s)
                 - Mine(packet[w], pending[w], thread[w], s)
                 + Mine(packet'[w], pending'[w], thread'[w], s)
                 - BatchesOf(batches, s) + BatchesOf(batches', s)
            /\ OnTheWay(packet, pending, batches, thread, s) \in Int
            /\ Mine(packet[w], pending[w], thread[w], s) \in Int
            /\ BatchesOf(batches, s) \in Int
        BY <1>3, WorkerMoves DEF IInv
      <3> QED
        BY ONLY <2>1, <2>2, <2>3, <3>1
    <2>5. Unsettled(recorded'[s]) = Unsettled(recorded[s]) + new
      BY <1>1, <1>5, <2>1, UnsettledChanges DEF IInv
    <2>6. Unsettled(recorded[s]) = OnTheWay(packet, pending, batches, thread, s)
      BY KeepsRowsIs DEF Balanced
    <2> QED
      BY <2>4, <2>5, <2>6 DEF Balanced
  <1> QED
    BY <1>4, <1>5, <1>6, KeepsRowsIs

(* A goroutine has recorded what became of the rows of a cohort.            *)
LEMMA AddOutcomeKeepsRows ==
    ASSUME IInv, TypeOK', RowsShape, CohortsKeepRows, NEW t \in Threads, AddOutcome(t)
    PROVE  RowsShape' /\ CohortsKeepRows'
  <1> DEFINE after == [thread[t] EXCEPT !.at = "next", !.second = 0, !.rows = 0]
  <1>1. /\ Adds(t) /\ thread[t].at = "add" /\ thread[t].counter # "expected"
        /\ thread' = [thread EXCEPT ![t] = after]
        /\ UNCHANGED <<now, packet, pending, batches>>
        /\ thread \in [Threads -> ThreadState] /\ thread[t] \in ThreadState
    BY DEF AddOutcome, Adds, Outcomes, IInv, TypeOK, batching
  <1>2. /\ after \in ThreadState /\ after.at = "next" /\ after.cohorts = thread[t].cohorts
        /\ after.clock = thread[t].clock /\ after.counter = thread[t].counter
    <2>1. 0 \in Seconds /\ 0 \in Nat
      BY Constants
    <2> QED
      BY <1>1, <2>1 DEF ThreadState
  <1> HIDE DEF after
  <1>3. thread'[t] = after /\ \A u \in Threads \ {t} : thread'[u] = thread[u]
    BY <1>1
  <1>4. RowsShape'
    <2>1. ThreadRows(after, now)
      BY <1>1, <1>2 DEF RowsShape, ThreadRows
    <2>2. t \in Workers => PacketEmpty(after, packet'[t])
      BY <1>2 DEF PacketEmpty
    <2> QED
      BY <1>1, <1>3, <2>1, <2>2, RowsShapeMoves
  <1>5. Retained' = Retained /\ Retained \subseteq Seconds
    BY <1>1, RetainedAre, TimeTypes DEF Retained, IInv
  <1>6. ASSUME NEW s \in Retained
        PROVE  Balanced(recorded', packet', pending', batches', thread', s)
    <2>1. PICK done \in Nat : done = IF thread[t].second = s THEN thread[t].rows ELSE 0
      BY ThreadTypes DEF IInv
    <2>2. HeldBy(thread'[t], s) = HeldBy(thread[t], s) - done
      <3> DEFINE its == RowsOf(thread[t].cohorts, s)
      <3>1. HeldBy(thread[t], s) = its + done /\ its \in Int
        BY <1>1, <2>1, HeldByIs
      <3>2. HeldBy(thread'[t], s) = its
        BY <1>2, <1>3, HeldByIs
      <3> HIDE DEF its
      <3> QED
        BY ONLY <2>1, <3>1, <3>2
    <2>3. /\ HeldOf(thread', s) = HeldOf(thread, s) - HeldBy(thread[t], s)
                                  + HeldBy(thread'[t], s)
          /\ HeldOf(thread, s) \in Int /\ HeldBy(thread[t], s) \in Int
      <3>1. \A u \in Threads \ {t} : HeldBy(thread'[u], s) = HeldBy(thread[u], s)
        BY <1>3
      <3>2. thread \in [Threads -> ThreadState] /\ thread' \in [Threads -> ThreadState]
        BY <1>1 DEF TypeOK
      <3>3. t \in Threads
        OBVIOUS
      <3> QED
        BY ONLY <3>1, <3>2, <3>3, HeldChanges
    <2>4. /\ PacketsOf(packet, s) \in Int /\ PendingOf(pending, s) \in Int
          /\ BatchesOf(batches, s) \in Int
      BY SumsAreInts DEF IInv
    <2>5. /\ PacketsOf(packet', s) = PacketsOf(packet, s)
          /\ PendingOf(pending', s) = PendingOf(pending, s)
          /\ BatchesOf(batches', s) = BatchesOf(batches, s)
      BY <1>1
    <2>6. OnTheWay(packet', pending', batches', thread', s) =
             OnTheWay(packet, pending, batches, thread, s) - done
      BY ONLY <2>1, <2>2, <2>3, <2>4, <2>5 DEF OnTheWay
    <2>7. Unsettled(recorded'[s]) = Unsettled(recorded[s]) - done
      BY <1>1, <1>5, <2>1, UnsettledChanges DEF IInv
    <2>8. Unsettled(recorded[s]) = OnTheWay(packet, pending, batches, thread, s)
      BY KeepsRowsIs DEF Balanced
    <2> QED
      BY <2>6, <2>7, <2>8 DEF Balanced
  <1> QED
    BY <1>4, <1>5, <1>6, KeepsRowsIs

(* Nobody has a row of a second of which nobody has a packet or a cohort.   *)
LEMMA NobodyHasRows ==
    ASSUME TypeOK, NEW s,
           \A w \in Workers : packet[w].second = s => packet[w].rows = 0,
           \A w \in Workers : \A k \in DOMAIN pending[w] : pending[w][k].second # s,
           \A n \in DOMAIN batches : \A k \in DOMAIN batches[n] : batches[n][k].second # s,
           \A t \in Threads :
              /\ \A k \in DOMAIN thread[t].cohorts : thread[t].cohorts[k].second # s
              /\ Recording(t) => thread[t].second # s
    PROVE  OnTheWay(packet, pending, batches, thread, s) = 0
  <1>1. PendingOf(pending, s) = 0
    <2> DEFINE f == [w \in Workers |-> RowsOf(pending[w], s)]
    <2>1. ASSUME NEW w \in Workers PROVE RowsOf(pending[w], s) = 0
      <3>1. pending[w] \in Cohorts
        BY DEF TypeOK
      <3> QED
        BY <3>1, RowsOfNone
    <2>2. \A w \in Workers : f[w] = 0
      BY <2>1
    <2>3. PendingOf(pending, s) = SumOver(f, Workers) /\ IsFiniteSet(Workers)
      BY CohortAssumption DEF PendingOf
    <2> HIDE DEF f
    <2> QED
      BY <2>2, <2>3, SumZero
  <1>2. BatchesOf(batches, s) = 0
    <2> DEFINE f == [n \in DOMAIN batches |-> RowsOf(batches[n], s)]
    <2>1. batches \in Seq(Cohorts)
      BY DEF TypeOK
    <2>2. Len(batches) \in Nat /\ DOMAIN batches = 1..Len(batches)
      BY <2>1
    <2>3. \A n \in DOMAIN batches : batches[n] \in Cohorts
      BY <2>1
    <2>4. \A n \in DOMAIN batches : RowsOf(batches[n], s) = 0
      BY <2>3, RowsOfNone
    <2>5. \A n \in DOMAIN batches : f[n] = 0
      BY <2>4
    <2>6. BatchesOf(batches, s) = SumOver(f, DOMAIN batches)
      BY DEF BatchesOf
    <2>7. IsFiniteSet(DOMAIN batches)
      BY <2>2, FS_Interval
    <2> HIDE DEF f
    <2> QED
      BY <2>5, <2>6, <2>7, SumZero
  <1>3. HeldOf(thread, s) = 0
    <2> DEFINE f == [t \in Threads |-> HeldBy(thread[t], s)]
    <2>1. ASSUME NEW t \in Threads PROVE HeldBy(thread[t], s) = 0
      <3>1. thread[t].cohorts \in Cohorts
        BY ThreadTypes
      <3>2. RowsOf(thread[t].cohorts, s) = 0
        BY <3>1, RowsOfNone
      <3> QED
        BY <3>2 DEF HeldBy, Recording
    <2>2. \A t \in Threads : f[t] = 0
      BY <2>1
    <2>3. HeldOf(thread, s) = SumOver(f, Threads) /\ IsFiniteSet(Threads)
      BY KindsOfThread DEF HeldOf
    <2> HIDE DEF f
    <2> QED
      BY <2>2, <2>3, SumZero
  <1>4. PacketsOf(packet, s) = 0
    <2> DEFINE f == [w \in Workers |-> PacketHas(packet[w], s)]
    <2>1. \A w \in Workers : f[w] = 0
      BY DEF PacketHas
    <2>2. PacketsOf(packet, s) = SumOver(f, Workers) /\ IsFiniteSet(Workers)
      BY CohortAssumption DEF PacketsOf
    <2> HIDE DEF f
    <2> QED
      BY <2>1, <2>2, SumZero
  <1> QED
    BY <1>1, <1>2, <1>3, <1>4 DEF OnTheWay

(* Of the second that the clock reaches there is nothing yet.               *)
LEMMA TickKeepsRows ==
    ASSUME IInv, RowsShape, CohortsKeepRows, Tick
    PROVE  RowsShape' /\ CohortsKeepRows'
  <1>1. /\ now' = now + 1 /\ UNCHANGED <<thread, packet, pending, batches, recorded>>
        /\ now < MaxSecond
    BY DEF Tick, batching
  <1>2. now \in Nat /\ MaxSecond \in Nat
    BY TimeTypes, Constants DEF IInv
  <1>3. RowsShape'
    <2>1. PICK later \in Nat : later = now' /\ now <= later
      BY <1>1, <1>2
    <2>2. ASSUME NEW t \in Threads PROVE ThreadRows(thread[t], later)
      <3>1. thread[t].clock \in Nat /\ thread[t].clock <= now
        BY ThreadTypes, TimeTypes DEF IInv, RowsShape, ThreadRows
      <3>2. thread[t].clock <= later
        BY <1>2, <2>1, <3>1
      <3>3. ThreadRows(thread[t], now)
        BY DEF RowsShape
      <3> QED
        BY <3>2, <3>3 DEF ThreadRows
    <2>3. \A t \in Threads : ThreadRows(thread[t], now')
      BY <2>1, <2>2
    <2> QED
      BY <1>1, <2>3 DEF RowsShape
  <1>4. ASSUME NEW s \in Retained'
        PROVE  s \in Retained \/ s = now + 1
    BY <1>1, <1>2, Constants DEF Retained
  <1>5. Balanced(recorded, packet, pending, batches, thread, now + 1)
    <2> DEFINE s == now + 1
    <2>1. s \in Seconds /\ s > now
      BY <1>1, <1>2, Constants
    <2>2. recorded[s] = Zero
      BY <2>1 DEF IInv, RingPast
    <2>3. \A q \in Seconds : q <= now => q # s
      BY <1>2, TimeTypes DEF IInv
    <2> HIDE DEF s
    <2>4. ASSUME NEW cohorts \in Cohorts, Reached(cohorts, now), NEW k \in DOMAIN cohorts
          PROVE  cohorts[k].second # s
      BY <2>3, <2>4, CohortIs DEF Reached
    <2>5. /\ \A w \in Workers : packet[w].second \in Seconds /\ pending[w] \in Cohorts
          /\ \A n \in DOMAIN batches : batches[n] \in Cohorts
          /\ \A t \in Threads : thread[t].cohorts \in Cohorts
      <3>1. \A n \in DOMAIN batches : batches[n] \in Cohorts
        BY DEF IInv, TypeOK
      <3>2. \A w \in Workers : packet[w].second \in Seconds /\ pending[w] \in Cohorts
        BY DEF IInv, TypeOK, Packets
      <3> QED
        BY <3>1, <3>2, ThreadTypes DEF IInv
    <2>6. \A w \in Workers : packet[w].second # s
      BY <2>3, <2>5, PastCohorts
    <2>7. ASSUME NEW t \in Threads, Recording(t)
          PROVE  thread[t].second # s
      BY <2>3, <2>7, ItsBucket
    <2>8. OnTheWay(packet, pending, batches, thread, s) = 0
      <3>1. \A w \in Workers : \A k \in DOMAIN pending[w] : pending[w][k].second # s
        BY <2>4, <2>5, PastCohorts
      <3>2. \A n \in DOMAIN batches : \A k \in DOMAIN batches[n] : batches[n][k].second # s
        BY <2>4, <2>5, PastCohorts
      <3>3. \A t \in Threads : \A k \in DOMAIN thread[t].cohorts : thread[t].cohorts[k].second # s
        BY <2>4, <2>5, PastCohorts
      <3> QED
        BY <2>6, <2>7, <3>1, <3>2, <3>3, NobodyHasRows DEF IInv
    <2>9. Unsettled(recorded[s]) = 0
      BY <2>2, CountersAre DEF Unsettled
    <2>10. Balanced(recorded, packet, pending, batches, thread, s)
      BY <2>8, <2>9 DEF Balanced
    <2> QED
      BY <2>10 DEF s
  <1>6. \A s \in Retained : Balanced(recorded, packet, pending, batches, thread, s)
    BY KeepsRowsIs
  <1>7. \A s \in Retained' : Balanced(recorded', packet', pending', batches', thread', s)
    BY <1>1, <1>4, <1>5, <1>6
  <1> QED
    BY <1>3, <1>7, KeepsRowsIs

(* The evaluator only reads, and so does a step that changes nothing.       *)
LEMMA SnapshotKeepsRows ==
    ASSUME RowsShape, CohortsKeepRows,
           UNCHANGED <<now, thread, packet, pending, batches, recorded>>
    PROVE  RowsShape' /\ CohortsKeepRows'
  <1>1. RowsShape'
    BY DEF RowsShape
  <1>2. Retained' = Retained
    BY DEF Retained
  <1>3. \A s \in Retained : Balanced(recorded, packet, pending, batches, thread, s)
    BY KeepsRowsIs
  <1>4. \A s \in Retained' : Balanced(recorded', packet', pending', batches', thread', s)
    BY <1>2, <1>3
  <1> QED
    BY <1>1, <1>4, KeepsRowsIs

(* At the start nothing is recorded or on its way.                          *)
LEMMA InitKeepsRows == Init => RowsShape /\ CohortsKeepRows
  <1> SUFFICES ASSUME Init PROVE RowsShape /\ CohortsKeepRows
    OBVIOUS
  <1>1. IInv
    BY InitIInv
  <1>2. /\ \A t \in Threads : thread[t] = IdleThread
        /\ \A w \in Workers : packet[w].rows = 0 /\ pending[w] = <<>>
        /\ batches = <<>> /\ recorded = [s \in Seconds |-> Zero]
    BY DEF Init, NoRows
  <1>3. RowsShape
    <2>1. ThreadRows(IdleThread, now)
      BY <1>1, IdleType, TimeTypes DEF ThreadRows, Reached, IInv
    <2>2. \A w \in Workers : PacketEmpty(thread[w], packet[w])
      BY <1>2 DEF PacketEmpty
    <2> QED
      BY <1>2, <2>1, <2>2 DEF RowsShape
  <1>4. ASSUME NEW s \in Retained
        PROVE  Balanced(recorded, packet, pending, batches, thread, s)
    <2>1. s \in Seconds
      BY <1>1, RetainedAre, TimeTypes DEF IInv
    <2>2. OnTheWay(packet, pending, batches, thread, s) = 0
      <3>1. /\ \A w \in Workers : \A k \in DOMAIN pending[w] : pending[w][k].second # s
            /\ \A n \in DOMAIN batches : \A k \in DOMAIN batches[n] : batches[n][k].second # s
        BY <1>2
      <3>2. \A t \in Threads :
               /\ \A k \in DOMAIN thread[t].cohorts : thread[t].cohorts[k].second # s
               /\ Recording(t) => thread[t].second # s
        BY <1>2, IdleType DEF Recording
      <3> QED
        BY <1>1, <1>2, <3>1, <3>2, NobodyHasRows DEF IInv
    <2>3. Unsettled(recorded[s]) = 0
      BY <1>2, <2>1, CountersAre DEF Unsettled
    <2> QED
      BY <2>2, <2>3 DEF Balanced
  <1> QED
    BY <1>3, <1>4, KeepsRowsIs

(* Every row that recordParseResult counts as expected is on its way in one *)
(* place, in its packet and then in one cohort of its second, for as long   *)
(* as that second is retained, until recordInserted, recordSpooled or       *)
(* recordSpoolFailure counts it once.                                       *)
THEOREM CohortsKeep == Spec => []CohortsKeepRows
  <1> DEFINE Kept == RowsShape /\ CohortsKeepRows
  <1>1. Init => Kept
    BY InitKeepsRows
  <1>2. IInv /\ Kept /\ [Next]_vars => Kept'
    <2> SUFFICES ASSUME IInv, RowsShape, CohortsKeepRows, [Next]_vars
                 PROVE  RowsShape' /\ CohortsKeepRows'
      OBVIOUS
    <2>1. TypeOK'
      <3>1. IInv'
        BY NextIInv
      <3> QED
        BY <3>1 DEF IInv
    <2>2. ASSUME NEW t \in Threads, Step(t) PROVE RowsShape' /\ CohortsKeepRows'
      BY <2>1, <2>2, BucketStepKeepsRows, AddOutcomeKeepsRows, NextCohortKeepsRows DEF Step
    <2>3. ASSUME NEW w \in Workers, NEW s \in Seconds, NEW n \in PacketRows, Parse(w, s, n)
          PROVE  RowsShape' /\ CohortsKeepRows'
      BY <2>3, ParseKeepsRows
    <2>4. ASSUME NEW w \in Workers, AddExpected(w) \/ AppendRow(w) \/ HandOver(w) \/ Refuse(w)
          PROVE  RowsShape' /\ CohortsKeepRows'
      BY <2>1, <2>4, AddExpectedKeepsRows, AppendRowKeepsRows, HandOverKeepsRows,
         RefuseKeepsRows
    <2>5. ASSUME NEW i \in Inserters, Receive(i) \/ Settle(i)
          PROVE  RowsShape' /\ CohortsKeepRows'
      BY <2>1, <2>5, ReceiveKeepsRows, SettleKeepsRows
    <2>6. CASE Tick
      BY <2>6, TickKeepsRows
    <2>7. CASE BeginSnapshot \/ CheckBucket \/ ReadCounter \/ EndSnapshot
      <3>1. UNCHANGED <<now, thread, packet, pending, batches, recorded>>
        BY <2>7 DEF BeginSnapshot, CheckBucket, ReadCounter, EndSnapshot, snapUnchanged, batching
      <3> QED
        BY <3>1, SnapshotKeepsRows
    <2>8. CASE UNCHANGED vars
      <3>1. UNCHANGED <<now, thread, packet, pending, batches, recorded>>
        BY <2>8 DEF vars, batching
      <3> QED
        BY <3>1, SnapshotKeepsRows
    <2> QED
      BY <2>2, <2>3, <2>4, <2>5, <2>6, <2>7, <2>8, KindsOfThread DEF Next
  <1>3. Kept => CohortsKeepRows
    OBVIOUS
  <1> QED
    BY <1>1, <1>2, <1>3, Invariance, PTL DEF Spec
=============================================================================
