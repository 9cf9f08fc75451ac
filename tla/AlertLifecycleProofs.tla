------------------------ MODULE AlertLifecycleProofs ------------------------
(***************************************************************************)
(* An alert manager is type correct, its state file remembers what it has  *)
(* told, and it implements IncidentTable: for any alerts, levels, windows  *)
(* and number of crashes, an incident's row in ClickHouse only moves       *)
(* forward and never shows what the state file has not known.  The         *)
(* inductive invariant is IInv.  What it says of memory and state file,    *)
(* and of the outbox, is stated of values, since one step of the manager   *)
(* may save, send and open an incident.                                    *)
(***************************************************************************)
EXTENDS AlertLifecycle, CountingTheorems, SequenceTheorems

Follows(r, s) == Contract!Follows(r, s)

SameIncident(a, b) == a.id = b.id /\ Row(a) = Row(b)

(* The ids of the incidents: each was opened once, for one alert.           *)
AlertShape(alert, top) ==
    /\ alert.id <= top /\ (alert.id = NoId <=> alert.state = "none")
    /\ alert.dirty => alert.id # NoId

IdShape(mem, dsk, top) ==
    /\ \A n \in Names : AlertShape(mem[n], top) /\ AlertShape(dsk[n], top)
    /\ \A n, m \in Names : n # m =>
          /\ mem[n].id # NoId => mem[m].id # mem[n].id /\ dsk[m].id # mem[n].id
          /\ dsk[n].id # NoId => dsk[m].id # dsk[n].id

(* What the state file has known of the incidents, and memory since.        *)
SavedShape(mem, dsk, known, top) ==
    /\ \A i \in Incidents : i > top => known[i] = NoRow
    /\ \A n \in Names :
         /\ dsk[n].id # NoId => known[dsk[n].id] = Row(dsk[n])
         /\ mem[n].id # NoId => Follows(known[mem[n].id], Row(mem[n]))
         /\ mem[n].id # NoId /\ dsk[n].id # mem[n].id => known[mem[n].id] = NoRow

(* An incident told to be ACTIVE can only be forgotten if it was replaced.  *)
ClosedAndTold(alert, told) ==
    alert.state = "CLEARED" /\ ~alert.dirty => told[alert.id].state # "ACTIVE"

Remembered(mem, dsk, gone, told) ==
    /\ \A i \in Incidents :
          told[i].state = "ACTIVE" => i \in gone \/ \E n \in Names : dsk[n].id = i
    /\ \A n \in Names :
         /\ ClosedAndTold(mem[n], told) /\ ClosedAndTold(dsk[n], told)
         /\ dsk[n].id # NoId /\ dsk[n].id # mem[n].id =>
               dsk[n].id \in gone \/ told[dsk[n].id].state # "ACTIVE"

StateTypes(mem, dsk, known, top, gone) ==
    /\ mem \in [Names -> Alerts] /\ dsk \in [Names -> Alerts]
    /\ known \in [Incidents -> Rows] /\ top \in 0..MaxIncidents /\ gone \subseteq 1..top

StateShape(mem, dsk, known, top, gone, told) ==
    /\ StateTypes(mem, dsk, known, top, gone)
    /\ IdShape(mem, dsk, top) /\ SavedShape(mem, dsk, known, top)
    /\ Remembered(mem, dsk, gone, told)

(* Of each incident the table, a late request, the files of the outbox and  *)
(* the state file stand in this order.                                      *)
QueueShape(files, l, t, known) ==
    /\ \A i \in Incidents :
         /\ Follows(t[i], known[i]) /\ Follows(l[i], known[i])
         /\ l[i] # NoRow => Follows(t[i], l[i])
    /\ \A k \in DOMAIN files :
         /\ Follows(t[files[k].id], files[k].row)
         /\ Follows(l[files[k].id], files[k].row)
         /\ Follows(files[k].row, known[files[k].id])
         /\ \A j \in 1..k : files[j].id = files[k].id => Follows(files[j].row, files[k].row)

(* When the evaluator may send, memory and state file agree.                *)
EvaluatorShape ==
    /\ process = "down" => memory = disk
    /\ process = "starting" => \A n \in Names : SameIncident(memory[n], disk[n])
    /\ process # "starting" => toReconcile = {}
    /\ \A n \in toReconcile : memory[n].id # NoId
    /\ evaluator.at # "idle" => memory[evaluator.name].id # NoId
    /\ evaluator.at = "emit" => memory = disk
    /\ evaluator.at # "idle" /\ evaluator.rest # -1 =>
          /\ ~Active(evaluator.name)
          /\ Breaches(evaluator.name, evaluator.rest) => opened < MaxIncidents

(* The file that was sent is in the table until it is removed.              *)
WorkerShape ==
    worker = "remove" => table[outbox[1].id] = outbox[1].row /\ late[outbox[1].id] = NoRow

Told == [i \in Incidents |-> LastTold(i)]

IInv ==
    /\ TypeOK /\ EvaluatorShape /\ WorkerShape
    /\ StateShape(memory, disk, saved, opened, replaced, Told)
    /\ QueueShape(outbox, late, table, saved)

-----------------------------------------------------------------------------
(* The order of an incident's rows                                          *)

LEMMA LevelType == \A level \in Levels \cup {0} : level \in Nat
  BY AlertAssumption

(* A version of a row replaces itself without a change.                     *)
LEMMA FollowsReflexive == \A r : Follows(r, r)
  BY DEF Follows, Contract!Follows

(* A row that may replace another may replace all that the other replaced.  *)
LEMMA FollowsTransitive ==
    ASSUME NEW r \in Rows, NEW s \in Rows, NEW t \in Rows, Follows(r, s), Follows(s, t)
    PROVE  Follows(r, t)
  <1>1. r.peak \in Nat /\ s.peak \in Nat /\ t.peak \in Nat
    BY LevelType DEF Rows
  <1>2. CASE s.state = "none" /\ r # s
    BY <1>2 DEF Follows, Contract!Follows
  <1>3. CASE r = s \/ s = t \/ r.state = "none"
    BY <1>3 DEF Follows, Contract!Follows
  <1>4. CASE s.state # "none" /\ r # s /\ s # t /\ r.state # "none"
    BY <1>1, <1>4 DEF Follows, Contract!Follows
  <1> QED
    BY <1>2, <1>3, <1>4

(* Any row may be the first that the table shows of an incident.            *)
LEMMA NoRowFirst == NoRow \in Rows /\ \A r : Follows(NoRow, r)
  BY DEF NoRow, Rows, Follows, Contract!Follows

(* A row before one that is nothing is nothing too.                         *)
LEMMA BeforeNothing ==
    ASSUME NEW r, Follows(r, NoRow)
    PROVE  r.state = "none"
  BY DEF NoRow, Follows, Contract!Follows

(* The record that a transition builds is a row of the incident table.      *)
LEMMA RowType == \A alert \in Alerts : Row(alert) \in Rows
  BY DEF Row, Alerts, Rows

-----------------------------------------------------------------------------
(* The outbox, and what was last told                                       *)

Files == [id : 1..opened, row : Rows]

(* What the file operations on the outbox return.                           *)
LEMMA OutboxTypes ==
    ASSUME TypeOK
    PROVE  /\ opened \in Nat /\ MaxIncidents \in Nat
           /\ \A i \in 1..opened : i \in Incidents /\ i # NoId
           /\ \A i \in Incidents : i \in Nat /\ i # NoId
           /\ outbox \in Seq(Files) /\ Len(outbox) \in Nat /\ DOMAIN outbox = 1..Len(outbox)
           /\ \A k \in DOMAIN outbox :
                 outbox[k].id \in 1..opened /\ outbox[k].id \in Incidents /\ outbox[k].row \in Rows
  <1>1. opened \in 0..MaxIncidents /\ MaxIncidents \in Nat
    BY AlertAssumption DEF TypeOK
  <1>2. \A i \in 1..opened : i \in Incidents /\ i # NoId
    BY <1>1 DEF Incidents, NoId
  <1>3. outbox \in Seq(Files)
    BY DEF TypeOK, Files
  <1>4. Len(outbox) \in Nat /\ DOMAIN outbox = 1..Len(outbox)
    BY <1>3, LenProperties
  <1>5. \A k \in DOMAIN outbox : outbox[k] \in Files
    BY <1>3, <1>4, ElementOfSeq
  <1>6. \A i \in Incidents : i \in Nat /\ i # NoId
    BY <1>1 DEF Incidents, NoId
  <1> QED
    BY <1>1, <1>2, <1>3, <1>4, <1>5, <1>6 DEF Files


(* LastTold as a function of the outbox, the late requests and the table.   *)
Delivered(l, t, i) == IF l[i] # NoRow THEN l[i] ELSE t[i]

ToldIn(files, l, t, i) ==
    LET mine == {k \in DOMAIN files : files[k].id = i}
    IN IF mine # {} THEN files[CHOOSE k \in mine : \A j \in mine : j <= k].row
       ELSE Delivered(l, t, i)

(* What was last told of an incident, as a function of the three places it  *)
(* may be in.                                                               *)
LEMMA ToldIs == \A i : LastTold(i) = ToldIn(outbox, late, table, i)
  BY DEF LastTold, ToldIn, Delivered

(* The same after a step.                                                   *)
LEMMA ToldIsAfter == \A i : LastTold(i)' = ToldIn(outbox', late', table', i)
  BY DEF LastTold, ToldIn, Delivered

LastFile(files, i, k) ==
    /\ k \in DOMAIN files /\ files[k].id = i
    /\ \A j \in DOMAIN files : files[j].id = i => j <= k

NoFile(files, i) == \A k \in DOMAIN files : files[k].id # i

(* An incident either has no file in the outbox or has a last one.          *)
LEMMA FileOrNone ==
    ASSUME NEW S, NEW files \in Seq(S), NEW i, ~NoFile(files, i)
    PROVE  \E k : LastFile(files, i, k)
  <1> DEFINE M == {k \in 1..Len(files) : files[k].id = i}
  <1>1. DOMAIN files = 1..Len(files) /\ Len(files) \in Nat
    BY LenProperties
  <1>2. M # {} /\ M \in SUBSET (1..Len(files))
    BY <1>1 DEF NoFile
  <1>3. \E k \in M : \A j \in M : j <= k
    <2> HIDE DEF M
    <2> QED
      BY <1>1, <1>2, LastPosition
  <1> QED
    BY <1>1, <1>3 DEF LastFile

(* While a file of an incident is queued, the last one is what was told.    *)
LEMMA ToldByFile ==
    ASSUME NEW S, NEW files \in Seq(S), NEW l, NEW t, NEW i, NEW k, LastFile(files, i, k)
    PROVE  ToldIn(files, l, t, i) = files[k].row
  <1> DEFINE M == {j \in DOMAIN files : files[j].id = i}
             c == CHOOSE j \in M : \A h \in M : h <= j
  <1>1. DOMAIN files = 1..Len(files) /\ Len(files) \in Nat
    BY LenProperties
  <1>2. k \in M /\ \A j \in M : j <= k
    BY DEF LastFile
  <1>3. c \in M /\ \A j \in M : j <= c
    <2>1. \E j \in M : \A h \in M : h <= j
      BY <1>2
    <2> HIDE DEF M
    <2> QED
      BY <2>1
  <1>4. c = k
    <2>1. c \in Int /\ k \in Int /\ c <= k /\ k <= c
      BY <1>1, <1>2, <1>3
    <2> HIDE DEF c
    <2> QED
      BY <2>1
  <1>5. ToldIn(files, l, t, i) = files[c].row
    BY <1>2 DEF ToldIn
  <1> QED
    BY <1>4, <1>5

(* Without one, a late request or the table has it.                         *)
LEMMA ToldWithoutFile ==
    ASSUME NEW files, NEW l, NEW t, NEW i, NoFile(files, i)
    PROVE  ToldIn(files, l, t, i) = Delivered(l, t, i)
  <1>1. {k \in DOMAIN files : files[k].id = i} = {}
    BY DEF NoFile
  <1> QED
    BY <1>1 DEF ToldIn

(* A file added is what was last told of its incident.                      *)
LEMMA ToldAppend ==
    ASSUME NEW S, NEW files \in Seq(S), NEW file \in S, NEW l, NEW t, NEW i
    PROVE  ToldIn(Append(files, file), l, t, i) =
             IF i = file.id THEN file.row ELSE ToldIn(files, l, t, i)
  <1> DEFINE more == Append(files, file)
  <1>1. /\ more \in Seq(S) /\ DOMAIN more = 1..Len(files)+1 /\ DOMAIN files = 1..Len(files)
        /\ Len(files) \in Nat
        /\ more[Len(files) + 1] = file
        /\ \A k \in 1..Len(files) : more[k] = files[k]
    BY AppendProperties, LenProperties
  <1> HIDE DEF more
  <1>2. CASE i = file.id
    <2>1. LastFile(more, i, Len(files) + 1)
      BY <1>1, <1>2 DEF LastFile
    <2>2. ToldIn(more, l, t, i) = more[Len(files) + 1].row
      BY <1>1, <2>1, ToldByFile
    <2> QED
      BY <1>1, <1>2, <2>2 DEF more
  <1>3. CASE i # file.id /\ NoFile(files, i)
    <2>1. NoFile(more, i)
      BY <1>1, <1>3 DEF NoFile
    <2> QED
      BY <1>3, <2>1, ToldWithoutFile DEF more
  <1>4. CASE i # file.id /\ ~NoFile(files, i)
    <2>1. PICK k : LastFile(files, i, k)
      BY <1>4, FileOrNone
    <2>2. k \in 1..Len(files)
      BY <1>1, <2>1 DEF LastFile
    <2>3. LastFile(more, i, k) /\ more[k] = files[k]
      BY <1>1, <1>4, <2>1, <2>2 DEF LastFile
    <2>4. ToldIn(files, l, t, i) = files[k].row
      BY <2>1, ToldByFile
    <2>5. ToldIn(more, l, t, i) = more[k].row
      BY <1>1, <2>3, ToldByFile
    <2> QED
      BY <1>4, <2>3, <2>4, <2>5 DEF more
  <1> QED
    BY <1>2, <1>3, <1>4

(* A file removed leaves what was last told, once it is in the table.       *)
LEMMA ToldTail ==
    ASSUME NEW S, NEW files \in Seq(S), files # <<>>, NEW l, NEW t, NEW i,
           files[1].id = i => files[1].row = Delivered(l, t, i)
    PROVE  ToldIn(Tail(files), l, t, i) = ToldIn(files, l, t, i)
  <1> DEFINE rest == Tail(files)
  <1>1. /\ rest \in Seq(S) /\ DOMAIN files = 1..Len(files) /\ Len(files) \in Nat
        /\ DOMAIN rest = 1..Len(files)-1 /\ 1 \in DOMAIN files
        /\ \A k \in 1..Len(files)-1 : rest[k] = files[k + 1]
    BY HeadTailProperties, LenProperties, EmptySeq
  <1> HIDE DEF rest
  <1>2. CASE NoFile(rest, i)
    <2>1. \A k \in DOMAIN files : k # 1 => files[k].id # i
      <3> SUFFICES ASSUME NEW k \in DOMAIN files, k # 1 PROVE files[k].id # i
        OBVIOUS
      <3>1. k - 1 \in DOMAIN rest /\ rest[k - 1] = files[k]
        BY <1>1
      <3> QED
        BY <1>2, <3>1 DEF NoFile
    <2>2. ToldIn(rest, l, t, i) = Delivered(l, t, i)
      BY <1>2, ToldWithoutFile
    <2>3. CASE files[1].id = i
      <3>1. LastFile(files, i, 1)
        BY <1>1, <2>1, <2>3 DEF LastFile
      <3> QED
        BY <2>2, <2>3, <3>1, ToldByFile DEF rest
    <2>4. CASE files[1].id # i
      <3>1. NoFile(files, i)
        BY <2>1, <2>4 DEF NoFile
      <3> QED
        BY <2>2, <3>1, ToldWithoutFile DEF rest
    <2> QED
      BY <2>3, <2>4
  <1>3. CASE ~NoFile(rest, i)
    <2>1. PICK k : LastFile(rest, i, k)
      BY <1>1, <1>3, FileOrNone
    <2>2. k \in 1..Len(files)-1 /\ k + 1 \in DOMAIN files /\ rest[k] = files[k + 1]
      BY <1>1, <2>1 DEF LastFile
    <2>3. LastFile(files, i, k + 1)
      <3> SUFFICES ASSUME NEW j \in DOMAIN files, files[j].id = i PROVE j <= k + 1
        BY <2>1, <2>2 DEF LastFile
      <3>1. CASE j = 1
        BY <1>1, <2>2, <3>1
      <3>2. CASE j # 1
        <4>1. j - 1 \in DOMAIN rest /\ rest[j - 1] = files[j]
          BY <1>1, <3>2
        <4>2. j - 1 <= k
          BY <2>1, <4>1 DEF LastFile
        <4> QED
          BY <1>1, <2>2, <4>2
      <3> QED
        BY <3>1, <3>2
    <2>4. ToldIn(rest, l, t, i) = rest[k].row
      BY <1>1, <2>1, ToldByFile
    <2>5. ToldIn(files, l, t, i) = files[k + 1].row
      BY <2>3, ToldByFile
    <2> QED
      BY <2>2, <2>4, <2>5 DEF rest
  <1> QED
    BY <1>2, <1>3

(* A delivery changes nothing that is last told while a file waits.         *)
LEMMA ToldShadowed ==
    ASSUME NEW S, NEW files \in Seq(S), NEW l, NEW t, NEW m, NEW u, NEW i,
           ~NoFile(files, i) \/ Delivered(l, t, i) = Delivered(m, u, i)
    PROVE  ToldIn(files, l, t, i) = ToldIn(files, m, u, i)
  <1>1. CASE NoFile(files, i)
    BY <1>1, ToldWithoutFile
  <1>2. CASE ~NoFile(files, i)
    <2>1. PICK k : LastFile(files, i, k)
      BY <1>2, FileOrNone
    <2> QED
      BY <2>1, ToldByFile
  <1> QED
    BY <1>1, <1>2

(* What was last told of an incident is saved.                              *)
LEMMA ToldIsSaved ==
    ASSUME IInv, NEW i \in Incidents
    PROVE  Follows(LastTold(i), saved[i])
  <1>1. CASE NoFile(outbox, i)
    BY <1>1, ToldIs, ToldWithoutFile DEF IInv, QueueShape, Delivered
  <1>2. CASE ~NoFile(outbox, i)
    <2>0. outbox \in Seq(Files)
      BY OutboxTypes DEF IInv
    <2>1. PICK k : LastFile(outbox, i, k)
      BY <1>2, <2>0, FileOrNone
    <2>2. LastTold(i) = outbox[k].row
      BY <2>0, <2>1, ToldIs, ToldByFile
    <2> QED
      BY <2>1, <2>2 DEF IInv, QueueShape, LastFile
  <1> QED
    BY <1>1, <1>2

-----------------------------------------------------------------------------
(* Moves of memory and state file                                           *)

LEMMA IdType ==
    ASSUME NEW top \in 0..MaxIncidents, NEW alert \in Alerts, AlertShape(alert, top)
    PROVE  /\ alert.id # NoId => alert.id \in Incidents /\ alert.id \in 1..top
           /\ Row(alert) \in Rows
  BY AlertAssumption, RowType DEF Alerts, AlertShape, Incidents, NoId

(* The incidents an alert's state can name.                                 *)
LEMMA IncidentTypes ==
    ASSUME NEW mem, NEW dsk, NEW known, NEW top, NEW gone,
           StateTypes(mem, dsk, known, top, gone), IdShape(mem, dsk, top), NEW n \in Names
    PROVE  /\ mem[n].id # NoId => mem[n].id \in Incidents /\ mem[n].id \in 1..top
           /\ dsk[n].id # NoId => dsk[n].id \in Incidents /\ dsk[n].id \in 1..top
           /\ Row(mem[n]) \in Rows /\ Row(dsk[n]) \in Rows
  <1>1. mem[n] \in Alerts /\ dsk[n] \in Alerts /\ top \in 0..MaxIncidents
    BY DEF StateTypes
  <1>2. AlertShape(mem[n], top) /\ AlertShape(dsk[n], top)
    BY DEF IdShape
  <1> QED
    BY <1>1, <1>2, IdType

PersistedFrom(mem, known) ==
    [i \in Incidents |-> IF \E n \in Names : mem[n].id = i
                         THEN Row(mem[CHOOSE n \in Names : mem[n].id = i]) ELSE known[i]]

(* PersistStates writes every alert's own row.                              *)
LEMMA PersistedIs ==
    ASSUME NEW mem, NEW dsk, NEW known, NEW top, NEW gone, NEW told,
           StateShape(mem, dsk, known, top, gone, told)
    PROVE  LET next == PersistedFrom(mem, known)
           IN  /\ next \in [Incidents -> Rows]
               /\ \A n \in Names : mem[n].id # NoId => next[mem[n].id] = Row(mem[n])
               /\ \A i \in Incidents : (\A n \in Names : mem[n].id # i) => next[i] = known[i]
               /\ \A i \in Incidents : Follows(known[i], next[i])
  <1> DEFINE next == PersistedFrom(mem, known)
  <1>1. /\ StateTypes(mem, dsk, known, top, gone) /\ IdShape(mem, dsk, top)
        /\ SavedShape(mem, dsk, known, top)
    BY DEF StateShape
  <1>2. \A n \in Names : Row(mem[n]) \in Rows
    BY <1>1, IncidentTypes
  <1>3. ASSUME NEW n \in Names, mem[n].id # NoId
        PROVE  mem[n].id \in Incidents /\ next[mem[n].id] = Row(mem[n])
    <2> DEFINE c == CHOOSE m \in Names : mem[m].id = mem[n].id
    <2>1. mem[n].id \in Incidents
      BY <1>1, <1>3, IncidentTypes
    <2>2. c \in Names /\ mem[c].id = mem[n].id
      OBVIOUS
    <2>3. c = n
      BY <1>1, <1>3, <2>2 DEF IdShape
    <2>4. next[mem[n].id] = Row(mem[c])
      BY <2>1 DEF PersistedFrom
    <2> QED
      BY <2>1, <2>3, <2>4
  <1>4. ASSUME NEW i \in Incidents, \A n \in Names : mem[n].id # i
        PROVE  next[i] = known[i]
    BY <1>4 DEF PersistedFrom
  <1>5. \A i \in Incidents : i # NoId
    BY AlertAssumption DEF Incidents, NoId
  <1> HIDE DEF next
  <1>6. ASSUME NEW i \in Incidents
        PROVE  next[i] \in Rows /\ Follows(known[i], next[i])
    <2>1. CASE \A n \in Names : mem[n].id # i
      BY <1>1, <1>4, <2>1, FollowsReflexive DEF StateTypes
    <2>2. CASE \E n \in Names : mem[n].id = i
      <3>1. PICK n \in Names : mem[n].id = i
        BY <2>2
      <3>2. next[i] = Row(mem[n]) /\ mem[n].id # NoId
        BY <1>3, <1>5, <3>1
      <3> QED
        BY <1>1, <1>2, <3>1, <3>2 DEF SavedShape
    <2> QED
      BY <2>1, <2>2
  <1>7. next \in [Incidents -> Rows]
    <2>1. next = [i \in Incidents |-> next[i]]
      BY DEF next, PersistedFrom
    <2> QED
      BY <1>6, <2>1
  <1> QED
    BY <1>3, <1>4, <1>6, <1>7 DEF next

(* Saving.                                                                  *)
LEMMA PersistMoves ==
    ASSUME NEW mem, NEW dsk, NEW known, NEW top, NEW gone, NEW told,
           StateShape(mem, dsk, known, top, gone, told)
    PROVE  StateShape(mem, mem, PersistedFrom(mem, known), top, gone, told)
  <1> DEFINE next == PersistedFrom(mem, known)
  <1>1. /\ StateTypes(mem, dsk, known, top, gone) /\ IdShape(mem, dsk, top)
        /\ SavedShape(mem, dsk, known, top) /\ Remembered(mem, dsk, gone, told)
    BY DEF StateShape
  <1>2. /\ next \in [Incidents -> Rows]
        /\ \A n \in Names : mem[n].id # NoId => next[mem[n].id] = Row(mem[n])
        /\ \A i \in Incidents : (\A n \in Names : mem[n].id # i) => next[i] = known[i]
    BY PersistedIs
  <1> HIDE DEF next
  <1>3. StateTypes(mem, mem, next, top, gone)
    BY <1>1, <1>2 DEF StateTypes
  <1>4. IdShape(mem, mem, top)
    BY <1>1 DEF IdShape
  <1>5. SavedShape(mem, mem, next, top)
    <2>1. ASSUME NEW i \in Incidents, i > top
          PROVE  next[i] = NoRow
      <3>1. \A n \in Names : mem[n].id # i
        <4>1. \A n \in Names : mem[n].id <= top /\ mem[n].id \in Int
          BY <1>1, AlertAssumption
             DEF IdShape, AlertShape, StateTypes, Alerts, Incidents, NoId
        <4> QED
          BY <1>1, <2>1, <4>1 DEF StateTypes
      <3> QED
        BY <1>1, <1>2, <2>1, <3>1 DEF SavedShape
    <2>2. \A n \in Names : mem[n].id # NoId => Follows(next[mem[n].id], Row(mem[n]))
      BY <1>2, FollowsReflexive
    <2> QED
      BY <1>2, <2>1, <2>2 DEF SavedShape
  <1>6. Remembered(mem, mem, gone, told)
    <2>1. ASSUME NEW i \in Incidents, told[i].state = "ACTIVE", i \notin gone
          PROVE  \E n \in Names : mem[n].id = i
      <3>1. PICK n \in Names : dsk[n].id = i
        BY <1>1, <2>1 DEF Remembered
      <3>2. i # NoId
        BY AlertAssumption DEF Incidents, NoId
      <3>3. mem[n].id = i
        BY <1>1, <2>1, <3>1, <3>2 DEF Remembered
      <3> QED
        BY <3>3
    <2> QED
      BY <1>1, <2>1 DEF Remembered
  <1> QED
    BY <1>3, <1>4, <1>5, <1>6 DEF StateShape, next

(* Dying: what was only in memory is gone.                                  *)
LEMMA CrashMoves ==
    ASSUME NEW mem, NEW dsk, NEW known, NEW top, NEW gone, NEW told,
           StateShape(mem, dsk, known, top, gone, told)
    PROVE  StateShape(dsk, dsk, known, top, gone \ {dsk[n].id : n \in Names}, told)
  <1> DEFINE left == gone \ {dsk[n].id : n \in Names}
  <1>1. /\ StateTypes(mem, dsk, known, top, gone) /\ IdShape(mem, dsk, top)
        /\ SavedShape(mem, dsk, known, top) /\ Remembered(mem, dsk, gone, told)
    BY DEF StateShape
  <1>2. StateTypes(dsk, dsk, known, top, left)
    BY <1>1 DEF StateTypes
  <1>3. IdShape(dsk, dsk, top)
    BY <1>1 DEF IdShape
  <1>4. SavedShape(dsk, dsk, known, top)
    BY <1>1, FollowsReflexive DEF SavedShape
  <1>5. Remembered(dsk, dsk, left, told)
    BY <1>1 DEF Remembered
  <1> QED
    BY <1>2, <1>3, <1>4, <1>5 DEF StateShape

(* One alert of memory changes, and stays with its incident.                *)
LEMMA ChangeMoves ==
    ASSUME NEW mem, NEW dsk, NEW known, NEW top, NEW gone, NEW told,
           StateShape(mem, dsk, known, top, gone, told),
           NEW n \in Names, NEW alert \in Alerts, alert.id = mem[n].id,
           AlertShape(alert, top), mem[n].id # NoId => Follows(Row(mem[n]), Row(alert)),
           ClosedAndTold(alert, told)
    PROVE  StateShape([mem EXCEPT ![n] = alert], dsk, known, top, gone, told)
  <1> DEFINE next == [mem EXCEPT ![n] = alert]
  <1>1. /\ StateTypes(mem, dsk, known, top, gone) /\ IdShape(mem, dsk, top)
        /\ SavedShape(mem, dsk, known, top) /\ Remembered(mem, dsk, gone, told)
    BY DEF StateShape
  <1>2. next \in [Names -> Alerts] /\ next[n] = alert
        /\ \A m \in Names \ {n} : next[m] = mem[m]
    BY <1>1 DEF StateTypes
  <1> HIDE DEF next
  <1>3. \A m \in Names : next[m].id = mem[m].id
    BY <1>2
  <1>4. StateTypes(next, dsk, known, top, gone)
    BY <1>1, <1>2 DEF StateTypes
  <1>5. IdShape(next, dsk, top)
    <2>1. \A m \in Names : AlertShape(next[m], top)
      BY <1>1, <1>2 DEF IdShape
    <2> QED
      BY <1>1, <1>3, <2>1 DEF IdShape
  <1>6. SavedShape(next, dsk, known, top)
    <2>1. ASSUME NEW m \in Names, next[m].id # NoId
          PROVE  Follows(known[next[m].id], Row(next[m]))
      <3>1. CASE m # n
        BY <1>1, <1>2, <2>1, <3>1 DEF SavedShape
      <3>2. CASE m = n
        <4>1. mem[n].id \in Incidents /\ Row(mem[n]) \in Rows
          BY <1>1, <1>3, <2>1, <3>2, IncidentTypes
        <4>2. known[mem[n].id] \in Rows /\ Row(alert) \in Rows
          BY <1>1, <4>1, RowType DEF StateTypes
        <4>3. Follows(known[mem[n].id], Row(mem[n])) /\ Follows(Row(mem[n]), Row(alert))
          BY <1>1, <1>3, <2>1, <3>2 DEF SavedShape
        <4> QED
          BY <1>2, <3>2, <4>1, <4>2, <4>3, FollowsTransitive
      <3> QED
        BY <3>1, <3>2
    <2> QED
      BY <1>1, <1>3, <2>1 DEF SavedShape
  <1>7. Remembered(next, dsk, gone, told)
    BY <1>1, <1>2, <1>3 DEF Remembered
  <1> QED
    BY <1>4, <1>5, <1>6, <1>7 DEF StateShape, next

(* An incident is opened, in the place of one that is not active.           *)
LEMMA OpenMoves ==
    ASSUME NEW mem, NEW dsk, NEW known, NEW top, NEW gone, NEW told,
           StateShape(mem, dsk, known, top, gone, told), top < MaxIncidents,
           NEW n \in Names, mem[n].state # "ACTIVE",
           NEW alert \in Alerts, alert.id = top + 1, alert.state = "ACTIVE"
    PROVE  StateShape([mem EXCEPT ![n] = alert], dsk, known, top + 1,
                      IF mem[n].dirty THEN gone \cup {mem[n].id} ELSE gone, told)
  <1> DEFINE next == [mem EXCEPT ![n] = alert]
             left == IF mem[n].dirty THEN gone \cup {mem[n].id} ELSE gone
  <1>1. /\ StateTypes(mem, dsk, known, top, gone) /\ IdShape(mem, dsk, top)
        /\ SavedShape(mem, dsk, known, top) /\ Remembered(mem, dsk, gone, told)
    BY DEF StateShape
  <1>2. next \in [Names -> Alerts] /\ next[n] = alert
        /\ \A m \in Names \ {n} : next[m] = mem[m]
    BY <1>1 DEF StateTypes
  <1>3. /\ MaxIncidents \in Nat /\ top \in Nat /\ top + 1 \in Incidents /\ top + 1 # NoId
        /\ top + 1 \in 0..MaxIncidents
        /\ \A m \in Names : /\ mem[m].id \in Nat /\ mem[m].id <= top
                            /\ dsk[m].id \in Nat /\ dsk[m].id <= top
        /\ \A i \in Incidents : i \in Nat
    BY <1>1, AlertAssumption
       DEF StateTypes, Incidents, NoId, IdShape, AlertShape, Alerts
  <1>4. mem[n].dirty => mem[n].id \in 1..top
    BY <1>1, IncidentTypes DEF IdShape, AlertShape
  <1>5. StateTypes(next, dsk, known, top + 1, left)
    <2>1. \A i \in 1..top : i \in 1..top+1
      BY <1>3
    <2>2. left \subseteq 1..top+1
      BY <1>1, <1>4, <2>1 DEF StateTypes
    <2> HIDE DEF left, next
    <2> QED
      BY <1>1, <1>2, <1>3, <2>2 DEF StateTypes
  <1> HIDE DEF next
  <1>6. IdShape(next, dsk, top + 1)
    <2>1. \A m \in Names : AlertShape(next[m], top + 1) /\ AlertShape(dsk[m], top + 1)
      <3>1. \A m \in Names : AlertShape(mem[m], top) /\ AlertShape(dsk[m], top)
        BY <1>1 DEF IdShape
      <3>2. \A m \in Names : mem[m].id <= top + 1 /\ dsk[m].id <= top + 1
        BY <1>3
      <3>3. AlertShape(alert, top + 1)
        BY <1>3 DEF AlertShape
      <3> QED
        BY <1>2, <3>1, <3>2, <3>3 DEF AlertShape
    <2>2. \A m \in Names : mem[m].id # top + 1 /\ dsk[m].id # top + 1
      BY <1>3
    <2> QED
      BY <1>1, <1>2, <2>1, <2>2 DEF IdShape
  <1>7. known[top + 1] = NoRow
    BY <1>1, <1>3 DEF SavedShape
  <1>8. SavedShape(next, dsk, known, top + 1)
    <2>1. \A i \in Incidents : i > top + 1 => known[i] = NoRow
      BY <1>1, <1>3 DEF SavedShape
    <2>2. \A m \in Names : /\ next[m].id # NoId => Follows(known[next[m].id], Row(next[m]))
                           /\ next[m].id # NoId /\ dsk[m].id # next[m].id =>
                                 known[next[m].id] = NoRow
      BY <1>1, <1>2, <1>7, NoRowFirst DEF SavedShape
    <2> QED
      BY <1>1, <2>1, <2>2 DEF SavedShape
  <1>9. ASSUME dsk[n].id # NoId
        PROVE  dsk[n].id \in left \/ told[dsk[n].id].state # "ACTIVE"
    <2>1. CASE dsk[n].id # mem[n].id
      BY <1>1, <1>9, <2>1 DEF Remembered
    <2>2. CASE dsk[n].id = mem[n].id
      <3>1. mem[n].state = "CLEARED"
        <4>1. mem[n].state # "none"
          BY <1>1, <1>9, <2>2 DEF IdShape, AlertShape
        <4> QED
          BY <1>1, <4>1 DEF StateTypes, Alerts
      <3>2. ~mem[n].dirty => told[mem[n].id].state # "ACTIVE"
        BY <1>1, <3>1 DEF Remembered, ClosedAndTold
      <3> QED
        BY <2>2, <3>2
    <2> QED
      BY <2>1, <2>2
  <1>10. Remembered(next, dsk, left, told)
    <2>1. gone \subseteq left
      OBVIOUS
    <2>2. ClosedAndTold(alert, told)
      BY DEF ClosedAndTold
    <2> HIDE DEF left
    <2> QED
      BY <1>1, <1>2, <1>9, <2>1, <2>2 DEF Remembered
  <1> QED
    BY <1>5, <1>6, <1>8, <1>10 DEF StateShape, next

(* A record is sent, while memory and state file agree.                     *)
LEMMA TellMoves ==
    ASSUME NEW mem, NEW dsk, NEW known, NEW top, NEW gone, NEW told, NEW now,
           StateShape(mem, dsk, known, top, gone, told),
           \A m \in Names : SameIncident(mem[m], dsk[m]),
           NEW n \in Names, mem[n].id # NoId,
           \A i \in Incidents : now[i] = IF i = mem[n].id THEN Row(mem[n]) ELSE told[i]
    PROVE  StateShape(mem, dsk, known, top, gone, now)
  <1>1. /\ StateTypes(mem, dsk, known, top, gone) /\ IdShape(mem, dsk, top)
        /\ SavedShape(mem, dsk, known, top) /\ Remembered(mem, dsk, gone, told)
    BY DEF StateShape
  <1>2. /\ \A m \in Names : mem[m].id = dsk[m].id /\ mem[m].state = dsk[m].state
        /\ Row(mem[n]).state = mem[n].state
    BY DEF SameIncident, Row
  <1>3. ASSUME NEW m \in Names
        PROVE  ClosedAndTold(mem[m], now) /\ ClosedAndTold(dsk[m], now)
    <2>1. CASE mem[m].id = NoId
      <3>1. mem[m].state = "none" /\ dsk[m].state = "none"
        BY <1>1, <1>2, <2>1 DEF IdShape, AlertShape
      <3> QED
        BY <3>1 DEF ClosedAndTold
    <2>2. CASE mem[m].id # NoId /\ m # n
      <3>1. mem[m].id \in Incidents /\ mem[m].id # mem[n].id
        BY <1>1, <2>2, IncidentTypes DEF IdShape
      <3>2. now[mem[m].id] = told[mem[m].id]
        BY <3>1
      <3> QED
        BY <1>1, <1>2, <3>2 DEF Remembered, ClosedAndTold
    <2>3. CASE mem[m].id # NoId /\ m = n
      <3>1. mem[n].id \in Incidents
        BY <1>1, <2>3, IncidentTypes
      <3>2. now[mem[n].id].state = mem[n].state
        BY <1>2, <3>1
      <3> QED
        BY <1>2, <2>3, <3>2 DEF ClosedAndTold
    <2> QED
      BY <2>1, <2>2, <2>3
  <1>4. ASSUME NEW i \in Incidents, now[i].state = "ACTIVE"
        PROVE  i \in gone \/ \E m \in Names : dsk[m].id = i
    BY <1>1, <1>2, <1>4 DEF Remembered
  <1>5. Remembered(mem, dsk, gone, now)
    BY <1>2, <1>3, <1>4 DEF Remembered
  <1> QED
    BY <1>1, <1>5 DEF StateShape

-----------------------------------------------------------------------------
(* Moves of the outbox, the requests and the table                          *)

AnyFile == [id : Incidents, row : Rows]

QueueTypes(files, l, t, known) ==
    /\ files \in Seq(AnyFile)
    /\ l \in [Incidents -> Rows] /\ t \in [Incidents -> Rows] /\ known \in [Incidents -> Rows]

(* The fields of a queued file.                                             *)
LEMMA FileTypes ==
    ASSUME NEW files \in Seq(AnyFile)
    PROVE  /\ DOMAIN files = 1..Len(files) /\ Len(files) \in Nat
           /\ \A k \in 1..Len(files) : files[k].id \in Incidents /\ files[k].row \in Rows
  <1>1. DOMAIN files = 1..Len(files) /\ Len(files) \in Nat
    BY LenProperties
  <1>2. \A k \in 1..Len(files) : files[k] \in AnyFile
    BY ElementOfSeq
  <1> QED
    BY <1>1, <1>2 DEF AnyFile

(* The state file moves on.                                                 *)
LEMMA SaveMovesQueue ==
    ASSUME NEW files, NEW l, NEW t, NEW known, NEW next \in [Incidents -> Rows],
           QueueTypes(files, l, t, known), QueueShape(files, l, t, known),
           \A i \in Incidents : Follows(known[i], next[i])
    PROVE  QueueShape(files, l, t, next)
  <1>1. \A i \in Incidents : /\ known[i] \in Rows /\ next[i] \in Rows
                             /\ l[i] \in Rows /\ t[i] \in Rows
    BY DEF QueueTypes
  <1>2. /\ DOMAIN files = 1..Len(files)
        /\ \A k \in DOMAIN files : files[k].id \in Incidents /\ files[k].row \in Rows
    BY FileTypes DEF QueueTypes
  <1>3. \A i \in Incidents : Follows(t[i], next[i]) /\ Follows(l[i], next[i])
    BY <1>1, FollowsTransitive DEF QueueShape
  <1>4. \A k \in DOMAIN files : Follows(files[k].row, next[files[k].id])
    BY <1>1, <1>2, FollowsTransitive DEF QueueShape
  <1> QED
    BY <1>3, <1>4 DEF QueueShape

(* A file that says what the state file says is added.                      *)
LEMMA AppendMovesQueue ==
    ASSUME NEW files, NEW l, NEW t, NEW known,
           QueueTypes(files, l, t, known), QueueShape(files, l, t, known),
           NEW file \in AnyFile, file.row = known[file.id]
    PROVE  QueueShape(Append(files, file), l, t, known)
  <1> DEFINE more == Append(files, file)
  <1>1. files \in Seq(AnyFile)
    BY DEF QueueTypes
  <1>2. /\ DOMAIN more = 1..Len(files)+1 /\ DOMAIN files = 1..Len(files)
        /\ Len(files) \in Nat /\ more[Len(files) + 1] = file
        /\ \A k \in 1..Len(files) : more[k] = files[k]
    BY <1>1, AppendProperties, LenProperties
  <1>3. file.id \in Incidents
    BY DEF AnyFile
  <1> HIDE DEF more
  <1>4. ASSUME NEW k \in DOMAIN more
        PROVE  /\ Follows(t[more[k].id], more[k].row)
               /\ Follows(l[more[k].id], more[k].row)
               /\ Follows(more[k].row, known[more[k].id])
               /\ \A j \in 1..k : more[j].id = more[k].id => Follows(more[j].row, more[k].row)
    <2>1. CASE k \in 1..Len(files)
      <3>1. more[k] = files[k] /\ \A j \in 1..k : more[j] = files[j]
        BY <1>2, <2>1
      <3> QED
        BY <1>2, <2>1, <3>1 DEF QueueShape
    <2>2. CASE k = Len(files) + 1
      <3>1. more[k] = file
        BY <1>2, <2>2
      <3>2. \A j \in 1..Len(files) : Follows(files[j].row, known[files[j].id])
        BY <1>2 DEF QueueShape
      <3>3. ASSUME NEW j \in 1..k, more[j].id = more[k].id
            PROVE  Follows(more[j].row, more[k].row)
        <4>1. CASE j = k
          BY <4>1, FollowsReflexive
        <4>2. CASE j # k
          <5>1. j \in 1..Len(files) /\ more[j] = files[j]
            BY <1>2, <2>2, <4>2
          <5> QED
            BY <3>1, <3>2, <3>3, <5>1
        <4> QED
          BY <4>1, <4>2
      <3> QED
        BY <1>3, <3>1, <3>3, FollowsReflexive DEF QueueShape
    <2> QED
      BY <1>2, <2>1, <2>2
  <1>5. QueueShape(more, l, t, known)
    BY <1>4 DEF QueueShape
  <1> QED
    BY <1>5 DEF more

(* A request for the oldest file may arrive later.                          *)
LEMMA LateMovesQueue ==
    ASSUME NEW files, NEW l, NEW t, NEW known,
           QueueTypes(files, l, t, known), QueueShape(files, l, t, known), files # <<>>
    PROVE  QueueShape(files, [l EXCEPT ![files[1].id] = files[1].row], t, known)
  <1> DEFINE i == files[1].id
             m == [l EXCEPT ![i] = files[1].row]
  <1>1. /\ DOMAIN files = 1..Len(files) /\ 1 \in DOMAIN files /\ i \in Incidents
        /\ Len(files) \in Nat
    BY FileTypes, EmptySeq DEF QueueTypes
  <1>2. m[i] = files[1].row /\ \A j \in Incidents \ {i} : m[j] = l[j]
    BY <1>1 DEF QueueTypes
  <1>3. \A k \in DOMAIN files : files[k].id \in Incidents
    BY <1>1, FileTypes DEF QueueTypes
  <1>4. \A k \in DOMAIN files : files[k].id = i => Follows(files[1].row, files[k].row)
    <2>1. \A k \in DOMAIN files : 1 \in 1..k
      BY <1>1
    <2> QED
      BY <2>1 DEF QueueShape
  <1> HIDE DEF m, i
  <1>5. ASSUME NEW j \in Incidents
        PROVE  Follows(m[j], known[j]) /\ (m[j] # NoRow => Follows(t[j], m[j]))
    <2>1. CASE j = i
      BY <1>1, <1>2, <2>1 DEF QueueShape, i
    <2>2. CASE j # i
      BY <1>2, <2>2 DEF QueueShape
    <2> QED
      BY <2>1, <2>2
  <1>6. \A k \in DOMAIN files : Follows(m[files[k].id], files[k].row)
    BY <1>2, <1>3, <1>4 DEF QueueShape
  <1>7. QueueShape(files, m, t, known)
    BY <1>5, <1>6 DEF QueueShape
  <1> QED
    BY <1>7 DEF m, i

(* A request arrives.                                                       *)
LEMMA ArrivalMovesQueue ==
    ASSUME NEW files, NEW l, NEW t, NEW known,
           QueueTypes(files, l, t, known), QueueShape(files, l, t, known),
           NEW i \in Incidents, NEW r, Follows(r, known[i]),
           \A k \in DOMAIN files : files[k].id = i => Follows(r, files[k].row)
    PROVE  QueueShape(files, [l EXCEPT ![i] = NoRow], [t EXCEPT ![i] = r], known)
  <1> DEFINE m == [l EXCEPT ![i] = NoRow]
             u == [t EXCEPT ![i] = r]
  <1>1. /\ m[i] = NoRow /\ u[i] = r
        /\ \A j \in Incidents \ {i} : m[j] = l[j] /\ u[j] = t[j]
    BY DEF QueueTypes
  <1>2. \A k \in DOMAIN files : files[k].id \in Incidents
    BY FileTypes DEF QueueTypes
  <1> HIDE DEF m, u
  <1>3. \A j \in Incidents : /\ Follows(u[j], known[j]) /\ Follows(m[j], known[j])
                             /\ m[j] # NoRow => Follows(u[j], m[j])
    BY <1>1, NoRowFirst DEF QueueShape
  <1>4. \A k \in DOMAIN files : /\ Follows(u[files[k].id], files[k].row)
                                /\ Follows(m[files[k].id], files[k].row)
    BY <1>1, <1>2, NoRowFirst DEF QueueShape
  <1>5. QueueShape(files, m, u, known)
    BY <1>3, <1>4 DEF QueueShape
  <1> QED
    BY <1>5 DEF m, u

(* The oldest file is removed.                                              *)
LEMMA TailMovesQueue ==
    ASSUME NEW files, NEW l, NEW t, NEW known,
           QueueTypes(files, l, t, known), QueueShape(files, l, t, known), files # <<>>
    PROVE  QueueShape(Tail(files), l, t, known)
  <1> DEFINE rest == Tail(files)
  <1>1. /\ DOMAIN files = 1..Len(files) /\ Len(files) \in Nat
        /\ DOMAIN rest = 1..Len(files)-1
        /\ \A k \in 1..Len(files)-1 : rest[k] = files[k + 1]
    BY HeadTailProperties, LenProperties, EmptySeq DEF QueueTypes
  <1> HIDE DEF rest
  <1>2. ASSUME NEW k \in DOMAIN rest
        PROVE  /\ Follows(t[rest[k].id], rest[k].row)
               /\ Follows(l[rest[k].id], rest[k].row)
               /\ Follows(rest[k].row, known[rest[k].id])
               /\ \A j \in 1..k : rest[j].id = rest[k].id => Follows(rest[j].row, rest[k].row)
    <2>1. k + 1 \in DOMAIN files /\ rest[k] = files[k + 1]
      BY <1>1
    <2>2. \A j \in 1..k : j + 1 \in 1..k+1 /\ rest[j] = files[j + 1]
      BY <1>1
    <2> QED
      BY <2>1, <2>2 DEF QueueShape
  <1>3. QueueShape(rest, l, t, known)
    BY <1>2 DEF QueueShape
  <1> QED
    BY <1>3 DEF rest

-----------------------------------------------------------------------------
(* The worker's steps and ClickHouse                                        *)

ContractStep == [Contract!Next]_<<saved, table>>

(* A queue of records is a queue of typed records.                          *)
LEMMA QueueIsTyped ==
    ASSUME IInv
    PROVE  QueueTypes(outbox, late, table, saved) /\ QueueShape(outbox, late, table, saved)
  <1>1. outbox \in Seq(Files) /\ \A i \in 1..opened : i \in Incidents
    BY OutboxTypes DEF IInv
  <1>2. Files \subseteq AnyFile
    BY <1>1 DEF Files, AnyFile
  <1>3. outbox \in Seq(AnyFile)
    BY <1>1, <1>2, SeqDef
  <1> QED
    BY <1>3 DEF IInv, TypeOK, QueueTypes

(* What is left to show of a step that concerns only the queue.             *)
LEMMA DeliveryMoves ==
    ASSUME IInv, UNCHANGED deliveryUnchanged,
           outbox' \in Seq(Files), worker' \in {"prepare", "send", "remove"},
           worker' = "remove" => outbox' # <<>>,
           table' \in [Incidents -> Rows], late' \in [Incidents -> Rows],
           QueueShape(outbox', late', table', saved), WorkerShape',
           \A i \in Incidents : ToldIn(outbox', late', table', i) = ToldIn(outbox, late, table, i)
    PROVE  IInv'
  <1> USE DEF deliveryUnchanged, processVars, stateVars, evaluatorVars
  <1>1. TypeOK'
    BY DEF IInv, TypeOK, Files
  <1>2. EvaluatorShape'
    BY DEF IInv, EvaluatorShape, SameIncident, Row, Active, Breaches
  <1>3. Told' = Told
    BY ToldIs, ToldIsAfter DEF Told
  <1>4. StateShape(memory, disk, saved, opened, replaced, Told)'
    <2>1. StateShape(memory', disk', saved', opened', replaced', Told')
      BY <1>3 DEF IInv
    <2> QED
      BY <2>1 DEF StateShape, StateTypes, IdShape, AlertShape, SavedShape, Remembered,
                  ClosedAndTold
  <1>5. QueueShape(outbox, late, table, saved)'
    BY DEF QueueShape
  <1> QED
    BY <1>1, <1>2, <1>4, <1>5 DEF IInv

(* The head of the outbox is a file, and every other file was queued after  *)
(* it.                                                                      *)
LEMMA OldestFile ==
    ASSUME IInv, outbox # <<>>
    PROVE  /\ Head(outbox) = outbox[1] /\ 1 \in DOMAIN outbox
           /\ outbox[1].id \in Incidents /\ outbox[1].row \in Rows
           /\ Follows(table[outbox[1].id], outbox[1].row)
           /\ Follows(outbox[1].row, saved[outbox[1].id])
           /\ \A k \in DOMAIN outbox :
                 outbox[k].id = outbox[1].id => Follows(outbox[1].row, outbox[k].row)
           /\ ~NoFile(outbox, outbox[1].id)
  <1>1. outbox \in Seq(Files) /\ Len(outbox) \in Nat /\ DOMAIN outbox = 1..Len(outbox)
    BY OutboxTypes DEF IInv
  <1>2. Head(outbox) = outbox[1] /\ 1 \in DOMAIN outbox
    BY <1>1, HeadTailProperties, EmptySeq
  <1>3. outbox[1].id \in Incidents /\ outbox[1].row \in Rows
    BY <1>2, OutboxTypes DEF IInv
  <1>4. \A k \in DOMAIN outbox : 1 \in 1..k
    BY <1>1
  <1> QED
    BY <1>2, <1>3, <1>4 DEF IInv, QueueShape, NoFile

(* A new attempt at the oldest file touches no data.                        *)
LEMMA PrepareSafe ==
    ASSUME IInv, Prepare \/ RemoveFails
    PROVE  IInv' /\ ContractStep
  <1> USE DEF Prepare, RemoveFails, deliveryUnchanged, stateVars
  <1>1. worker' = "send" /\ UNCHANGED <<deliveryUnchanged, outbox, table, late>>
    OBVIOUS
  <1>2. IInv'
    BY <1>1, DeliveryMoves, QueueIsTyped, OutboxTypes
       DEF IInv, TypeOK, WorkerShape, Files
  <1> QED
    BY <1>1, <1>2 DEF ContractStep

(* A successful request: the table shows the queued record or a newer one.  *)
LEMMA UpsertSafe ==
    ASSUME IInv, Upsert
    PROVE  IInv' /\ ContractStep
  <1> USE DEF Upsert, Arrives
  <1> DEFINE i == outbox[1].id
             r == outbox[1].row
  <1>1. /\ i \in Incidents /\ r \in Rows
        /\ table' = [table EXCEPT ![i] = r] /\ late' = [late EXCEPT ![i] = NoRow]
    BY OldestFile
  <1>2. /\ table \in [Incidents -> Rows] /\ late \in [Incidents -> Rows]
        /\ outbox \in Seq(Files)
    BY OutboxTypes DEF IInv, TypeOK
  <1>3. table' \in [Incidents -> Rows] /\ late' \in [Incidents -> Rows]
    BY <1>1, <1>2, NoRowFirst
  <1>4. QueueShape(outbox', late', table', saved)
    <2>1. /\ Follows(r, saved[i])
          /\ \A k \in DOMAIN outbox : outbox[k].id = i => Follows(r, outbox[k].row)
      BY OldestFile
    <2>2. outbox' = outbox
      OBVIOUS
    <2> HIDE DEF i, r
    <2> QED
      BY ONLY <1>1, <2>1, <2>2, QueueIsTyped, ArrivalMovesQueue, IInv
  <1>5. WorkerShape'
    BY <1>1, <1>2 DEF WorkerShape
  <1>6. ASSUME NEW j \in Incidents
        PROVE  ToldIn(outbox', late', table', j) = ToldIn(outbox, late, table, j)
    <2>1. CASE j = i
      BY <1>2, <2>1, OldestFile, ToldShadowed
    <2>2. CASE j # i
      <3>1. Delivered(late, table, j) = Delivered(late', table', j)
        BY <1>1, <1>2, <2>2 DEF Delivered
      <3> QED
        BY <1>2, <3>1, ToldShadowed
    <2> QED
      BY <2>1, <2>2
  <1>7. IInv'
    BY <1>2, <1>3, <1>4, <1>5, <1>6, DeliveryMoves
  <1>8. Contract!Show(i, table'[i])
    BY <1>1, <1>2, OldestFile DEF Contract!Show, Follows, deliveryUnchanged, stateVars
  <1> QED
    BY <1>1, <1>7, <1>8 DEF ContractStep, Contract!Next

(* A request that arrives after its timeout cannot undo a newer one.        *)
LEMMA LateArrivalSafe ==
    ASSUME IInv, NEW i \in Incidents, LateArrival(i)
    PROVE  IInv' /\ ContractStep
  <1> USE DEF LateArrival, Arrives
  <1>1. /\ table \in [Incidents -> Rows] /\ late \in [Incidents -> Rows]
        /\ outbox \in Seq(Files)
        /\ worker \in {"prepare", "send", "remove"}
        /\ worker = "remove" => outbox # <<>>
    BY OutboxTypes DEF IInv, TypeOK
  <1>2. table' \in [Incidents -> Rows] /\ late' \in [Incidents -> Rows]
    BY <1>1, NoRowFirst
  <1>3. Follows(late[i], saved[i]) /\ Follows(table[i], late[i])
    BY DEF IInv, QueueShape
  <1>4. QueueShape(outbox', late', table', saved)
    <2>1. \A k \in DOMAIN outbox : outbox[k].id = i => Follows(late[i], outbox[k].row)
      BY DEF IInv, QueueShape
    <2> QED
      BY <1>3, <2>1, QueueIsTyped, ArrivalMovesQueue
  <1>5. WorkerShape'
    <2>1. ASSUME worker = "remove"
          PROVE  outbox[1].id \in Incidents /\ outbox[1].id # i
      BY <1>1, <2>1, OldestFile DEF IInv, WorkerShape
    <2> QED
      BY <1>1, <2>1 DEF IInv, WorkerShape
  <1>6. ASSUME NEW j \in Incidents
        PROVE  ToldIn(outbox', late', table', j) = ToldIn(outbox, late, table, j)
    <2>1. Delivered(late, table, j) = Delivered(late', table', j)
      BY <1>1 DEF Delivered
    <2> QED
      BY <1>1, <2>1, ToldShadowed
  <1>7. IInv'
    BY <1>1, <1>2, <1>4, <1>5, <1>6, DeliveryMoves
  <1>8. Contract!Show(i, table'[i])
    BY <1>1, <1>3 DEF Contract!Show, Follows, deliveryUnchanged, stateVars
  <1> QED
    BY <1>7, <1>8 DEF ContractStep, Contract!Next

(* A failed request leaves the file in the outbox.                          *)
LEMMA UpsertFailsSafe ==
    ASSUME IInv, UpsertFails
    PROVE  IInv' /\ ContractStep
  <1> USE DEF UpsertFails
  <1>1. /\ table \in [Incidents -> Rows] /\ late \in [Incidents -> Rows]
        /\ outbox \in Seq(Files) /\ worker \in {"prepare", "send", "remove"}
    BY OutboxTypes DEF IInv, TypeOK
  <1>2. late' = late \/ late' = [late EXCEPT ![outbox[1].id] = outbox[1].row]
    BY OldestFile
  <1>3. late' \in [Incidents -> Rows]
    BY <1>1, <1>2, OldestFile
  <1>4. QueueShape(outbox', late', table', saved)
    BY <1>2, QueueIsTyped, LateMovesQueue
  <1>5. WorkerShape'
    BY DEF WorkerShape
  <1>6. ASSUME NEW j \in Incidents
        PROVE  ToldIn(outbox', late', table', j) = ToldIn(outbox, late, table, j)
    <2>1. CASE j = outbox[1].id
      BY <1>1, <2>1, OldestFile, ToldShadowed
    <2>2. CASE j # outbox[1].id
      <3>1. Delivered(late, table, j) = Delivered(late', table', j)
        BY <1>1, <1>2, <2>2 DEF Delivered
      <3> QED
        BY <1>1, <3>1, ToldShadowed
    <2> QED
      BY <2>1, <2>2
  <1>7. IInv'
    BY <1>1, <1>3, <1>4, <1>5, <1>6, DeliveryMoves
  <1> QED
    BY <1>7 DEF ContractStep, deliveryUnchanged, stateVars

(* A file is removed only when the table shows what it says.                *)
LEMMA RemoveSentSafe ==
    ASSUME IInv, RemoveSent
    PROVE  IInv' /\ ContractStep
  <1> USE DEF RemoveSent
  <1>1. /\ table \in [Incidents -> Rows] /\ late \in [Incidents -> Rows]
        /\ outbox \in Seq(Files) /\ outbox # <<>>
    BY OutboxTypes DEF IInv, TypeOK
  <1>2. outbox' \in Seq(Files)
    BY <1>1, HeadTailProperties
  <1>3. QueueShape(outbox', late', table', saved)
    BY <1>1, QueueIsTyped, TailMovesQueue
  <1>4. outbox[1].row = Delivered(late, table, outbox[1].id)
    BY DEF IInv, WorkerShape, Delivered
  <1>5. \A j \in Incidents :
           ToldIn(outbox', late', table', j) = ToldIn(outbox, late, table, j)
    BY <1>1, <1>4, ToldTail
  <1>6. WorkerShape'
    BY DEF WorkerShape
  <1>7. IInv'
    BY <1>1, <1>2, <1>3, <1>5, <1>6, DeliveryMoves
  <1> QED
    BY <1>7 DEF ContractStep, deliveryUnchanged, stateVars

-----------------------------------------------------------------------------
(* The evaluator's steps                                                    *)

ControlOK ==
    /\ process \in {"down", "starting", "up"} /\ crashes \in 0..MaxCrashes
    /\ updateDue \subseteq Names /\ toReconcile \subseteq Names
    /\ evaluator \in [at : {"idle", "persist", "emit", "confirm"},
                      name : Names \cup {NoName}, rest : Levels \cup {-1}]
    /\ evaluator.at # "idle" => process = "up" /\ evaluator.name \in Names

(* The types of the program counters, apart from those of the data.         *)
LEMMA ControlIsOK == TypeOK => ControlOK
  BY DEF TypeOK, ControlOK

(* Files stay files when an incident is opened.                             *)
LEMMA FilesGrow ==
    ASSUME NEW top \in Nat, NEW next \in Nat, top <= next,
           NEW files \in Seq([id : 1..top, row : Rows])
    PROVE  files \in Seq([id : 1..next, row : Rows])
  <1> DEFINE S == [id : 1..top, row : Rows]
             T == [id : 1..next, row : Rows]
  <1>1. S \subseteq T
    <2>1. \A i \in 1..top : i \in 1..next
      OBVIOUS
    <2> QED
      BY <2>1
  <1>2. files \in Seq(S)
    OBVIOUS
  <1> HIDE DEF S, T
  <1>3. files \in Seq(T)
    BY ONLY <1>1, <1>2, SeqDef
  <1> QED
    BY <1>3 DEF T

(* What is left to show of a step that sends nothing.                       *)
LEMMA StateMoves ==
    ASSUME IInv, ControlOK', EvaluatorShape', manager' = manager,
           UNCHANGED <<outbox, table, late>>, worker' \in {worker, "prepare"},
           opened' \in {opened, opened + 1},
           saved' \in {saved, PersistedFrom(memory, saved)},
           StateShape(memory', disk', saved', opened', replaced', Told)
    PROVE  IInv' /\ ContractStep
  <1>1. /\ opened \in Nat /\ opened' \in Nat /\ opened <= opened'
        /\ saved \in [Incidents -> Rows] /\ saved' \in [Incidents -> Rows]
    BY OutboxTypes DEF IInv, TypeOK, StateShape, StateTypes
  <1>2. \A i \in Incidents : Follows(saved[i], saved'[i])
    BY PersistedIs, FollowsReflexive DEF IInv
  <1>3. QueueShape(outbox, late, table, saved)'
    <2>1. QueueShape(outbox, late, table, saved')
      BY <1>1, <1>2, QueueIsTyped, SaveMovesQueue
    <2> QED
      BY <2>1 DEF QueueShape
  <1>4. TypeOK'
    <2>1. outbox' \in Seq([id : 1..opened', row : Rows])
      <3>1. outbox \in Seq([id : 1..opened, row : Rows])
        BY DEF IInv, TypeOK
      <3>2. outbox \in Seq([id : 1..opened', row : Rows])
        BY <1>1, <3>1, FilesGrow
      <3> QED
        BY <3>2
    <2>2. StateTypes(memory', disk', saved', opened', replaced')
      BY DEF StateShape
    <2>3. /\ manager' \in Managers /\ worker' \in {"prepare", "send", "remove"}
          /\ worker' = "remove" => outbox' # <<>>
          /\ table' \in [Incidents -> Rows] /\ late' \in [Incidents -> Rows]
      BY DEF IInv, TypeOK
    <2> QED
      BY ONLY <2>1, <2>2, <2>3, ControlOK' DEF TypeOK, ControlOK, StateTypes
  <1>5. Told' = Told
    BY ToldIs, ToldIsAfter DEF Told
  <1>6. StateShape(memory, disk, saved, opened, replaced, Told)'
    <2>1. StateShape(memory', disk', saved', opened', replaced', Told')
      BY <1>5
    <2> QED
      BY <2>1 DEF StateShape, StateTypes, IdShape, AlertShape, SavedShape, Remembered,
                  ClosedAndTold
  <1>7. WorkerShape'
    BY DEF IInv, WorkerShape
  <1>8. IInv'
    BY <1>3, <1>4, <1>6, <1>7 DEF IInv
  <1>9. Contract!Save \/ UNCHANGED <<saved, table>>
    <2>1. saved' = [i \in Incidents |-> saved'[i]]
      BY <1>1
    <2> QED
      BY <1>2, <2>1 DEF Contract!Save, Follows
  <1> QED
    BY <1>8, <1>9 DEF ContractStep, Contract!Next

(* Unchanged memory and state file.                                         *)
LEMMA NothingMoves ==
    ASSUME IInv, ControlOK', EvaluatorShape', manager' = manager,
           UNCHANGED <<outbox, table, late, memory, disk, saved, opened, replaced>>,
           worker' \in {worker, "prepare"}
    PROVE  IInv' /\ ContractStep
  <1>1. StateShape(memory', disk', saved', opened', replaced', Told)
    BY DEF IInv
  <1> QED
    BY <1>1, StateMoves

(* A restart reads the state file: what was told is in it.                  *)
LEMMA StartSafe ==
    ASSUME IInv, Start
    PROVE  IInv' /\ ContractStep
  <1> USE DEF Start, LoadStates, deliveryVars
  <1>1. TypeOK /\ EvaluatorShape /\ ControlOK
    BY ControlIsOK DEF IInv
  <1>2. UNCHANGED <<manager, memory, disk, saved, opened, replaced, outbox, table, late, worker>>
    BY <1>1 DEF EvaluatorShape
  <1>3. ControlOK'
    BY <1>1 DEF ControlOK
  <1>4. \A m \in Names : disk[m].dirty => disk[m].id # NoId
    BY DEF IInv, StateShape, IdShape, AlertShape
  <1>5. EvaluatorShape'
    BY <1>1, <1>2, <1>4 DEF EvaluatorShape, ControlOK, SameIncident, Row, Active, Breaches
  <1> QED
    BY <1>2, <1>3, <1>5, NothingMoves

(* The end of the start-up, with or without reconciliation.                 *)
LEMMA FinishStartSafe ==
    ASSUME IInv, FinishStart
    PROVE  IInv' /\ ContractStep
  <1> USE DEF FinishStart, evaluatorVars, deliveryVars
  <1>1. TypeOK /\ EvaluatorShape /\ ControlOK
    BY ControlIsOK DEF IInv
  <1>2. ControlOK' /\ EvaluatorShape'
    BY <1>1 DEF ControlOK, EvaluatorShape
  <1>3. CASE UNCHANGED <<disk, saved>>
    BY <1>2, <1>3, NothingMoves
  <1>4. CASE PersistStates
    <2>1. disk' = memory /\ saved' = PersistedFrom(memory, saved) /\ UNCHANGED <<memory, opened, replaced>>
      BY <1>4 DEF PersistStates, PersistedFrom
    <2>2. StateShape(memory', disk', saved', opened', replaced', Told)
      BY <2>1, PersistMoves DEF IInv
    <2> QED
      BY <1>2, <2>1, <2>2, StateMoves
  <1> QED
    BY <1>3, <1>4

(* A crash forgets the memory, never the files.                             *)
LEMMA CrashSafe ==
    ASSUME IInv, Crash
    PROVE  IInv' /\ ContractStep
  <1> USE DEF Crash
  <1>1. TypeOK /\ ControlOK
    BY ControlIsOK DEF IInv
  <1>2. crashes' \in 0..MaxCrashes
    BY <1>1, AlertAssumption DEF ControlOK
  <1>3. ControlOK' /\ EvaluatorShape'
    BY <1>1, <1>2 DEF ControlOK, EvaluatorShape, IdleEvaluator
  <1>4. StateShape(memory', disk', saved', opened', replaced', Told)
    BY CrashMoves DEF IInv
  <1> QED
    BY <1>3, <1>4, StateMoves

(* The update interval of an alert passes.                                  *)
LEMMA UpdateBecomesDueSafe ==
    ASSUME IInv, NEW n \in Names, UpdateBecomesDue(n) \/ WriteFails(n)
    PROVE  IInv' /\ ContractStep
  <1> USE DEF UpdateBecomesDue, WriteFails, Done, IdleEvaluator, evaluatorUnchanged,
              evaluatorVars, processVars, stateVars, deliveryVars
  <1>1. TypeOK /\ EvaluatorShape /\ ControlOK
    BY ControlIsOK DEF IInv
  <1>2. UNCHANGED <<process, crashes, toReconcile, manager, memory, disk, saved, opened,
                    replaced, outbox, table, late, worker>>
    OBVIOUS
  <1>3. evaluator' = evaluator \/ evaluator' = IdleEvaluator
    OBVIOUS
  <1>4. updateDue' \subseteq Names
    BY <1>1 DEF ControlOK
  <1>5. ControlOK' /\ EvaluatorShape'
    BY ONLY <1>1, <1>2, <1>3, <1>4 DEF ControlOK, EvaluatorShape, IdleEvaluator, SameIncident, Row, Active,
                                  Breaches
  <1> QED
    BY <1>2, <1>5, NothingMoves

(* The inactive branch, whatever the state file is.                         *)
LEMMA CountBreachMoves ==
    ASSUME NEW dsk, NEW known, NEW told,
           StateShape(memory, dsk, known, opened, replaced, told),
           NEW n \in Names, NEW level \in Levels, ~Active(n),
           Breaches(n, level) => opened < MaxIncidents,
           CountBreach(n, level), updateDue \subseteq Names
    PROVE  /\ StateShape(memory', dsk, known, opened', replaced', told)
           /\ opened' \in {opened, opened + 1} /\ updateDue' \subseteq Names
           /\ \/ evaluator' = IdleEvaluator
              \/ /\ evaluator' = [at |-> "persist", name |-> n, rest |-> -1]
                 /\ memory'[n].id # NoId
  <1>1. /\ memory \in [Names -> Alerts] /\ opened \in 0..MaxIncidents /\ memory[n] \in Alerts
        /\ MaxIncidents \in Nat /\ TriggerWindows \in Nat \ {0} /\ ClearWindows \in Nat \ {0}
        /\ level \in Nat
    BY AlertAssumption DEF StateShape, StateTypes
  <1>2. 0 \in 0..TriggerWindows-1 /\ 0 \in 0..ClearWindows-1
    BY <1>1
  <1>3. CASE Breaches(n, level)
    <2> DEFINE alert == [id |-> opened + 1, state |-> "ACTIVE", peak |-> level,
                         breach |-> 0, clear |-> 0, dirty |-> TRUE]
    <2>1. /\ memory' = [memory EXCEPT ![n] = alert] /\ opened' = opened + 1
          /\ replaced' = (IF memory[n].dirty THEN replaced \cup {memory[n].id} ELSE replaced)
          /\ evaluator' = [at |-> "persist", name |-> n, rest |-> -1]
          /\ updateDue' = updateDue \ {n}
      BY <1>3 DEF CountBreach, OpenIncident, Write
    <2>2. opened + 1 \in Incidents /\ opened + 1 # NoId /\ opened < MaxIncidents
      BY <1>1, <1>3 DEF Incidents, NoId
    <2>3. alert \in Alerts
      BY <1>2, <2>2 DEF Alerts
    <2>4. memory'[n].id # NoId
      BY <1>1, <2>1, <2>2
    <2>5. memory[n].state # "ACTIVE" /\ alert.id = opened + 1 /\ alert.state = "ACTIVE"
      BY DEF Active
    <2> HIDE DEF alert
    <2>6. StateShape(memory', dsk, known, opened', replaced', told)
      BY <2>1, <2>2, <2>3, <2>5, OpenMoves
    <2> QED
      BY <2>1, <2>4, <2>6
  <1>4. CASE ~Breaches(n, level)
    <2> DEFINE count == IF level >= Threshold THEN memory[n].breach + 1 ELSE 0
               alert == [memory[n] EXCEPT !.clear = 0, !.breach = count]
    <2>1. /\ memory' = [memory EXCEPT ![n] = alert]
          /\ evaluator' = IdleEvaluator
          /\ UNCHANGED <<opened, replaced, updateDue>>
      BY <1>4 DEF CountBreach, Done
    <2>2. count \in 0..TriggerWindows-1
      BY <1>1, <1>2, <1>4 DEF Breaches, Alerts
    <2> HIDE DEF count
    <2>3. /\ alert \in Alerts /\ alert.id = memory[n].id /\ alert.state = memory[n].state
          /\ alert.peak = memory[n].peak /\ alert.dirty = memory[n].dirty
      BY <1>1, <1>2, <2>2 DEF Alerts
    <2> HIDE DEF alert
    <2>4. AlertShape(alert, opened) /\ ClosedAndTold(alert, told)
      BY <2>3 DEF StateShape, IdShape, AlertShape, Remembered, ClosedAndTold
    <2>5. Follows(Row(memory[n]), Row(alert))
      BY <2>3, FollowsReflexive DEF Row
    <2>6. StateShape(memory', dsk, known, opened', replaced', told)
      BY <2>1, <2>3, <2>4, <2>5, ChangeMoves
    <2> QED
      BY <2>1, <2>6
  <1> QED
    BY <1>3, <1>4

(* The active branch.                                                       *)
LEMMA ObserveActiveMoves ==
    ASSUME IInv, NEW n \in Names, NEW level \in Levels, ObserveActive(n, level)
    PROVE  /\ StateShape(memory', disk, saved, opened, replaced, Told)
           /\ UNCHANGED <<opened, replaced>> /\ updateDue' \subseteq Names
           /\ \/ evaluator' = IdleEvaluator
              \/ /\ evaluator' = [at |-> "persist", name |-> n, rest |-> -1]
                 /\ memory'[n].id # NoId
  <1> DEFINE rises == level > memory[n].peak
             seen == [memory[n] EXCEPT
                         !.breach = 0, !.peak = IF rises THEN level ELSE @,
                         !.dirty = @ \/ rises,
                         !.clear = IF level < ClearLevel THEN @ + 1 ELSE 0]
             clears == seen.clear >= ClearWindows
             alert == IF clears
                      THEN [seen EXCEPT !.state = "CLEARED", !.clear = 0, !.dirty = TRUE]
                      ELSE seen
  <1>1. /\ memory' = [memory EXCEPT ![n] = alert]
        /\ UNCHANGED <<opened, replaced>>
        /\ updateDue' \in {updateDue, updateDue \ {n}}
        /\ \/ evaluator' = IdleEvaluator
           \/ evaluator' = [at |-> "persist", name |-> n, rest |-> -1]
    BY DEF ObserveActive, Write, Done
  <1>2. /\ memory \in [Names -> Alerts] /\ memory[n] \in Alerts /\ updateDue \subseteq Names
        /\ TriggerWindows \in Nat \ {0} /\ ClearWindows \in Nat \ {0}
        /\ \A l \in Levels \cup {0} : l \in Nat
    BY AlertAssumption DEF IInv, TypeOK
  <1>3. memory[n].state = "ACTIVE"
    BY DEF ObserveActive, Active
  <1>4. /\ 0 \in 0..TriggerWindows-1 /\ 0 \in 0..ClearWindows-1
        /\ memory[n].clear \in 0..ClearWindows-1 /\ memory[n].dirty \in BOOLEAN
        /\ memory[n].peak \in Levels \cup {0}
    BY <1>2 DEF Alerts
  <1> DEFINE peak == IF rises THEN level ELSE memory[n].peak
             windows == IF level < ClearLevel THEN memory[n].clear + 1 ELSE 0
             dirty == memory[n].dirty \/ rises
  <1>5. /\ peak \in Levels \cup {0} /\ memory[n].peak <= peak
        /\ windows \in Nat /\ (windows < ClearWindows => windows \in 0..ClearWindows-1)
        /\ dirty \in BOOLEAN
    BY <1>2, <1>4
  <1>6. /\ seen = [memory[n] EXCEPT !.breach = 0, !.peak = peak,
                      !.dirty = dirty, !.clear = windows]
        /\ seen.clear = windows /\ seen.id = memory[n].id /\ seen.state = "ACTIVE"
        /\ seen.peak = peak
    BY <1>2, <1>3 DEF Alerts
  <1> HIDE DEF peak, windows, dirty, rises
  <1>7. /\ alert \in Alerts /\ alert.id = memory[n].id /\ alert.peak = peak
        /\ alert.state \in {"ACTIVE", "CLEARED"}
        /\ alert.state = "CLEARED" => alert.dirty
    <2>1. CASE clears
      BY <1>2, <1>4, <1>5, <1>6, <2>1 DEF Alerts
    <2>2. CASE ~clears
      <3>1. alert = seen /\ windows \in 0..ClearWindows-1
        BY <1>2, <1>5, <1>6, <2>2
      <3> HIDE DEF seen, alert
      <3>2. seen \in Alerts
        BY ONLY <1>2, <1>4, <1>5, <1>6, <3>1 DEF Alerts
      <3> QED
        BY <1>6, <3>1, <3>2
    <2> QED
      BY <2>1, <2>2
  <1>8. memory[n].id # NoId
    BY <1>3 DEF IInv, StateShape, IdShape, AlertShape
  <1> HIDE DEF alert
  <1>9. AlertShape(alert, opened) /\ ClosedAndTold(alert, Told)
    BY <1>7, <1>8 DEF IInv, StateShape, IdShape, AlertShape, ClosedAndTold
  <1>10. Follows(Row(memory[n]), Row(alert))
    BY <1>3, <1>5, <1>7 DEF Row, Follows, Contract!Follows
  <1>11. StateShape(memory', disk, saved, opened, replaced, Told)
    BY <1>1, <1>7, <1>9, <1>10, ChangeMoves DEF IInv
  <1>12. memory'[n].id # NoId
    BY <1>1, <1>2, <1>7, <1>8
  <1> QED
    BY <1>1, <1>2, <1>11, <1>12

(* The bound on incidents.                                                  *)
LEMMA AdmittedOpens ==
    ASSUME TypeOK, NEW n \in Names, NEW level, Admitted(n, level), ~Active(n)
    PROVE  Breaches(n, level) => opened < MaxIncidents
  <1> DEFINE risen == {m \in Names : memory[m].peak > Threshold}
  <1>1. Cardinality(risen) \in Nat
    <2>1. IsFiniteSet(risen)
      BY AlertAssumption, FS_Subset
    <2> QED
      BY <2>1, FS_CardinalityType
  <1>2. opened \in Nat /\ MaxIncidents \in Nat
    BY AlertAssumption DEF TypeOK
  <1>3. Breaches(n, level) => opened + Cardinality(risen) < MaxIncidents
    BY DEF Admitted
  <1> HIDE DEF risen
  <1> QED
    BY <1>1, <1>2, <1>3

(* One observation of an alert: opened, raised, counted or closed in memory *)
(* only.                                                                    *)
LEMMA ObserveSafe ==
    ASSUME IInv, NEW n \in Names, NEW level \in Levels, Observe(n, level)
    PROVE  IInv' /\ ContractStep
  <1>1. TypeOK /\ EvaluatorShape /\ ControlOK
    BY ControlIsOK DEF IInv
  <1>2. /\ process = "up" /\ evaluator.at = "idle" /\ Admitted(n, level)
        /\ ObserveInactive(n, level) \/ ObserveActive(n, level)
        /\ UNCHANGED <<manager, process, crashes, toReconcile, worker, table, late, disk,
                       saved, outbox>>
    BY DEF Observe, evaluatorUnchanged, processVars, deliveryVars
  <1>3. toReconcile = {} /\ n \in Names \cup {NoName} /\ level \in Levels \cup {-1}
    BY <1>1, <1>2 DEF EvaluatorShape
  <1>4. CASE ObserveActive(n, level)
    <2>1. /\ StateShape(memory', disk', saved', opened', replaced', Told)
          /\ opened' = opened /\ updateDue' \subseteq Names
          /\ \/ evaluator' = IdleEvaluator
             \/ /\ evaluator' = [at |-> "persist", name |-> n, rest |-> -1]
                /\ memory'[n].id # NoId
      BY <1>2, <1>4, ObserveActiveMoves
    <2>2. ControlOK' /\ EvaluatorShape'
      BY <1>1, <1>2, <1>3, <2>1 DEF ControlOK, EvaluatorShape, IdleEvaluator
    <2> QED
      BY <1>2, <2>1, <2>2, StateMoves
  <1>5. CASE ObserveInactive(n, level) /\ MustSendAgain(n)
    <2>1. /\ ~Active(n) /\ memory[n].dirty
          /\ UNCHANGED <<memory, opened, replaced>>
          /\ evaluator' = [at |-> "persist", name |-> n, rest |-> level]
          /\ updateDue' = updateDue \ {n}
      BY <1>5 DEF ObserveInactive, MustSendAgain, Write
    <2>2. memory[n].id # NoId
      BY <2>1 DEF IInv, StateShape, IdShape, AlertShape
    <2>3. Breaches(n, level) => opened < MaxIncidents
      BY <1>1, <1>2, <2>1, AdmittedOpens
    <2>4. ~Active(n)' /\ (Breaches(n, level)' <=> Breaches(n, level))
      BY <2>1 DEF Active, Breaches
    <2>5. EvaluatorShape'
      <3>1. process' = "up" /\ toReconcile' = {} /\ memory'[n].id # NoId
        BY <1>2, <1>3, <2>1, <2>2
      <3>2. evaluator'.name = n /\ evaluator'.at = "persist" /\ evaluator'.rest = level
        BY <2>1
      <3>3. Breaches(n, level)' => opened' < MaxIncidents
        BY <2>1, <2>3, <2>4
      <3> QED
        BY <2>4, <3>1, <3>2, <3>3 DEF EvaluatorShape, Active, Breaches
    <2>6. ControlOK'
      BY <1>1, <1>2, <1>3, <2>1 DEF ControlOK
    <2> QED
      BY <1>2, <2>1, <2>5, <2>6, NothingMoves
  <1>6. CASE ObserveInactive(n, level) /\ ~MustSendAgain(n)
    <2>1. CountBreach(n, level) /\ ~Active(n)
      BY <1>6 DEF ObserveInactive
    <2>2. Breaches(n, level) => opened < MaxIncidents
      BY <1>1, <1>2, <2>1, AdmittedOpens
    <2>3. StateShape(memory, disk, saved, opened, replaced, Told) /\ updateDue \subseteq Names
      BY <1>1 DEF IInv, ControlOK
    <2>4. /\ StateShape(memory', disk, saved, opened', replaced', Told)
          /\ opened' \in {opened, opened + 1} /\ updateDue' \subseteq Names
          /\ \/ evaluator' = IdleEvaluator
             \/ /\ evaluator' = [at |-> "persist", name |-> n, rest |-> -1]
                /\ memory'[n].id # NoId
      BY <2>1, <2>2, <2>3, CountBreachMoves
    <2>5. ControlOK' /\ EvaluatorShape'
      BY <1>1, <1>2, <1>3, <2>4 DEF ControlOK, EvaluatorShape, IdleEvaluator
    <2> QED
      BY <1>2, <2>4, <2>5, StateMoves
  <1> QED
    BY <1>2, <1>4, <1>5, <1>6

(* The state file gets a transition before the outbox does.                 *)
LEMMA SaveBeforeSendingSafe ==
    ASSUME IInv, NEW n \in Names, SaveBeforeSending(n)
    PROVE  IInv' /\ ContractStep
  <1>1. TypeOK /\ EvaluatorShape /\ ControlOK
    BY ControlIsOK DEF IInv
  <1>2. /\ process = "up" /\ evaluator.at = "persist" /\ evaluator.name = n
        /\ disk' = memory /\ saved' = PersistedFrom(memory, saved)
        /\ evaluator' = [evaluator EXCEPT !.at = "emit"]
        /\ UNCHANGED <<manager, process, crashes, toReconcile, worker, table, late, memory,
                       updateDue, replaced, opened, outbox>>
    BY DEF SaveBeforeSending, At, PersistStates, PersistedFrom, evaluatorUnchanged,
           processVars, deliveryVars
  <1>3. /\ evaluator'.at = "emit" /\ evaluator'.name = evaluator.name
        /\ evaluator'.rest = evaluator.rest
        /\ evaluator' \in [at : {"idle", "persist", "emit", "confirm"},
                           name : Names \cup {NoName}, rest : Levels \cup {-1}]
    BY <1>1, <1>2 DEF ControlOK
  <1>4. ControlOK' /\ EvaluatorShape'
    <2>1. ControlOK'
      BY <1>1, <1>2, <1>3 DEF ControlOK
    <2>2. EvaluatorShape'
      BY <1>1, <1>2, <1>3 DEF EvaluatorShape, Active, Breaches
    <2> QED
      BY <2>1, <2>2
  <1>5. StateShape(memory', disk', saved', opened', replaced', Told)
    BY <1>2, PersistMoves DEF IInv
  <1> QED
    BY <1>2, <1>4, <1>5, StateMoves

(* The second save of an evaluation notes that the record is queued.        *)
LEMMA SaveAfterSendingSafe ==
    ASSUME IInv, NEW n \in Names, SaveAfterSending(n)
    PROVE  IInv' /\ ContractStep
  <1>1. TypeOK /\ EvaluatorShape /\ ControlOK
    BY ControlIsOK DEF IInv
  <1>2. /\ process = "up" /\ evaluator.at = "confirm" /\ evaluator.name = n
        /\ disk' = memory /\ saved' = PersistedFrom(memory, saved)
        /\ UNCHANGED <<manager, process, crashes, toReconcile, worker, table, late, outbox>>
    BY DEF SaveAfterSending, At, PersistStates, PersistedFrom, evaluatorUnchanged,
           processVars, deliveryVars
  <1>3. toReconcile = {} /\ n \in Names \cup {NoName} /\ -1 \in Levels \cup {-1}
    BY <1>1, <1>2 DEF EvaluatorShape
  <1>4. StateShape(memory, disk', saved', opened, replaced, Told)
    BY <1>2, PersistMoves DEF IInv
  <1>5. CASE evaluator.rest = -1
    <2>1. evaluator' = IdleEvaluator /\ UNCHANGED <<memory, updateDue, replaced, opened>>
      BY <1>5 DEF SaveAfterSending, Done
    <2>2. ControlOK' /\ EvaluatorShape'
      BY <1>1, <1>2, <1>3, <2>1 DEF ControlOK, EvaluatorShape, IdleEvaluator
    <2> QED
      BY <1>2, <1>4, <2>1, <2>2, StateMoves
  <1>6. CASE evaluator.rest # -1
    <2>1. CountBreach(n, evaluator.rest) /\ evaluator.rest \in Levels
      BY <1>1, <1>6 DEF SaveAfterSending, ControlOK
    <2>2. ~Active(n) /\ (Breaches(n, evaluator.rest) => opened < MaxIncidents)
      BY <1>1, <1>2, <1>6 DEF EvaluatorShape
    <2>3. updateDue \subseteq Names
      BY <1>1 DEF ControlOK
    <2>4. /\ StateShape(memory', disk', saved', opened', replaced', Told)
          /\ opened' \in {opened, opened + 1} /\ updateDue' \subseteq Names
          /\ \/ evaluator' = IdleEvaluator
             \/ /\ evaluator' = [at |-> "persist", name |-> n, rest |-> -1]
                /\ memory'[n].id # NoId
      BY <1>4, <2>1, <2>2, <2>3, CountBreachMoves
    <2>5. ControlOK' /\ EvaluatorShape'
      BY <1>1, <1>2, <1>3, <2>4 DEF ControlOK, EvaluatorShape, IdleEvaluator
    <2> QED
      BY <1>2, <2>4, <2>5, StateMoves
  <1> QED
    BY <1>5, <1>6

(* A record is sent, while memory and state file agree.                     *)
LEMMA SendMoves ==
    ASSUME IInv, ControlOK', EvaluatorShape', NEW n \in Names, memory[n].id # NoId,
           \A m \in Names : SameIncident(memory[m], disk[m]),
           Enqueue(memory[n]), memory' = [memory EXCEPT ![n].dirty = FALSE],
           UNCHANGED <<manager, disk, saved, opened, replaced, worker, table, late>>
    PROVE  IInv' /\ ContractStep
  <1> DEFINE alert == [memory[n] EXCEPT !.dirty = FALSE]
             file == Record(memory[n])
             now == [i \in Incidents |-> IF i = file.id THEN file.row ELSE Told[i]]
  <1>1. /\ StateShape(memory, disk, saved, opened, replaced, Told) /\ TypeOK
        /\ memory \in [Names -> Alerts] /\ memory[n] \in Alerts
    BY DEF IInv, TypeOK
  <1>2. outbox' = Append(outbox, file) /\ file = [id |-> memory[n].id, row |-> Row(memory[n])]
    BY DEF Enqueue, Record
  <1>3. /\ memory[n].id \in 1..opened /\ memory[n].id \in Incidents
        /\ Row(memory[n]) \in Rows
    BY <1>1, IncidentTypes DEF StateShape
  <1>4. file \in Files /\ file \in AnyFile /\ outbox \in Seq(Files)
    BY <1>1, <1>2, <1>3, OutboxTypes DEF Files, AnyFile
  <1>5. file.id = memory[n].id /\ file.row = Row(memory[n])
    BY <1>2
  <1> HIDE DEF file
  <1>6. Told' = now
    <2>1. ASSUME NEW i \in Incidents
          PROVE  LastTold(i)' = IF i = file.id THEN file.row ELSE LastTold(i)
      BY <1>2, <1>4, ToldIs, ToldIsAfter, ToldAppend
    <2> QED
      BY <2>1 DEF Told
  <1>7. StateShape(memory, disk, saved, opened, replaced, now)
    <2>1. \A i \in Incidents : now[i] = IF i = memory[n].id THEN Row(memory[n]) ELSE Told[i]
      BY <1>5
    <2> HIDE DEF now
    <2> QED
      BY <1>1, <2>1, TellMoves
  <1>8. StateShape(memory', disk, saved, opened, replaced, now)
    <2>1. /\ alert \in Alerts /\ alert.id = memory[n].id /\ alert.state = memory[n].state
          /\ alert.peak = memory[n].peak /\ ~alert.dirty
      BY <1>1 DEF Alerts
    <2>2. memory' = [memory EXCEPT ![n] = alert]
      BY <1>1
    <2>3. now[memory[n].id].state = memory[n].state
      BY <1>3, <1>5 DEF Row
    <2> HIDE DEF alert, now
    <2>4. AlertShape(alert, opened) /\ ClosedAndTold(alert, now)
      BY <1>1, <2>1, <2>3 DEF StateShape, IdShape, AlertShape, ClosedAndTold
    <2>5. Follows(Row(memory[n]), Row(alert))
      BY <2>1, FollowsReflexive DEF Row
    <2>6. StateShape([memory EXCEPT ![n] = alert], disk, saved, opened, replaced, now)
      BY ONLY <1>7, <2>1, <2>4, <2>5, ChangeMoves
    <2> QED
      BY <2>2, <2>6
  <1>9. StateShape(memory, disk, saved, opened, replaced, Told)'
    <2>1. StateShape(memory', disk', saved', opened', replaced', Told')
      BY <1>6, <1>8
    <2> QED
      BY <2>1 DEF StateShape, StateTypes, IdShape, AlertShape, SavedShape, Remembered,
                  ClosedAndTold
  <1>10. QueueShape(outbox, late, table, saved)'
    <2>1. disk[n].id = memory[n].id /\ Row(disk[n]) = Row(memory[n])
      BY DEF SameIncident
    <2>2. file.row = saved[file.id]
      BY <1>1, <1>5, <2>1 DEF StateShape, SavedShape
    <2>3. QueueShape(outbox', late, table, saved)
      BY <1>2, <1>4, <2>2, QueueIsTyped, AppendMovesQueue
    <2> QED
      BY <2>3 DEF QueueShape
  <1>11. outbox' \in Seq(Files) /\ outbox' # <<>> /\ (outbox # <<>> => outbox'[1] = outbox[1])
    <2>1. /\ Len(outbox) \in Nat /\ Len(outbox') = Len(outbox) + 1
          /\ \A k \in 1..Len(outbox) : outbox'[k] = outbox[k]
          /\ outbox' \in Seq(Files)
      BY <1>2, <1>4, AppendProperties, LenProperties
    <2>2. outbox # <<>> => 1 \in 1..Len(outbox)
      BY <1>4, <2>1, EmptySeq
    <2> QED
      BY <2>1, <2>2, EmptySeq
  <1>12. TypeOK'
    <2>1. StateTypes(memory', disk', saved', opened', replaced')
      BY <1>8 DEF StateShape
    <2>2. outbox' \in Seq([id : 1..opened', row : Rows])
      BY <1>11 DEF Files
    <2>3. /\ manager' \in Managers /\ worker' \in {"prepare", "send", "remove"}
          /\ table' \in [Incidents -> Rows] /\ late' \in [Incidents -> Rows]
      BY <1>1 DEF TypeOK
    <2> QED
      BY ONLY <1>11, <2>1, <2>2, <2>3, ControlOK' DEF TypeOK, ControlOK, StateTypes
  <1>13. WorkerShape'
    BY <1>1, <1>11 DEF IInv, WorkerShape, TypeOK
  <1>14. IInv'
    BY <1>9, <1>10, <1>12, <1>13 DEF IInv
  <1> QED
    BY <1>14 DEF ContractStep

(* What adding a file to the outbox changes of what was told.               *)
LEMMA SendChanges ==
    ASSUME IInv, NEW n \in Names, memory' = [memory EXCEPT ![n].dirty = FALSE]
    PROVE  \A m \in Names : /\ SameIncident(memory'[m], memory[m])
                            /\ memory'[m].breach = memory[m].breach
  <1>1. memory \in [Names -> Alerts]
    BY DEF IInv, TypeOK
  <1> QED
    BY <1>1 DEF SameIncident, Row, Alerts

(* A record enters the outbox only when the state file knows its incident.  *)
LEMMA EmitSafe ==
    ASSUME IInv, NEW n \in Names, Emit(n)
    PROVE  IInv' /\ ContractStep
  <1>1. TypeOK /\ EvaluatorShape /\ ControlOK
    BY ControlIsOK DEF IInv
  <1>2. /\ process = "up" /\ evaluator.at = "emit" /\ evaluator.name = n
        /\ Enqueue(memory[n]) /\ memory' = [memory EXCEPT ![n].dirty = FALSE]
        /\ evaluator' = [evaluator EXCEPT !.at = "confirm"]
        /\ UNCHANGED <<manager, process, crashes, toReconcile, worker, table, late, disk,
                       saved, updateDue, replaced, opened>>
    BY DEF Emit, At, evaluatorUnchanged, processVars, deliveryVars
  <1>3. /\ evaluator'.at = "confirm" /\ evaluator'.name = evaluator.name
        /\ evaluator'.rest = evaluator.rest
        /\ evaluator' \in [at : {"idle", "persist", "emit", "confirm"},
                           name : Names \cup {NoName}, rest : Levels \cup {-1}]
    BY <1>1, <1>2 DEF ControlOK
  <1>4. memory = disk /\ memory[n].id # NoId /\ toReconcile = {}
    BY <1>1, <1>2 DEF EvaluatorShape
  <1>5. /\ memory'[n].id = memory[n].id /\ memory'[n].breach = memory[n].breach
        /\ memory'[n].state = memory[n].state
    BY <1>2, SendChanges DEF SameIncident, Row
  <1>6. ControlOK'
    BY <1>1, <1>2, <1>3 DEF ControlOK
  <1>7. EvaluatorShape'
    BY <1>1, <1>2, <1>3, <1>4, <1>5 DEF EvaluatorShape, Active, Breaches
  <1> QED
    BY <1>2, <1>4, <1>6, <1>7, SendMoves DEF SameIncident

(* The collector's start-up repeats the records of dirty states.            *)
LEMMA ReconcileSafe ==
    ASSUME IInv, NEW n \in Names, Reconcile(n)
    PROVE  IInv' /\ ContractStep
  <1>1. TypeOK /\ EvaluatorShape /\ ControlOK
    BY ControlIsOK DEF IInv
  <1>2. /\ process = "starting" /\ n \in toReconcile /\ toReconcile' = toReconcile \ {n}
        /\ UNCHANGED <<manager, process, crashes, disk, updateDue, saved, replaced, opened,
                       evaluator, worker, table, late>>
        /\ \/ Enqueue(memory[n]) /\ memory' = [memory EXCEPT ![n].dirty = FALSE]
           \/ UNCHANGED <<outbox, memory>>
    BY DEF Reconcile, processVars, deliveryVars
  <1>3. /\ \A m \in Names : SameIncident(memory[m], disk[m])
        /\ memory[n].id # NoId /\ evaluator.at = "idle"
    BY <1>1, <1>2 DEF EvaluatorShape, ControlOK
  <1>4. \A m \in Names : SameIncident(memory'[m], memory[m])
    BY <1>2, SendChanges DEF SameIncident
  <1>5. ControlOK'
    BY <1>1, <1>2 DEF ControlOK
  <1>6. EvaluatorShape'
    <2>1. \A m \in toReconcile' : memory'[m].id # NoId
      BY <1>1, <1>2, <1>4 DEF EvaluatorShape, SameIncident, ControlOK
    <2>2. \A m \in Names : SameIncident(memory'[m], disk'[m])
      BY <1>2, <1>3, <1>4 DEF SameIncident
    <2>3. process' = "starting" /\ evaluator'.at = "idle"
      BY <1>2, <1>3
    <2> QED
      BY <2>1, <2>2, <2>3 DEF EvaluatorShape, SameIncident, Row
  <1>7. CASE UNCHANGED <<outbox, memory>>
    BY <1>2, <1>5, <1>6, <1>7, NothingMoves
  <1>8. CASE Enqueue(memory[n]) /\ memory' = [memory EXCEPT ![n].dirty = FALSE]
    BY <1>2, <1>3, <1>5, <1>6, <1>8, SendMoves
  <1> QED
    BY <1>2, <1>7, <1>8

-----------------------------------------------------------------------------

(* The program starts in the invariant, with an empty table.                *)
LEMMA InitEstablishes == Init => IInv /\ Contract!Init
  <1> SUFFICES ASSUME Init
               PROVE  IInv /\ Contract!Init
    OBVIOUS
  <1> USE AlertAssumption DEF Init
  <1>1. NoRow \in Rows /\ NoIncident \in Alerts
    BY NoRowFirst DEF NoIncident, Alerts, NoId
  <1>2. memory \in [Names -> Alerts] /\ disk = memory /\ \A n \in Names : memory[n] = NoIncident
    BY <1>1
  <1>3. /\ saved \in [Incidents -> Rows] /\ table \in [Incidents -> Rows] /\ late = table
        /\ saved = table /\ \A i \in Incidents : table[i] = NoRow
    BY <1>1
  <1>4. outbox = <<>> /\ DOMAIN outbox = {}
    OBVIOUS
  <1>5. TypeOK
    <2>1. ControlOK
      BY DEF ControlOK, IdleEvaluator
    <2>2. outbox \in Seq([id : 1..opened, row : Rows]) /\ worker = "prepare"
      OBVIOUS
    <2> QED
      BY <1>2, <1>3, <2>1, <2>2 DEF TypeOK, ControlOK
  <1>6. EvaluatorShape /\ WorkerShape
    BY DEF EvaluatorShape, WorkerShape, IdleEvaluator
  <1>7. \A i \in Incidents : Told[i] = NoRow
    <2>1. ASSUME NEW i \in Incidents
          PROVE  LastTold(i) = NoRow
      <3>1. NoFile(outbox, i)
        BY <1>4 DEF NoFile
      <3> QED
        BY <1>3, <3>1, ToldIs, ToldWithoutFile DEF Delivered
    <2> QED
      BY <2>1 DEF Told
  <1>8. StateShape(memory, disk, saved, opened, replaced, Told)
    <2>1. StateTypes(memory, disk, saved, opened, replaced)
      BY <1>2, <1>3 DEF StateTypes
    <2>2. IdShape(memory, disk, opened)
      BY <1>2 DEF IdShape, AlertShape, NoIncident, NoId
    <2>3. SavedShape(memory, disk, saved, opened)
      BY <1>2, <1>3 DEF SavedShape, NoIncident
    <2>4. Remembered(memory, disk, replaced, Told)
      BY <1>2, <1>7 DEF Remembered, ClosedAndTold, NoIncident, NoRow
    <2> QED
      BY <2>1, <2>2, <2>3, <2>4 DEF StateShape
  <1>9. QueueShape(outbox, late, table, saved)
    BY <1>3, <1>4, FollowsReflexive DEF QueueShape
  <1>10. Contract!Init
    BY DEF Contract!Init, Contract!NoRow, NoRow
  <1> QED
    BY <1>5, <1>6, <1>8, <1>9, <1>10 DEF IInv

(* Every step keeps the invariant and is a step of the incident table, or   *)
(* none.                                                                    *)
LEMMA NextKeeps == IInv /\ [Next]_vars => IInv' /\ ContractStep
  <1> SUFFICES ASSUME IInv, [Next]_vars
               PROVE  IInv' /\ ContractStep
    OBVIOUS
  <1>1. CASE Start
    BY <1>1, StartSafe
  <1>2. CASE FinishStart
    BY <1>2, FinishStartSafe
  <1>3. CASE Crash
    BY <1>3, CrashSafe
  <1>4. ASSUME NEW n \in Names, Reconcile(n) \/ EvaluatorNext(n)
        PROVE  IInv' /\ ContractStep
    <2>1. CASE Reconcile(n)
      BY <2>1, ReconcileSafe
    <2>2. CASE UpdateBecomesDue(n) \/ WriteFails(n)
      BY <2>2, UpdateBecomesDueSafe
    <2>3. ASSUME NEW level \in Levels, Observe(n, level)
          PROVE  IInv' /\ ContractStep
      BY <2>3, ObserveSafe
    <2>4. CASE SaveBeforeSending(n)
      BY <2>4, SaveBeforeSendingSafe
    <2>5. CASE Emit(n)
      BY <2>5, EmitSafe
    <2>6. CASE SaveAfterSending(n)
      BY <2>6, SaveAfterSendingSafe
    <2> QED
      BY <1>4, <2>1, <2>2, <2>3, <2>4, <2>5, <2>6 DEF EvaluatorNext
  <1>5. CASE WorkerNext
    <2>1. CASE Prepare \/ RemoveFails
      BY <2>1, PrepareSafe
    <2>2. CASE Upsert
      BY <2>2, UpsertSafe
    <2>3. CASE UpsertFails
      BY <2>3, UpsertFailsSafe
    <2>4. CASE RemoveSent
      BY <2>4, RemoveSentSafe
    <2> QED
      BY <1>5, <2>1, <2>2, <2>3, <2>4 DEF WorkerNext
  <1>6. ASSUME NEW i \in Incidents, LateArrival(i)
        PROVE  IInv' /\ ContractStep
    BY <1>6, LateArrivalSafe
  <1>7. CASE UNCHANGED vars
    <2>1. UNCHANGED <<deliveryUnchanged, outbox, worker, table, late>>
      BY <1>7 DEF vars, deliveryUnchanged, deliveryVars
    <2>2. UNCHANGED <<manager, memory, disk, saved, opened, replaced>>
      BY <1>7 DEF vars, processVars, stateVars
    <2>3. ControlOK' /\ EvaluatorShape'
      BY <1>7, ControlIsOK DEF vars, processVars, stateVars, evaluatorVars, IInv, ControlOK,
           EvaluatorShape, SameIncident, Row, Active, Breaches
    <2> QED
      BY <2>1, <2>2, <2>3, NothingMoves
  <1> QED
    BY <1>1, <1>2, <1>3, <1>4, <1>5, <1>6, <1>7 DEF Next

(* IInv is an invariant: at every moment, whatever has failed or been lost, *)
(* the table, the late requests, the outbox and the state file of an alert  *)
(* manager stand in this order.                                             *)
THEOREM Invariance == Spec => []IInv
  <1>1. Init => IInv
    BY InitEstablishes
  <1>2. IInv /\ [Next]_vars => IInv'
    BY NextKeeps
  <1> QED
    BY <1>1, <1>2, PTL DEF Spec

(* Type correctness; the evaluator works only in a process that is up, and  *)
(* the file that was sent is in the outbox until the worker removes it.     *)
THEOREM TypeCorrect == Spec => []TypeOK
  <1>1. IInv => TypeOK
    BY DEF IInv
  <1> QED
    BY <1>1, Invariance, PTL

(* Whatever an alert manager has last told ClickHouse, or will tell it by   *)
(* what waits in the outbox, if that is ACTIVE its state file knows the     *)
(* incident, so that a restart goes on with it (src/README.md:523-525); or  *)
(* a new incident took its place before its end was sent.                   *)
THEOREM Remembers == Spec => []ToldIsRemembered
  <1>1. IInv => ToldIsRemembered
    BY DEF IInv, StateShape, Remembered, Told, ToldIsRemembered
  <1> QED
    BY <1>1, Invariance, PTL

(* The manager implements IncidentTable: every write of the state file and  *)
(* every request that arrives, first or late, moves the rows of the         *)
(* incidents forward and never ahead of what the state file has known.      *)
THEOREM Implements == Spec => ContractSpec
  <1>1. Init => Contract!Init
    BY InitEstablishes
  <1>2. IInv /\ [Next]_vars => [Contract!Next]_<<saved, table>>
    BY NextKeeps DEF ContractStep
  <1> QED
    BY <1>1, <1>2, Invariance, PTL DEF Spec, ContractSpec, Contract!Spec

=============================================================================
