---------------------------- MODULE AlertLifecycle ----------------------------
(***************************************************************************)
(* The alert manager, from an observation to the row of an incident in     *)
(* ClickHouse.  Two programs have one, the collector (alerts.go) and the   *)
(* reprocessor (reprocess_alerts.go); each has its own state file and      *)
(* outbox, and the ids of their incidents differ, so one manager is        *)
(* modelled at a time.  Their code differs in three places, which are      *)
(* conditions on "manager" here: the collector sends pending records again *)
(* when it starts and while an alert is inactive, and the reprocessor goes *)
(* on evaluating an active alert that has no new data.                     *)
(*                                                                         *)
(* Two goroutines and a file system: the evaluator changes the state in    *)
(* memory, saves state.json and adds a file to the outbox, in this order;  *)
(* the outbox worker sends the files, oldest first.  Every write and every *)
(* request is an action that may fail, and the process may be killed       *)
(* between any two.                                                        *)
(***************************************************************************)
EXTENDS Integers, Sequences, FiniteSets

CONSTANTS
    Managers,       \* which of "collector" and "reprocessor" to consider
    Names,          \* the alerts a manager watches
    Levels,         \* the indicators an observation may have
    ClearLevel,     \* the clear threshold
    Threshold,      \* the threshold
    TriggerWindows, \* ALERT_TRIGGER_WINDOWS
    ClearWindows,   \* ALERT_CLEAR_WINDOWS
    MaxIncidents,   \* bound: the incidents opened and the peaks risen
    MaxCrashes,     \* bound: how often the process is killed
    NoName

ASSUME AlertAssumption ==
    /\ Managers \subseteq {"collector", "reprocessor"}
    /\ IsFiniteSet(Names) /\ NoName \notin Names
    /\ Levels \subseteq Nat /\ ClearLevel \in Nat /\ Threshold \in Nat
    /\ ClearLevel <= Threshold
    /\ TriggerWindows \in Nat \ {0} /\ ClearWindows \in Nat \ {0}
    /\ MaxIncidents \in Nat /\ MaxCrashes \in Nat

VARIABLES
    manager,     \* the program
    process,     \* "down", "starting" (reconcileDirtyStates) or "up"
    memory,      \* manager.states
    disk,        \* state.json
    updateDue,   \* the alerts whose LastEmitted is ALERT_ACTIVE_UPDATE_SECONDS ago
    evaluator,   \* where applyObservation stands, and for which alert
    toReconcile, \* the alerts reconcileDirtyStates has still to look at
    outbox,      \* the files of the outbox, in the order of their names
    worker,      \* where outboxWorker stands
    table,       \* what a query of the table answers for each incident
    late,        \* for each incident a request that timed out and may still arrive
    opened,      \* how many incidents have been opened: their ids are 1..opened
    replaced,    \* history: incidents whose unsent CLEARED record was overwritten
    saved,       \* history: the furthest state of each incident the disk has known
    crashes

processVars == <<manager, process, crashes>>
stateVars == <<memory, disk, updateDue, saved, replaced, opened>>
evaluatorVars == <<evaluator, toReconcile>>
deliveryVars == <<worker, table, late>>
vars == <<processVars, stateVars, evaluatorVars, outbox, deliveryVars>>

Incidents == 1..MaxIncidents
NoId == 0
NoRow == [state |-> "none", peak |-> 0]

Row(alert) == [state |-> alert.state, peak |-> alert.peak]
Record(alert) == [id |-> alert.id, row |-> Row(alert)]

NoIncident == [id |-> NoId, state |-> "none", peak |-> 0, breach |-> 0, clear |-> 0,
               dirty |-> FALSE]
IdleEvaluator == [at |-> "idle", name |-> NoName, rest |-> -1]

Active(n) == memory[n].state = "ACTIVE"

(* LastEmitted is read only of an alert that may have something to send.    *)
MayHaveToSend(alert) == alert.state = "ACTIVE" \/ alert.dirty

Init ==
    /\ manager \in Managers /\ process = "down" /\ crashes = 0
    /\ memory = [n \in Names |-> NoIncident] /\ disk = memory
    /\ updateDue = {} /\ saved = [i \in Incidents |-> NoRow] /\ replaced = {} /\ opened = 0
    /\ evaluator = IdleEvaluator /\ toReconcile = {}
    /\ outbox = <<>> /\ worker = "prepare"
    /\ table = [i \in Incidents |-> NoRow] /\ late = table

-----------------------------------------------------------------------------
(* Writing: the state file and the outbox, each a temporary file renamed    *)
(* into place, so that a write happens whole or not at all.                 *)

PersistStates ==
    /\ disk' = memory
    /\ saved' = [i \in Incidents |->
                    IF \E n \in Names : memory[n].id = i
                    THEN Row(memory[CHOOSE n \in Names : memory[n].id = i])
                    ELSE saved[i]]

Enqueue(alert) == outbox' = Append(outbox, Record(alert))

-----------------------------------------------------------------------------
(* Starting and dying                                                       *)

(* While the process was down, any time may have passed.                    *)
LoadStates ==
    /\ memory' = disk
    /\ updateDue' \in SUBSET {n \in Names : MayHaveToSend(disk[n])}

(* newAlertManager and Start; the reprocessor goes to work at once.         *)
Start ==
    /\ process = "down"
    /\ LoadStates
    /\ \/ /\ manager = "collector"
          /\ process' = "starting"
          /\ toReconcile' = {n \in Names : disk[n].dirty}
       \/ /\ manager = "reprocessor"
          /\ process' = "up"
          /\ UNCHANGED toReconcile
    /\ UNCHANGED <<manager, crashes, disk, saved, replaced, opened, evaluator, outbox,
                   deliveryVars>>

(* One state of the loop of reconcileDirtyStates; Go's order of a map is    *)
(* arbitrary.                                                               *)
Reconcile(n) ==
    /\ process = "starting" /\ n \in toReconcile
    /\ toReconcile' = toReconcile \ {n}
    /\ \/ Enqueue(memory[n]) /\ memory' = [memory EXCEPT ![n].dirty = FALSE]
       \/ UNCHANGED <<outbox, memory>>
    /\ UNCHANGED <<processVars, disk, updateDue, saved, replaced, opened, evaluator,
                   deliveryVars>>

(* persistStates, which changes nothing if no state was dirty; its error is *)
(* only logged.                                                             *)
FinishStart ==
    /\ process = "starting" /\ toReconcile = {}
    /\ process' = "up"
    /\ PersistStates \/ UNCHANGED <<disk, saved>>
    /\ UNCHANGED <<manager, crashes, memory, updateDue, replaced, opened, evaluatorVars,
                   outbox, deliveryVars>>

(* A kill, or the end of Stop, which never leaves more undone than a kill.  *)
(* What was in memory is gone: the next Start begins from the disk.         *)
Crash ==
    /\ process # "down" /\ crashes < MaxCrashes
    /\ process' = "down" /\ crashes' = crashes + 1
    /\ memory' = disk /\ updateDue' = {}
    /\ replaced' = replaced \ {disk[n].id : n \in Names}
    /\ evaluator' = IdleEvaluator /\ toReconcile' = {} /\ worker' = "prepare"
    /\ UNCHANGED <<manager, disk, saved, opened, outbox, table, late>>
-----------------------------------------------------------------------------
(* The evaluator: applyObservation                                          *)

evaluatorUnchanged == <<processVars, toReconcile, deliveryVars>>

Write(n, rest) == evaluator' = [at |-> "persist", name |-> n, rest |-> rest]
Done == evaluator' = IdleEvaluator

(* ALERT_ACTIVE_UPDATE_SECONDS pass.                                         *)
UpdateBecomesDue(n) ==
    /\ process = "up" /\ n \notin updateDue /\ MayHaveToSend(memory[n])
    /\ updateDue' = updateDue \cup {n}
    /\ UNCHANGED <<processVars, memory, disk, saved, replaced, opened, evaluatorVars,
                   outbox, deliveryVars>>

(* Faulty variant: one window too many.                                     *)
BreachesLate(n, level) == level >= Threshold /\ memory[n].breach >= TriggerWindows

Breaches(n, level) == level >= Threshold /\ memory[n].breach + 1 >= TriggerWindows

(* Bound: the incidents opened and the peaks risen together are at most     *)
(* MaxIncidents, and an incident opens at the threshold.                    *)
Admitted(n, level) ==
    /\ ~Active(n) => level <= Threshold
    /\ (IF Active(n) THEN level > memory[n].peak ELSE Breaches(n, level)) =>
           opened + Cardinality({m \in Names : memory[m].peak > Threshold}) < MaxIncidents

(* A new incident takes the place of the last one, sent or not.             *)
OpenIncident(n, level) ==
    /\ memory' = [memory EXCEPT ![n] =
           [id |-> opened + 1, state |-> "ACTIVE", peak |-> level,
            breach |-> 0, clear |-> 0, dirty |-> TRUE]]
    /\ opened' = opened + 1
    /\ replaced' = IF memory[n].dirty THEN replaced \cup {memory[n].id} ELSE replaced
    /\ updateDue' = updateDue \ {n}
    /\ Write(n, -1)

(* The inactive branch, from the assignment of ClearWindows on.             *)
CountBreach(n, level) ==
    IF Breaches(n, level)
    THEN OpenIncident(n, level)
    ELSE /\ memory' = [memory EXCEPT ![n].clear = 0,
                          ![n].breach = IF level >= Threshold THEN @ + 1 ELSE 0]
         /\ Done
         /\ UNCHANGED <<opened, replaced, updateDue>>

(* Faulty variant: no manager does, as in the reprocessor.                  *)
MustSendAgainNever(n) == FALSE

(* Only the collector sends a record again while the alert is inactive.     *)
MustSendAgain(n) ==
    manager = "collector" /\ memory[n].dirty /\ n \in updateDue

ObserveInactive(n, level) ==
    /\ ~Active(n)
    /\ IF MustSendAgain(n)
       THEN /\ updateDue' = updateDue \ {n}
            /\ Write(n, level)
            /\ UNCHANGED <<memory, opened, replaced>>
       ELSE CountBreach(n, level)

(* The active branch: the peak, the windows below the clear level, the      *)
(* transition to CLEARED and the update that is due.                        *)
ObserveActive(n, level) ==
    /\ Active(n)
    /\ LET rises == level > memory[n].peak
           seen == [memory[n] EXCEPT
                       !.breach = 0, !.peak = IF rises THEN level ELSE @,
                       !.dirty = @ \/ rises,
                       !.clear = IF level < ClearLevel THEN @ + 1 ELSE 0]
           clears == seen.clear >= ClearWindows
           updates == seen.dirty /\ n \in updateDue
       IN /\ memory' = [memory EXCEPT ![n] =
                 IF clears
                 THEN [seen EXCEPT !.state = "CLEARED", !.clear = 0, !.dirty = TRUE]
                 ELSE seen]
          /\ IF clears \/ updates
             THEN updateDue' = updateDue \ {n} /\ Write(n, -1)
             ELSE Done /\ UNCHANGED updateDue
    /\ UNCHANGED <<opened, replaced>>

(* A valid observation of the next tick.                                    *)
Observe(n, level) ==
    /\ process = "up" /\ evaluator.at = "idle" /\ Admitted(n, level)
    /\ ObserveInactive(n, level) \/ ObserveActive(n, level)
    /\ UNCHANGED <<evaluatorUnchanged, disk, saved, outbox>>

(* Save, send, save that it was sent; an error ends the evaluation, and     *)
(* after a record sent again the observation in hand is counted.            *)
At(n, place) == process = "up" /\ evaluator.at = place /\ evaluator.name = n

SaveBeforeSending(n) ==
    /\ At(n, "persist")
    /\ PersistStates
    /\ evaluator' = [evaluator EXCEPT !.at = "emit"]
    /\ UNCHANGED <<evaluatorUnchanged, memory, updateDue, replaced, opened, outbox>>

Emit(n) ==
    /\ At(n, "emit")
    /\ Enqueue(memory[n])
    /\ memory' = [memory EXCEPT ![n].dirty = FALSE]
    /\ evaluator' = [evaluator EXCEPT !.at = "confirm"]
    /\ UNCHANGED <<evaluatorUnchanged, disk, saved, updateDue, replaced, opened>>

SaveAfterSending(n) ==
    /\ At(n, "confirm")
    /\ PersistStates
    /\ IF evaluator.rest = -1
       THEN Done /\ UNCHANGED <<memory, updateDue, replaced, opened>>
       ELSE CountBreach(n, evaluator.rest)
    /\ UNCHANGED <<evaluatorUnchanged, outbox>>

(* Faulty variants: a record is sent though it could not be saved; and a    *)
(* failed write counts as sent.                                             *)
WriteFailsGoesOn(n) ==
    /\ \E place \in {"persist", "emit", "confirm"} : At(n, place)
    /\ evaluator' = IF At(n, "persist") THEN [evaluator EXCEPT !.at = "emit"]
                    ELSE IdleEvaluator
    /\ UNCHANGED <<evaluatorUnchanged, stateVars, outbox>>

WriteFailsForgets(n) ==
    /\ \E place \in {"persist", "emit", "confirm"} : At(n, place)
    /\ memory' = [memory EXCEPT ![n].dirty = FALSE]
    /\ Done
    /\ UNCHANGED <<evaluatorUnchanged, disk, updateDue, saved, replaced, opened, outbox>>

WriteFails(n) ==
    /\ \E place \in {"persist", "emit", "confirm"} : At(n, place)
    /\ Done
    /\ UNCHANGED <<evaluatorUnchanged, stateVars, outbox>>

-----------------------------------------------------------------------------
(* The outbox worker and ClickHouse.  An invalid file would be quarantined: *)
(* the evaluator renames whole files into place and writes no other.        *)

deliveryUnchanged == <<processVars, stateVars, evaluatorVars>>

(* sink.Prepare; a failure is tried again after a pause.                    *)
Prepare ==
    /\ process = "up" /\ worker = "prepare"
    /\ worker' = "send"
    /\ UNCHANGED <<deliveryUnchanged, outbox, table, late>>

(* Faulty variant: requests carry no version, the last to arrive wins.      *)
ArrivesUnversioned(i, r) == table' = [table EXCEPT ![i] = r] /\ UNCHANGED late

(* Each request carries the time it is made as its version, and of the rows *)
(* of an incident ClickHouse answers the one with the highest: a request    *)
(* that arrives makes those made before it void.                            *)
Arrives(i, r) ==
    /\ table' = [table EXCEPT ![i] = r]
    /\ late' = [late EXCEPT ![i] = NoRow]

(* deliverOutbox takes the files in the order of their names.  It lists     *)
(* them first, but as only the evaluator adds any, and with later names, a  *)
(* listing never changes which is the oldest.                               *)
Upsert ==
    /\ process = "up" /\ worker = "send" /\ outbox # <<>>
    /\ Arrives(Head(outbox).id, Head(outbox).row)
    /\ worker' = "remove"
    /\ UNCHANGED <<deliveryUnchanged, outbox>>

(* Refused, or timed out: then the request may still arrive, with the same  *)
(* row as any other of this incident that has not, as this file was the     *)
(* oldest for them too.                                                     *)
UpsertFails ==
    /\ process = "up" /\ worker = "send" /\ outbox # <<>>
    /\ late' \in {late, [late EXCEPT ![Head(outbox).id] = Head(outbox).row]}
    /\ UNCHANGED <<deliveryUnchanged, outbox, worker, table>>

LateArrival(i) ==
    /\ late[i] # NoRow
    /\ Arrives(i, late[i])
    /\ UNCHANGED <<deliveryUnchanged, outbox, worker>>

RemoveSent ==
    /\ process = "up" /\ worker = "remove"
    /\ outbox' = Tail(outbox)
    /\ worker' = "send"
    /\ UNCHANGED <<deliveryUnchanged, table, late>>

RemoveFails ==
    /\ process = "up" /\ worker = "remove"
    /\ worker' = "send"
    /\ UNCHANGED <<deliveryUnchanged, outbox, table, late>>

-----------------------------------------------------------------------------
EvaluatorNext(n) ==
    \/ UpdateBecomesDue(n)
    \/ \E level \in Levels : Observe(n, level)
    \/ SaveBeforeSending(n) \/ Emit(n) \/ SaveAfterSending(n) \/ WriteFails(n)

WorkerNext ==
    \/ Prepare \/ Upsert \/ UpsertFails \/ RemoveSent \/ RemoveFails

Next ==
    \/ Start \/ FinishStart \/ Crash
    \/ \E n \in Names : Reconcile(n) \/ EvaluatorNext(n)
    \/ WorkerNext
    \/ \E i \in Incidents : LateArrival(i)

Spec == Init /\ [][Next]_vars

(* Weak fairness: the process is restarted and its goroutines run; time     *)
(* passes.  Strong fairness: a write, a request or a removal tried for ever *)
(* succeeds in the end.                                                     *)
RunFairness ==
    /\ WF_vars(Start \/ FinishStart \/ \E n \in Names : Reconcile(n))
    /\ WF_vars(Prepare)
    /\ \A n \in Names : WF_vars(UpdateBecomesDue(n))

WriteFairness ==
    /\ \A n \in Names :
         SF_vars(SaveBeforeSending(n)) /\ SF_vars(Emit(n)) /\ SF_vars(SaveAfterSending(n))
    /\ SF_vars(Upsert) /\ SF_vars(RemoveSent)

(* Faulty variant: an active alert without data is not evaluated.           *)
ShouldEvaluateData(n) == manager = "collector"

(* Each tick evaluates every alert with a valid observation.  Nothing makes *)
(* an observation valid but, in the collector, the traffic, which is        *)
(* assumed to go on; and in the reprocessor, shouldEvaluate for an alert    *)
(* that is active.                                                          *)
ShouldEvaluate(n) == manager = "collector" \/ Active(n)

Evaluate(n) == \E level \in Levels : Observe(n, level)

EvaluationFairness == \A n \in Names : SF_vars(ShouldEvaluate(n) /\ Evaluate(n))

FairSpec == Spec /\ RunFairness /\ WriteFairness /\ EvaluationFairness

-----------------------------------------------------------------------------
(* Properties                                                               *)

Rows == [state : {"none", "ACTIVE", "CLEARED"}, peak : Levels \cup {0}]

Alerts == [id : Incidents \cup {NoId}, state : {"none", "ACTIVE", "CLEARED"},
           peak : Levels \cup {0}, breach : 0..TriggerWindows-1,
           clear : 0..ClearWindows-1, dirty : BOOLEAN]

(* Types; the file sent is there until it is removed, and the evaluator     *)
(* works only in a process that is up.                                      *)
TypeOK ==
    /\ manager \in Managers /\ process \in {"down", "starting", "up"}
    /\ crashes \in 0..MaxCrashes /\ opened \in 0..MaxIncidents
    /\ memory \in [Names -> Alerts] /\ disk \in [Names -> Alerts]
    /\ updateDue \subseteq Names /\ toReconcile \subseteq Names
    /\ replaced \subseteq 1..opened
    /\ saved \in [Incidents -> Rows] /\ table \in [Incidents -> Rows] /\ late \in [Incidents -> Rows]
    /\ evaluator \in [at : {"idle", "persist", "emit", "confirm"},
                      name : Names \cup {NoName}, rest : Levels \cup {-1}]
    /\ evaluator.at # "idle" => process = "up" /\ evaluator.name \in Names
    /\ outbox \in Seq([id : 1..opened, row : Rows])
    /\ worker \in {"prepare", "send", "remove"} /\ (worker = "remove" => outbox # <<>>)

(* What the program has last told of an incident: in a file of the outbox,  *)
(* in a late request, in the table.                                         *)
LastTold(i) ==
    LET files == {k \in DOMAIN outbox : outbox[k].id = i}
    IN IF files # {} THEN outbox[CHOOSE k \in files : \A j \in files : j <= k].row
       ELSE IF late[i] # NoRow THEN late[i] ELSE table[i]

(* The state file remembers every incident last told to be ACTIVE, so that  *)
(* a restart goes on with it instead of opening another one                 *)
(* (src/README.md:523-525), unless its unsent CLEARED record was replaced   *)
(* by a new incident.                                                       *)
ToldIsRemembered ==
    \A i \in Incidents :
        LastTold(i).state = "ACTIVE" =>
            i \in replaced \/ \E n \in Names : disk[n].id = i

(* The table of incidents moves as IncidentTable promises, whatever is      *)
(* sent twice, arrives late or fails between the state file, the outbox and *)
(* ClickHouse.                                                              *)
Contract == INSTANCE IncidentTable WITH row <- table
ContractSpec == Contract!Spec

ClosedOnDisk(i) == \E n \in Names : disk[n].id = i /\ disk[n].state = "CLEARED"

(* An incident whose end is saved is shown CLEARED in the end: state        *)
(* changes wait in the outbox and are sent again (src/README.md:519-521),   *)
(* unless a new incident took its place before its record was sent.         *)
ClearedIsShown ==
    \A i \in Incidents : ClosedOnDisk(i) ~> table[i].state = "CLEARED" \/ i \in replaced

(* The collector keeps this, by sending again while the alert is inactive   *)
(* and when it starts.                                                      *)
CollectorClearedIsShown == manager = "collector" => ClearedIsShown

OpenInMemory(i) == process = "up" /\ \E n \in Names : memory[n].id = i /\ Active(n)

(* An incident that is open is shown in the table in the end, whatever write *)
(* or request fails on the way, or it is closed first or the process dies.  *)
OpenIsShown ==
    \A i \in Incidents : OpenInMemory(i) ~> table[i].state # "none" \/ ~OpenInMemory(i)

(* Once the observations stay below the clear level the incident ends: in   *)
(* the reprocessor also when no batch is left to observe                    *)
(* (reprocess_alerts.go:482-483).                                           *)
Trouble(n) == \E level \in Levels : level >= ClearLevel /\ Observe(n, level)

RecoveryClears == \A n \in Names : <>[][~Trouble(n)]_vars => <>[](memory[n].state # "ACTIVE")
=============================================================================
