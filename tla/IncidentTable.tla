---------------------------- MODULE IncidentTable ----------------------------
(***************************************************************************)
(* What the alert managers promise about the table of incidents in         *)
(* ClickHouse (ReplacingMergeTree by id and version): an incident's row    *)
(* only moves forward, from nothing through ACTIVE rows whose peak never   *)
(* falls to one CLEARED row, and never shows what its program has not      *)
(* saved on its own disk first, so that a restart cannot contradict it.    *)
(***************************************************************************)
EXTENDS Integers

CONSTANT Incidents

VARIABLES
    saved,    \* [Incidents -> Row]: the furthest the disk has ever known
    row       \* [Incidents -> Row]: what a query of the table answers

NoRow == [state |-> "none", peak |-> 0]

(* Row s is row r or a later one of the same incident.                      *)
Follows(r, s) ==
    \/ r = s
    \/ r.state = "none"
    \/ r.state = "ACTIVE" /\ s.state \in {"ACTIVE", "CLEARED"} /\ r.peak <= s.peak

Init == saved = [i \in Incidents |-> NoRow] /\ row = saved

(* A write of the state file may move several incidents at once.            *)
Save ==
    /\ saved' = [i \in Incidents |-> saved'[i]]
    /\ \A i \in Incidents : Follows(saved[i], saved'[i])
    /\ UNCHANGED row

Show(i, r) ==
    /\ Follows(row[i], r) /\ Follows(r, saved[i])
    /\ row' = [row EXCEPT ![i] = r]
    /\ UNCHANGED saved

Next ==
    \/ Save
    \/ \E i \in Incidents : Show(i, row'[i])

Spec == Init /\ [][Next]_<<saved, row>>
=============================================================================
