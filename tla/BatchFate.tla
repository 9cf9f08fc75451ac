------------------------------ MODULE BatchFate ------------------------------
(***************************************************************************)
(* What the failed spool and its reprocessor promise about a batch handed  *)
(* to spoolFailedInsertBatch.                                              *)
(*   spooling     being written to disk                                    *)
(*   retained     its data and its whole JSON metadata are in done         *)
(*   unavailable  its spooling ended without that pair                     *)
(*   quarantined  moved to bad for manual review                           *)
(*   settled      taken out of done after ClickHouse confirmed it          *)
(* Only a retained batch is ever inserted, and only a confirmed one leaves *)
(* done for good, unless it is quarantined: one that was never retained,   *)
(* or one that the reprocessor has failed to read.                         *)
(***************************************************************************)
CONSTANT Batches

VARIABLES
    fate,        \* [Batches -> Fates]
    confirmed,   \* the batches ClickHouse has answered with success
    unreadable   \* the batches the reprocessor has failed to read

Fates == {"spooling", "retained", "unavailable", "quarantined", "settled"}

Init == fate = [b \in Batches |-> "spooling"] /\ confirmed = {} /\ unreadable = {}

(* Every batch of S moves from one of the fates in from to one of those in  *)
(* to.                                                                      *)
Move(S, from, to) ==
    /\ \A b \in S : fate[b] \in from /\ fate'[b] \in to
    /\ fate' = [b \in Batches |-> IF b \in S THEN fate'[b] ELSE fate[b]]
    /\ UNCHANGED <<confirmed, unreadable>>

EndSpooling(S) ==
    /\ Move(S, {"spooling"}, {"retained", "unavailable", "quarantined"})
    /\ \A b \in S \ unreadable : fate'[b] # "quarantined"

FailToRead(S) ==
    /\ unreadable' = unreadable \cup S
    /\ UNCHANGED <<fate, confirmed>>

Quarantine(S) ==
    /\ Move(S, {"unavailable", "retained"}, {"quarantined"})
    /\ \A b \in S \ unreadable : fate[b] = "unavailable"

Confirm(b) ==
    /\ fate[b] = "retained"
    /\ confirmed' = confirmed \cup {b}
    /\ UNCHANGED <<fate, unreadable>>

Settle(S) == S \subseteq confirmed /\ Move(S, {"retained"}, {"settled"})

Next ==
    \/ \E S \in SUBSET Batches :
         EndSpooling(S) \/ FailToRead(S) \/ Quarantine(S) \/ Settle(S)
    \/ \E b \in Batches : Confirm(b)

Spec == Init /\ [][Next]_<<fate, confirmed, unreadable>>

(* A retained batch that ClickHouse would accept is settled in the end, or  *)
(* quarantined.                                                             *)
RetainedSettles(b) == fate[b] = "retained" ~> fate[b] \in {"settled", "quarantined"}
=============================================================================
