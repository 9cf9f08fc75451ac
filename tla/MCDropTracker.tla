---------------------------- MODULE MCDropTracker ----------------------------
(* Model values for the TLC run of DropTracker.                             *)
EXTENDS DropTracker, TLC

CONSTANTS r1, r2, r3

AnyReceiver == Permutations(Receivers)
=============================================================================
