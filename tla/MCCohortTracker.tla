---------------------------- MODULE MCCohortTracker ----------------------------
(* Model values for the TLC run of CohortTracker.                           *)
EXTENDS CohortTracker, TLC

CONSTANTS w1, w2, i1

Symmetry == Permutations({w1, w2})
=============================================================================
