---------------------------- MODULE MCFailedSpool ----------------------------
(* Model values for the TLC runs of FailedSpool.                            *)
EXTENDS FailedSpool

CONSTANTS b1, b2
=============================================================================
