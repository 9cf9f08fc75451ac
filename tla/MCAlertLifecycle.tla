--------------------------- MODULE MCAlertLifecycle ---------------------------
(* Model values for the TLC runs of AlertLifecycle.                         *)
EXTENDS AlertLifecycle

CONSTANT a1
=============================================================================
