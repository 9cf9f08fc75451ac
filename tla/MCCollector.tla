----------------------------- MODULE MCCollector -----------------------------
(* Model values and traffic for the TLC runs of Collector.                  *)
EXTENDS Collector, TLC

CONSTANTS p1, p2, p3, p4, t1, t2

(* A datagram whose records end on two days; with it a datagram of a single *)
(* record; one that parsePacket rejects; one of length zero.                *)
TwoDays == p1 :> <<t1, t2>> @@ p2 :> <<t1>>
OneDay == p1 :> <<t1, t1, t1>>
MixedTraffic == p1 :> <<t1, t2>> @@ p2 :> <<t1>> @@ p3 :> <<>> @@ p4 :> <<>>
=============================================================================
