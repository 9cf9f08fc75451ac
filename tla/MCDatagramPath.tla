---------------------------- MODULE MCDatagramPath ----------------------------
(* Datagrams and model values for the TLC run of DatagramPath.              *)
EXTENDS DatagramPath, Bitwise, TLC

CONSTANTS d1, d2, d3, d4, d5, w1, w2

(* Two records in a large buffer, a legacy one that no pool has a buffer    *)
(* for, one record in a small buffer, one that is too short, in a small     *)
(* buffer that has room for a record, and an empty one.                     *)
MCSent == <<d1, d2, d3, d4, d5>>
MCFormat ==
    d1 :> [kind |-> "multi", records |-> 2, length |-> 10]
    @@ d2 :> [kind |-> "legacy", records |-> 1, length |-> 12]
    @@ d3 :> [kind |-> "multi", records |-> 1, length |-> 6]
    @@ d4 :> [kind |-> "neither", records |-> 0, length |-> 1]
    @@ d5 :> [kind |-> "neither", records |-> 0, length |-> 0]
MCOffsets == <<0, 1>>
MCXor(a, b) == a ^^ b

Symmetry == Permutations({w1, w2})
=============================================================================
