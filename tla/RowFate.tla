------------------------------- MODULE RowFate -------------------------------
(***************************************************************************)
(* What the collector promises about the rows of the datagrams it accepts  *)
(* on packetChannel: an accepted row is held until it meets exactly one    *)
(* fate, and that fate is final.                                           *)
(*   inserted  ClickHouse confirmed it                                     *)
(*   spooled   it is in a .done file with metadata, for the reprocessor    *)
(*   orphaned  it is in a .done file without metadata                      *)
(*   lost      its spool file could not be written                         *)
(* Only a held row is ever written to ClickHouse, so the last write of a   *)
(* confirmed row is the confirmed one, and a spooled row is never written  *)
(* again by the live path.                                                 *)
(***************************************************************************)
EXTENDS Naturals

CONSTANT Rows

VARIABLES
    fate,     \* [Rows -> Fates]
    stored    \* how many times ClickHouse stored each row

Failed == {"spooled", "orphaned", "lost"}
Settled == Failed \cup {"inserted"}
Fates == Settled \cup {"absent", "held"}

Init ==
    /\ fate = [row \in Rows |-> "absent"]
    /\ stored = [row \in Rows |-> 0]

(* S moves from one fate to another.                                        *)
Move(S, from, to) ==
    /\ \A row \in S : fate[row] = from
    /\ fate' = [row \in Rows |-> IF row \in S THEN to ELSE fate[row]]

(* ClickHouse stores the rows of S once more.                               *)
Write(S) ==
    stored' = [row \in Rows |-> IF row \in S THEN stored[row] + 1 ELSE stored[row]]

Accept(S) == Move(S, "absent", "held") /\ UNCHANGED stored

(* An insert whose answer is lost.                                          *)
WriteUnconfirmed(S) ==
    /\ \A row \in S : fate[row] = "held"
    /\ Write(S)
    /\ UNCHANGED fate

Confirm(S) == Move(S, "held", "inserted") /\ Write(S)

GiveUp(S) ==
    /\ \E f \in Failed : Move(S, "held", f)
    /\ UNCHANGED stored

Next == \E S \in SUBSET Rows :
            Accept(S) \/ WriteUnconfirmed(S) \/ Confirm(S) \/ GiveUp(S)

Spec == Init /\ [][Next]_<<fate, stored>>

(* A held row meets its fate.                                               *)
EveryHeldRowSettles == \A row \in Rows : fate[row] = "held" ~> fate[row] \in Settled
=============================================================================
