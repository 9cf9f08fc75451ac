----------------------------- MODULE DropTracker -----------------------------
(***************************************************************************)
(* How the receivers of one socket count its kernel drops (SO_RXQ_OVFL):   *)
(* a datagram carries the socket's cumulative drop counter, 32 bits wide,  *)
(* as it was when the kernel queued the datagram.  In shared_socket mode   *)
(* every udpReceiver reads the same socket and shares one tracker, so      *)
(* ObserveSocketDrops may see the counters in any order and must add each  *)
(* drop exactly once, with nothing but a compare-and-swap.                 *)
(*                                                                         *)
(* A counter is modelled by the true number of drops it stands for; what   *)
(* the code sees of it is that number modulo Modulus.                      *)
(***************************************************************************)
EXTENDS Integers, Sequences, FiniteSets, Sums

CONSTANTS
    Receivers,    \* the receivers that share the tracker
    UdpBatchSize, \* UDP_BATCH_SIZE
    Modulus,      \* 2^32 in the code
    MaxDrops      \* bound: the drops of the socket's life

ASSUME TrackerAssumption ==
    /\ IsFiniteSet(Receivers) /\ UdpBatchSize \in Nat \ {0}
    /\ Modulus \in Nat \ {0} /\ Modulus % 2 = 0 /\ MaxDrops \in Nat

VARIABLES
    reported,    \* history: the newest counter read with a datagram to observe
    state,       \* dropTracker.state: 0 at first, then Modulus + last value
    observer,    \* each receiver: its batch and where ObserveSocketDrops stands
    latest,      \* the true number of drops the tracker stands for
    total        \* totalUDPKernelDrops

vars == <<reported, state, observer, latest, total>>

Half == Modulus \div 2

IdleObserver == [pc |-> "read", batch |-> <<>>, seen |-> 0, delta |-> 0]

Init ==
    /\ reported = 0 /\ state = 0 /\ latest = 0 /\ total = 0
    /\ observer = [r \in Receivers |-> IdleObserver]

(* In place of its counter, a datagram that udpReadLoop does not observe:   *)
(* it is empty, whatever counter it carries, or it carries none.            *)
Unobserved == -1

Pending ==
    (UNION {{observer[r].batch[i] : i \in DOMAIN observer[r].batch} : r \in Receivers})
      \ {Unobserved}

(* The counters of one recvmmsg, in queue order.  Between the oldest that a *)
(* receiver still holds, or the tracker, and the newest, less than half the *)
(* range of the counter is assumed to pass.                                 *)
ReadBatch(r) ==
    /\ observer[r].pc = "read"
    /\ \E n \in 1..UdpBatchSize : \E batch \in [1..n -> {Unobserved} \cup reported..MaxDrops] :
         /\ \A i, j \in 1..n : i < j /\ batch[j] # Unobserved => batch[i] <= batch[j]
         /\ reported' \in {reported} \cup {batch[i] : i \in 1..n}
         /\ reported' >= reported /\ \A i \in 1..n : batch[i] <= reported'
         /\ \A old \in Pending \cup {latest} : reported' - old < Half
         /\ observer' = [observer EXCEPT ![r] = [@ EXCEPT !.pc = "load", !.batch = batch]]
    /\ UNCHANGED <<state, latest, total>>

(* The counter in hand, as the code sees it, and its distance to the last.  *)
(* The faulty variants, here and below, each break a property.              *)
Value(r) == Head(observer[r].batch) % Modulus

Delta(r, seen) == IF seen = 0 THEN Value(r) ELSE (Value(r) - (seen % Modulus)) % Modulus

(* The receiver goes on with its next datagram.                             *)
NextDatagram(r) ==
    [IdleObserver EXCEPT !.pc = IF Len(observer[r].batch) = 1 THEN "read" ELSE "load",
                         !.batch = Tail(observer[r].batch)]

SkipBatch(r) ==               \* breaks out of the loop
    /\ observer[r].pc = "load" /\ Head(observer[r].batch) = Unobserved
    /\ observer' = [observer EXCEPT ![r] = IdleObserver]
    /\ UNCHANGED <<reported, state, latest, total>>

(* An empty datagram, or one without a counter: nothing is observed.        *)
SkipDatagram(r) ==
    /\ observer[r].pc = "load" /\ Head(observer[r].batch) = Unobserved
    /\ observer' = [observer EXCEPT ![r] = NextDatagram(r)]
    /\ UNCHANGED <<reported, state, latest, total>>

StaleUnchecked(r) ==          \* takes an older counter for a wrapped one
    state # 0 /\ Delta(r, state) = 0

(* Equal to the last counter, or older: over half the range away.           *)
Stale(r) == state # 0 /\ (Delta(r, state) = 0 \/ Delta(r, state) > Half)

LoadState(r) ==
    /\ observer[r].pc = "load" /\ Head(observer[r].batch) # Unobserved
    /\ \/ /\ Stale(r)
          /\ observer' = [observer EXCEPT ![r] = NextDatagram(r)]
       \/ /\ ~Stale(r)
          /\ observer' = [observer EXCEPT ![r] = [@ EXCEPT !.pc = "swap", !.seen = state]]
    /\ UNCHANGED <<reported, state, latest, total>>

SwapUnmarked(r) ==            \* stores the counter without the marker bit
    /\ observer[r].pc = "swap"
    /\ \/ /\ state = observer[r].seen
          /\ state' = Value(r)
          /\ latest' = Head(observer[r].batch)
          /\ observer' = [observer EXCEPT ![r] = [@ EXCEPT !.pc = "add",
                                                           !.delta = Delta(r, observer[r].seen)]]
       \/ /\ state # observer[r].seen
          /\ observer' = [observer EXCEPT ![r] = [@ EXCEPT !.pc = "load", !.seen = 0]]
          /\ UNCHANGED <<state, latest>>
    /\ UNCHANGED <<reported, total>>

SwapUnconditionally(r) ==     \* a plain store
    /\ observer[r].pc = "swap"
    /\ state' = Modulus + Value(r)
    /\ latest' = Head(observer[r].batch)
    /\ observer' = [observer EXCEPT ![r] = [@ EXCEPT !.pc = "add",
                                                     !.delta = Delta(r, observer[r].seen)]]
    /\ UNCHANGED <<reported, total>>

(* CompareAndSwapUint64, which fails if another receiver was faster.        *)
Swap(r) ==
    /\ observer[r].pc = "swap"
    /\ \/ /\ state = observer[r].seen
          /\ state' = Modulus + Value(r)
          /\ latest' = Head(observer[r].batch)
          /\ observer' = [observer EXCEPT ![r] = [@ EXCEPT !.pc = "add",
                                                           !.delta = Delta(r, observer[r].seen)]]
       \/ /\ state # observer[r].seen
          /\ observer' = [observer EXCEPT ![r] = [@ EXCEPT !.pc = "load", !.seen = 0]]
          /\ UNCHANGED <<state, latest>>
    /\ UNCHANGED <<reported, total>>

(* udpReadLoop adds what ObserveSocketDrops returned.                       *)
AddDrops(r) ==
    /\ observer[r].pc = "add"
    /\ total' = total + observer[r].delta
    /\ observer' = [observer EXCEPT ![r] = NextDatagram(r)]
    /\ UNCHANGED <<reported, state, latest>>

Next ==
    \E r \in Receivers :
        ReadBatch(r) \/ SkipDatagram(r) \/ LoadState(r) \/ Swap(r) \/ AddDrops(r)

Spec == Init /\ [][Next]_vars
-----------------------------------------------------------------------------
(* Properties                                                               *)

(* The types of the state: dropTracker.state is zero or its marker bit with *)
(* a 32-bit counter.                                                        *)
TypeOK ==
    /\ reported \in 0..MaxDrops /\ latest \in 0..MaxDrops /\ total \in Nat
    /\ state \in {0} \cup Modulus..2*Modulus-1
    /\ observer \in [Receivers -> [pc : {"read", "load", "swap", "add"},
                                   batch : Seq({Unobserved} \cup 0..MaxDrops),
                                   seen : {0} \cup Modulus..2*Modulus-1, delta : 0..Modulus-1]]

(* Every drop up to the newest counter taken is added once and only once,   *)
(* whatever the order in which the receivers observe their counters, the    *)
(* wraps of the counter and the swaps lost.                                 *)
DropsCountedOnce ==
    total + SumOver([r \in Receivers |-> observer[r].delta], Receivers) = latest

(* An older counter never moves the tracker back.                           *)
TrackerNeverGoesBack == [][latest' >= latest]_vars

(* Once every receiver is back in recvmmsg, all drops that a datagram with  *)
(* data has reported are in totalUDPKernelDrops, and no others: those that  *)
(* only an empty datagram reported wait for the next one with data.         *)
NothingMissedAtRest ==
    (\A r \in Receivers : observer[r].pc = "read") => total = reported
=============================================================================
