-------------------------- MODULE DropTrackerProofs --------------------------
(***************************************************************************)
(* DropTracker counts each drop once, for any receivers, batch size, width *)
(* of the counter and number of drops: the compare-and-swap alone is       *)
(* enough, though the counters are seen in any order and wrap, and though  *)
(* a swap may succeed on a state that has gone round and come back.        *)
(***************************************************************************)
EXTENDS DropTracker, CountingTheorems, SequenceTheorems

(* dropTracker.state is what the code sees of latest.                       *)
StateShape == (state = 0 /\ latest = 0) \/ state = Modulus + (latest % Modulus)

(* ObserveSocketDrops runs only for a datagram that has something to        *)
(* observe, swaps only for a counter that is not stale, and by the time its *)
(* drops are added the tracker has reached it.                              *)
ObserverShape(r) ==
    /\ observer[r].pc = "read" <=> observer[r].batch = <<>>
    /\ observer[r].pc \in {"swap", "add"} => Head(observer[r].batch) # Unobserved
    /\ observer[r].pc = "swap" =>
          observer[r].seen = 0 \/ Delta(r, observer[r].seen) \in 1..Half
    /\ observer[r].pc = "add" => Head(observer[r].batch) <= latest
    /\ observer[r].pc # "add" => observer[r].delta = 0

(* The counters still in play lie within half the range of the counter, and *)
(* the newest that was read is among them.                                  *)
InPlay == Pending \cup {latest}
InWindow == \A a, b \in InPlay : a - b < Half
NewestInPlay == reported \in InPlay /\ \A a \in InPlay : a <= reported

IInv ==
    /\ TypeOK /\ StateShape /\ \A r \in Receivers : ObserverShape(r)
    /\ InWindow /\ NewestInPlay /\ DropsCountedOnce

-----------------------------------------------------------------------------
(* The counter's arithmetic                                                 *)

(* A counter modulo the width of the counter, and the distance between two, *)
(* when they are less than half the range apart: a distance of zero or over *)
(* half the range means that the first is not newer.                        *)
LEMMA Distance ==
    ASSUME NEW M \in Nat \ {0}, M % 2 = 0, NEW v \in Nat, NEW l \in Nat,
           v - l < M \div 2, l - v < M \div 2
    PROVE  LET d == ((v % M) - (l % M)) % M
           IN  /\ d \in 0..M-1
               /\ (d = 0 \/ d > M \div 2) => v <= l
               /\ d \in 1..(M \div 2) => d = v - l
  <1> DEFINE H == M \div 2
             p == v % M
             q == l % M
             k == (v \div M) - (l \div M)
  <1>1. 2 * H = M /\ H \in Nat \ {0}
    OBVIOUS
  <1>2. p \in 0..M-1 /\ q \in 0..M-1 /\ k \in Int
    OBVIOUS
  <1>3. v - l = k * M + (p - q)
    <2>1. v = (v \div M) * M + p /\ l = (l \div M) * M + q
      OBVIOUS
    <2>2. v \div M \in Int /\ l \div M \in Int
      OBVIOUS
    <2> QED
      BY <1>2, <2>1, <2>2
  <1>4. (p - q) % M = IF p >= q THEN p - q ELSE p - q + M
    BY <1>2
  <1> HIDE DEF H, p, q, k
  <1>5. v - l < H /\ l - v < H
    BY DEF H
  <1>6. k \in {-1, 0, 1}
    <2>1. CASE k >= 2
      <3>1. k * M >= 2 * M
        BY <1>2, <2>1
      <3>2. k * M \in Int
        BY <1>2
      <3> QED
        BY ONLY <1>1, <1>2, <1>3, <1>5, <3>1, <3>2, M \in Nat \ {0}, v \in Nat, l \in Nat
    <2>2. CASE k <= -2
      <3>1. k * M <= (-2) * M
        BY <1>2, <2>2
      <3>2. k * M \in Int
        BY <1>2
      <3> QED
        BY ONLY <1>1, <1>2, <1>3, <1>5, <3>1, <3>2, M \in Nat \ {0}, v \in Nat, l \in Nat
    <2> QED
      BY <1>2, <2>1, <2>2
  <1>7. CASE k = 0
    <2>1. v - l = p - q
      BY ONLY <1>2, <1>3, <1>7, M \in Nat \ {0}, v \in Nat, l \in Nat
    <2> QED
      BY ONLY <1>1, <1>2, <1>4, <1>5, <2>1, M \in Nat \ {0}, v \in Nat, l \in Nat DEF H, p, q
  <1>8. CASE k = 1
    <2>1. v - l = M + p - q
      BY ONLY <1>2, <1>3, <1>8, M \in Nat \ {0}, v \in Nat, l \in Nat
    <2> QED
      BY ONLY <1>1, <1>2, <1>4, <1>5, <2>1, M \in Nat \ {0}, v \in Nat, l \in Nat DEF H, p, q
  <1>9. CASE k = -1
    <2>1. v - l = p - q - M
      BY ONLY <1>2, <1>3, <1>9, M \in Nat \ {0}, v \in Nat, l \in Nat
    <2> QED
      BY ONLY <1>1, <1>2, <1>4, <1>5, <2>1, M \in Nat \ {0}, v \in Nat, l \in Nat DEF H, p, q
  <1> QED
    BY <1>6, <1>7, <1>8, <1>9

(* The range of the kernel's counter has two equal halves.                  *)
LEMMA HalfRange == Modulus \in Nat \ {0} /\ Half \in Nat \ {0} /\ 2 * Half = Modulus
  BY TrackerAssumption DEF Half

-----------------------------------------------------------------------------
(* The counters in play                                                     *)

Elements(s) == {s[i] : i \in DOMAIN s} \ {Unobserved}
Others(r) == UNION {Elements(observer[q].batch) : q \in Receivers \ {r}}

(* The counters that a receiver still has to observe, by its program        *)
(* counter.                                                                 *)
LEMMA PendingOf ==
    ASSUME NEW r \in Receivers
    PROVE  Pending = Others(r) \cup Elements(observer[r].batch)
  BY DEF Pending, Others, Elements

(* A step of r changes only what r has in hand.                             *)
LEMMA PendingAfter ==
    ASSUME TypeOK, NEW r \in Receivers, NEW o, observer' = [observer EXCEPT ![r] = o]
    PROVE  /\ Pending' = Others(r) \cup Elements(o.batch)
           /\ observer'[r] = o
           /\ \A q \in Receivers \ {r} : observer'[q] = observer[q]
  <1>1. observer'[r] = o /\ \A q \in Receivers \ {r} : observer'[q] = observer[q]
    BY DEF TypeOK
  <1>2. Pending' = Others(r) \cup Elements(observer'[r].batch)
    BY <1>1 DEF Pending, Others, Elements
  <1> QED
    BY <1>1, <1>2

(* The rest of a read batch is part of it.                                  *)
LEMMA ElementsOfTail ==
    ASSUME NEW S, NEW s \in Seq(S), s # <<>>
    PROVE  Elements(s) = ({Head(s)} \ {Unobserved}) \cup Elements(Tail(s))
  <1>1. Len(s) \in Nat \ {0} /\ DOMAIN s = 1..Len(s) /\ Head(s) = s[1]
    BY EmptySeq, LenProperties
  <1>2. /\ DOMAIN Tail(s) = 1..Len(s)-1
        /\ \A i \in 1..Len(s)-1 : Tail(s)[i] = s[i+1]
    BY HeadTailProperties, LenProperties
  <1>3. ASSUME NEW i \in DOMAIN s, s[i] # Unobserved
        PROVE  s[i] \in ({Head(s)} \ {Unobserved}) \cup Elements(Tail(s))
    <2>1. CASE i = 1
      BY <1>1, <1>3, <2>1
    <2>2. CASE i # 1
      <3>1. i - 1 \in DOMAIN Tail(s) /\ Tail(s)[i - 1] = s[i]
        BY <1>1, <1>2, <2>2
      <3> QED
        BY <1>3, <3>1 DEF Elements
    <2> QED
      BY <2>1, <2>2
  <1>4. Head(s) # Unobserved => Head(s) \in Elements(s)
    BY <1>1 DEF Elements
  <1>5. \A i \in DOMAIN Tail(s) : Tail(s)[i] # Unobserved => Tail(s)[i] \in Elements(s)
    BY <1>1, <1>2 DEF Elements
  <1> QED
    BY <1>3, <1>4, <1>5 DEF Elements

-----------------------------------------------------------------------------
(* What the invariant says of the receiver that takes a step                *)

Seen == {0} \cup Modulus..2*Modulus-1
Counters == {Unobserved} \cup 0..MaxDrops
ObserverType == [pc : {"read", "load", "swap", "add"}, batch : Seq(Counters),
                 seen : Seen, delta : 0..Modulus-1]

(* They are numbers of drops.                                               *)
LEMMA PendingTypes ==
    ASSUME TypeOK
    PROVE  /\ \A r \in Receivers : observer[r] \in ObserverType
           /\ Pending \subseteq 0..MaxDrops
           /\ reported \in Nat /\ latest \in Nat /\ total \in Nat /\ MaxDrops \in Nat
  <1>1. \A r \in Receivers : observer[r] \in ObserverType
    BY DEF TypeOK, ObserverType, Seen, Counters
  <1>2. \A r \in Receivers : \A i \in DOMAIN observer[r].batch :
           observer[r].batch[i] \in Counters
    BY <1>1, LenProperties, ElementOfSeq DEF ObserverType
  <1>3. reported \in Nat /\ latest \in Nat /\ total \in Nat /\ MaxDrops \in Nat
    BY TrackerAssumption DEF TypeOK
  <1> QED
    BY <1>1, <1>2, <1>3 DEF Pending, Counters

(* The counter in hand is in play, and the batch without it is what is left.*)
LEMMA InHand ==
    ASSUME IInv, NEW r \in Receivers, observer[r].pc # "read"
    PROVE  /\ observer[r].batch # <<>>
           /\ Head(observer[r].batch) # Unobserved =>
                /\ Head(observer[r].batch) \in 0..MaxDrops
                /\ Head(observer[r].batch) \in InPlay
                /\ Head(observer[r].batch) <= reported
                /\ Head(observer[r].batch) - latest < Half
                /\ latest - Head(observer[r].batch) < Half
           /\ Elements(observer[r].batch) =
                ({Head(observer[r].batch)} \ {Unobserved})
                  \cup Elements(Tail(observer[r].batch))
           /\ Tail(observer[r].batch) \in Seq(Counters)
           /\ Len(observer[r].batch) = 1 <=> Tail(observer[r].batch) = <<>>
  <1> DEFINE s == observer[r].batch
  <1>1. s # <<>>
    BY DEF IInv, ObserverShape
  <1>2. s \in Seq(Counters)
    BY PendingTypes DEF IInv, ObserverType
  <1> HIDE DEF s
  <1>3. Head(s) \in Counters /\ Tail(s) \in Seq(Counters) /\ Len(Tail(s)) = Len(s) - 1
    BY <1>1, <1>2, HeadTailProperties
  <1>4. Len(s) = 1 <=> Tail(s) = <<>>
    <2>1. Len(Tail(s)) = 0 <=> Tail(s) = <<>>
      BY <1>3, EmptySeq
    <2>2. Len(s) \in Nat
      BY <1>2, LenProperties
    <2> QED
      BY <1>3, <2>1, <2>2
  <1>5. Elements(s) = ({Head(s)} \ {Unobserved}) \cup Elements(Tail(s))
    BY <1>1, <1>2, ElementsOfTail
  <1>6. ASSUME Head(s) # Unobserved
        PROVE  /\ Head(s) \in 0..MaxDrops /\ Head(s) \in InPlay
               /\ Head(s) <= reported /\ Head(s) - latest < Half /\ latest - Head(s) < Half
    <2>1. Head(s) \in InPlay /\ latest \in InPlay
      BY <1>5, <1>6, PendingOf DEF s, InPlay
    <2>2. Head(s) <= reported /\ Head(s) - latest < Half /\ latest - Head(s) < Half
      BY <2>1 DEF IInv, InWindow, NewestInPlay
    <2>3. Head(s) \in 0..MaxDrops
      BY <1>3, <1>6 DEF Counters
    <2> QED
      BY <2>1, <2>2, <2>3
  <1> QED
    BY <1>1, <1>3, <1>4, <1>5, <1>6 DEF s

(* What Delta says of the counter in hand.                                  *)
LEMMA DeltaOf ==
    ASSUME IInv, NEW r \in Receivers, observer[r].pc # "read",
           Head(observer[r].batch) # Unobserved
    PROVE  LET v == Head(observer[r].batch)
               d == Delta(r, state)
           IN  /\ d \in 0..Modulus-1
               /\ Stale(r) => v <= latest
               /\ state = 0 => d = v - latest
               /\ d \in 1..Half => d = v - latest
  <1> DEFINE v == Head(observer[r].batch)
  <1>1. v \in Nat /\ latest \in Nat /\ v - latest < Half /\ latest - v < Half
    BY InHand, PendingTypes DEF IInv
  <1>2. CASE state = 0
    <2>1. latest = 0
      BY <1>2, HalfRange, <1>1 DEF IInv, StateShape
    <2>2. v \in 0..Modulus-1
      <3> HIDE DEF v
      <3> QED
        BY <1>1, <2>1, HalfRange
    <2>3. v % Modulus = v
      <3> HIDE DEF v
      <3> QED
        BY <2>2, HalfRange
    <2> QED
      BY <1>1, <1>2, <2>1, <2>2, <2>3 DEF Delta, Value, Stale
  <1>3. CASE state # 0
    <2>1. state = Modulus + (latest % Modulus)
      BY <1>3 DEF IInv, StateShape
    <2>2. state % Modulus = latest % Modulus
      <3>1. latest % Modulus \in 0..Modulus-1
        BY <1>1, HalfRange
      <3> QED
        BY <2>1, <3>1, HalfRange
    <2>3. Delta(r, state) = ((v % Modulus) - (latest % Modulus)) % Modulus
      BY <1>3, <2>2 DEF Delta, Value
    <2>4. Modulus % 2 = 0 /\ Modulus \in Nat \ {0} /\ Half = Modulus \div 2
      BY TrackerAssumption DEF Half
    <2> DEFINE d == ((v % Modulus) - (latest % Modulus)) % Modulus
    <2>5. /\ d \in 0..Modulus-1
          /\ (d = 0 \/ d > Half) => v <= latest
          /\ d \in 1..Half => d = v - latest
      BY <1>1, <2>4, Distance
    <2> QED
      BY <1>3, <2>3, <2>5 DEF Stale
  <1> QED
    BY <1>2, <1>3

(* The receiver lets go of the counter in hand.                             *)
LEMMA NextDatagramIs ==
    ASSUME IInv, NEW r \in Receivers, observer[r].pc # "read"
    PROVE  /\ NextDatagram(r) \in ObserverType
           /\ NextDatagram(r).batch = Tail(observer[r].batch)
           /\ NextDatagram(r).delta = 0 /\ NextDatagram(r).seen = 0
           /\ NextDatagram(r).pc \in {"read", "load"}
           /\ NextDatagram(r).pc = "read" <=> Tail(observer[r].batch) = <<>>
  <1>1. NextDatagram(r) = [pc |-> IF Len(observer[r].batch) = 1 THEN "read" ELSE "load",
                           batch |-> Tail(observer[r].batch), seen |-> 0, delta |-> 0]
    <2> DEFINE p == IF Len(observer[r].batch) = 1 THEN "read" ELSE "load"
               s == Tail(observer[r].batch)
    <2>1. NextDatagram(r) = [IdleObserver EXCEPT !.pc = p, !.batch = s]
      BY DEF NextDatagram
    <2> HIDE DEF p, s
    <2>2. NextDatagram(r) = [pc |-> p, batch |-> s, seen |-> 0, delta |-> 0]
      BY <2>1 DEF IdleObserver
    <2> QED
      BY <2>2 DEF p, s
  <1>2. Tail(observer[r].batch) \in Seq(Counters)
    BY InHand
  <1>3. 0 \in Seen /\ 0 \in 0..Modulus-1
    BY HalfRange DEF Seen
  <1> QED
    BY <1>1, <1>2, <1>3, InHand DEF ObserverType

(* The invariant's other conjuncts when only r's observer and the tracker   *)
(* change.                                                                  *)
LEMMA ShapeOfOthers ==
    ASSUME IInv, NEW r \in Receivers, NEW o, observer' = [observer EXCEPT ![r] = o],
           latest' \in Nat, latest' >= latest
    PROVE  \A q \in Receivers \ {r} : ObserverShape(q)'
  <1> SUFFICES ASSUME NEW q \in Receivers \ {r} PROVE ObserverShape(q)'
    OBVIOUS
  <1>1. observer'[q] = observer[q]
    BY DEF IInv, TypeOK
  <1>2. ObserverShape(q)
    BY DEF IInv
  <1>3. latest \in Nat /\ observer[q] \in ObserverType
    BY PendingTypes DEF IInv
  <1>4. observer[q].pc = "add" => Head(observer[q].batch) \in Nat
    <2>1. observer[q].pc = "add" => observer[q].pc # "read"
      OBVIOUS
    <2>2. \A n \in 0..MaxDrops : n \in Nat
      OBVIOUS
    <2> QED
      BY <1>2, <2>1, <2>2, InHand DEF ObserverShape
  <1>5. observer'[q].pc = "add" => Head(observer'[q].batch) <= latest'
    BY <1>1, <1>2, <1>3, <1>4 DEF ObserverShape
  <1> QED
    BY <1>1, <1>2, <1>5 DEF ObserverShape, Delta, Value

Deltas == [r \in Receivers |-> observer[r].delta]

(* The drops on their way to the total, after a step of r.                  *)
LEMMA DeltasAfter ==
    ASSUME TypeOK, NEW r \in Receivers, NEW o \in ObserverType,
           observer' = [observer EXCEPT ![r] = o]
    PROVE  /\ observer' \in [Receivers -> ObserverType]
           /\ SumOver(Deltas, Receivers) \in Int
           /\ SumOver(Deltas, Receivers)' =
                SumOver(Deltas, Receivers) - observer[r].delta + o.delta
  <1>1. observer \in [Receivers -> ObserverType] /\ IsFiniteSet(Receivers)
    BY TrackerAssumption DEF TypeOK, ObserverType, Seen, Counters
  <1>2. observer' \in [Receivers -> ObserverType]
    BY <1>1
  <1>3. \A q \in Receivers : Deltas[q] \in Int /\ Deltas'[q] \in Int
    <2>1. \A d \in 0..Modulus-1 : d \in Int
      BY HalfRange
    <2> QED
      BY <1>1, <1>2, <2>1 DEF Deltas, ObserverType
  <1>4. /\ Deltas[r] = observer[r].delta /\ Deltas'[r] = o.delta
        /\ \A q \in Receivers \ {r} : Deltas'[q] = Deltas[q]
    BY <1>1 DEF Deltas
  <1>5. SumOver(Deltas', Receivers) = SumOver(Deltas, Receivers) - Deltas[r] + Deltas'[r]
    <2> DEFINE f == Deltas
               g == Deltas'
    <2>1. \A q \in Receivers : f[q] \in Int /\ g[q] \in Int
      BY <1>3
    <2>2. \A q \in Receivers \ {r} : g[q] = f[q]
      BY <1>4
    <2> HIDE DEF f, g
    <2>3. IsFiniteSet(Receivers)
      BY <1>1
    <2>4. SumOver(g, Receivers) = SumOver(f, Receivers) - f[r] + g[r]
      BY ONLY r \in Receivers, <2>1, <2>2, <2>3, SumUpdate
    <2> QED
      BY <2>4 DEF f, g
  <1>6. SumOver(Deltas, Receivers) \in Int
    BY <1>1, <1>3, SumType
  <1> QED
    BY <1>2, <1>4, <1>5, <1>6

-----------------------------------------------------------------------------
(* The steps                                                                *)

LEMMA ReadBatchKeeps ==
    ASSUME IInv, NEW r \in Receivers, ReadBatch(r)
    PROVE  IInv' /\ latest' = latest
  <1>0. PICK n \in 1..UdpBatchSize : \E s \in [1..n -> {Unobserved} \cup reported..MaxDrops] :
          /\ reported' \in {reported} \cup {s[i] : i \in 1..n}
          /\ reported' >= reported /\ \A i \in 1..n : s[i] <= reported'
          /\ \A old \in InPlay : reported' - old < Half
          /\ observer' = [observer EXCEPT ![r] = [@ EXCEPT !.pc = "load", !.batch = s]]
    BY DEF ReadBatch, InPlay
  <1>1. PICK s \in [1..n -> {Unobserved} \cup reported..MaxDrops] :
          /\ reported' \in {reported} \cup {s[i] : i \in 1..n}
          /\ reported' >= reported /\ \A i \in 1..n : s[i] <= reported'
          /\ \A old \in InPlay : reported' - old < Half
          /\ observer' = [observer EXCEPT ![r] = [@ EXCEPT !.pc = "load", !.batch = s]]
    BY <1>0
  <1>2. /\ observer[r].pc = "read" /\ state' = state /\ latest' = latest /\ total' = total
    BY DEF ReadBatch
  <1>3. /\ \A q \in Receivers : observer[q] \in ObserverType
        /\ reported \in 0..MaxDrops /\ reported \in Nat /\ latest \in Nat /\ MaxDrops \in Nat
        /\ Pending \subseteq 0..MaxDrops
    BY PendingTypes DEF IInv, TypeOK
  <1> DEFINE o == [observer[r] EXCEPT !.pc = "load", !.batch = s]
  <1>4. n \in Nat \ {0} /\ s \in [1..n -> Counters]
    <2>1. n \in Nat \ {0}
      BY TrackerAssumption
    <2>2. \A v \in reported..MaxDrops : v \in Counters
      BY <1>3 DEF Counters
    <2> QED
      BY <2>1, <2>2 DEF Counters
  <1>5. /\ \A i \in 1..n : s[i] # Unobserved => s[i] \in Nat /\ reported <= s[i]
        /\ reported' \in 0..MaxDrops /\ reported' \in Nat
    <2>1. ASSUME NEW i \in 1..n, s[i] # Unobserved
          PROVE  s[i] \in 0..MaxDrops /\ s[i] \in Nat /\ reported <= s[i]
      <3>1. s[i] \in reported..MaxDrops
        BY <1>1, <2>1
      <3> QED
        BY <1>3, <3>1
    <2>2. reported' = reported \/ \E i \in 1..n : reported' = s[i] /\ s[i] # Unobserved
      BY <1>1, <1>3 DEF Unobserved
    <2> QED
      BY <1>3, <2>1, <2>2
  <1>6. s \in Seq(Counters) /\ s # <<>>
    <2>1. s \in Seq(Counters)
      <3>1. n \in Nat
        BY <1>4
      <3> QED
        BY ONLY <1>4, <3>1, SeqDef
    <2>2. DOMAIN s = 1..n /\ 1 \in 1..n
      BY <1>4
    <2> QED
      BY <2>1, <2>2
  <1>7. /\ o \in ObserverType /\ o.pc = "load" /\ o.batch = s /\ o.delta = observer[r].delta
    BY <1>3, <1>6 DEF ObserverType
  <1>8. observer' = [observer EXCEPT ![r] = o]
    BY <1>1
  <1> HIDE DEF o
  <1>9. observer[r].batch = <<>> /\ observer[r].delta = 0
    BY <1>2 DEF IInv, ObserverShape
  <1>10. /\ Pending = Others(r) /\ Pending' = Others(r) \cup Elements(s)
         /\ observer'[r] = o
    <2>1. Elements(<<>>) = {}
      BY DEF Elements
    <2> QED
      <3>1. Pending = Others(r) \cup Elements(observer[r].batch)
        BY PendingOf
      <3>2. Pending' = Others(r) \cup Elements(o.batch) /\ observer'[r] = o
        BY <1>8, PendingAfter DEF IInv
      <3> QED
        BY <1>7, <1>9, <2>1, <3>1, <3>2
  <1>11. InPlay' = InPlay \cup Elements(s) /\ reported' \in InPlay'
    <2>1. InPlay' = InPlay \cup Elements(s)
      BY <1>2, <1>10 DEF InPlay
    <2>2. reported \in InPlay
      BY DEF IInv, NewestInPlay
    <2>3. \A i \in 1..n : s[i] # Unobserved => s[i] \in Elements(s)
      BY <1>4 DEF Elements
    <2>4. reported' # Unobserved
      BY <1>5 DEF Unobserved
    <2> QED
      BY <1>1, <2>1, <2>2, <2>3, <2>4
  <1>12. \A v \in Elements(s) : v \in Nat /\ reported <= v /\ v <= reported'
    BY <1>1, <1>4, <1>5 DEF Elements
  <1>13. \A v \in InPlay : v \in Nat /\ v <= reported
    BY <1>3 DEF InPlay, IInv, NewestInPlay
  <1>14. NewestInPlay'
    <2>1. \A v \in InPlay' : v <= reported'
      BY <1>1, <1>3, <1>5, <1>11, <1>12, <1>13
    <2> QED
      BY <1>11, <2>1 DEF NewestInPlay
  <1>15. InWindow'
    <2>0. PICK newest \in Nat : newest = reported'
      BY <1>5
    <2>1. \A v \in InPlay : newest - v < Half
      BY <1>1, <2>0
    <2>2. \A v \in InPlay : \A w \in InPlay : v - w < Half
      BY DEF IInv, InWindow
    <2>3. latest \in InPlay
      BY DEF InPlay
    <2> SUFFICES ASSUME NEW v \in InPlay', NEW w \in InPlay'
                 PROVE  v - w < Half
      BY DEF InWindow
    <2>4. Half \in Nat /\ Half > 0
      BY HalfRange
    <2>5. CASE v \in InPlay /\ w \in InPlay
      BY <2>2, <2>5
    <2>6. CASE v \in Elements(s) /\ w \in InPlay
      <3>1. newest - w < Half /\ v <= newest /\ v \in Nat /\ w \in Nat
        BY <1>12, <1>13, <2>0, <2>1, <2>6
      <3> QED
        BY <2>4, <3>1
    <2>7. CASE v \in InPlay /\ w \in Elements(s)
      <3>1. v <= reported /\ reported <= w /\ v \in Nat /\ w \in Nat
        BY <1>12, <1>13, <2>7
      <3> QED
        BY <1>3, <2>4, <3>1
    <2>8. CASE v \in Elements(s) /\ w \in Elements(s)
      <3>1. v <= newest /\ reported <= w /\ v \in Nat /\ w \in Nat /\ latest <= reported
        BY <1>12, <1>13, <2>0, <2>3, <2>8
      <3>2. newest - latest < Half
        BY <2>1, <2>3
      <3> QED
        BY <1>3, <2>4, <3>1, <3>2
    <2> QED
      BY <1>11, <2>5, <2>6, <2>7, <2>8
  <1>16. \A q \in Receivers : ObserverShape(q)'
    <2>1. \A q \in Receivers \ {r} : ObserverShape(q)'
      <3>1. latest' \in Nat /\ latest' >= latest
        BY <1>2, <1>3
      <3> QED
        BY <1>8, <3>1, ShapeOfOthers
    <2>2. ObserverShape(r)'
      BY <1>6, <1>7, <1>9, <1>10 DEF ObserverShape
    <2> QED
      BY <2>1, <2>2
  <1>17. TypeOK' /\ DropsCountedOnce'
    <2>1. observer' \in [Receivers -> ObserverType]
          /\ SumOver(Deltas, Receivers) \in Int
          /\ SumOver(Deltas, Receivers)' =
               SumOver(Deltas, Receivers) - observer[r].delta + o.delta
      BY <1>7, <1>8, DeltasAfter DEF IInv
    <2>2. SumOver(Deltas, Receivers)' = SumOver(Deltas, Receivers)
      BY <1>7, <1>9, <2>1
    <2>3. TypeOK'
      BY <1>1, <1>2, <1>5, <2>1 DEF IInv, TypeOK, ObserverType, Seen, Counters
    <2> QED
      BY <1>2, <2>2, <2>3 DEF IInv, DropsCountedOnce, Deltas
  <1>18. StateShape'
    BY <1>2 DEF IInv, StateShape
  <1> QED
    BY <1>2, <1>14, <1>15, <1>16, <1>17, <1>18 DEF IInv

(* The tracker has reached the counter that r lets go of, if there is one.  *)
LEMMA LettingGoKeeps ==
    ASSUME IInv, NEW r \in Receivers, observer[r].pc # "read",
           Head(observer[r].batch) # Unobserved => Head(observer[r].batch) <= latest,
           observer' = [observer EXCEPT ![r] = NextDatagram(r)],
           UNCHANGED <<reported, state, latest>>
    PROVE  /\ InWindow' /\ NewestInPlay' /\ StateShape'
           /\ \A q \in Receivers : ObserverShape(q)'
  <1> DEFINE v == Head(observer[r].batch)
             o == NextDatagram(r)
  <1>1. /\ o \in ObserverType /\ o.batch = Tail(observer[r].batch) /\ o.delta = 0
        /\ o.pc \in {"read", "load"}
        /\ o.pc = "read" <=> o.batch = <<>>
    BY NextDatagramIs
  <1>2. /\ reported \in Nat /\ latest \in Nat
        /\ v # Unobserved => v \in Nat /\ v <= reported /\ v <= latest
    BY PendingTypes, InHand DEF IInv
  <1> HIDE DEF o
  <1>3. Pending' = Others(r) \cup Elements(o.batch) /\ observer'[r] = o
    BY PendingAfter DEF IInv, o
  <1>4. Pending = Others(r) \cup Elements(o.batch) \cup ({v} \ {Unobserved})
    BY <1>1, PendingOf, InHand
  <1>5. /\ InPlay' \subseteq InPlay /\ latest \in InPlay'
        /\ InPlay \subseteq InPlay' \cup ({v} \ {Unobserved})
    BY <1>3, <1>4 DEF InPlay
  <1>6. NewestInPlay'
    <2>1. reported \in InPlay /\ \A a \in InPlay : a <= reported
      BY DEF IInv, NewestInPlay
    <2>2. reported \in InPlay'
      <3>1. CASE reported = v /\ v # Unobserved
        <4>1. reported = latest
          BY <1>2, <1>5, <2>1, <3>1
        <4> QED
          BY <1>5, <4>1
      <3> QED
        BY <1>5, <2>1, <3>1
    <2> QED
      BY <1>5, <2>1, <2>2 DEF NewestInPlay
  <1>7. InWindow'
    BY <1>5 DEF IInv, InWindow
  <1>8. \A q \in Receivers : ObserverShape(q)'
    <2>1. \A q \in Receivers \ {r} : ObserverShape(q)'
      <3>1. latest' \in Nat /\ latest' >= latest
        BY <1>2
      <3> QED
        BY <3>1, ShapeOfOthers
    <2>2. ObserverShape(r)'
      BY <1>1, <1>3 DEF ObserverShape
    <2> QED
      BY <2>1, <2>2
  <1>9. StateShape'
    BY DEF IInv, StateShape
  <1> QED
    BY <1>6, <1>7, <1>8, <1>9

(* The receiver's record changes, but not its batch, nor the tracker.       *)
LEMMA SameBatchKeeps ==
    ASSUME IInv, NEW r \in Receivers, NEW o \in ObserverType,
           observer' = [observer EXCEPT ![r] = o], o.batch = observer[r].batch,
           UNCHANGED <<reported, latest>>
    PROVE  /\ InWindow' /\ NewestInPlay'
           /\ \A q \in Receivers \ {r} : ObserverShape(q)'
  <1>1. latest' \in Nat /\ latest' >= latest
    BY PendingTypes DEF IInv
  <1>2. InPlay' = InPlay
    <2>1. Pending = Others(r) \cup Elements(observer[r].batch)
      BY PendingOf
    <2>2. Pending' = Others(r) \cup Elements(o.batch)
      BY PendingAfter DEF IInv
    <2> QED
      BY <2>1, <2>2 DEF InPlay
  <1>3. InWindow' /\ NewestInPlay'
    BY <1>2 DEF IInv, InWindow, NewestInPlay
  <1> QED
    BY <1>1, <1>3, ShapeOfOthers

(* The atomic load.                                                         *)
LEMMA LoadStateKeeps ==
    ASSUME IInv, NEW r \in Receivers, LoadState(r)
    PROVE  IInv' /\ latest' = latest
  <1>1. /\ observer[r].pc = "load" /\ UNCHANGED <<reported, state, latest, total>>
        /\ observer[r] \in ObserverType /\ ObserverShape(r) /\ observer[r].delta = 0
        /\ Head(observer[r].batch) # Unobserved
    BY PendingTypes DEF LoadState, IInv, ObserverShape
  <1>2. PICK o \in ObserverType :
          /\ observer' = [observer EXCEPT ![r] = o] /\ o.delta = 0
          /\ InWindow' /\ NewestInPlay' /\ StateShape'
          /\ \A q \in Receivers : ObserverShape(q)'
    <2>1. StateShape'
      BY <1>1 DEF IInv, StateShape
    <2>2. CASE Stale(r) /\ observer' = [observer EXCEPT ![r] = NextDatagram(r)]
      <3>1. Head(observer[r].batch) <= latest
        BY <1>1, <2>2, DeltaOf
      <3>2. NextDatagram(r) \in ObserverType /\ NextDatagram(r).delta = 0
        BY <1>1, NextDatagramIs
      <3> QED
        BY <1>1, <2>1, <2>2, <3>1, <3>2, LettingGoKeeps
    <2>3. CASE ~Stale(r) /\ observer' = [observer EXCEPT
                                           ![r] = [@ EXCEPT !.pc = "swap", !.seen = state]]
      <3> DEFINE o == [observer[r] EXCEPT !.pc = "swap", !.seen = state]
      <3>1. /\ o \in ObserverType /\ o.pc = "swap" /\ o.seen = state
            /\ o.batch = observer[r].batch /\ o.delta = 0
        BY <1>1 DEF IInv, TypeOK, ObserverType, Seen, Counters
      <3>2. observer' = [observer EXCEPT ![r] = o]
        BY <2>3
      <3> HIDE DEF o
      <3>3. observer'[r] = o
        BY <3>2 DEF IInv, TypeOK
      <3>4. state = 0 \/ Delta(r, state) \in 1..Half
        <4>1. Delta(r, state) \in 0..Modulus-1
          BY <1>1, DeltaOf
        <4> QED
          BY <2>3, <4>1, HalfRange DEF Stale
      <3>5. Delta(r, state)' = Delta(r, state)
        BY <1>1, <3>1, <3>3 DEF Delta, Value
      <3>6. ObserverShape(r)'
        <4>1. state' = state /\ observer'[r].seen = state'
          BY <1>1, <3>1, <3>3
        <4>2. Delta(r, observer[r].seen)' = Delta(r, state)
          BY <1>1, <3>1, <3>3 DEF Delta, Value
        <4> QED
          BY <1>1, <3>1, <3>3, <3>4, <4>1, <4>2 DEF ObserverShape
      <3>7. /\ InWindow' /\ NewestInPlay'
            /\ \A q \in Receivers \ {r} : ObserverShape(q)'
        BY <1>1, <3>1, <3>2, SameBatchKeeps
      <3> QED
        BY <1>1, <2>1, <3>1, <3>2, <3>6, <3>7
    <2> QED
      BY <1>1, <2>2, <2>3 DEF LoadState
  <1>3. /\ observer' \in [Receivers -> ObserverType]
        /\ SumOver(Deltas, Receivers) \in Int
        /\ SumOver(Deltas, Receivers)' =
             SumOver(Deltas, Receivers) - observer[r].delta + o.delta
    BY <1>2, DeltasAfter DEF IInv
  <1>4. SumOver(Deltas, Receivers)' = SumOver(Deltas, Receivers)
    BY <1>1, <1>2, <1>3
  <1>5. TypeOK'
    BY <1>1, <1>3 DEF IInv, TypeOK, ObserverType, Seen, Counters
  <1> QED
    BY <1>1, <1>2, <1>4, <1>5 DEF IInv, DropsCountedOnce, Deltas

(* A datagram that is not observed leaves the tracker alone.                *)
LEMMA SkipDatagramKeeps ==
    ASSUME IInv, NEW r \in Receivers, SkipDatagram(r)
    PROVE  IInv' /\ latest' = latest
  <1>1. /\ observer[r].pc = "load" /\ UNCHANGED <<reported, state, latest, total>>
        /\ observer' = [observer EXCEPT ![r] = NextDatagram(r)]
        /\ observer[r].delta = 0 /\ Head(observer[r].batch) = Unobserved
    BY DEF SkipDatagram, IInv, ObserverShape
  <1>2. /\ InWindow' /\ NewestInPlay' /\ StateShape'
        /\ \A q \in Receivers : ObserverShape(q)'
    BY <1>1, LettingGoKeeps
  <1>3. NextDatagram(r) \in ObserverType /\ NextDatagram(r).delta = 0
    BY <1>1, NextDatagramIs
  <1>4. /\ observer' \in [Receivers -> ObserverType]
        /\ SumOver(Deltas, Receivers) \in Int
        /\ SumOver(Deltas, Receivers)' = SumOver(Deltas, Receivers) - 0 + 0
    BY <1>1, <1>3, DeltasAfter DEF IInv
  <1>5. SumOver(Deltas, Receivers)' = SumOver(Deltas, Receivers)
    BY <1>4
  <1>6. TypeOK'
    BY <1>1, <1>4 DEF IInv, TypeOK, ObserverType, Seen, Counters
  <1>7. DropsCountedOnce'
    BY <1>1, <1>5 DEF IInv, DropsCountedOnce, Deltas
  <1> QED
    BY <1>1, <1>2, <1>6, <1>7 DEF IInv

(* The addition of the difference after a successful swap.                  *)
LEMMA AddDropsKeeps ==
    ASSUME IInv, NEW r \in Receivers, AddDrops(r)
    PROVE  IInv' /\ latest' = latest
  <1>1. /\ observer[r].pc = "add" /\ UNCHANGED <<reported, state, latest>>
        /\ total' = total + observer[r].delta
        /\ observer' = [observer EXCEPT ![r] = NextDatagram(r)]
        /\ observer[r] \in ObserverType /\ Head(observer[r].batch) <= latest
    BY PendingTypes DEF AddDrops, IInv, ObserverShape
  <1>2. /\ InWindow' /\ NewestInPlay' /\ StateShape'
        /\ \A q \in Receivers : ObserverShape(q)'
    BY <1>1, LettingGoKeeps
  <1>3. NextDatagram(r) \in ObserverType /\ NextDatagram(r).delta = 0
    BY <1>1, NextDatagramIs
  <1>4. /\ observer' \in [Receivers -> ObserverType]
        /\ SumOver(Deltas, Receivers) \in Int
        /\ SumOver(Deltas, Receivers)' = SumOver(Deltas, Receivers) - observer[r].delta + 0
    BY <1>1, <1>3, DeltasAfter DEF IInv
  <1>5. observer[r].delta \in Nat /\ total \in Nat
    BY <1>1, HalfRange, PendingTypes DEF ObserverType, IInv
  <1>6. TypeOK'
    BY <1>1, <1>4, <1>5 DEF IInv, TypeOK, ObserverType, Seen, Counters
  <1>7. total' + SumOver(Deltas, Receivers)' = total + SumOver(Deltas, Receivers)
    BY <1>1, <1>4, <1>5
  <1>8. DropsCountedOnce'
    BY <1>1, <1>7 DEF IInv, DropsCountedOnce, Deltas
  <1> QED
    BY <1>1, <1>2, <1>6, <1>8 DEF IInv

(* A swap that succeeds moves the tracker forward, by exactly the drops it  *)
(* answers for; that the state is the one the receiver has seen is enough,  *)
(* even if it was another in between.                                       *)
LEMMA SwapSucceedsKeeps ==
    ASSUME IInv, NEW r \in Receivers, observer[r].pc = "swap", state = observer[r].seen,
           state' = Modulus + Value(r), latest' = Head(observer[r].batch),
           observer' = [observer EXCEPT ![r] = [@ EXCEPT !.pc = "add",
                                                         !.delta = Delta(r, observer[r].seen)]],
           UNCHANGED <<reported, total>>
    PROVE  IInv' /\ latest' >= latest
  <1> DEFINE v == Head(observer[r].batch)
             d == Delta(r, state)
             o == [observer[r] EXCEPT !.pc = "add", !.delta = d]
  <1>1. /\ observer[r] \in ObserverType /\ ObserverShape(r) /\ observer[r].delta = 0
        /\ reported \in Nat /\ latest \in Nat /\ total \in Nat
    BY PendingTypes DEF IInv, ObserverShape
  <1>2. /\ v # Unobserved /\ v \in 0..MaxDrops /\ v \in Nat
        /\ v \in InPlay /\ v <= reported
    <2>1. v # Unobserved /\ v \in 0..MaxDrops /\ v \in InPlay /\ v <= reported
      BY <1>1, InHand DEF ObserverShape
    <2> QED
      BY <2>1
  <1>3. d \in 0..Modulus-1 /\ d = v - latest
    <2>1. state = 0 \/ d \in 1..Half
      BY <1>1 DEF ObserverShape
    <2> QED
      BY <1>2, <2>1, DeltaOf
  <1>4. latest' = v /\ v >= latest
    BY <1>1, <1>2, <1>3, HalfRange
  <1>5. observer' = [observer EXCEPT ![r] = o]
    OBVIOUS
  <1>6. /\ o \in ObserverType /\ o.pc = "add" /\ o.batch = observer[r].batch /\ o.delta = d
    BY <1>1, <1>3 DEF ObserverType
  <1>7. Value(r) = v % Modulus
    BY DEF Value
  <1> HIDE DEF o, d, v
  <1>8. observer'[r] = o /\ Pending' = Pending
    <2>1. Pending = Others(r) \cup Elements(observer[r].batch)
      BY PendingOf
    <2>2. Pending' = Others(r) \cup Elements(o.batch) /\ observer'[r] = o
      BY <1>5, PendingAfter DEF IInv
    <2> QED
      BY <1>6, <2>1, <2>2
  <1>9. v \in Pending
    <2>1. v \in Elements(observer[r].batch)
      BY <1>2, InHand DEF v
    <2> QED
      BY <2>1, PendingOf
  <1>10. InPlay' \subseteq InPlay /\ v \in InPlay' /\ InPlay \subseteq InPlay' \cup {latest}
    BY <1>4, <1>8, <1>9 DEF InPlay
  <1>11. NewestInPlay'
    <2>1. reported \in InPlay /\ \A a \in InPlay : a <= reported
      BY DEF IInv, NewestInPlay
    <2>2. reported \in InPlay'
      <3>1. CASE reported = latest
        <4>1. reported = v
          BY <1>1, <1>2, <1>4, <3>1
        <4> QED
          BY <1>10, <4>1
      <3> QED
        BY <1>10, <2>1, <3>1
    <2> QED
      BY <1>10, <2>1, <2>2 DEF NewestInPlay
  <1>12. InWindow'
    BY <1>10 DEF IInv, InWindow
  <1>13. \A q \in Receivers : ObserverShape(q)'
    <2>1. \A q \in Receivers \ {r} : ObserverShape(q)'
      <3>1. latest' \in Nat /\ latest' >= latest
        BY <1>2, <1>4
      <3> QED
        BY <1>5, <3>1, ShapeOfOthers
    <2>2. Head(observer'[r].batch) <= latest'
      BY <1>2, <1>4, <1>6, <1>8 DEF v
    <2>3. /\ observer'[r].batch # <<>> /\ observer'[r].pc = "add"
          /\ Head(observer'[r].batch) # Unobserved
      BY <1>1, <1>2, <1>6, <1>8 DEF ObserverShape, v
    <2>4. ObserverShape(r)'
      BY <2>2, <2>3 DEF ObserverShape
    <2> QED
      BY <2>1, <2>4
  <1>14. v % Modulus \in 0..Modulus-1
    BY <1>2, HalfRange
  <1>15. StateShape'
    BY <1>4, <1>7 DEF StateShape
  <1>16. /\ observer' \in [Receivers -> ObserverType]
         /\ SumOver(Deltas, Receivers) \in Int
         /\ SumOver(Deltas, Receivers)' = SumOver(Deltas, Receivers) - 0 + d
    BY <1>1, <1>5, <1>6, DeltasAfter DEF IInv
  <1>17. TypeOK'
    <2>1. state' \in Modulus..2*Modulus-1
      BY <1>7, <1>14, HalfRange
    <2> QED
      BY <1>2, <1>4, <1>16, <2>1 DEF IInv, TypeOK, ObserverType, Seen, Counters
  <1>18. DropsCountedOnce'
    <2>1. total + SumOver(Deltas, Receivers) = latest
      BY DEF IInv, DropsCountedOnce, Deltas
    <2>2. total' + SumOver(Deltas, Receivers)' = latest'
      BY <1>1, <1>2, <1>3, <1>4, <1>16, <2>1
    <2> QED
      BY <2>2 DEF DropsCountedOnce, Deltas
  <1> QED
    BY <1>4, <1>11, <1>12, <1>13, <1>15, <1>17, <1>18 DEF IInv

(* The compare-and-swap: the newest counter wins, an older one changes      *)
(* nothing.                                                                 *)
LEMMA SwapKeeps ==
    ASSUME IInv, NEW r \in Receivers, Swap(r)
    PROVE  IInv' /\ latest' >= latest
  <1>1. /\ observer[r].pc = "swap" /\ UNCHANGED <<reported, total>>
        /\ observer[r] \in ObserverType /\ ObserverShape(r) /\ observer[r].delta = 0
        /\ latest \in Nat
    BY PendingTypes DEF Swap, IInv, ObserverShape
  <1>2. CASE state = observer[r].seen
    BY <1>1, <1>2, SwapSucceedsKeeps DEF Swap
  <1>3. CASE state # observer[r].seen
    <2> DEFINE o == [observer[r] EXCEPT !.pc = "load", !.seen = 0]
    <2>1. /\ observer' = [observer EXCEPT ![r] = o] /\ UNCHANGED <<state, latest>>
      BY <1>3 DEF Swap
    <2>2. o \in ObserverType /\ o.pc = "load" /\ o.batch = observer[r].batch /\ o.delta = 0
      BY <1>1 DEF ObserverType, Seen
    <2> HIDE DEF o
    <2>3. /\ InWindow' /\ NewestInPlay'
          /\ \A q \in Receivers \ {r} : ObserverShape(q)'
      BY <1>1, <2>1, <2>2, SameBatchKeeps
    <2>4. observer'[r] = o
      BY <2>1 DEF IInv, TypeOK
    <2>5. ObserverShape(r)'
      BY <1>1, <2>2, <2>4 DEF ObserverShape
    <2>6. /\ observer' \in [Receivers -> ObserverType]
          /\ SumOver(Deltas, Receivers) \in Int
          /\ SumOver(Deltas, Receivers)' = SumOver(Deltas, Receivers) - 0 + 0
      BY <1>1, <2>1, <2>2, DeltasAfter DEF IInv
    <2>7. SumOver(Deltas, Receivers)' = SumOver(Deltas, Receivers)
      BY <2>6
    <2>8. TypeOK'
      BY <1>1, <2>1, <2>6 DEF IInv, TypeOK, ObserverType, Seen, Counters
    <2>9. DropsCountedOnce' /\ StateShape'
      BY <1>1, <2>1, <2>7 DEF IInv, DropsCountedOnce, Deltas, StateShape
    <2> QED
      BY <1>1, <2>1, <2>3, <2>5, <2>8, <2>9 DEF IInv
  <1> QED
    BY <1>2, <1>3

(* The tracker starts unseen, with nothing read.                            *)
LEMMA InitIInv == Init => IInv
  <1> SUFFICES ASSUME Init PROVE IInv
    OBVIOUS
  <1>1. /\ \A r \in Receivers : observer[r] = IdleObserver
        /\ observer \in [Receivers -> ObserverType]
        /\ reported = 0 /\ latest = 0 /\ total = 0 /\ state = 0
    BY HalfRange, EmptySeq DEF Init, IdleObserver, ObserverType, Seen
  <1>2. TypeOK
    BY <1>1, TrackerAssumption DEF TypeOK, ObserverType, Seen, Counters
  <1>3. InPlay = {0}
    BY <1>1 DEF InPlay, Pending, IdleObserver
  <1>4. InWindow /\ NewestInPlay
    BY <1>1, <1>3, HalfRange DEF InWindow, NewestInPlay
  <1>5. \A r \in Receivers : ObserverShape(r)
    BY <1>1 DEF ObserverShape, IdleObserver
  <1>6. SumOver(Deltas, Receivers) = 0
    <2>1. \A r \in Receivers : Deltas[r] = 0
      BY <1>1 DEF Deltas, IdleObserver
    <2>2. IsFiniteSet(Receivers)
      BY TrackerAssumption
    <2> QED
      BY <2>1, <2>2, SumZero
  <1> QED
    BY <1>1, <1>2, <1>4, <1>5, <1>6 DEF IInv, StateShape, DropsCountedOnce, Deltas

(* A stutter keeps it.                                                      *)
LEMMA StutterKeeps == IInv /\ UNCHANGED vars => IInv'
  <1> SUFFICES ASSUME IInv, UNCHANGED vars PROVE IInv'
    OBVIOUS
  <1>1. UNCHANGED <<reported, state, observer, latest, total>>
    BY DEF vars
  <1>2. TypeOK' /\ StateShape' /\ DropsCountedOnce'
    BY <1>1 DEF IInv, TypeOK, StateShape, DropsCountedOnce
  <1>3. \A r \in Receivers : ObserverShape(r)'
    BY <1>1 DEF IInv, ObserverShape, Delta, Value
  <1>4. InPlay' = InPlay
    BY <1>1 DEF InPlay, Pending
  <1> QED
    BY <1>1, <1>2, <1>3, <1>4 DEF IInv, InWindow, NewestInPlay

(* Every step keeps the invariant, and none takes the tracker back.         *)
LEMMA NextIInv == IInv /\ [Next]_vars => IInv' /\ latest' >= latest
  <1> SUFFICES ASSUME IInv, [Next]_vars PROVE IInv' /\ latest' >= latest
    OBVIOUS
  <1>1. latest \in Nat
    BY PendingTypes DEF IInv
  <1>2. ASSUME NEW r \in Receivers, ReadBatch(r) PROVE IInv' /\ latest' >= latest
    BY <1>1, <1>2, ReadBatchKeeps
  <1>3. ASSUME NEW r \in Receivers, LoadState(r) PROVE IInv' /\ latest' >= latest
    BY <1>1, <1>3, LoadStateKeeps
  <1>4. ASSUME NEW r \in Receivers, Swap(r) PROVE IInv' /\ latest' >= latest
    BY <1>4, SwapKeeps
  <1>5. ASSUME NEW r \in Receivers, AddDrops(r) PROVE IInv' /\ latest' >= latest
    BY <1>1, <1>5, AddDropsKeeps
  <1>6. ASSUME NEW r \in Receivers, SkipDatagram(r) PROVE IInv' /\ latest' >= latest
    BY <1>1, <1>6, SkipDatagramKeeps
  <1>7. CASE UNCHANGED vars
    BY <1>1, <1>7, StutterKeeps DEF vars
  <1> QED
    BY <1>2, <1>3, <1>4, <1>5, <1>6, <1>7 DEF Next

-----------------------------------------------------------------------------

(* The inductive invariant holds for any number of receivers of one socket, *)
(* any size of their read batches and any width of the kernel's counter.    *)
THEOREM Invariance == Spec => []IInv
  <1>1. Init => IInv
    BY InitIInv
  <1>2. IInv /\ [Next]_vars => IInv'
    BY NextIInv
  <1> QED
    BY <1>1, <1>2, PTL DEF Spec

(* dropTracker.state is zero or its marker bit with a 32-bit counter.       *)
THEOREM TypeCorrect == Spec => []TypeOK
  <1>1. IInv => TypeOK
    BY DEF IInv
  <1> QED
    BY <1>1, Invariance, PTL

(* ObserveSocketDrops answers for each drop once, in whatever order the     *)
(* receivers see the counters and however their swaps interleave.           *)
THEOREM EachDropOnce == Spec => []DropsCountedOnce
  <1>1. IInv => DropsCountedOnce
    BY DEF IInv
  <1> QED
    BY <1>1, Invariance, PTL

(* A successful swap never takes the tracker back to an older counter.      *)
THEOREM NeverBack == Spec => TrackerNeverGoesBack
  <1>1. IInv /\ [Next]_vars => [latest' >= latest]_vars
    BY NextIInv
  <1> QED
    BY <1>1, Invariance, PTL DEF Spec, TrackerNeverGoesBack

(* When every receiver is back in recvmmsg, totalUDPKernelDrops is the      *)
(* newest counter that a datagram with data has brought to any of them; a   *)
(* counter that only an empty datagram carried is not in it.                *)
THEOREM AtRest == Spec => []NothingMissedAtRest
  <1>1. IInv => NothingMissedAtRest
    <2> SUFFICES ASSUME IInv, \A r \in Receivers : observer[r].pc = "read"
                 PROVE  total = reported
      BY DEF NothingMissedAtRest
    <2>1. \A r \in Receivers : observer[r].batch = <<>> /\ observer[r].delta = 0
      BY DEF IInv, ObserverShape
    <2>2. reported = latest
      <3>1. InPlay = {latest}
        BY <2>1 DEF InPlay, Pending
      <3> QED
        BY <3>1 DEF IInv, NewestInPlay
    <2>3. SumOver(Deltas, Receivers) = 0
      <3>1. \A r \in Receivers : Deltas[r] = 0
        BY <2>1 DEF Deltas
      <3>2. IsFiniteSet(Receivers)
        BY TrackerAssumption
      <3> QED
        BY <3>1, <3>2, SumZero
    <2>4. total \in Nat
      BY PendingTypes DEF IInv
    <2> QED
      BY <2>2, <2>3, <2>4 DEF IInv, DropsCountedOnce, Deltas
  <1> QED
    BY <1>1, Invariance, PTL
=============================================================================
