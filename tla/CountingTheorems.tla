-------------------------- MODULE CountingTheorems --------------------------
(***************************************************************************)
(* What the proofs about counters and queues share: induction over a set   *)
(* of natural numbers or of subsets, the largest element of a set of       *)
(* positions, and what they need of SumOver: its value when an element is  *)
(* taken out or the function changes at one place, in whatever order       *)
(* MapThenSumSet chooses the elements.                                     *)
(***************************************************************************)
EXTENDS Sums, TLAPS, FiniteSetTheorems, WellFoundedInduction

(* Induction on the natural numbers, over a set of them.                    *)
LEMMA NatInduct ==
    ASSUME NEW P, 0 \in P, \A n \in Nat : n \in P => n + 1 \in P
    PROVE  Nat \subseteq P
  <1> SUFFICES ASSUME Nat \ P # {} PROVE FALSE
    OBVIOUS
  <1>1. PICK m \in Nat \ P : \A k \in Nat \ P : ~(<<k, m>> \in OpToRel(<, Nat))
    <2>1. IsWellFoundedOn(OpToRel(<, Nat), Nat)
      BY Zenon, NatLessThanWellFounded
    <2>2. (Nat \ P) \subseteq Nat
      OBVIOUS
    <2> QED
      BY Zenon, <2>1, <2>2, WFMin
  <1>2. m \in Nat /\ m \notin P
    BY ONLY m \in Nat \ P
  <1>3. m # 0 /\ m - 1 \in Nat /\ (m - 1) + 1 = m /\ m - 1 < m
    <2>1. m # 0
      BY ONLY 0 \in P, <1>2
    <2> QED
      BY ONLY <2>1, m \in Nat
  <1>4. m - 1 \in P
    <2>1. <<m - 1, m>> \in OpToRel(<, Nat)
      BY ONLY Zenon, <1>2, <1>3 DEF OpToRel
    <2> QED
      BY Zenon, <1>1, <1>3, <2>1
  <1> QED
    BY ONLY \A n \in Nat : n \in P => n + 1 \in P, <1>2, <1>3, <1>4

(* A set of positions of a sequence has a last one.                         *)
THEOREM LastPosition ==
    ASSUME NEW n \in Nat, NEW S \in SUBSET (1..n), S # {}
    PROVE  \E k \in S : \A j \in S : j <= k
  <1> DEFINE P == {m \in Nat : \A T \in SUBSET (1..m) :
                                  T # {} => \E k \in T : \A j \in T : j <= k}
  <1>1. 0 \in P
    <2>1. 1..0 = {}
      OBVIOUS
    <2> QED
      BY <2>1
  <1>2. \A m \in Nat : m \in P => m + 1 \in P
    <2> SUFFICES ASSUME NEW m \in Nat, m \in P, NEW T \in SUBSET (1..m+1), T # {}
                 PROVE  \E k \in T : \A j \in T : j <= k
      OBVIOUS
    <2>1. CASE m + 1 \in T
      BY <2>1
    <2>2. CASE m + 1 \notin T
      <3>1. T \in SUBSET (1..m)
        BY <2>2
      <3> QED
        BY <3>1
    <2> QED
      BY <2>1, <2>2
  <1>3. Nat \subseteq P
    <2> HIDE DEF P
    <2> QED
      BY <1>1, <1>2, NatInduct
  <1> QED
    BY <1>3

(* The recursive function that MapThenFoldSet builds, on the subsets of S.  *)
Chosen(s) == CHOOSE x \in s : TRUE

NextSum(f, h, s) == IF s = {} THEN 0 ELSE f[Chosen(s)] + h[s \ {Chosen(s)}]

IsSum(h, f, S) == h = [s \in SUBSET S |-> NextSum(f, h, s)]

(* A sum takes out one element of its set, chosen but fixed.                *)
LEMMA SumIsChosen ==
    ASSUME NEW f, NEW S
    PROVE  SumOver(f, S) = (CHOOSE h : IsSum(h, f, S))[S]
  BY DEF SumOver, MapThenSumSet, MapThenFoldSet, IsSum, NextSum, Chosen

(* The chosen element is in the set.                                        *)
LEMMA ChosenIn ==
    ASSUME NEW s, s # {}
    PROVE  Chosen(s) \in s
  BY DEF Chosen

(* The subsets of a finite set, by how many elements they have.             *)
LEMMA SubsetSmaller ==
    ASSUME NEW S, IsFiniteSet(S), NEW s \in SUBSET S
    PROVE  /\ IsFiniteSet(s) /\ Cardinality(s) \in Nat
           /\ Cardinality(s) = 0 <=> s = {}
           /\ \A x \in s : s \ {x} \in SUBSET S /\ Cardinality(s \ {x}) = Cardinality(s) - 1
  <1>1. IsFiniteSet(s)
    BY FS_Subset
  <1>2. Cardinality(s) \in Nat
    BY <1>1, FS_CardinalityType
  <1>3. Cardinality(s) = 0 <=> s = {}
    BY <1>1, FS_EmptySet
  <1>4. \A x \in s : s \ {x} \in SUBSET S /\ Cardinality(s \ {x}) = Cardinality(s) - 1
    BY <1>1, FS_RemoveElement
  <1> QED
    BY <1>1, <1>2, <1>3, <1>4

(* To show something of every subset of S, show it of one when it holds of  *)
(* all those with one element less.                                         *)
LEMMA SubsetInduct ==
    ASSUME NEW S, IsFiniteSet(S), NEW Q,
           ASSUME NEW s \in SUBSET S, \A x \in s : s \ {x} \in Q
           PROVE  s \in Q
    PROVE  SUBSET S \subseteq Q
  <1> DEFINE P == {n \in Nat : \A s \in SUBSET S : Cardinality(s) <= n => s \in Q}
  <1>1. 0 \in P
    <2> SUFFICES ASSUME NEW s \in SUBSET S, Cardinality(s) <= 0
                 PROVE  s \in Q
      BY DEF P
    <2>1. s = {}
      BY SubsetSmaller
    <2> QED
      BY <2>1
  <1>2. \A n \in Nat : n \in P => n + 1 \in P
    <2> SUFFICES ASSUME NEW n \in Nat, n \in P,
                        NEW s \in SUBSET S, Cardinality(s) <= n + 1
                 PROVE  s \in Q
      BY DEF P
    <2>1. \A x \in s : s \ {x} \in SUBSET S /\ Cardinality(s \ {x}) <= n
      BY SubsetSmaller
    <2>2. \A x \in s : s \ {x} \in Q
      BY <2>1 DEF P
    <2> QED
      BY <2>2
  <1>3. Nat \subseteq P
    <2> HIDE DEF P
    <2> QED
      BY <1>1, <1>2, NatInduct
  <1>4. \A s \in SUBSET S : Cardinality(s) \in Nat
    BY SubsetSmaller
  <1> QED
    BY <1>3, <1>4 DEF P

(* The recursion has a solution, which is an integer everywhere.            *)
LEMMA SumExists ==
    ASSUME NEW S, IsFiniteSet(S), NEW f, \A x \in S : f[x] \in Int
    PROVE  \E h \in [SUBSET S -> Int] : IsSum(h, f, S)
  <1> DEFINE UpTo(h, n) ==
               \A s \in SUBSET S : Cardinality(s) <= n => h[s] = NextSum(f, h, s)
             P == {n \in Nat : \E h \in [SUBSET S -> Int] : UpTo(h, n)}
  <1>1. 0 \in P
    <2> DEFINE h == [s \in SUBSET S |-> 0]
    <2>1. UpTo(h, 0)
      <3> SUFFICES ASSUME NEW s \in SUBSET S, Cardinality(s) <= 0
                   PROVE  h[s] = NextSum(f, h, s)
        OBVIOUS
      <3>1. s = {}
        BY SubsetSmaller
      <3> QED
        BY <3>1 DEF NextSum
    <2>2. h \in [SUBSET S -> Int]
      OBVIOUS
    <2>3. \E g \in [SUBSET S -> Int] : UpTo(g, 0)
      <3> HIDE DEF h, UpTo
      <3> QED
        BY <2>1, <2>2
    <2> QED
      BY <2>3
  <1>2. \A n \in Nat : n \in P => n + 1 \in P
    <2> SUFFICES ASSUME NEW n \in Nat, n \in P PROVE n + 1 \in P
      OBVIOUS
    <2>1. PICK h \in [SUBSET S -> Int] : UpTo(h, n)
      OBVIOUS
    <2> DEFINE g == [s \in SUBSET S |-> IF Cardinality(s) <= n THEN h[s] ELSE NextSum(f, h, s)]
    <2>2. \A s \in SUBSET S : NextSum(f, h, s) \in Int
      BY ChosenIn DEF NextSum
    <2>3. g \in [SUBSET S -> Int]
      BY <2>2
    <2>4. ASSUME NEW s \in SUBSET S, Cardinality(s) <= n + 1
          PROVE  g[s] = NextSum(f, g, s)
      <3>1. g[s] = NextSum(f, h, s)
        BY <2>1
      <3>2. CASE s = {}
        BY <3>1, <3>2 DEF NextSum
      <3>3. CASE s # {}
        <4>1. Chosen(s) \in s /\ s \ {Chosen(s)} \in SUBSET S
              /\ Cardinality(s \ {Chosen(s)}) <= n
          BY <2>4, <3>3, ChosenIn, SubsetSmaller
        <4>2. g[s \ {Chosen(s)}] = h[s \ {Chosen(s)}]
          BY <4>1
        <4> QED
          BY <3>1, <4>2 DEF NextSum
      <3> QED
        BY <3>2, <3>3
    <2>5. UpTo(g, n + 1)
      BY <2>4
    <2>6. \E k \in [SUBSET S -> Int] : UpTo(k, n + 1)
      <3> HIDE DEF g, UpTo
      <3> QED
        BY <2>3, <2>5
    <2> QED
      BY <2>6
  <1>3. Nat \subseteq P
    <2> HIDE DEF P
    <2> QED
      BY <1>1, <1>2, NatInduct
  <1>4. Cardinality(S) \in Nat
    BY FS_CardinalityType
  <1>5. PICK h \in [SUBSET S -> Int] : UpTo(h, Cardinality(S))
    BY <1>3, <1>4
  <1>6. \A s \in SUBSET S : h[s] = NextSum(f, h, s)
    BY <1>5, FS_Subset
  <1>7. h = [s \in SUBSET S |-> NextSum(f, h, s)]
    BY <1>6
  <1> QED
    BY <1>7 DEF IsSum

(* Two solutions agree on the subsets they share.                           *)
LEMMA SumUnique ==
    ASSUME NEW S, NEW T \in SUBSET S, IsFiniteSet(S), NEW f, NEW g, NEW h,
           IsSum(g, f, S), IsSum(h, f, T)
    PROVE  \A s \in SUBSET T : g[s] = h[s]
  <1> DEFINE Q == {s \in SUBSET T : g[s] = h[s]}
  <1>1. ASSUME NEW s \in SUBSET T, \A x \in s : s \ {x} \in Q
        PROVE  s \in Q
    <2>1. g[s] = NextSum(f, g, s) /\ h[s] = NextSum(f, h, s)
      BY DEF IsSum
    <2> QED
      BY <1>1, <2>1, ChosenIn DEF NextSum
  <1>2. IsFiniteSet(T)
    BY FS_Subset
  <1>3. SUBSET T \subseteq Q
    <2> HIDE DEF Q
    <2> QED
      BY <1>1, <1>2, SubsetInduct
  <1> QED
    BY <1>3

(* The defining equation, one step of the sum.                              *)
LEMMA SumUnfold ==
    ASSUME NEW S, IsFiniteSet(S), NEW f, \A x \in S : f[x] \in Int, NEW s \in SUBSET S
    PROVE  /\ SumOver(f, s) \in Int
           /\ s = {} => SumOver(f, s) = 0
           /\ s # {} => SumOver(f, s) = f[Chosen(s)] + SumOver(f, s \ {Chosen(s)})
  <1>1. PICK h \in [SUBSET S -> Int] : IsSum(h, f, S)
    BY SumExists
  <1>2. ASSUME NEW t \in SUBSET S
        PROVE  SumOver(f, t) = h[t]
    <2> DEFINE g == CHOOSE g : IsSum(g, f, t)
    <2>1. IsFiniteSet(t) /\ \A x \in t : f[x] \in Int
      BY FS_Subset
    <2>2. IsSum(g, f, t)
      <3>1. \E k : IsSum(k, f, t)
        BY <2>1, SumExists
      <3> QED
        BY ONLY <3>1
    <2>3. t \in SUBSET t
      OBVIOUS
    <2>4. h[t] = g[t]
      <3> HIDE DEF g
      <3> QED
        BY <1>1, <2>2, <2>3, SumUnique
    <2> QED
      BY <2>4, SumIsChosen
  <1>3. h[s] = NextSum(f, h, s)
    BY <1>1 DEF IsSum
  <1>4. CASE s = {}
    BY <1>2, <1>3, <1>4 DEF NextSum
  <1>5. CASE s # {}
    <2>1. s \ {Chosen(s)} \in SUBSET S
      OBVIOUS
    <2> QED
      BY <1>2, <1>3, <1>5, <2>1 DEF NextSum
  <1> QED
    BY <1>4, <1>5

(* A sum of integers is an integer.                                         *)
THEOREM SumType ==
    ASSUME NEW S, IsFiniteSet(S), NEW f, \A x \in S : f[x] \in Int
    PROVE  SumOver(f, S) \in Int
  <1>1. S \in SUBSET S
    OBVIOUS
  <1> QED
    BY <1>1, SumUnfold

(* Any element can be taken out first.                                      *)
THEOREM SumWithout ==
    ASSUME NEW S, IsFiniteSet(S), NEW f, \A x \in S : f[x] \in Int, NEW a \in S
    PROVE  SumOver(f, S) = f[a] + SumOver(f, S \ {a})
  <1> DEFINE Q == {s \in SUBSET S :
                     \A x \in s : SumOver(f, s) = f[x] + SumOver(f, s \ {x})}
  <1>1. ASSUME NEW s \in SUBSET S, \A x \in s : s \ {x} \in Q
        PROVE  s \in Q
    <2> SUFFICES ASSUME NEW x \in s
                 PROVE  SumOver(f, s) = f[x] + SumOver(f, s \ {x})
      OBVIOUS
    <2> DEFINE y == Chosen(s)
    <2>1. y \in s
      BY ChosenIn
    <2>2. SumOver(f, s) = f[y] + SumOver(f, s \ {y})
      BY <2>1, SumUnfold
    <2> HIDE DEF y
    <2>3. CASE x = y
      BY <2>2, <2>3
    <2>4. CASE x # y
      <3>1. SumOver(f, s \ {y}) = f[x] + SumOver(f, (s \ {y}) \ {x})
        BY <1>1, <2>1, <2>4
      <3>2. SumOver(f, s \ {x}) = f[y] + SumOver(f, (s \ {x}) \ {y})
        BY <1>1, <2>1, <2>4
      <3>3. SumOver(f, (s \ {y}) \ {x}) = SumOver(f, (s \ {x}) \ {y})
        <4>1. (s \ {y}) \ {x} = (s \ {x}) \ {y}
          OBVIOUS
        <4> QED
          BY <4>1
      <3>4. SumOver(f, (s \ {x}) \ {y}) \in Int
        <4>1. (s \ {x}) \ {y} \in SUBSET S
          OBVIOUS
        <4> QED
          BY <4>1, SumUnfold
      <3>5. f[x] \in Int /\ f[y] \in Int
        BY <2>1
      <3> QED
        BY ONLY <2>2, <3>1, <3>2, <3>3, <3>4, <3>5
    <2> QED
      BY <2>3, <2>4
  <1>2. SUBSET S \subseteq Q
    <2> HIDE DEF Q
    <2> QED
      BY <1>1, SubsetInduct
  <1> QED
    BY <1>2

(* Only the values on the set count.                                        *)
THEOREM SumAgree ==
    ASSUME NEW S, IsFiniteSet(S), NEW f, NEW g,
           \A x \in S : f[x] \in Int /\ g[x] = f[x]
    PROVE  SumOver(g, S) = SumOver(f, S)
  <1> DEFINE Q == {s \in SUBSET S : SumOver(g, s) = SumOver(f, s)}
  <1>1. ASSUME NEW s \in SUBSET S, \A x \in s : s \ {x} \in Q
        PROVE  s \in Q
    <2>1. CASE s = {}
      BY <2>1, SumUnfold
    <2>2. CASE s # {}
      <3>1. Chosen(s) \in s
        BY <2>2, ChosenIn
      <3>2. SumOver(f, s) = f[Chosen(s)] + SumOver(f, s \ {Chosen(s)})
        BY <2>2, SumUnfold
      <3>3. SumOver(g, s) = g[Chosen(s)] + SumOver(g, s \ {Chosen(s)})
        BY <2>2, SumUnfold
      <3> QED
        BY <1>1, <3>1, <3>2, <3>3
    <2> QED
      BY <2>1, <2>2
  <1>2. SUBSET S \subseteq Q
    <2> HIDE DEF Q
    <2> QED
      BY <1>1, SubsetInduct
  <1> QED
    BY <1>2

(* The function changes at one place.                                       *)
THEOREM SumUpdate ==
    ASSUME NEW S, IsFiniteSet(S), NEW f, NEW g, NEW a \in S,
           \A x \in S : f[x] \in Int /\ g[x] \in Int,
           \A x \in S \ {a} : g[x] = f[x]
    PROVE  SumOver(g, S) = SumOver(f, S) - f[a] + g[a]
  <1>1. SumOver(f, S) = f[a] + SumOver(f, S \ {a})
    BY SumWithout
  <1>2. SumOver(g, S) = g[a] + SumOver(g, S \ {a})
    BY SumWithout
  <1>3. IsFiniteSet(S \ {a})
    BY FS_Subset
  <1>4. SumOver(g, S \ {a}) = SumOver(f, S \ {a})
    BY <1>3, SumAgree
  <1>5. SumOver(f, S \ {a}) \in Int
    BY <1>3, SumType
  <1> QED
    BY <1>1, <1>2, <1>4, <1>5

(* A sum of zeros.                                                          *)
THEOREM SumZero ==
    ASSUME NEW S, IsFiniteSet(S), NEW f, \A x \in S : f[x] = 0
    PROVE  SumOver(f, S) = 0
  <1> DEFINE Q == {s \in SUBSET S : SumOver(f, s) = 0}
  <1>0. \A x \in S : f[x] \in Int
    OBVIOUS
  <1>1. ASSUME NEW s \in SUBSET S, \A x \in s : s \ {x} \in Q
        PROVE  s \in Q
    <2>1. CASE s = {}
      BY <1>0, <2>1, SumUnfold
    <2>2. CASE s # {}
      <3>1. Chosen(s) \in s
        BY <2>2, ChosenIn
      <3>2. SumOver(f, s) = f[Chosen(s)] + SumOver(f, s \ {Chosen(s)})
        BY <1>0, <2>2, SumUnfold
      <3>3. f[Chosen(s)] = 0 /\ SumOver(f, s \ {Chosen(s)}) = 0
        BY <1>1, <3>1
      <3> QED
        BY <3>2, <3>3
    <2> QED
      BY <2>1, <2>2
  <1>2. SUBSET S \subseteq Q
    <2> HIDE DEF Q
    <2> QED
      BY <1>1, SubsetInduct
  <1> QED
    BY <1>2

(* A sum grows with its function.                                           *)
THEOREM SumMonotone ==
    ASSUME NEW S, IsFiniteSet(S), NEW f, NEW g,
           \A x \in S : f[x] \in Int /\ g[x] \in Int /\ f[x] <= g[x]
    PROVE  SumOver(f, S) <= SumOver(g, S)
  <1> DEFINE Q == {s \in SUBSET S : SumOver(f, s) <= SumOver(g, s)}
  <1>1. ASSUME NEW s \in SUBSET S, \A x \in s : s \ {x} \in Q
        PROVE  s \in Q
    <2>1. CASE s = {}
      <3>1. SumOver(f, s) = 0 /\ SumOver(g, s) = 0
        BY <2>1, SumUnfold
      <3> QED
        BY <3>1
    <2>2. CASE s # {}
      <3>1. Chosen(s) \in s
        BY <2>2, ChosenIn
      <3>2. SumOver(f, s) = f[Chosen(s)] + SumOver(f, s \ {Chosen(s)})
        BY <2>2, SumUnfold
      <3>3. SumOver(g, s) = g[Chosen(s)] + SumOver(g, s \ {Chosen(s)})
        BY <2>2, SumUnfold
      <3>4. s \ {Chosen(s)} \in SUBSET S
        OBVIOUS
      <3>5. /\ SumOver(f, s \ {Chosen(s)}) \in Int /\ SumOver(g, s \ {Chosen(s)}) \in Int
            /\ SumOver(f, s \ {Chosen(s)}) <= SumOver(g, s \ {Chosen(s)})
        BY <1>1, <3>1, <3>4, SumUnfold
      <3>6. f[Chosen(s)] \in Int /\ g[Chosen(s)] \in Int /\ f[Chosen(s)] <= g[Chosen(s)]
        BY <3>1
      <3>7. SumOver(f, s) <= SumOver(g, s)
        BY ONLY <3>2, <3>3, <3>5, <3>6
      <3> QED
        BY <3>7
    <2> QED
      BY <2>1, <2>2
  <1>2. SUBSET S \subseteq Q
    <2> HIDE DEF Q
    <2> QED
      BY <1>1, SubsetInduct
  <1> QED
    BY <1>2

-----------------------------------------------------------------------------
(* Sums over the positions of a sequence                                    *)

(* One more position at the end adds its term.                              *)
THEOREM SumOfAppend ==
    ASSUME NEW n \in Nat, NEW f, NEW g, \A k \in 1..n+1 : f[k] \in Int,
           \A k \in 1..n : g[k] = f[k]
    PROVE  SumOver(f, 1..n+1) = SumOver(g, 1..n) + f[n + 1]
  <1>1. IsFiniteSet(1..n+1) /\ IsFiniteSet(1..n)
    BY FS_Interval
  <1>2. n + 1 \in 1..n+1 /\ (1..n+1) \ {n + 1} = 1..n
    OBVIOUS
  <1>3. SumOver(f, 1..n+1) = f[n + 1] + SumOver(f, 1..n)
    BY <1>1, <1>2, SumWithout
  <1>4. \A k \in 1..n : f[k] \in Int /\ g[k] = f[k]
    OBVIOUS
  <1>5. SumOver(g, 1..n) = SumOver(f, 1..n) /\ SumOver(f, 1..n) \in Int
    BY <1>1, <1>4, SumAgree, SumType
  <1> QED
    BY <1>2, <1>3, <1>5

(* The first position's term is added to those of the positions behind it.  *)
THEOREM SumOfTail ==
    ASSUME NEW n \in Nat, NEW f, NEW g, \A k \in 1..n+1 : f[k] \in Int,
           \A k \in 1..n : g[k] = f[k + 1]
    PROVE  SumOver(f, 1..n+1) = f[1] + SumOver(g, 1..n)
  <1> DEFINE Moved(h, m) == [k \in 1..m |-> h[k + 1]]
             P == {m \in Nat : \A h \in [1..m+1 -> Int] :
                     SumOver(h, 1..m+1) = h[1] + SumOver(Moved(h, m), 1..m)}
  <1>1. 0 \in P
    <2> SUFFICES ASSUME NEW h \in [1..0+1 -> Int]
                 PROVE  SumOver(h, 1..0+1) = h[1] + SumOver(Moved(h, 0), 1..0)
      OBVIOUS
    <2> DEFINE none == Moved(h, 0)
    <2>1. 0 \in Nat /\ 1..0 = {} /\ 0 + 1 = 1 /\ h[1] \in Int
      OBVIOUS
    <2> HIDE DEF none
    <2>2. SumOver(none, {}) = 0
      BY FS_EmptySet, SumZero
    <2>3. SumOver(h, 1..0+1) = SumOver(h, 1..0) + h[0 + 1]
      <3>1. \A k \in 1..0+1 : h[k] \in Int
        OBVIOUS
      <3> QED
        BY <2>1, <3>1, SumOfAppend
    <2>4. SumOver(h, {}) = 0
      BY FS_EmptySet, SumZero
    <2>5. SumOver(h, 1..0+1) = h[1] + SumOver(none, 1..0)
      BY ONLY <2>1, <2>2, <2>3, <2>4
    <2> QED
      BY <2>5 DEF none
  <1>2. ASSUME NEW m \in Nat, m \in P
        PROVE  m + 1 \in P
    <2> DEFINE M == m + 1
    <2>0. M \in Nat /\ M = m + 1 /\ 1 \in 1..M /\ M \in 1..M
      OBVIOUS
    <2>1. \A h \in [1..M -> Int] : SumOver(h, 1..M) = h[1] + SumOver(Moved(h, m), 1..m)
      BY <1>2
    <2> HIDE DEF P, M
    <2>2. ASSUME NEW h \in [1..M+1 -> Int]
          PROVE  SumOver(h, 1..M+1) = h[1] + SumOver(Moved(h, M), 1..M)
      <3> DEFINE front == [k \in 1..M |-> h[k]]
                 behind == Moved(h, M)
                 middle == Moved(front, m)
      <3>1. /\ \A k \in 1..M+1 : h[k] \in Int
            /\ \A k \in 1..M : k \in 1..M+1 /\ k + 1 \in 1..M+1
            /\ 1 \in 1..M+1 /\ M + 1 \in 1..M+1
        BY <2>0, <2>2
      <3>2. front \in [1..M -> Int] /\ \A k \in 1..M : front[k] = h[k]
        BY <3>1
      <3>3. SumOver(front, 1..M) = front[1] + SumOver(middle, 1..m)
        BY <2>1, <3>2
      <3>4. \A k \in 1..M : behind[k] = h[k + 1] /\ behind[k] \in Int
        BY <3>1
      <3>5. \A k \in 1..m : middle[k] = behind[k] /\ k \in 1..M
        <4> TAKE k \in 1..m
        <4>1. k \in 1..M /\ k + 1 \in 1..M
          BY <2>0
        <4>2. middle[k] = front[k + 1]
          OBVIOUS
        <4> HIDE DEF front, behind, middle
        <4> QED
          BY <3>2, <3>4, <4>1, <4>2
      <3> HIDE DEF front, behind, middle
      <3>6. SumOver(h, 1..M+1) = SumOver(front, 1..M) + h[M + 1]
        BY <2>0, <3>1, <3>2, SumOfAppend
      <3>7. SumOver(behind, 1..M) = SumOver(middle, 1..m) + behind[M]
        <4>1. SumOver(behind, 1..m+1) = SumOver(middle, 1..m) + behind[m + 1]
          <5>1. \A k \in 1..m+1 : behind[k] \in Int
            BY <2>0, <3>4
          <5> QED
            BY <3>5, <5>1, SumOfAppend
        <4> QED
          BY <2>0, <4>1
      <3>8. SumOver(middle, 1..m) \in Int
        <4>1. \A k \in 1..m : middle[k] \in Int
          BY <3>4, <3>5
        <4>2. IsFiniteSet(1..m)
          BY FS_Interval
        <4> QED
          BY <4>1, <4>2, SumType
      <3>9. behind[M] = h[M + 1] /\ front[1] = h[1] /\ h[1] \in Int /\ h[M + 1] \in Int
        BY <2>0, <3>1, <3>2, <3>4
      <3>10. SumOver(h, 1..M+1) = h[1] + SumOver(behind, 1..M)
        BY ONLY <3>3, <3>6, <3>7, <3>8, <3>9
      <3> QED
        BY <3>10 DEF behind
    <2> QED
      BY <2>0, <2>2 DEF P, M
  <1>3. n \in P
    <2> HIDE DEF P
    <2> QED
      BY <1>1, <1>2, NatInduct
  <1> DEFINE h == [k \in 1..n+1 |-> f[k]]
             behind == Moved(h, n)
  <1>4. h \in [1..n+1 -> Int] /\ \A k \in 1..n+1 : h[k] = f[k] /\ f[k] \in Int
    OBVIOUS
  <1>5. SumOver(h, 1..n+1) = h[1] + SumOver(behind, 1..n)
    BY <1>3, <1>4
  <1>6. \A k \in 1..n : behind[k] = g[k] /\ g[k] \in Int
    OBVIOUS
  <1> HIDE DEF h, behind, P
  <1>7. IsFiniteSet(1..n) /\ IsFiniteSet(1..n+1)
    BY FS_Interval
  <1>8. SumOver(h, 1..n+1) = SumOver(f, 1..n+1)
    BY <1>4, <1>7, SumAgree
  <1>9. SumOver(behind, 1..n) = SumOver(g, 1..n)
    BY <1>6, <1>7, SumAgree
  <1>10. h[1] = f[1]
    BY <1>4
  <1> QED
    BY <1>5, <1>8, <1>9, <1>10
=============================================================================
