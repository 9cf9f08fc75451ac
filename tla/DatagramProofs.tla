---------------------------- MODULE DatagramProofs ----------------------------
(***************************************************************************)
(* The datagram path is correct for any datagrams, any number of sockets   *)
(* and workers and any sizes, under any interleaving: the BPF program and  *)
(* its mirror choose the same socket, a buffer is in one hand, and a row   *)
(* is made of one datagram's bytes, once for each record.                  *)
(*                                                                         *)
(* The inductive invariant has a part for the program (what its registers  *)
(* hold before each instruction), one for the shapes of the goroutines,    *)
(* and two of ownership: each buffer, and each datagram, is held in one    *)
(* place at most.                                                          *)
(***************************************************************************)
EXTENDS DatagramPath, CountingTheorems, SequenceTheorems

(* The k-th offset's instructions are at Start(k)..Start(k+1)-1 of the      *)
(* program, and the last five from Start(OffsetCount + 1) on.                      *)
OffsetCount == Len(HashOffsets)
Start(k) == IF k = 1 THEN 1 ELSE 5 * k - 6

(* The hash of the words at the first k offsets, and what is done to it.    *)
HashAt(words, k) == Hashes(words, HashOffsets)[k]
MixedAt(words, k) == Mixed(words, HashOffsets, k)
Readable(words, k) == HasWord(words, HashOffsets[k])
FinalHash(words) == ExclusiveOr(HashAt(words, OffsetCount), HashAt(words, OffsetCount) \div Half)

(* What the machine holds before the j-th instruction, from 0, of the k-th  *)
(* offset, and of the end of the program.                                   *)
AtOffset(m, words, k, j) ==
    /\ m.pc = Start(k) + j
    /\ \A i \in 1..k-1 : Readable(words, i)
    /\ k > 1 => m.memory = HashAt(words, k - 1)
    /\ j > 0 => Readable(words, k)
    /\ j = 1 => m.a = WordAt(words, HashOffsets[k])
    /\ j = 2 => m.a = MixedAt(words, k)
    /\ j = 3 => m.a = MixedAt(words, k) /\ m.x = HashAt(words, k - 1)
    /\ j = 4 => m.a = HashAt(words, k)

AtEnd(m, words, j) ==
    /\ m.pc = Start(OffsetCount + 1) + j
    /\ \A i \in 1..OffsetCount : Readable(words, i)
    /\ m.memory = HashAt(words, OffsetCount)
    /\ j = 0 => m.a = HashAt(words, OffsetCount)
    /\ j \in {1, 2} => m.a = HashAt(words, OffsetCount) \div Half
    /\ j = 2 => m.x = HashAt(words, OffsetCount)
    /\ j = 3 => m.a = FinalHash(words)
    /\ j = 4 => m.a = FinalHash(words) % SocketCount

Running(m, words) ==
    \/ \E k \in 1..OffsetCount : \E j \in 0..(IF k = 1 THEN 2 ELSE 4) : AtOffset(m, words, k, j)
    \/ \E j \in 0..4 : AtEnd(m, words, j)

Returned(m, words) ==
    \/ AtEnd(m, words, 4)
    \/ m.a = 0 /\ \E k \in 1..OffsetCount : ~Readable(words, k) /\ m.pc = Start(k)

ProgramInv ==
    /\ kernel \in [at : {"idle", "run"}, words : Seq(Words), machine : Machine]
    /\ kernel.at = "idle" => kernel = IdleKernel
    /\ kernel.at = "run" => arrived < Len(Sent)
    /\ kernel.at = "run" =>
         IF kernel.machine.returned THEN Returned(kernel.machine, kernel.words)
         ELSE Running(kernel.machine, kernel.words)

-----------------------------------------------------------------------------
(* A buffer that starts with the bytes of a datagram.                       *)
Cells == Datagrams \cup {NoDatagram}

Filled(buffers, b, d) ==
    /\ d \in Datagrams /\ b \in DOMAIN buffers /\ Length(d) <= Len(buffers[b])
    /\ \A j \in 1..Length(d) : buffers[b][j] = d

Sound(buffers, p) == p \in Packets /\ p.length = Length(p.of) /\ Filled(buffers, p.buffer, p.of)

(* What each goroutine holds in each of its states.                         *)
Receiver == [at : {"read", "send", "gone"}, slots : Seq(Datagrams), buffer : Nat]

ReaderShape ==
    /\ reader \in [Sockets -> Receiver]
    /\ \A s \in Sockets :
         IF reader[s].at = "send"
         THEN reader[s].slots # <<>> /\ Filled(heap, reader[s].buffer, Head(reader[s].slots))
         ELSE reader[s].buffer = NoBuffer

ChannelShape == \A k \in DOMAIN channel : Sound(heap, channel[k])

WorkerShape ==
    \A w \in Workers :
        \/ worker[w] = IdleWorker
        \/ /\ worker[w].at = "parse" /\ Sound(heap, worker[w].packet)
           /\ worker[w].record <= Records(worker[w].packet.length)

HeapShape == heap \in Seq(Seq(Cells))

(* The places that hold buffers and datagrams, and what each holds.         *)
OnWire == <<"wire", 0>>
InSocket(s) == <<"socket", s>>
InReader(s) == <<"reader", s>>
InChannel == <<"channel", 0>>
InWorker(w) == <<"worker", w>>
InPool == <<"pool", 0>>
InParsed == <<"parsed", 0>>

BuffersIn(q) == [k \in DOMAIN q |-> q[k].buffer]
DatagramsIn(q) == [k \in DOMAIN q |-> q[k].of]

BufferHolders ==
    {InReader(s) : s \in Sockets} \cup {InWorker(w) : w \in Workers} \cup {InChannel, InPool}

Buffers(readers, packets, workers, free) ==
    [h \in BufferHolders |->
        CASE h[1] = "reader" -> {readers[h[2]].buffer} \ {NoBuffer}
          [] h[1] = "channel" -> Range(BuffersIn(packets))
          [] h[1] = "worker" -> {workers[h[2]].packet.buffer} \ {NoBuffer}
          [] h[1] = "pool" -> free]

(* Those where a datagram waits, and all of them.                           *)
Waiting == {OnWire, InChannel} \cup {InSocket(s) : s \in Sockets} \cup {InReader(s) : s \in Sockets}

DatagramHolders == Waiting \cup {InWorker(w) : w \in Workers} \cup {InParsed}

Places(n, queues, readers, packets, workers, done) ==
    [h \in DatagramHolders |->
        CASE h[1] = "wire" -> {Sent[k] : k \in n+1..Len(Sent)}
          [] h[1] = "socket" -> Range(queues[h[2]])
          [] h[1] = "reader" -> Range(readers[h[2]].slots)
          [] h[1] = "channel" -> Range(DatagramsIn(packets))
          [] h[1] = "worker" -> {workers[h[2]].packet.of} \ {NoDatagram}
          [] h[1] = "parsed" -> done]

OwnedByOne(holders, f) ==
    \A h, i \in holders : h # i => f[h] \cap f[i] = {}

(* A sequence that repeats nothing.                                         *)
NoRepeat(q) == \A i, j \in DOMAIN q : q[i] = q[j] => i = j

OwnerInv ==
    /\ OwnedByOne(BufferHolders, Buffers(reader, channel, worker, pool))
    /\ NoRepeat(BuffersIn(channel))

PlaceInv ==
    /\ OwnedByOne(DatagramHolders, Places(arrived, socket, reader, channel, worker, parsed))
    /\ \A s \in Sockets : NoRepeat(socket[s]) /\ NoRepeat(reader[s].slots)
    /\ NoRepeat(DatagramsIn(channel))

(* The rows of a datagram, by where it is.                                  *)
RowInv ==
    /\ rows \in [SUBSET Cells -> Nat]
    /\ RowsOfOneDatagram
    /\ \A d \in Datagrams : rows[{d}] <= Format[d].records
    /\ \A d \in parsed : rows[{d}] = Format[d].records
    /\ \A w \in Workers : worker[w].at = "parse" =>
         rows[{worker[w].packet.of}] = worker[w].record
    /\ \A h \in Waiting : \A d \in Places(arrived, socket, reader, channel, worker, parsed)[h] :
         rows[{d}] = 0

(* TypeOK without the kernel and the receivers.                             *)
PathTypes ==
    /\ arrived \in 0..Len(Sent) /\ socket \in [Sockets -> Seq(Datagrams)]
    /\ \A s \in Sockets : Len(reader[s].slots) <= BatchSize
    /\ Len(heap) <= MaxBuffers
    /\ \A b \in pool : b \in DOMAIN heap /\ Len(heap[b]) \in {SmallSize, LargeSize}
    /\ channel \in Seq(Packets) /\ Len(channel) <= QueueSize
    /\ worker \in [Workers -> [at : {"idle", "parse"}, packet : Packets, record : Nat]]
    /\ stopped \in BOOLEAN /\ parsed \subseteq Datagrams

ShapeInv == PathTypes /\ HeapShape /\ ReaderShape /\ ChannelShape /\ WorkerShape

PathInv == ShapeInv /\ OwnerInv /\ PlaceInv /\ RowInv
IInv == ProgramInv /\ PathInv

-----------------------------------------------------------------------------
(* Words                                                                    *)

LEMMA WordFacts ==
    /\ 0 \in Words /\ Words \subseteq Nat
    /\ \A a, b \in Words : ExclusiveOr(a, b) \in Words /\ ExclusiveOr(a, b) = ExclusiveOr(b, a)
    /\ \A n \in Nat : n % Modulus \in Words
    /\ \A k \in Nat \ {0} : Prime(k) \in Words
  <1>1. 0 \in Words /\ Words \subseteq Nat /\ \A n \in Nat : n % Modulus \in Words
    BY HashAssumption DEF Words
  <1>2. \A a, b \in Words : ExclusiveOr(a, b) \in Words /\ ExclusiveOr(a, b) = ExclusiveOr(b, a)
    BY HashAssumption
  <1>3. ASSUME NEW k \in Nat \ {0}
        PROVE  Prime(k) \in Words
    <2>1. reusePortHashPrimes \in Seq(Nat) /\ Len(reusePortHashPrimes) = 8
      BY HashAssumption DEF reusePortHashPrimes, Wide
    <2>2. ((k - 1) % 8) + 1 \in 1..8
      OBVIOUS
    <2>3. reusePortHashPrimes[((k - 1) % 8) + 1] \in Nat
      <3> DEFINE j == ((k - 1) % 8) + 1
      <3>1. j \in 1..Len(reusePortHashPrimes)
        BY <2>1, <2>2
      <3> HIDE DEF j
      <3>2. reusePortHashPrimes[j] \in Nat
        BY <2>1, <3>1, ElementOfSeq
      <3> QED
        BY <3>2 DEF j
    <2> QED
      BY <1>1, <2>1, <2>3 DEF Prime
  <1> QED
    BY <1>1, <1>2, <1>3

(* A quotient is at most what is divided.                                   *)
LEMMA Quotient ==
    ASSUME NEW a \in Nat, NEW b \in Nat \ {0}
    PROVE  a \div b \in 0..a
  <1> DEFINE q == a \div b
  <1>1. q \in Nat /\ b * q <= a
    OBVIOUS
  <1>2. q <= b * q
    <2>1. (b - 1) * q >= 0
      BY <1>1
    <2> QED
      BY <1>1, <2>1
  <1> QED
    BY <1>1, <1>2

LEMMA Remainder ==
    ASSUME NEW a \in Nat, NEW b \in Nat \ {0}
    PROVE  a % b \in 0..a
  <1>1. a % b \in 0..b-1
    OBVIOUS
  <1>2. CASE a < b
    <2>1. a % b = a
      BY <1>2
    <2> QED
      BY <2>1
  <1>3. CASE b <= a
    BY <1>1, <1>3
  <1> QED
    BY <1>2, <1>3

LEMMA HalfWord ==
    ASSUME NEW a \in Words
    PROVE  a \div Half \in Words
  <1>0. a \in Nat /\ Half \in Nat \ {0}
    BY HashAssumption DEF Words
  <1>1. a \div Half \in 0..a
    BY <1>0, Quotient
  <1> QED
    BY <1>0, <1>1, HashAssumption DEF Words

LEMMA MixedWord ==
    ASSUME NEW words \in Seq(Words), NEW k \in 1..OffsetCount, HasWord(words, HashOffsets[k])
    PROVE  /\ WordAt(words, HashOffsets[k]) \in Words
           /\ Mixed(words, HashOffsets, k) \in Words
  <1>1. WordAt(words, HashOffsets[k]) \in Words
    BY HashAssumption DEF HasWord, WordAt, OffsetCount
  <1>2. \A a, b \in Nat : a * b \in Nat
    OBVIOUS
  <1>3. Prime(k) \in Nat
    <2>1. k \in Nat \ {0}
      BY HashAssumption DEF OffsetCount
    <2> QED
      BY <2>1, WordFacts
  <1>4. WordAt(words, HashOffsets[k]) \in Nat
    BY <1>1, WordFacts
  <1>5. WordAt(words, HashOffsets[k]) * Prime(k) \in Nat
    BY <1>2, <1>3, <1>4
  <1> QED
    BY <1>1, <1>5, WordFacts DEF Mixed

(* The recursive definition of the hashes has a solution.                   *)
LEMMA HashesUnfold ==
    ASSUME NEW words, NEW k \in 1..OffsetCount
    PROVE  Hashes(words, HashOffsets)[k] =
             IF k = 1 THEN Mixed(words, HashOffsets, k)
             ELSE ExclusiveOr(Hashes(words, HashOffsets)[k - 1], Mixed(words, HashOffsets, k))
  <1> DEFINE NextHash(h, i) == IF i = 1 THEN Mixed(words, HashOffsets, i)
                               ELSE ExclusiveOr(h[i - 1], Mixed(words, HashOffsets, i))
             P == {n \in Nat : \E h : h = [i \in 1..n |-> NextHash(h, i)]}
  <1>1. 0 \in P
    <2> DEFINE h == [i \in 1..0 |-> 0]
    <2>1. h = [i \in 1..0 |-> NextHash(h, i)]
      OBVIOUS
    <2> QED
      BY <2>1
  <1>2. ASSUME NEW n \in Nat, n \in P
        PROVE  n + 1 \in P
    <2>1. PICK h : h = [i \in 1..n |-> NextHash(h, i)]
      BY <1>2
    <2> DEFINE g == [i \in 1..n+1 |-> IF i = n + 1 THEN NextHash(h, i) ELSE h[i]]
    <2>2. ASSUME NEW i \in 1..n+1
          PROVE  g[i] = NextHash(g, i)
      <3>1. \A j \in 1..n : g[j] = h[j] /\ h[j] = NextHash(h, j)
        BY <2>1
      <3>2. i # 1 => i - 1 \in 1..n
        OBVIOUS
      <3>3. NextHash(g, i) = NextHash(h, i)
        BY <3>1, <3>2
      <3> QED
        BY <3>1, <3>3
    <2>3. g = [i \in 1..n+1 |-> NextHash(g, i)]
      BY <2>2
    <2> HIDE DEF g
    <2>4. \E f : f = [i \in 1..n+1 |-> NextHash(f, i)]
      BY <2>3
    <2> QED
      BY <2>4
  <1>3. OffsetCount \in P
    <2>1. OffsetCount \in Nat
      BY HashAssumption DEF OffsetCount
    <2> QED
      BY <1>1, <1>2, <2>1, NatInduct
  <1>4. PICK h : h = [i \in 1..OffsetCount |-> NextHash(h, i)]
    BY <1>3
  <1>5. DOMAIN HashOffsets = 1..OffsetCount
    BY HashAssumption DEF OffsetCount
  <1> DEFINE c == CHOOSE g : g = [i \in 1..OffsetCount |-> NextHash(g, i)]
  <1>6. Hashes(words, HashOffsets) = c
    BY <1>5 DEF Hashes
  <1>7. c = [i \in 1..OffsetCount |-> NextHash(c, i)]
    BY <1>4
  <1>8. c[k] = NextHash(c, k)
    BY <1>7
  <1> QED
    BY <1>6, <1>8

(* The hash of readable words is a word.                                    *)
LEMMA HashWord ==
    ASSUME NEW words \in Seq(Words)
    PROVE  \A k \in 1..OffsetCount :
             (\A i \in 1..k : HasWord(words, HashOffsets[i]))
                => Hashes(words, HashOffsets)[k] \in Words
  <1> DEFINE Good(k) == (\A i \in 1..k : HasWord(words, HashOffsets[i]))
                           => Hashes(words, HashOffsets)[k] \in Words
             P == {n \in Nat : \A k \in 1..n : k \in 1..OffsetCount => Good(k)}
  <1>1. 0 \in P
    OBVIOUS
  <1>2. ASSUME NEW n \in Nat, n \in P
        PROVE  n + 1 \in P
    <2> SUFFICES ASSUME n + 1 \in 1..OffsetCount,
                        \A i \in 1..n+1 : HasWord(words, HashOffsets[i])
                 PROVE  Hashes(words, HashOffsets)[n + 1] \in Words
      BY <1>2
    <2>1. Mixed(words, HashOffsets, n + 1) \in Words
      BY MixedWord
    <2>2. CASE n = 0
      BY <2>1, <2>2, HashesUnfold
    <2>3. CASE n # 0
      <3>1. Hashes(words, HashOffsets)[n] \in Words
        <4>1. n \in 1..n /\ n \in 1..OffsetCount
          BY <2>3 DEF OffsetCount
        <4> QED
          BY <1>2, <4>1
      <3>2. Hashes(words, HashOffsets)[n + 1] =
              ExclusiveOr(Hashes(words, HashOffsets)[n], Mixed(words, HashOffsets, n + 1))
        BY <2>3, HashesUnfold, n + 1 # 1, (n + 1) - 1 = n
      <3> QED
        BY <2>1, <3>1, <3>2, WordFacts
    <2> QED
      BY <2>2, <2>3
  <1>3. OffsetCount \in P
    <2>1. OffsetCount \in Nat
      BY HashAssumption DEF OffsetCount
    <2> QED
      BY <1>1, <1>2, <2>1, NatInduct
  <1> QED
    BY <1>3

-----------------------------------------------------------------------------
(* Where the instructions are in the program                                *)

Instructions ==
    [op : {"LoadWordAbsolute", "MultiplyK", "LoadXMemory", "XorX", "StoreA", "RightShiftK",
           "ModuloK", "ReturnA"},
     k : Nat]
Size(k) == IF k = 1 THEN 3 ELSE 5
Blocks == [k \in DOMAIN HashOffsets |-> LoadAndMix(HashOffsets, k)]

LEMMA OffsetsFacts ==
    /\ OffsetCount \in Nat \ {0} /\ DOMAIN HashOffsets = 1..OffsetCount
    /\ \A k \in 1..OffsetCount : HashOffsets[k] \in Nat /\ k \in Nat \ {0}
  BY HashAssumption DEF OffsetCount

(* The recursive definition of FlattenSeq has a solution.                   *)
LEMMA FlattenUnfold ==
    ASSUME NEW seqs, Len(seqs) \in Nat \ {0}
    PROVE  \E f : /\ f = [i \in 1..Len(seqs) |->
                            IF i = 1 THEN seqs[i] ELSE f[i - 1] \o seqs[i]]
                  /\ FlattenSeq(seqs) = f[Len(seqs)]
  <1> DEFINE NextFlat(h, i) == IF i = 1 THEN seqs[i] ELSE h[i - 1] \o seqs[i]
             P == {n \in Nat : \E h : h = [i \in 1..n |-> NextFlat(h, i)]}
  <1> HIDE DEF NextFlat
  <1>1. 0 \in P
    <2> DEFINE h == [i \in 1..0 |-> 0]
    <2>1. h = [i \in 1..0 |-> NextFlat(h, i)]
      OBVIOUS
    <2> QED
      BY <2>1
  <1>2. ASSUME NEW n \in Nat, n \in P
        PROVE  n + 1 \in P
    <2>1. PICK h : h = [i \in 1..n |-> NextFlat(h, i)]
      BY <1>2
    <2> DEFINE g == [i \in 1..n+1 |-> IF i = n + 1 THEN NextFlat(h, i) ELSE h[i]]
    <2>2. ASSUME NEW i \in 1..n+1
          PROVE  g[i] = NextFlat(g, i)
      <3>1. \A j \in 1..n : g[j] = h[j] /\ h[j] = NextFlat(h, j)
        BY <2>1
      <3>2. i # 1 => i - 1 \in 1..n
        OBVIOUS
      <3>3. NextFlat(g, i) = NextFlat(h, i)
        BY <3>1, <3>2 DEF NextFlat
      <3> QED
        BY <3>1, <3>3
    <2>3. g = [i \in 1..n+1 |-> NextFlat(g, i)]
      BY <2>2
    <2> HIDE DEF g
    <2>4. \E f : f = [i \in 1..n+1 |-> NextFlat(f, i)]
      BY <2>3
    <2> QED
      BY <2>4
  <1>3. Len(seqs) \in P
    BY <1>1, <1>2, NatInduct
  <1> DEFINE c == CHOOSE g : g = [i \in 1..Len(seqs) |-> NextFlat(g, i)]
  <1>4. c = [i \in 1..Len(seqs) |-> NextFlat(c, i)]
    BY <1>3
  <1>5. FlattenSeq(seqs) = c[Len(seqs)]
    BY DEF FlattenSeq, NextFlat
  <1> HIDE DEF c
  <1> QED
    BY <1>4, <1>5 DEF NextFlat

LEMMA Joined ==
    ASSUME NEW S, NEW s \in Seq(S), NEW t \in Seq(S), NEW r \in Seq(S),
           Len(r) = Len(s) + Len(t),
           \A i \in 1..Len(s) : r[i] = s[i],
           \A i \in 1..Len(t) : r[Len(s) + i] = t[i]
    PROVE  s \o t = r
  <1>1. /\ s \o t \in Seq(S) /\ Len(s \o t) = Len(s) + Len(t)
        /\ \A i \in 1..Len(s) + Len(t) :
             (s \o t)[i] = IF i <= Len(s) THEN s[i] ELSE t[i - Len(s)]
    BY ConcatProperties
  <1>2. ASSUME NEW i \in 1..Len(s) + Len(t)
        PROVE  (s \o t)[i] = r[i]
    <2>1. CASE i <= Len(s)
      BY <1>1, <2>1
    <2>2. CASE i > Len(s)
      <3>1. i - Len(s) \in 1..Len(t) /\ Len(s) + (i - Len(s)) = i
        BY <2>2
      <3>2. r[i] = t[i - Len(s)]
        BY <3>1
      <3> QED
        BY <1>1, <2>2, <3>2
    <2> QED
      BY <2>1, <2>2
  <1> DEFINE q == s \o t
  <1>3. q \in Seq(S) /\ Len(q) = Len(r) /\ \A i \in 1..Len(q) : q[i] = r[i]
    BY <1>1, <1>2
  <1> HIDE DEF q
  <1>4. q = r
    BY <1>3, SeqEqual
  <1> QED
    BY <1>4 DEF q

LEMMA BlockSequences ==
    ASSUME NEW S, NEW a \in S, NEW b \in S, NEW c \in S, NEW d \in S, NEW e \in S
    PROVE  /\ <<a, b>> \o <<>> \o <<e>> = <<a, b, e>>
           /\ <<a, b>> \o <<c, d>> \o <<e>> = <<a, b, c, d, e>>
  <1> DEFINE two == <<a, b>>
             more == <<c, d>>
             one == <<e>>
             three == <<a, b, e>>
             four == <<a, b, c, d>>
             five == <<a, b, c, d, e>>
  <1>1. /\ two \in Seq(S) /\ Len(two) = 2 /\ two[1] = a /\ two[2] = b
        /\ more \in Seq(S) /\ Len(more) = 2 /\ more[1] = c /\ more[2] = d
        /\ one \in Seq(S) /\ Len(one) = 1 /\ one[1] = e
    OBVIOUS
  <1>2. three \in Seq(S) /\ Len(three) = 3 /\ three[1] = a /\ three[2] = b /\ three[3] = e
    OBVIOUS
  <1>3. /\ four \in Seq(S) /\ Len(four) = 4
        /\ four[1] = a /\ four[2] = b /\ four[3] = c /\ four[4] = d
    OBVIOUS
  <1>4. /\ five \in Seq(S) /\ Len(five) = 5
        /\ five[1] = a /\ five[2] = b /\ five[3] = c /\ five[4] = d /\ five[5] = e
    OBVIOUS
  <1> HIDE DEF two, more, one, three, four, five
  <1>5. two \o <<>> = two
    BY <1>1, ConcatEmptySeq
  <1>6. two \o one = three
    <2>1. /\ Len(three) = Len(two) + Len(one)
          /\ \A i \in 1..Len(two) : three[i] = two[i]
          /\ \A i \in 1..Len(one) : three[Len(two) + i] = one[i]
      BY <1>1, <1>2
    <2> QED
      BY <1>1, <1>2, <2>1, Joined
  <1>7. two \o more = four
    <2>1. /\ Len(four) = Len(two) + Len(more)
          /\ \A i \in 1..Len(two) : four[i] = two[i]
          /\ \A i \in 1..Len(more) : four[Len(two) + i] = more[i]
      BY <1>1, <1>3
    <2> QED
      BY <1>1, <1>3, <2>1, Joined
  <1>8. four \o one = five
    <2>1. /\ Len(five) = Len(four) + Len(one)
          /\ \A i \in 1..Len(four) : five[i] = four[i]
          /\ \A i \in 1..Len(one) : five[Len(four) + i] = one[i]
      BY <1>1, <1>3, <1>4
    <2> QED
      BY <1>1, <1>3, <1>4, <2>1, Joined
  <1> QED
    BY <1>5, <1>6, <1>7, <1>8 DEF two, more, one, three, four, five

(* One offset's instructions.                                               *)
LEMMA BlockFacts ==
    ASSUME NEW k \in 1..OffsetCount
    PROVE  /\ Blocks[k] \in Seq(Instructions) /\ Len(Blocks[k]) = Size(k)
           /\ Blocks[k][1] = I("LoadWordAbsolute", HashOffsets[k])
           /\ Blocks[k][2] = I("MultiplyK", Prime(k))
           /\ k = 1 => Blocks[k][3] = I("StoreA", 0)
           /\ k # 1 => /\ Blocks[k][3] = I("LoadXMemory", 0)
                       /\ Blocks[k][4] = I("XorX", 0)
                       /\ Blocks[k][5] = I("StoreA", 0)
  <1>1. HashOffsets[k] \in Nat /\ Prime(k) \in Nat
    BY OffsetsFacts, WordFacts
  <1>2. Blocks[k] = LoadAndMix(HashOffsets, k)
    BY OffsetsFacts DEF Blocks
  <1> DEFINE load == I("LoadWordAbsolute", HashOffsets[k])
             mix == I("MultiplyK", Prime(k))
  <1>3. /\ load \in Instructions /\ mix \in Instructions
        /\ I("StoreA", 0) \in Instructions /\ I("LoadXMemory", 0) \in Instructions
        /\ I("XorX", 0) \in Instructions
    <2>1. load \in Instructions
      BY <1>1 DEF I, Instructions, load, mix
    <2>2. mix \in Instructions
      BY <1>1 DEF I, Instructions, load, mix
    <2>3. I("StoreA", 0) \in Instructions
      BY DEF I, Instructions
    <2>4. I("LoadXMemory", 0) \in Instructions
      BY DEF I, Instructions
    <2>5. I("XorX", 0) \in Instructions
      BY DEF I, Instructions
    <2> QED
      BY <2>1, <2>2, <2>3, <2>4, <2>5
  <1> HIDE DEF load, mix
  <1>4. CASE k = 1
    <2>1. Blocks[k] = <<load, mix, I("StoreA", 0)>>
      <3>1. Blocks[k] = <<load, mix>> \o <<>> \o <<I("StoreA", 0)>>
        BY <1>2, <1>4 DEF LoadAndMix, load, mix
      <3> QED
        BY <1>3, <3>1, BlockSequences
    <2> QED
      BY <1>3, <1>4, <2>1 DEF Size, load, mix
  <1>5. CASE k # 1
    <2>1. k > 1
      BY <1>5, OffsetsFacts
    <2>2. Blocks[k] = <<load, mix, I("LoadXMemory", 0), I("XorX", 0), I("StoreA", 0)>>
      <3>1. Blocks[k] = <<load, mix>> \o <<I("LoadXMemory", 0), I("XorX", 0)>>
                           \o <<I("StoreA", 0)>>
        BY <1>2, <2>1 DEF LoadAndMix, load, mix
      <3> QED
        BY <1>3, <3>1, BlockSequences
    <2> DEFINE lx == I("LoadXMemory", 0)
               xx == I("XorX", 0)
               sa == I("StoreA", 0)
               block == <<load, mix, lx, xx, sa>>
    <2>3. lx \in Instructions /\ xx \in Instructions /\ sa \in Instructions
      BY <1>3
    <2> HIDE DEF lx, xx, sa
    <2>4. /\ block \in Seq(Instructions) /\ Len(block) = 5 /\ block[1] = load
          /\ block[2] = mix /\ block[3] = lx /\ block[4] = xx /\ block[5] = sa
      BY <1>3, <2>3
    <2> HIDE DEF block
    <2>5. Blocks[k] = block
      BY <2>2 DEF block, lx, xx, sa
    <2>6. Size(k) = 5
      BY <1>5 DEF Size
    <2> QED
      BY <1>5, <2>4, <2>5, <2>6 DEF load, mix, lx, xx, sa
  <1> QED
    BY <1>4, <1>5

(* Every block is where Start says.                                         *)
LEMMA BlocksPlaced ==
    /\ FlattenSeq(Blocks) \in Seq(Instructions)
    /\ Len(FlattenSeq(Blocks)) = Start(OffsetCount + 1) - 1
    /\ \A k \in 1..OffsetCount : \A j \in 1..Size(k) :
         FlattenSeq(Blocks)[Start(k) + j - 1] = Blocks[k][j]
  <1>1. Len(Blocks) = OffsetCount
    BY OffsetsFacts DEF Blocks
  <1>2. PICK f : /\ f = [i \in 1..OffsetCount |->
                           IF i = 1 THEN Blocks[i] ELSE f[i - 1] \o Blocks[i]]
                 /\ FlattenSeq(Blocks) = f[OffsetCount]
    BY <1>1, OffsetsFacts, FlattenUnfold
  <1> DEFINE Placed(n) ==
               /\ f[n] \in Seq(Instructions) /\ Len(f[n]) = Start(n + 1) - 1
               /\ \A k \in 1..n : \A j \in 1..Size(k) : f[n][Start(k) + j - 1] = Blocks[k][j]
             P == {n \in Nat : n \in 1..OffsetCount => Placed(n)}
  <1>3. 0 \in P
    OBVIOUS
  <1>4. ASSUME NEW n \in Nat, n \in P
        PROVE  n + 1 \in P
    <2> SUFFICES ASSUME n + 1 \in 1..OffsetCount
                 PROVE  Placed(n + 1)
      OBVIOUS
    <2>1. Blocks[n + 1] \in Seq(Instructions) /\ Len(Blocks[n + 1]) = Size(n + 1)
      BY BlockFacts
    <2>2. CASE n = 0
      <3>1. f[1] = Blocks[1]
        BY <1>2, <2>2
      <3> QED
        BY <2>1, <2>2, <3>1 DEF Start, Size
    <2>3. CASE n # 0
      <3>1. Placed(n)
        BY <1>4, <2>3, OffsetsFacts
      <3>2. f[n + 1] = f[n] \o Blocks[n + 1]
        BY <1>2, <2>3, (n + 1) - 1 = n, n + 1 # 1
      <3>3. /\ f[n + 1] \in Seq(Instructions) /\ Len(f[n + 1]) = Len(f[n]) + Size(n + 1)
            /\ \A i \in 1..Len(f[n]) : f[n + 1][i] = f[n][i]
            /\ \A i \in 1..Size(n + 1) : f[n + 1][Len(f[n]) + i] = Blocks[n + 1][i]
        <4> DEFINE s == f[n]
                   t == Blocks[n + 1]
        <4>1. s \in Seq(Instructions) /\ t \in Seq(Instructions) /\ Len(t) = Size(n + 1)
          BY <3>1, <2>1
        <4>2. f[n + 1] = s \o t
          BY <3>2
        <4> HIDE DEF s, t
        <4>3. /\ s \o t \in Seq(Instructions) /\ Len(s \o t) = Len(s) + Len(t)
              /\ \A i \in 1..Len(s) + Len(t) :
                   (s \o t)[i] = IF i <= Len(s) THEN s[i] ELSE t[i - Len(s)]
          BY <4>1, ConcatProperties
        <4>4. Len(s) \in Nat /\ Len(t) \in Nat
          BY <4>1
        <4>5. \A i \in 1..Len(s) : (s \o t)[i] = s[i]
          BY <4>3, <4>4
        <4>6. ASSUME NEW i \in 1..Len(t)
              PROVE  (s \o t)[Len(s) + i] = t[i]
          BY <4>3, <4>4, Len(s) + i \in 1..Len(s) + Len(t), (Len(s) + i) - Len(s) = i
        <4> QED
          BY <4>1, <4>2, <4>3, <4>5, <4>6 DEF s, t
      <3>4. Len(f[n + 1]) = Start(n + 2) - 1
        BY <3>1, <3>3, <2>3 DEF Start, Size
      <3>5. ASSUME NEW k \in 1..n+1, NEW j \in 1..Size(k)
            PROVE  f[n + 1][Start(k) + j - 1] = Blocks[k][j]
        <4>0. Start(k) + j - 1 \in Nat \ {0} /\ Start(n + 1) - 1 \in Nat
          BY <2>3 DEF Start, Size
        <4>1. CASE k <= n
          <5>1. Start(k) + j - 1 <= Start(n + 1) - 1
            BY <4>1, <2>3 DEF Start, Size
          <5>2. Start(k) + j - 1 \in 1..Len(f[n])
            BY <4>0, <5>1, <3>1
          <5>3. f[n + 1][Start(k) + j - 1] = f[n][Start(k) + j - 1]
            BY <5>2, <3>3
          <5> QED
            BY <4>1, <5>3, <3>1
        <4>2. CASE k = n + 1
          <5>1. Start(k) + j - 1 = Len(f[n]) + j
            BY <3>1, <4>2, <2>3 DEF Start
          <5>2. j \in 1..Size(n + 1)
            BY <4>2
          <5>3. f[n + 1][Len(f[n]) + j] = Blocks[n + 1][j]
            BY <5>2, <3>3
          <5> QED
            BY <4>2, <5>1, <5>3
        <4> QED
          BY <4>1, <4>2
      <3> QED
        BY <3>3, <3>4, <3>5, (n + 1) + 1 = n + 2
    <2> QED
      BY <2>2, <2>3
  <1>5. OffsetCount \in P
    <2>1. OffsetCount \in Nat
      BY OffsetsFacts
    <2> HIDE DEF P
    <2> QED
      BY <1>3, <1>4, <2>1, NatInduct
  <1>6. Placed(OffsetCount)
    BY <1>5, OffsetsFacts
  <1> QED
    BY <1>2, <1>6

(* The program, instruction by instruction.                                 *)
LEMMA ProgramLayout ==
    /\ Len(program) = Start(OffsetCount + 1) + 4 /\ DOMAIN program = 1..Len(program)
    /\ \A k \in 1..OffsetCount :
         /\ program[Start(k)] = I("LoadWordAbsolute", HashOffsets[k])
         /\ program[Start(k) + 1] = I("MultiplyK", Prime(k))
         /\ k = 1 => program[Start(k) + 2] = I("StoreA", 0)
         /\ k # 1 => /\ program[Start(k) + 2] = I("LoadXMemory", 0)
                     /\ program[Start(k) + 3] = I("XorX", 0)
                     /\ program[Start(k) + 4] = I("StoreA", 0)
    /\ program[Start(OffsetCount + 1)] = I("RightShiftK", Half)
    /\ program[Start(OffsetCount + 1) + 1] = I("LoadXMemory", 0)
    /\ program[Start(OffsetCount + 1) + 2] = I("XorX", 0)
    /\ program[Start(OffsetCount + 1) + 3] = I("ModuloK", SocketCount)
    /\ program[Start(OffsetCount + 1) + 4] = I("ReturnA", 0)
  <1> DEFINE s == FlattenSeq(Blocks)
             t == ReturnSocket(SocketCount)
             e == Start(OffsetCount + 1)
  <1>1. /\ t \in Seq(Instructions) /\ Len(t) = 5
        /\ t[1] = I("RightShiftK", Half) /\ t[2] = I("LoadXMemory", 0) /\ t[3] = I("XorX", 0)
        /\ t[4] = I("ModuloK", SocketCount) /\ t[5] = I("ReturnA", 0)
    <2> DEFINE a == I("RightShiftK", Half)
               b == I("LoadXMemory", 0)
               c == I("XorX", 0)
               d == I("ModuloK", SocketCount)
               f == I("ReturnA", 0)
    <2>1. /\ a \in Instructions /\ b \in Instructions /\ c \in Instructions
          /\ d \in Instructions /\ f \in Instructions
      BY HashAssumption DEF I, Instructions
    <2>2. t = <<a, b, c, d, f>>
      BY DEF ReturnSocket
    <2> HIDE DEF a, b, c, d, f, t
    <2>3. /\ t \in Seq(Instructions) /\ Len(t) = 5
          /\ t[1] = a /\ t[2] = b /\ t[3] = c /\ t[4] = d /\ t[5] = f
      BY <2>1, <2>2
    <2> QED
      BY <2>3 DEF a, b, c, d, f
  <1>2. /\ s \in Seq(Instructions) /\ Len(s) = e - 1
        /\ \A k \in 1..OffsetCount : \A j \in 1..Size(k) : s[Start(k) + j - 1] = Blocks[k][j]
    BY BlocksPlaced
  <1>3. program = s \o t
    BY DEF program, buildReusePortCBPF, Blocks
  <1>4. e \in Nat \ {0} /\ \A k \in 1..OffsetCount : Start(k) \in Nat \ {0} /\ Start(k) + Size(k) <= e
    BY OffsetsFacts DEF Start, Size
  <1> HIDE DEF s, t, e
  <1>5. /\ program \in Seq(Instructions) /\ Len(program) = e + 4
        /\ \A i \in 1..e+4 : program[i] = IF i <= e - 1 THEN s[i] ELSE t[i - (e - 1)]
    <2>1. /\ s \o t \in Seq(Instructions) /\ Len(s \o t) = Len(s) + Len(t)
          /\ \A i \in 1..Len(s) + Len(t) :
               (s \o t)[i] = IF i <= Len(s) THEN s[i] ELSE t[i - Len(s)]
      BY <1>1, <1>2, ConcatProperties
    <2>2. Len(s) + Len(t) = e + 4
      BY <1>1, <1>2, <1>4
    <2> QED
      BY <1>2, <1>3, <2>1, <2>2
  <1>6. DOMAIN program = 1..Len(program)
    BY <1>5
  <1>7. ASSUME NEW k \in 1..OffsetCount, NEW j \in 1..Size(k)
        PROVE  program[Start(k) + (j - 1)] = Blocks[k][j]
    <2>1. j \in Nat /\ Start(k) + j - 1 = Start(k) + (j - 1) /\ Size(k) \in Nat
      BY <1>4 DEF Size
    <2>2. Start(k) + (j - 1) \in 1..e+4 /\ Start(k) + (j - 1) <= e - 1
      BY <1>4, <2>1
    <2> QED
      BY <1>2, <1>5, <2>1, <2>2
  <1>8. ASSUME NEW k \in 1..OffsetCount
        PROVE  /\ program[Start(k)] = Blocks[k][1] /\ program[Start(k) + 1] = Blocks[k][2]
               /\ program[Start(k) + 2] = Blocks[k][3]
               /\ k # 1 => /\ program[Start(k) + 3] = Blocks[k][4]
                           /\ program[Start(k) + 4] = Blocks[k][5]
    <2>1. 1 \in 1..Size(k) /\ 2 \in 1..Size(k) /\ 3 \in 1..Size(k)
          /\ (k # 1 => 4 \in 1..Size(k) /\ 5 \in 1..Size(k))
      BY DEF Size
    <2>2. /\ program[Start(k) + (1 - 1)] = Blocks[k][1]
          /\ program[Start(k) + (2 - 1)] = Blocks[k][2]
          /\ program[Start(k) + (3 - 1)] = Blocks[k][3]
          /\ k # 1 => /\ program[Start(k) + (4 - 1)] = Blocks[k][4]
                      /\ program[Start(k) + (5 - 1)] = Blocks[k][5]
      BY <1>7, <2>1
    <2> QED
      BY <1>4, <2>2
  <1>9. ASSUME NEW j \in 0..4
        PROVE  program[e + j] = t[j + 1]
    BY <1>4, <1>5, e + j \in 1..e+4, ~(e + j <= e - 1), (e + j) - (e - 1) = j + 1
  <1>10. /\ program[e] = t[1] /\ program[e + 1] = t[2] /\ program[e + 2] = t[3]
         /\ program[e + 3] = t[4] /\ program[e + 4] = t[5]
    <2>1. /\ program[e + 0] = t[0 + 1] /\ program[e + 1] = t[1 + 1] /\ program[e + 2] = t[2 + 1]
          /\ program[e + 3] = t[3 + 1] /\ program[e + 4] = t[4 + 1]
      BY <1>9
    <2> QED
      BY <1>4, <2>1
  <1>11. Len(program) = e + 4 /\ DOMAIN program = 1..Len(program)
    BY <1>5, <1>6
  <1> QED
    BY <1>1, <1>8, <1>10, <1>11, BlockFacts DEF e

LEMMA StartFacts ==
    ASSUME NEW k \in 1..OffsetCount
    PROVE  /\ Start(k) \in Nat \ {0} /\ Start(k + 1) = Start(k) + Size(k)
           /\ Start(k) + Size(k) <= Start(OffsetCount + 1)
  BY OffsetsFacts DEF Start, Size

-----------------------------------------------------------------------------
(* One instruction                                                          *)

M(pc, a, x, memory, returned) ==
    [pc |-> pc, a |-> a, x |-> x, memory |-> memory, returned |-> returned]

LEMMA ExecuteFacts ==
    ASSUME NEW m \in Machine, m.returned = FALSE, NEW p, NEW n
    PROVE  /\ Execute(m, I("LoadWordAbsolute", n), p) =
                IF HasWord(p, n) THEN M(m.pc + 1, WordAt(p, n), m.x, m.memory, FALSE)
                ELSE M(m.pc, 0, m.x, m.memory, TRUE)
           /\ Execute(m, I("MultiplyK", n), p) =
                M(m.pc + 1, (m.a * n) % Modulus, m.x, m.memory, FALSE)
           /\ Execute(m, I("RightShiftK", n), p) =
                M(m.pc + 1, m.a \div n, m.x, m.memory, FALSE)
           /\ Execute(m, I("ModuloK", n), p) =
                M(m.pc + 1, m.a % n, m.x, m.memory, FALSE)
           /\ Execute(m, I("XorX", n), p) =
                M(m.pc + 1, ExclusiveOr(m.a, m.x), m.x, m.memory, FALSE)
           /\ Execute(m, I("LoadXMemory", n), p) =
                M(m.pc + 1, m.a, m.memory, m.memory, FALSE)
           /\ Execute(m, I("StoreA", n), p) =
                M(m.pc + 1, m.a, m.x, m.a, FALSE)
           /\ Execute(m, I("ReturnA", n), p) =
                M(m.pc, m.a, m.x, m.memory, TRUE)
  <1>1. m = M(m.pc, m.a, m.x, m.memory, FALSE)
    BY DEF Machine, M
  <1>2. Execute(m, I("LoadWordAbsolute", n), p) =
          IF HasWord(p, n) THEN M(m.pc + 1, WordAt(p, n), m.x, m.memory, FALSE)
          ELSE M(m.pc, 0, m.x, m.memory, TRUE)
    <2> DEFINE i == I("LoadWordAbsolute", n)
    <2>1. i.op = "LoadWordAbsolute" /\ i.k = n
      BY DEF I
    <2> HIDE DEF i
    <2>2. CASE HasWord(p, n)
      <3>1. Execute(m, i, p) = [[m EXCEPT !.pc = @ + 1] EXCEPT !.a = WordAt(p, n)]
        BY <2>1, <2>2 DEF Execute
      <3> QED
        BY <2>2, <3>1 DEF Machine, M, i
    <2>3. CASE ~HasWord(p, n)
      <3>1. Execute(m, i, p) = [m EXCEPT !.a = 0, !.returned = TRUE]
        BY <2>1, <2>3 DEF Execute
      <3> QED
        BY <2>3, <3>1 DEF Machine, M, i
    <2> QED
      BY <2>2, <2>3
  <1>3. Execute(m, I("MultiplyK", n), p) =
          M(m.pc + 1, (m.a * n) % Modulus, m.x, m.memory, FALSE)
    BY DEF Execute, I, Machine, M
  <1>4. Execute(m, I("RightShiftK", n), p) =
          M(m.pc + 1, m.a \div n, m.x, m.memory, FALSE)
    BY DEF Execute, I, Machine, M
  <1>5. Execute(m, I("ModuloK", n), p) =
          M(m.pc + 1, m.a % n, m.x, m.memory, FALSE)
    BY DEF Execute, I, Machine, M
  <1>6. Execute(m, I("XorX", n), p) =
          M(m.pc + 1, ExclusiveOr(m.a, m.x), m.x, m.memory, FALSE)
    BY DEF Execute, I, Machine, M
  <1>7. Execute(m, I("LoadXMemory", n), p) =
          M(m.pc + 1, m.a, m.memory, m.memory, FALSE)
    BY DEF Execute, I, Machine, M
  <1>8. Execute(m, I("StoreA", n), p) =
          M(m.pc + 1, m.a, m.x, m.a, FALSE)
    BY DEF Execute, I, Machine, M
  <1>9. Execute(m, I("ReturnA", n), p) = M(m.pc, m.a, m.x, m.memory, TRUE)
    BY DEF Execute, I, Machine, M
  <1> QED
    BY <1>2, <1>3, <1>4, <1>5, <1>6, <1>7, <1>8, <1>9

(* Where a step of the program leads.                                       *)
LEMMA ExecuteInv ==
    ASSUME NEW m \in Machine, NEW words \in Seq(Words), ~m.returned, Running(m, words),
           NEW i, i = program[m.pc], NEW n, n = Execute(m, i, words)
    PROVE  n \in Machine /\ (IF n.returned THEN Returned(n, words) ELSE Running(n, words))
  <1>1. n = Execute(m, i, words)
    OBVIOUS
  <1>2. m.pc \in Nat /\ m.a \in Words /\ m.x \in Words /\ m.memory \in Words /\ m.returned = FALSE
    BY DEF Machine
  <1>5. \A k \in 1..OffsetCount :
          /\ Readable(words, k) => WordAt(words, HashOffsets[k]) \in Words /\ MixedAt(words, k) \in Words
          /\ (\A l \in 1..k : Readable(words, l)) => HashAt(words, k) \in Words
    BY MixedWord, HashWord DEF Readable, MixedAt, HashAt
  <1>6. ASSUME NEW k \in 1..OffsetCount
        PROVE  HashAt(words, k) = IF k = 1 THEN MixedAt(words, k) ELSE ExclusiveOr(HashAt(words, k - 1), MixedAt(words, k))
    BY HashesUnfold DEF HashAt, MixedAt
  <1>7. ASSUME NEW k \in 1..OffsetCount, n \in Machine,
               n.pc = Start(k + 1), ~n.returned,
               n.a = HashAt(words, k), n.memory = HashAt(words, k), \A l \in 1..k : Readable(words, l)
        PROVE  Running(n, words)
    <2>1. CASE k = OffsetCount
      <3>1. AtEnd(n, words, 0)
        BY <1>7, <2>1, OffsetsFacts DEF AtEnd, Start
      <3> QED
        BY <3>1 DEF Running
    <2>2. CASE k # OffsetCount
      <3>1. k + 1 \in 1..OffsetCount /\ (k + 1) - 1 = k /\ 0 \in 0..(IF k + 1 = 1 THEN 2 ELSE 4)
        BY <2>2, OffsetsFacts
      <3>2. n.pc = Start(k + 1) + 0
        BY <1>7, <3>1 DEF Start
      <3>3. AtOffset(n, words, k + 1, 0)
        BY <1>7, <3>1, <3>2 DEF AtOffset
      <3> QED
        BY <3>1, <3>3 DEF Running
    <2> QED
      BY <2>1, <2>2
  <1>8. ASSUME NEW k \in 1..OffsetCount, NEW j \in 0..(IF k = 1 THEN 2 ELSE 4), AtOffset(m, words, k, j)
        PROVE  n \in Machine /\ (~n.returned => Running(n, words)) /\ (n.returned => Returned(n, words))
    <2>0. /\ m.pc = Start(k) + j /\ \A l \in 1..k-1 : Readable(words, l)
          /\ Start(k) \in Nat \ {0} /\ k \in Nat /\ Start(k + 1) = Start(k) + Size(k)
          /\ k > 1 => m.memory = HashAt(words, k - 1)
          /\ j > 0 => \A l \in 1..k : Readable(words, l)
          /\ k > 1 => k - 1 \in 1..OffsetCount
      <3>1. m.pc = Start(k) + j /\ (\A l \in 1..k-1 : Readable(words, l))
            /\ (k > 1 => m.memory = HashAt(words, k - 1)) /\ (j > 0 => Readable(words, k))
        BY <1>8 DEF AtOffset
      <3>2. k \in Nat \ {0} /\ OffsetCount \in Nat
        BY OffsetsFacts
      <3>3. j > 0 => \A l \in 1..k : Readable(words, l)
        <4> SUFFICES ASSUME j > 0, NEW l \in 1..k
                     PROVE  Readable(words, l)
          OBVIOUS
        <4> QED
          BY <3>1, <3>2, l \in 1..k-1 \/ l = k
      <3>4. k > 1 => k - 1 \in 1..OffsetCount
        BY <3>2
      <3> QED
        BY <3>1, <3>2, <3>3, <3>4, StartFacts
    <2>a. m.pc = Start(k) + j /\ Start(k) \in Nat
      BY <2>0
    <2>1. CASE j = 0
      <3>1. i = I("LoadWordAbsolute", HashOffsets[k])
        BY <2>0, <2>1, ProgramLayout
      <3>2. CASE Readable(words, k)
        <4>1. n = M(m.pc + 1, WordAt(words, HashOffsets[k]), m.x, m.memory, FALSE)
          BY <1>1, <1>2, <3>1, <3>2, ExecuteFacts DEF Readable
        <4>2. n \in Machine /\ ~n.returned /\ n.pc = Start(k) + 1
              /\ n.a = WordAt(words, HashOffsets[k]) /\ n.memory = m.memory
          BY <1>2, <1>5, <3>2, <4>1, <2>0, <2>1 DEF M, Machine
        <4>3. AtOffset(n, words, k, 1)
          BY <1>1, <2>0, <3>2, <4>2 DEF AtOffset
        <4> QED
          BY <4>2, <4>3 DEF Running
      <3>3. CASE ~Readable(words, k)
        <4>1. n = M(m.pc, 0, m.x, m.memory, TRUE)
          <5> DEFINE o == HashOffsets[k]
          <5>1. Execute(m, I("LoadWordAbsolute", o), words) =
                  IF HasWord(words, o) THEN M(m.pc + 1, WordAt(words, o), m.x, m.memory, FALSE)
                  ELSE M(m.pc, 0, m.x, m.memory, TRUE)
            <6> HIDE DEF o
            <6> QED
              BY <1>2, ExecuteFacts
          <5>2. ~HasWord(words, o)
            BY <3>3 DEF Readable
          <5> QED
            BY <1>1, <3>1, <5>1, <5>2
        <4>2. n \in Machine /\ n.returned /\ n.pc = Start(k) /\ n.a = 0
          BY <1>2, <4>1, <2>0, <2>1, WordFacts DEF M, Machine
        <4> QED
          BY <3>3, <4>2 DEF Returned
      <3> QED
        BY <3>2, <3>3
    <2>2. CASE j = 1
      <3>1. i = I("MultiplyK", Prime(k)) /\ m.a = WordAt(words, HashOffsets[k])
        BY <1>8, <2>0, <2>2, ProgramLayout DEF AtOffset
      <3>2. n = M(m.pc + 1, MixedAt(words, k), m.x, m.memory, FALSE)
        BY <1>1, <1>2, <3>1, ExecuteFacts DEF MixedAt, Mixed
      <3>3. Readable(words, k) /\ MixedAt(words, k) \in Words
        BY <1>5, <2>0, <2>2
      <3>4. n \in Machine /\ ~n.returned /\ n.pc = Start(k) + 2
            /\ n.a = MixedAt(words, k) /\ n.memory = m.memory
        BY <1>2, <3>2, <3>3, <2>0, <2>2 DEF M, Machine
      <3>5. AtOffset(n, words, k, 2)
        BY <1>1, <2>0, <3>3, <3>4 DEF AtOffset
      <3> QED
        BY <3>4, <3>5 DEF Running
    <2>3. CASE j = 2 /\ k = 1
      <3>1. i = I("StoreA", 0) /\ m.a = MixedAt(words, k)
        BY <1>8, <2>0, <2>3, ProgramLayout DEF AtOffset
      <3>2. n = M(m.pc + 1, m.a, m.x, m.a, FALSE)
        BY <1>1, <1>2, <3>1, ExecuteFacts
      <3>3. Start(k + 1) = Start(k) + 3 /\ m.a = HashAt(words, k)
        BY <1>6, <2>0, <2>3, <3>1 DEF Size
      <3>4. n \in Machine /\ ~n.returned /\ n.pc = Start(k + 1)
            /\ n.a = HashAt(words, k) /\ n.memory = HashAt(words, k)
        BY <1>2, <3>2, <3>3, <2>0, <2>3 DEF M, Machine
      <3> QED
        BY <1>7, <2>0, <2>3, <3>4
    <2>4. CASE j = 2 /\ k # 1
      <3>1. i = I("LoadXMemory", 0) /\ m.a = MixedAt(words, k) /\ m.memory = HashAt(words, k - 1)
        BY <1>8, <2>0, <2>4, ProgramLayout DEF AtOffset
      <3>2. n = M(m.pc + 1, m.a, m.memory, m.memory, FALSE)
        BY <1>1, <1>2, <3>1, ExecuteFacts
      <3>3. n \in Machine /\ ~n.returned /\ n.pc = Start(k) + 3
            /\ n.a = MixedAt(words, k) /\ n.x = HashAt(words, k - 1) /\ n.memory = HashAt(words, k - 1)
        BY ONLY <1>2, <3>1, <3>2, <2>a, <2>4 DEF M, Machine
      <3>4. AtOffset(n, words, k, 3)
        BY <2>0, <2>4, <3>3 DEF AtOffset
      <3> QED
        BY <2>4, <3>3, <3>4 DEF Running
    <2>5. CASE j = 3
      <3>0. k # 1
        BY <2>5
      <3>1. i = I("XorX", 0) /\ m.a = MixedAt(words, k) /\ m.x = HashAt(words, k - 1) /\ m.memory = HashAt(words, k - 1)
        BY <1>8, <2>0, <2>5, <3>0, ProgramLayout DEF AtOffset
      <3>2. n = M(m.pc + 1, ExclusiveOr(m.a, m.x), m.x, m.memory, FALSE)
        BY <1>1, <1>2, <3>1, ExecuteFacts
      <3>3. ExclusiveOr(m.a, m.x) = HashAt(words, k) /\ ExclusiveOr(m.a, m.x) \in Words
        <4>1. HashAt(words, k) = ExclusiveOr(HashAt(words, k - 1), MixedAt(words, k))
          BY <1>6, <3>0
        <4>2. ExclusiveOr(m.a, m.x) = ExclusiveOr(m.x, m.a) /\ ExclusiveOr(m.a, m.x) \in Words
          BY <1>2, WordFacts
        <4> QED
          BY <3>1, <4>1, <4>2
      <3>4. n \in Machine /\ ~n.returned /\ n.pc = Start(k) + 4
            /\ n.a = HashAt(words, k) /\ n.memory = HashAt(words, k - 1)
        BY ONLY <1>2, <3>1, <3>2, <3>3, <2>a, <2>5 DEF M, Machine
      <3>5. AtOffset(n, words, k, 4)
        BY <2>0, <2>5, <3>4 DEF AtOffset
      <3> QED
        BY <3>0, <3>4, <3>5 DEF Running
    <2>6. CASE j = 4
      <3>0. k # 1
        BY <2>6
      <3>1. i = I("StoreA", 0) /\ m.a = HashAt(words, k)
        BY <1>8, <2>0, <2>6, <3>0, ProgramLayout DEF AtOffset
      <3>2. n = M(m.pc + 1, m.a, m.x, m.a, FALSE)
        BY <1>1, <1>2, <3>1, ExecuteFacts
      <3>3. Start(k + 1) = Start(k) + 5
        BY <2>0, <3>0 DEF Size
      <3>4. n \in Machine /\ ~n.returned /\ n.pc = Start(k + 1)
            /\ n.a = HashAt(words, k) /\ n.memory = HashAt(words, k)
        BY ONLY <1>2, <3>1, <3>2, <3>3, <2>a, <2>6 DEF M, Machine
      <3> QED
        BY <1>7, <2>0, <2>6, <3>4
    <2> QED
      BY <2>1, <2>2, <2>3, <2>4, <2>5, <2>6
  <1>9. ASSUME NEW j \in 0..4, AtEnd(m, words, j)
        PROVE  n \in Machine /\ (~n.returned => Running(n, words)) /\ (n.returned => Returned(n, words))
    <2> DEFINE e == Start(OffsetCount + 1)
               h == HashAt(words, OffsetCount)
    <2>0. /\ m.pc = e + j /\ \A l \in 1..OffsetCount : Readable(words, l)
          /\ m.memory = h /\ e \in Nat \ {0}
      BY <1>9, OffsetsFacts DEF AtEnd, Start
    <2>1. h \in Words /\ h \div Half \in Words
      BY <1>5, <2>0, OffsetsFacts, HalfWord
    <2>a. m.pc = e + j /\ e \in Nat /\ m.memory = h
      BY <2>0
    <2> HIDE DEF e, h
    <2>2. CASE j = 0
      <3>1. i = I("RightShiftK", Half) /\ m.a = h
        BY <1>9, <2>0, <2>2, ProgramLayout DEF AtEnd, e, h
      <3>2. n = M(m.pc + 1, m.a \div Half, m.x, m.memory, FALSE)
        BY <1>1, <1>2, <3>1, ExecuteFacts
      <3>3. n \in Machine /\ ~n.returned /\ n.pc = e + 1 /\ n.a = h \div Half /\ n.memory = h
        BY ONLY <1>2, <2>a, <2>1, <2>2, <3>1, <3>2 DEF M, Machine
      <3>4. AtEnd(n, words, 1)
        BY <2>0, <3>3 DEF AtEnd, e, h
      <3> QED
        BY <3>3, <3>4 DEF Running
    <2>3. CASE j = 1
      <3>1. i = I("LoadXMemory", 0) /\ m.a = h \div Half
        BY <1>9, <2>0, <2>3, ProgramLayout DEF AtEnd, e, h
      <3>2. n = M(m.pc + 1, m.a, m.memory, m.memory, FALSE)
        BY <1>1, <1>2, <3>1, ExecuteFacts
      <3>3. n \in Machine /\ ~n.returned /\ n.pc = e + 2 /\ n.a = h \div Half
            /\ n.x = h /\ n.memory = h
        BY ONLY <1>2, <2>a, <2>1, <2>3, <3>1, <3>2 DEF M, Machine
      <3>4. AtEnd(n, words, 2)
        BY <2>0, <3>3 DEF AtEnd, e, h
      <3> QED
        BY <3>3, <3>4 DEF Running
    <2>4. CASE j = 2
      <3>1. i = I("XorX", 0) /\ m.a = h \div Half /\ m.x = h
        BY <1>9, <2>0, <2>4, ProgramLayout DEF AtEnd, e, h
      <3>2. n = M(m.pc + 1, ExclusiveOr(m.a, m.x), m.x, m.memory, FALSE)
        BY <1>1, <1>2, <3>1, ExecuteFacts
      <3>3. ExclusiveOr(m.a, m.x) = FinalHash(words) /\ ExclusiveOr(m.a, m.x) \in Words
        BY <2>1, <3>1, WordFacts DEF FinalHash, h
      <3>4. n \in Machine /\ ~n.returned /\ n.pc = e + 3 /\ n.a = FinalHash(words) /\ n.memory = h
        BY ONLY <1>2, <2>a, <2>4, <3>2, <3>3 DEF M, Machine
      <3>5. AtEnd(n, words, 3)
        BY <2>0, <3>4 DEF AtEnd, e, h
      <3> QED
        BY <3>4, <3>5 DEF Running
    <2>5. CASE j = 3
      <3>1. i = I("ModuloK", SocketCount) /\ m.a = FinalHash(words)
        BY <1>9, <2>0, <2>5, ProgramLayout DEF AtEnd, e, h
      <3>2. n = M(m.pc + 1, m.a % SocketCount, m.x, m.memory, FALSE)
        BY <1>1, <1>2, <3>1, ExecuteFacts
      <3>3. m.a % SocketCount \in Words
        <4>1. m.a \in Nat /\ SocketCount \in Nat \ {0}
          <5>1. SocketCount \in Nat \ {0}
            BY HashAssumption
          <5> QED
            BY <5>1, <1>2, WordFacts
        <4>2. m.a % SocketCount \in 0..m.a
          BY <4>1, Remainder
        <4> QED
          <5> DEFINE r == m.a % SocketCount
          <5>1. r \in Nat /\ r <= m.a
            BY <4>1, <4>2
          <5>2. m.a \in 0..Modulus-1 /\ Modulus \in Nat
            BY <1>2, HashAssumption DEF Words
          <5> HIDE DEF r
          <5>3. r \in 0..Modulus-1
            BY <5>1, <5>2
          <5> QED
            BY <5>3 DEF Words, r
      <3>4. n \in Machine /\ ~n.returned /\ n.pc = e + 4 /\ n.a = FinalHash(words) % SocketCount
            /\ n.memory = h
        BY ONLY <1>2, <2>a, <2>5, <3>1, <3>2, <3>3 DEF M, Machine
      <3>5. AtEnd(n, words, 4)
        BY <2>0, <3>4 DEF AtEnd, e, h
      <3> QED
        BY <3>4, <3>5 DEF Running
    <2>6. CASE j = 4
      <3>1. i = I("ReturnA", 0) /\ m.a = FinalHash(words) % SocketCount
        BY <1>9, <2>0, <2>6, ProgramLayout DEF AtEnd, e, h
      <3>2. n = M(m.pc, m.a, m.x, m.memory, TRUE)
        BY <1>1, <1>2, <3>1, ExecuteFacts
      <3>3. n \in Machine /\ n.returned /\ n.pc = e + 4 /\ n.a = FinalHash(words) % SocketCount
            /\ n.memory = h
        BY ONLY <1>2, <2>a, <2>6, <3>1, <3>2 DEF M, Machine
      <3>4. AtEnd(n, words, 4)
        BY <2>0, <3>3 DEF AtEnd, e, h
      <3> QED
        BY <3>3, <3>4 DEF Returned
    <2> QED
      BY <2>2, <2>3, <2>4, <2>5, <2>6
  <1> QED
    BY <1>8, <1>9 DEF Running

(* RunProgram                                                               *)
LEMMA RunProgramInv ==
    ProgramInv /\ RunProgram => ProgramInv'
  <1> SUFFICES ASSUME ProgramInv, RunProgram
               PROVE  ProgramInv'
    OBVIOUS
  <1> DEFINE n == Execute(kernel.machine, program[kernel.machine.pc], kernel.words)
  <1>1. /\ kernel.at = "run" /\ ~kernel.machine.returned /\ kernel.machine \in Machine
        /\ kernel.words \in Seq(Words) /\ Running(kernel.machine, kernel.words)
        /\ arrived < Len(Sent) /\ arrived' = arrived
        /\ kernel' = [kernel EXCEPT !.machine = n]
    BY DEF ProgramInv, RunProgram
  <1>2. n \in Machine /\ (IF n.returned THEN Returned(n, kernel.words) ELSE Running(n, kernel.words))
    BY <1>1, ExecuteInv
  <1> HIDE DEF n
  <1>3. kernel'.machine = n /\ kernel'.words = kernel.words /\ kernel'.at = "run"
    BY <1>1 DEF ProgramInv
  <1>4. kernel' \in [at : {"idle", "run"}, words : Seq(Words), machine : Machine]
    BY <1>1, <1>2 DEF ProgramInv
  <1> QED
    BY <1>1, <1>2, <1>3, <1>4 DEF ProgramInv

LEMMA FreshMachine ==
    Fresh \in Machine /\ ~Fresh.returned /\ \A words : Running(Fresh, words)
  <1>1. Fresh \in Machine /\ ~Fresh.returned /\ Fresh.pc = 1
    BY WordFacts DEF Fresh, Machine
  <1>2. ASSUME NEW words
        PROVE  AtOffset(Fresh, words, 1, 0)
    BY <1>1 DEF AtOffset, Start
  <1> QED
    BY <1>1, <1>2, OffsetsFacts DEF Running

LEMMA ProgramInit == Init => ProgramInv
  <1> SUFFICES ASSUME Init PROVE ProgramInv
    OBVIOUS
  <1>1. kernel = IdleKernel
    BY DEF Init
  <1>2. IdleKernel \in [at : {"idle", "run"}, words : Seq(Words), machine : Machine]
        /\ IdleKernel.at = "idle"
    BY FreshMachine DEF IdleKernel
  <1> QED
    BY <1>1, <1>2 DEF ProgramInv

(* Each of the kernel's steps, and the steps that leave it alone.           *)
LEMMA ProgramNext == ProgramInv /\ [Next]_vars => ProgramInv'
  <1> SUFFICES ASSUME ProgramInv, [Next]_vars
               PROVE  ProgramInv'
    OBVIOUS
  <1>1. CASE Arrive
    <2>1. PICK n \in 0..MaxWords : \E w \in [1..n -> Words] :
            kernel' = [at |-> "run", words |-> w, machine |-> Fresh]
      BY <1>1 DEF Arrive
    <2>2. PICK words \in [1..n -> Words] :
            kernel' = [at |-> "run", words |-> words, machine |-> Fresh]
      BY <2>1
    <2>3. words \in Seq(Words)
      <3>1. n \in Nat
        BY PathAssumption
      <3> QED
        BY <3>1, <2>2
    <2>4. arrived < Len(Sent) /\ arrived' = arrived
      BY <1>1 DEF Arrive
    <2>5. /\ kernel'.at = "run" /\ kernel'.words = words /\ kernel'.machine = Fresh
          /\ kernel' \in [at : {"idle", "run"}, words : Seq(Words), machine : Machine]
      BY <2>2, <2>3, FreshMachine
    <2> QED
      BY <2>4, <2>5, FreshMachine DEF ProgramInv
  <1>2. CASE RunProgram
    BY <1>2, RunProgramInv
  <1>3. CASE Queue
    <2>1. kernel' = IdleKernel
      BY <1>3 DEF Queue
    <2>2. IdleKernel \in [at : {"idle", "run"}, words : Seq(Words), machine : Machine]
          /\ IdleKernel.at = "idle"
      BY FreshMachine DEF IdleKernel
    <2> QED
      BY <2>1, <2>2 DEF ProgramInv
  <1>4. CASE UNCHANGED kernelVars
    BY <1>4 DEF ProgramInv, kernelVars
  <1>5. Arrive \/ RunProgram \/ Queue \/ UNCHANGED kernelVars
    <2>1. ASSUME NEW s \in Sockets,
                 \/ ReadBatch(s) \/ ReadFails(s) \/ SkipEmpty(s) \/ CopyDatagram(s)
                 \/ SendPacket(s) \/ StopSending(s)
          PROVE  UNCHANGED kernelVars
      BY <2>1 DEF ReadBatch, ReadFails, SkipEmpty, CopyDatagram, SendPacket, StopSending,
                  readerUnchanged
    <2>2. ASSUME NEW w \in Workers, TakePacket(w) \/ ParseRecord(w) \/ FinishPacket(w)
          PROVE  UNCHANGED kernelVars
      BY <2>2 DEF TakePacket, ParseRecord, FinishPacket, workerUnchanged
    <2>3. RequestStop => UNCHANGED kernelVars
      BY DEF RequestStop
    <2>4. UNCHANGED vars => UNCHANGED kernelVars
      BY DEF vars
    <2> QED
      BY <2>1, <2>2, <2>3, <2>4 DEF Next
  <1> QED
    BY <1>1, <1>2, <1>3, <1>4, <1>5

(* What the program returns.                                                *)
LEMMA FinalSocket ==
    ASSUME NEW words \in Seq(Words), \A i \in 1..OffsetCount : Readable(words, i)
    PROVE  FinalHash(words) % SocketCount \in 0..SocketCount-1
  <1>1. HashAt(words, OffsetCount) \in Words
    BY HashWord, OffsetsFacts DEF Readable, HashAt
  <1>2. FinalHash(words) \in Nat
    BY <1>1, HalfWord, WordFacts DEF FinalHash
  <1>3. SocketCount \in Nat \ {0}
    BY HashAssumption
  <1> DEFINE h == FinalHash(words)
  <1> HIDE DEF h
  <1>4. h \in Nat
    BY <1>2 DEF h
  <1>5. h % SocketCount \in 0..SocketCount-1
    BY <1>3, <1>4
  <1> QED
    BY <1>5 DEF h

LEMMA SelectorFacts ==
    ProgramInv => /\ SelectorMirrors
                  /\ kernel.at \in {"idle", "run"} /\ kernel.machine \in Machine
                  /\ kernel.machine.pc \in DOMAIN program
                  /\ kernel.at = "run" /\ kernel.machine.returned => kernel.machine.a \in Sockets
  <1> SUFFICES ASSUME ProgramInv
               PROVE  /\ SelectorMirrors
                      /\ kernel.at \in {"idle", "run"} /\ kernel.machine \in Machine
                      /\ kernel.machine.pc \in DOMAIN program
                      /\ kernel.at = "run" /\ kernel.machine.returned => kernel.machine.a \in Sockets
    OBVIOUS
  <1> DEFINE m == kernel.machine
             words == kernel.words
             e == Start(OffsetCount + 1)
  <1>1. kernel.at \in {"idle", "run"} /\ words \in Seq(Words) /\ m \in Machine
    BY DEF ProgramInv
  <1>2. kernel.at = "run" => IF m.returned THEN Returned(m, words) ELSE Running(m, words)
    BY DEF ProgramInv
  <1>3. kernel.at = "idle" => m.pc = 1
    BY DEF ProgramInv, IdleKernel, Fresh
  <1> HIDE DEF m, words
  <1>4. DOMAIN program = 1..e+4 /\ e \in Nat \ {0}
    BY ProgramLayout, OffsetsFacts DEF Start
  <1>5. m.pc \in DOMAIN program
    <2>1. ASSUME NEW k \in 1..OffsetCount, NEW j \in 0..(IF k = 1 THEN 2 ELSE 4), m.pc = Start(k) + j
          PROVE  m.pc \in 1..e+4
      <3>1. Start(k) \in Nat \ {0} /\ Start(k) + Size(k) <= e /\ j < Size(k) /\ j \in Nat
        BY StartFacts DEF Size
      <3> QED
        BY <1>4, <2>1, <3>1 DEF Size
    <2>2. ASSUME NEW j \in 0..4, m.pc = e + j
          PROVE  m.pc \in 1..e+4
      BY <1>4, <2>2
    <2>3. Running(m, words) => m.pc \in 1..e+4
      BY <2>1, <2>2 DEF Running, AtOffset, AtEnd
    <2>4. Returned(m, words) => m.pc \in 1..e+4
      <3>1. AtEnd(m, words, 4) => m.pc \in 1..e+4
        BY <2>2 DEF AtEnd
      <3>2. ASSUME NEW k \in 1..OffsetCount, m.pc = Start(k)
            PROVE  m.pc \in 1..e+4
        <4>1. Start(k) \in Nat \ {0} /\ Start(k) + Size(k) <= e /\ Size(k) \in Nat
          BY StartFacts DEF Size
        <4> QED
          BY <1>4, <3>2, <4>1
      <3> QED
        BY <3>1, <3>2 DEF Returned
    <2>5. kernel.at = "idle" => m.pc \in 1..e+4
      BY <1>3, <1>4
    <2> QED
      BY <1>1, <1>2, <1>4, <2>3, <2>4, <2>5
  <1>6. ASSUME kernel.at = "run", m.returned
        PROVE  /\ m.a \in Sockets
               /\ LET hash == reusePortPayloadHash(words, HashOffsets, SocketCount)
                  IN m.a = IF hash = HashError THEN 0 ELSE hash
    <2> DEFINE hash == reusePortPayloadHash(words, HashOffsets, SocketCount)
    <2>1. CASE AtEnd(m, words, 4)
      <3>1. \A i \in 1..OffsetCount : Readable(words, i)
        BY <2>1 DEF AtEnd
      <3>2. ~ \E i \in DOMAIN HashOffsets : ~HasWord(words, HashOffsets[i])
        BY <3>1, OffsetsFacts DEF Readable
      <3>3. hash = FinalHash(words) % SocketCount
        BY <3>2 DEF reusePortPayloadHash, FinalHash, HashAt, OffsetCount
      <3>4. m.a = hash
        BY <2>1, <3>3 DEF AtEnd
      <3>5. hash \in 0..SocketCount-1
        BY <1>1, <3>1, <3>3, FinalSocket
      <3> HIDE DEF hash
      <3>6. hash # HashError
        BY <3>5, HashAssumption DEF HashError
      <3> QED
        BY <3>4, <3>5, <3>6 DEF Sockets, hash
    <2>2. CASE m.a = 0 /\ \E k \in 1..OffsetCount : ~Readable(words, k)
      <3>1. \E i \in DOMAIN HashOffsets : ~HasWord(words, HashOffsets[i])
        BY <2>2, OffsetsFacts DEF Readable
      <3>2. hash = HashError
        BY <3>1 DEF reusePortPayloadHash
      <3> QED
        BY <2>2, <3>2, HashAssumption DEF Sockets
    <2> QED
      BY <1>2, <1>6, <2>1, <2>2 DEF Returned
  <1> QED
    BY <1>1, <1>5, <1>6 DEF SelectorMirrors, m, words

(* The BPF program and the function that is said to mirror it choose the    *)
(* same socket: for words of any width, any offsets and any payload         *)
(* (reuseport_hash.go:63).                                                  *)
THEOREM SelectorsAgree == Spec => []SelectorMirrors
  <1>1. Init => ProgramInv
    BY ProgramInit
  <1>2. ProgramInv /\ [Next]_vars => ProgramInv'
    BY ProgramNext
  <1>3. ProgramInv => SelectorMirrors
    BY SelectorFacts
  <1> QED
    BY <1>1, <1>2, <1>3, PTL DEF Spec

-----------------------------------------------------------------------------
(* Datagrams and their records                                              *)

LEMMA Sizes ==
    /\ HeaderSize \in Nat \ {0} /\ RecordSize \in Nat \ {0} /\ LegacySize \in Nat \ {0}
    /\ SmallSize \in Nat \ {0} /\ LargeSize \in Nat \ {0}
    /\ BatchSize \in Nat \ {0} /\ QueueSize \in Nat \ {0}
    /\ MaxBuffers \in Nat /\ FirstRead \in Nat
    /\ HeaderSize < LegacySize /\ LegacySize < HeaderSize + RecordSize /\ SmallSize < LargeSize
    /\ Len(Sent) \in Nat /\ NoDatagram \notin Datagrams
    /\ \A d \in Datagrams : Length(d) \in Nat /\ Format[d].records \in Nat
  BY PathAssumption DEF Length

LEMMA WholeRecords ==
    ASSUME NEW n \in Nat, NEW r \in Nat \ {0}
    PROVE  (n * r) % r = 0 /\ (n * r) \div r = n
  OBVIOUS

LEMMA LongerRecords ==
    ASSUME NEW k \in Nat, NEW n \in Nat, k < n, NEW r \in Nat \ {0}
    PROVE  k * r + r <= n * r /\ k * r \in Nat /\ n * r \in Nat /\ (k + 1) * r = k * r + r
  OBVIOUS

(* The parser finds the records of a datagram, and reads inside of it.      *)
LEMMA ParserReads ==
    ASSUME NEW d \in Datagrams
    PROVE  /\ Records(Length(d)) = Format[d].records
           /\ \A k \in Nat : k < Format[d].records =>
                1 \in BytesRead(Length(d), k) /\ BytesRead(Length(d), k) \subseteq 1..Length(d)
  <1> DEFINE n == Format[d].records
             length == Length(d)
  <1>1. CASE Format[d].kind = "multi"
    <2>1. n \in Nat \ {0} /\ length = HeaderSize + n * RecordSize
      BY <1>1, Sizes, PathAssumption
    <2>2. n * RecordSize \in Nat /\ RecordSize <= n * RecordSize
      <3>1. 0 * RecordSize + RecordSize <= n * RecordSize /\ n * RecordSize \in Nat /\ 0 * RecordSize = 0
        BY <2>1, Sizes, LongerRecords
      <3> QED
        BY <3>1, Sizes
    <2>3. (n * RecordSize) % RecordSize = 0 /\ (n * RecordSize) \div RecordSize = n
      BY <2>1, Sizes, WholeRecords
    <2> DEFINE p == n * RecordSize
    <2> HIDE DEF n, length, p
    <2>4. length = HeaderSize + p /\ p \in Nat /\ RecordSize <= p /\ p % RecordSize = 0
          /\ p \div RecordSize = n
      BY <2>1, <2>2, <2>3 DEF p
    <2>5. length - HeaderSize = p /\ length >= HeaderSize + RecordSize
      BY <2>4, Sizes
    <2>6. MultiRecord(length) /\ Records(length) = n
      BY <2>4, <2>5 DEF MultiRecord, Records
    <2>7. ASSUME NEW k \in Nat, k < n
          PROVE  1 \in BytesRead(length, k) /\ BytesRead(length, k) \subseteq 1..length
      <3> DEFINE q == k * RecordSize
      <3>1. q + RecordSize <= p /\ q \in Nat /\ (k + 1) * RecordSize = q + RecordSize
        BY <2>1, <2>7, Sizes, LongerRecords DEF p
      <3>2. BytesRead(length, k) = 1..HeaderSize \cup (HeaderSize + q + 1)..(HeaderSize + (k + 1) * RecordSize)
        BY <2>6 DEF BytesRead
      <3> HIDE DEF q
      <3>3. BytesRead(length, k) = 1..HeaderSize \cup (HeaderSize + q + 1)..(HeaderSize + (q + RecordSize))
        BY <3>1, <3>2
      <3>4. 1 \in 1..HeaderSize /\ 1..HeaderSize \subseteq 1..length
        BY <2>4, Sizes
      <3>5. (HeaderSize + q + 1)..(HeaderSize + (q + RecordSize)) \subseteq 1..length
        BY <2>4, <3>1, Sizes
      <3> QED
        BY <3>3, <3>4, <3>5
    <2> QED
      BY <2>6, <2>7 DEF n, length
  <1>2. CASE Format[d].kind = "legacy"
    <2>1. /\ n = 1 /\ length >= LegacySize
          /\ length < HeaderSize + RecordSize \/ (length - HeaderSize) % RecordSize # 0
      BY <1>2, PathAssumption
    <2>2. ~MultiRecord(length)
      BY <2>1, Sizes DEF MultiRecord
    <2>3. Records(length) = 1
      BY <2>1, <2>2, Sizes DEF Records
    <2>4. \A k : BytesRead(length, k) = 1..LegacySize
      BY <2>2 DEF BytesRead
    <2>5. 1 \in 1..LegacySize /\ 1..LegacySize \subseteq 1..length
      BY <2>1, Sizes
    <2> QED
      BY <2>1, <2>3, <2>4, <2>5
  <1>3. CASE Format[d].kind \notin {"multi", "legacy"}
    <2>1. n = 0 /\ length \in 0..LegacySize-1
      BY <1>3, PathAssumption
    <2>2. ~MultiRecord(length) /\ ~(length >= LegacySize)
      BY <2>1, Sizes DEF MultiRecord
    <2>3. Records(length) = 0
      BY <2>2 DEF Records
    <2> QED
      BY <2>1, <2>3
  <1> QED
    BY <1>1, <1>2, <1>3

-----------------------------------------------------------------------------
(* Sequences                                                                *)

LEMMA AppendFacts ==
    ASSUME NEW S, NEW q \in Seq(S), NEW e \in S
    PROVE  /\ Append(q, e) \in Seq(S) /\ Len(Append(q, e)) = Len(q) + 1
           /\ Range(Append(q, e)) = Range(q) \cup {e}
           /\ NoRepeat(q) /\ e \notin Range(q) => NoRepeat(Append(q, e))
  <1>1. /\ Append(q, e) \in Seq(S) /\ Len(Append(q, e)) = Len(q) + 1
        /\ DOMAIN Append(q, e) = 1..Len(q)+1 /\ DOMAIN q = 1..Len(q) /\ Len(q) \in Nat
        /\ \A k \in 1..Len(q) : Append(q, e)[k] = q[k]
        /\ Append(q, e)[Len(q) + 1] = e
    OBVIOUS
  <1> DEFINE r == Append(q, e)
  <1> HIDE DEF r
  <1>0. \A k \in DOMAIN r : (k \in DOMAIN q /\ r[k] = q[k]) \/ (k = Len(q) + 1 /\ r[k] = e)
    <2>1. \A n \in Nat : \A k \in 1..n+1 : k \in 1..n \/ k = n + 1
      OBVIOUS
    <2> QED
      BY <1>1, <2>1 DEF r
  <1>2. Range(r) = Range(q) \cup {e}
    <2>2. \A k \in DOMAIN q : k \in DOMAIN r /\ r[k] = q[k]
      BY <1>1 DEF r
    <2>3. Len(q) + 1 \in DOMAIN r /\ r[Len(q) + 1] = e
      BY <1>1 DEF r
    <2> QED
      BY <1>0, <2>2, <2>3 DEF Range
  <1>3. NoRepeat(q) /\ e \notin Range(q) => NoRepeat(r)
    BY <1>0 DEF NoRepeat, Range
  <1> QED
    BY <1>1, <1>2, <1>3 DEF r

LEMMA TailFacts ==
    ASSUME NEW S, NEW q \in Seq(S), q # <<>>
    PROVE  /\ Tail(q) \in Seq(S) /\ Len(Tail(q)) = Len(q) - 1 /\ Len(q) \in Nat \ {0}
           /\ Head(q) \in S /\ Head(q) \in Range(q) /\ Range(Tail(q)) \subseteq Range(q)
           /\ NoRepeat(q) => NoRepeat(Tail(q)) /\ Head(q) \notin Range(Tail(q))
  <1>1. /\ Tail(q) \in Seq(S) /\ Len(Tail(q)) = Len(q) - 1 /\ Len(q) \in Nat \ {0}
        /\ Head(q) = q[1] /\ Head(q) \in S
        /\ DOMAIN q = 1..Len(q) /\ DOMAIN Tail(q) = 1..Len(q)-1
        /\ \A k \in 1..Len(q)-1 : Tail(q)[k] = q[k + 1]
    OBVIOUS
  <1> DEFINE r == Tail(q)
  <1> HIDE DEF r
  <1>2. \A k \in DOMAIN r : k + 1 \in DOMAIN q /\ r[k] = q[k + 1] /\ k + 1 # 1
    BY <1>1 DEF r
  <1>3. 1 \in DOMAIN q
    BY <1>1
  <1>4. \A i, j \in DOMAIN r : i + 1 = j + 1 => i = j
    BY <1>1 DEF r
  <1>5. Range(r) \subseteq Range(q) /\ Head(q) \in Range(q)
    BY <1>1, <1>2, <1>3 DEF Range
  <1>6. NoRepeat(q) => NoRepeat(r)
    BY <1>2, <1>4 DEF NoRepeat
  <1>7. NoRepeat(q) => Head(q) \notin Range(r)
    BY <1>1, <1>2, <1>3 DEF NoRepeat, Range
  <1> QED
    BY <1>1, <1>5, <1>6, <1>7 DEF r

(* The first n elements of a sequence and the rest.                         *)
LEMMA SplitFacts ==
    ASSUME NEW S, NEW q \in Seq(S), NEW n \in 1..Len(q)
    PROVE  LET r == SubSeq(q, 1, n)
               t == SubSeq(q, n + 1, Len(q))
           IN /\ r \in Seq(S) /\ t \in Seq(S) /\ Len(r) = n
              /\ Range(r) \cup Range(t) \subseteq Range(q)
              /\ NoRepeat(q) => NoRepeat(r) /\ NoRepeat(t) /\ Range(r) \cap Range(t) = {}
  <1> DEFINE r == SubSeq(q, 1, n)
             t == SubSeq(q, n + 1, Len(q))
  <1>1. /\ Len(q) \in Nat /\ DOMAIN q = 1..Len(q) /\ n \in Nat
        /\ r \in Seq(S) /\ t \in Seq(S) /\ Len(r) = n /\ Len(t) = Len(q) - n
        /\ \A k \in 1..n : r[k] = q[k]
        /\ \A k \in 1..Len(q)-n : t[k] = q[k + n]
    OBVIOUS
  <1> HIDE DEF r, t
  <1>2. \A k \in DOMAIN r : k \in DOMAIN q /\ r[k] = q[k] /\ k <= n
    BY <1>1
  <1>3. \A k \in DOMAIN t : k + n \in DOMAIN q /\ t[k] = q[k + n] /\ k + n > n /\ k \in Nat
    BY <1>1
  <1>4. Range(r) \cup Range(t) \subseteq Range(q)
    BY <1>2, <1>3 DEF Range
  <1>5. NoRepeat(q) => NoRepeat(r)
    BY <1>2 DEF NoRepeat
  <1>6. NoRepeat(q) => NoRepeat(t)
    <2> SUFFICES ASSUME NoRepeat(q), NEW i \in DOMAIN t, NEW j \in DOMAIN t, t[i] = t[j]
                 PROVE  i = j
      BY DEF NoRepeat
    <2>1. i + n = j + n
      BY <1>3 DEF NoRepeat
    <2> QED
      BY <1>1, <1>3, <2>1
  <1>7. NoRepeat(q) => Range(r) \cap Range(t) = {}
    <2> SUFFICES ASSUME NoRepeat(q), NEW i \in DOMAIN r, NEW j \in DOMAIN t, r[i] = t[j]
                 PROVE  FALSE
      BY DEF Range
    <2>1. i = j + n /\ i <= n /\ j + n > n
      BY <1>2, <1>3 DEF NoRepeat
    <2> QED
      BY <1>1, <1>3, <2>1
  <1> QED
    BY <1>1, <1>4, <1>5, <1>6, <1>7 DEF r, t

(* The buffers and the datagrams of a sequence of packets.                  *)
LEMMA PacketFields ==
    ASSUME NEW q \in Seq(Packets)
    PROVE  /\ BuffersIn(q) \in Seq(0..MaxBuffers)
           /\ DatagramsIn(q) \in Seq(Datagrams \cup {NoDatagram})
           /\ \A p \in Packets :
                /\ BuffersIn(Append(q, p)) = Append(BuffersIn(q), p.buffer)
                /\ DatagramsIn(Append(q, p)) = Append(DatagramsIn(q), p.of)
           /\ q # <<>> =>
                /\ BuffersIn(Tail(q)) = Tail(BuffersIn(q)) /\ BuffersIn(q) # <<>>
                /\ DatagramsIn(Tail(q)) = Tail(DatagramsIn(q)) /\ DatagramsIn(q) # <<>>
                /\ Head(BuffersIn(q)) = Head(q).buffer /\ Head(DatagramsIn(q)) = Head(q).of
  <1>1. Len(q) \in Nat /\ DOMAIN q = 1..Len(q) /\ \A k \in 1..Len(q) : q[k] \in Packets
    OBVIOUS
  <1>2. \A p \in Packets : p.buffer \in 0..MaxBuffers /\ p.of \in Datagrams \cup {NoDatagram}
    BY DEF Packets
  <1>3. /\ BuffersIn(q) \in Seq(0..MaxBuffers) /\ Len(BuffersIn(q)) = Len(q)
        /\ \A k \in 1..Len(q) : BuffersIn(q)[k] = q[k].buffer
    BY <1>1, <1>2 DEF BuffersIn
  <1>4. /\ DatagramsIn(q) \in Seq(Datagrams \cup {NoDatagram}) /\ Len(DatagramsIn(q)) = Len(q)
        /\ \A k \in 1..Len(q) : DatagramsIn(q)[k] = q[k].of
    BY <1>1, <1>2 DEF DatagramsIn
  <1>5. ASSUME NEW p \in Packets
        PROVE  /\ BuffersIn(Append(q, p)) = Append(BuffersIn(q), p.buffer)
               /\ DatagramsIn(Append(q, p)) = Append(DatagramsIn(q), p.of)
    <2> DEFINE r == Append(q, p)
    <2>1. r \in Seq(Packets) /\ Len(r) = Len(q) + 1 /\ DOMAIN r = 1..Len(q)+1
          /\ (\A k \in 1..Len(q) : r[k] = q[k]) /\ r[Len(q) + 1] = p
      OBVIOUS
    <2> HIDE DEF r
    <2>2. BuffersIn(r) = Append(BuffersIn(q), p.buffer)
      <3> DEFINE t == Append(BuffersIn(q), p.buffer)
      <3>1. t \in Seq(0..MaxBuffers) /\ Len(t) = Len(q) + 1
            /\ (\A k \in 1..Len(q) : t[k] = q[k].buffer) /\ t[Len(q) + 1] = p.buffer
        BY <1>2, <1>3
      <3>2. BuffersIn(r) \in Seq(0..MaxBuffers) /\ Len(BuffersIn(r)) = Len(q) + 1
            /\ \A k \in 1..Len(q)+1 : BuffersIn(r)[k] = r[k].buffer
        BY <1>1, <1>2, <2>1 DEF BuffersIn
      <3> HIDE DEF t
      <3>3. \A k \in 1..Len(BuffersIn(r)) : BuffersIn(r)[k] = t[k]
        BY <1>1, <2>1, <3>1, <3>2
      <3>4. BuffersIn(r) = t
        BY <3>1, <3>2, <3>3, SeqEqual
      <3> QED
        BY <3>4 DEF t
    <2>3. DatagramsIn(r) = Append(DatagramsIn(q), p.of)
      <3> DEFINE t == Append(DatagramsIn(q), p.of)
                 T == Datagrams \cup {NoDatagram}
      <3>1. t \in Seq(T) /\ Len(t) = Len(q) + 1
            /\ (\A k \in 1..Len(q) : t[k] = q[k].of) /\ t[Len(q) + 1] = p.of
        BY <1>2, <1>4
      <3>2. DatagramsIn(r) \in Seq(T) /\ Len(DatagramsIn(r)) = Len(q) + 1
            /\ \A k \in 1..Len(q)+1 : DatagramsIn(r)[k] = r[k].of
        BY <1>1, <1>2, <2>1 DEF DatagramsIn
      <3> HIDE DEF t, T
      <3>3. \A k \in 1..Len(DatagramsIn(r)) : DatagramsIn(r)[k] = t[k]
        BY <1>1, <2>1, <3>1, <3>2
      <3>4. DatagramsIn(r) = t
        BY <3>1, <3>2, <3>3, SeqEqual
      <3> QED
        BY <3>4 DEF t
    <2> QED
      BY <2>2, <2>3 DEF r
  <1>6. ASSUME q # <<>>
        PROVE  /\ BuffersIn(Tail(q)) = Tail(BuffersIn(q)) /\ BuffersIn(q) # <<>>
               /\ DatagramsIn(Tail(q)) = Tail(DatagramsIn(q)) /\ DatagramsIn(q) # <<>>
               /\ Head(BuffersIn(q)) = Head(q).buffer /\ Head(DatagramsIn(q)) = Head(q).of
    <2> DEFINE r == Tail(q)
    <2>1. r \in Seq(Packets) /\ Len(r) = Len(q) - 1 /\ Len(q) \in Nat \ {0}
          /\ (\A k \in 1..Len(q)-1 : r[k] = q[k + 1]) /\ Head(q) = q[1]
      BY <1>6
    <2> HIDE DEF r
    <2>2. /\ BuffersIn(q) # <<>> /\ Head(BuffersIn(q)) = Head(q).buffer
          /\ DatagramsIn(q) # <<>> /\ Head(DatagramsIn(q)) = Head(q).of
      BY <1>3, <1>4, <2>1
    <2>3. BuffersIn(r) = Tail(BuffersIn(q))
      <3> DEFINE t == Tail(BuffersIn(q))
      <3>1. t \in Seq(0..MaxBuffers) /\ Len(t) = Len(q) - 1
            /\ (\A k \in 1..Len(q)-1 : t[k] = q[k + 1].buffer)
        BY <1>3, <2>1, <2>2
      <3>2. BuffersIn(r) \in Seq(0..MaxBuffers) /\ Len(BuffersIn(r)) = Len(q) - 1
            /\ \A k \in 1..Len(q)-1 : BuffersIn(r)[k] = r[k].buffer
        <4>1. \A k \in DOMAIN r : r[k].buffer \in 0..MaxBuffers
          BY <1>2, <2>1
        <4>2. DOMAIN r = 1..Len(q)-1 /\ Len(q) - 1 \in Nat
          BY <2>1
        <4>3. BuffersIn(r) = [k \in 1..Len(q)-1 |-> r[k].buffer]
          BY <4>2 DEF BuffersIn
        <4>4. BuffersIn(r) \in [1..Len(q)-1 -> 0..MaxBuffers]
          BY <4>1, <4>2, <4>3
        <4> QED
          BY <4>2, <4>3, <4>4
      <3> HIDE DEF t
      <3>3. \A k \in 1..Len(BuffersIn(r)) : BuffersIn(r)[k] = t[k]
        BY <2>1, <3>1, <3>2
      <3>4. BuffersIn(r) = t
        BY <3>1, <3>2, <3>3, SeqEqual
      <3> QED
        BY <3>4 DEF t
    <2>4. DatagramsIn(r) = Tail(DatagramsIn(q))
      <3> DEFINE t == Tail(DatagramsIn(q))
                 T == Datagrams \cup {NoDatagram}
      <3>1. t \in Seq(T) /\ Len(t) = Len(q) - 1
            /\ (\A k \in 1..Len(q)-1 : t[k] = q[k + 1].of)
        BY <1>4, <2>1, <2>2
      <3>2. DatagramsIn(r) \in Seq(T) /\ Len(DatagramsIn(r)) = Len(q) - 1
            /\ \A k \in 1..Len(q)-1 : DatagramsIn(r)[k] = r[k].of
        BY <1>2, <2>1 DEF DatagramsIn
      <3> HIDE DEF t, T
      <3>3. \A k \in 1..Len(DatagramsIn(r)) : DatagramsIn(r)[k] = t[k]
        BY <2>1, <3>1, <3>2
      <3>4. DatagramsIn(r) = t
        BY <3>1, <3>2, <3>3, SeqEqual
      <3> QED
        BY <3>4 DEF t
    <2> QED
      BY <2>2, <2>3, <2>4 DEF r
  <1> QED
    BY <1>3, <1>4, <1>5, <1>6

-----------------------------------------------------------------------------
(* Places and what they hold                                                *)

(* What each place of buffers holds.                                        *)
LEMMA BufferChart ==
    ASSUME NEW r, NEW q, NEW v, NEW p
    PROVE  LET f == Buffers(r, q, v, p)
           IN /\ \A s \in Sockets : f[InReader(s)] = {r[s].buffer} \ {NoBuffer}
              /\ \A w \in Workers : f[InWorker(w)] = {v[w].packet.buffer} \ {NoBuffer}
              /\ f[InChannel] = Range(BuffersIn(q)) /\ f[InPool] = p
  BY DEF Buffers, BufferHolders, InReader, InWorker, InChannel, InPool

LEMMA BufferPlaces ==
    /\ \A h \in BufferHolders :
         \/ \E s \in Sockets : h = InReader(s)
         \/ \E w \in Workers : h = InWorker(w)
         \/ h = InChannel \/ h = InPool
    /\ \A s \in Sockets : InReader(s) \in BufferHolders
    /\ \A w \in Workers : InWorker(w) \in BufferHolders
    /\ InChannel \in BufferHolders /\ InPool \in BufferHolders
  BY DEF BufferHolders

(* What each place of datagrams holds.                                      *)
LEMMA PlaceChart ==
    ASSUME NEW n, NEW k, NEW r, NEW q, NEW v, NEW p
    PROVE  LET f == Places(n, k, r, q, v, p)
           IN /\ \A s \in Sockets : f[InSocket(s)] = Range(k[s])
              /\ \A s \in Sockets : f[InReader(s)] = Range(r[s].slots)
              /\ \A w \in Workers : f[InWorker(w)] = {v[w].packet.of} \ {NoDatagram}
              /\ f[OnWire] = {Sent[j] : j \in n+1..Len(Sent)}
              /\ f[InChannel] = Range(DatagramsIn(q)) /\ f[InParsed] = p
  BY DEF Places, DatagramHolders, Waiting, InSocket, InReader, InWorker, InChannel, InParsed, OnWire

LEMMA DatagramPlaces ==
    /\ \A h \in Waiting :
         \/ \E s \in Sockets : h = InSocket(s)
         \/ \E s \in Sockets : h = InReader(s)
         \/ h = InChannel \/ h = OnWire
    /\ \A h \in DatagramHolders :
         \/ h \in Waiting
         \/ \E w \in Workers : h = InWorker(w)
         \/ h = InParsed
    /\ \A s \in Sockets : InSocket(s) \in Waiting /\ InReader(s) \in Waiting
    /\ \A w \in Workers : InWorker(w) \in DatagramHolders
    /\ InChannel \in Waiting /\ OnWire \in Waiting /\ InParsed \in DatagramHolders
    /\ Waiting \subseteq DatagramHolders
  BY DEF DatagramHolders, Waiting

LEMMA PlacesDiffer ==
    /\ \A s, t : InReader(s) = InReader(t) => s = t
    /\ \A s, t : InSocket(s) = InSocket(t) => s = t
    /\ \A s, t : InWorker(s) = InWorker(t) => s = t
    /\ \A s, t : /\ InReader(s) # InWorker(t) /\ InReader(s) # InSocket(t)
                 /\ InSocket(s) # InWorker(t)
    /\ \A s : /\ InReader(s) \notin {InChannel, InPool, OnWire, InParsed}
              /\ InWorker(s) \notin {InChannel, InPool, OnWire, InParsed}
              /\ InSocket(s) \notin {InChannel, InPool, OnWire, InParsed}
    /\ InChannel \notin {InPool, OnWire, InParsed} /\ OnWire # InParsed
  BY DEF InReader, InWorker, InSocket, InChannel, InPool, OnWire, InParsed

(* What moves between two places stays in one, and so does what is new to   *)
(* all the others.                                                          *)
LEMMA Admitted ==
    ASSUME NEW holders, NEW f, NEW g, NEW a \in holders, NEW b \in holders, NEW fresh,
           OwnedByOne(holders, f),
           \A h \in holders : h # a /\ h # b => g[h] \subseteq f[h] /\ f[h] \cap fresh = {},
           g[a] \subseteq f[a] \cup f[b] \cup fresh,
           g[b] \subseteq f[a] \cup f[b] \cup fresh,
           a # b => g[a] \cap g[b] = {}
    PROVE  OwnedByOne(holders, g)
  <1> SUFFICES ASSUME NEW h \in holders, NEW i \in holders, h # i, NEW x \in g[h] \cap g[i]
               PROVE  FALSE
    BY DEF OwnedByOne
  <1>1. \A j, k \in holders : j # k => f[j] \cap f[k] = {}
    BY DEF OwnedByOne
  <1>2. CASE h \in {a, b} /\ i \in {a, b}
    BY <1>2
  <1>3. CASE h \in {a, b} /\ i \notin {a, b}
    <2>1. x \in f[i] /\ x \notin fresh
      BY <1>3
    <2>2. x \in f[a] \cup f[b]
      BY <1>3, <2>1
    <2> QED
      BY <1>1, <1>3, <2>1, <2>2
  <1>4. CASE h \notin {a, b} /\ i \in {a, b}
    <2>1. x \in f[h] /\ x \notin fresh
      BY <1>4
    <2>2. x \in f[a] \cup f[b]
      BY <1>4, <2>1
    <2> QED
      BY <1>1, <1>4, <2>1, <2>2
  <1>5. CASE h \notin {a, b} /\ i \notin {a, b}
    BY <1>1, <1>5
  <1> QED
    BY <1>2, <1>3, <1>4, <1>5

LEMMA Moved ==
    ASSUME NEW holders, NEW f, NEW g, NEW a \in holders, NEW b \in holders,
           OwnedByOne(holders, f),
           \A h \in holders : h # a /\ h # b => g[h] \subseteq f[h],
           g[a] \subseteq f[a] \cup f[b],
           g[b] \subseteq f[a] \cup f[b],
           g[a] \cap g[b] = {}
    PROVE  OwnedByOne(holders, g)
  <1> SUFFICES ASSUME NEW h \in holders, NEW i \in holders, h # i, NEW x \in g[h] \cap g[i]
               PROVE  FALSE
    BY DEF OwnedByOne
  <1>1. \A j, k \in holders : j # k => f[j] \cap f[k] = {}
    BY DEF OwnedByOne
  <1>2. CASE h \in {a, b} /\ i \in {a, b}
    BY <1>2
  <1>3. CASE h \in {a, b} /\ i \notin {a, b}
    <2>1. x \in f[i]
      BY <1>3
    <2>2. x \in f[a] \cup f[b]
      BY <1>3, <2>1
    <2> QED
      BY <1>1, <1>3, <2>1, <2>2
  <1>4. CASE h \notin {a, b} /\ i \in {a, b}
    <2>1. x \in f[h]
      BY <1>4
    <2>2. x \in f[a] \cup f[b]
      BY <1>4, <2>1
    <2> QED
      BY <1>1, <1>4, <2>1, <2>2
  <1>5. CASE h \notin {a, b} /\ i \notin {a, b}
    BY <1>1, <1>5
  <1> QED
    BY <1>2, <1>3, <1>4, <1>5

LEMMA Kept ==
    ASSUME NEW holders, NEW f, NEW g, OwnedByOne(holders, f),
           \A h \in holders : g[h] \subseteq f[h]
    PROVE  OwnedByOne(holders, g)
  BY DEF OwnedByOne

(* The buffers in use are buffers that were made, and none is the number    *)
(* that stands for no buffer.                                               *)
LEMMA BuffersMade ==
    ShapeInv =>
      /\ heap \in Seq(Seq(Cells)) /\ Len(heap) \in Nat /\ DOMAIN heap = 1..Len(heap)
      /\ Len(heap) <= MaxBuffers
      /\ \A b \in DOMAIN heap : heap[b] \in Seq(Cells) /\ Len(heap[b]) \in Nat
      /\ \A h \in BufferHolders : Buffers(reader, channel, worker, pool)[h] \subseteq DOMAIN heap
  <1> SUFFICES ASSUME ShapeInv
               PROVE  /\ heap \in Seq(Seq(Cells)) /\ Len(heap) \in Nat /\ DOMAIN heap = 1..Len(heap)
                      /\ Len(heap) <= MaxBuffers
                      /\ \A b \in DOMAIN heap : heap[b] \in Seq(Cells) /\ Len(heap[b]) \in Nat
                      /\ \A h \in BufferHolders :
                           Buffers(reader, channel, worker, pool)[h] \subseteq DOMAIN heap
    OBVIOUS
  <1>1. /\ heap \in Seq(Seq(Cells)) /\ Len(heap) \in Nat /\ DOMAIN heap = 1..Len(heap)
        /\ Len(heap) <= MaxBuffers
    BY DEF ShapeInv, HeapShape, PathTypes
  <1>2. \A b \in DOMAIN heap : heap[b] \in Seq(Cells) /\ Len(heap[b]) \in Nat
    <2> SUFFICES ASSUME NEW b \in 1..Len(heap) PROVE heap[b] \in Seq(Cells) /\ Len(heap[b]) \in Nat
      BY <1>1
    <2>1. heap[b] \in Seq(Cells)
      BY <1>1
    <2> QED
      BY <2>1
  <1> DEFINE f == Buffers(reader, channel, worker, pool)
  <1>3. /\ \A s \in Sockets : f[InReader(s)] = {reader[s].buffer} \ {NoBuffer}
        /\ \A w \in Workers : f[InWorker(w)] = {worker[w].packet.buffer} \ {NoBuffer}
        /\ f[InChannel] = Range(BuffersIn(channel)) /\ f[InPool] = pool
    BY BufferChart
  <1> HIDE DEF f
  <1>4. \A s \in Sockets : f[InReader(s)] \subseteq DOMAIN heap
    BY <1>3 DEF ShapeInv, ReaderShape, Filled
  <1>5. \A w \in Workers : f[InWorker(w)] \subseteq DOMAIN heap
    BY <1>3 DEF ShapeInv, WorkerShape, Sound, Filled, IdleWorker, NoPacket
  <1>6. f[InChannel] \subseteq DOMAIN heap
    BY <1>3 DEF ShapeInv, ChannelShape, Sound, Filled, BuffersIn, Range
  <1>7. f[InPool] \subseteq DOMAIN heap
    BY <1>3 DEF ShapeInv, PathTypes
  <1>8. \A h \in BufferHolders : f[h] \subseteq DOMAIN heap
    BY <1>4, <1>5, <1>6, <1>7, BufferPlaces
  <1> QED
    BY <1>1, <1>2, <1>8 DEF f

-----------------------------------------------------------------------------
(* Copying a datagram to a buffer                                           *)

LEMMA CopyFacts ==
    ASSUME NEW d \in Datagrams, NEW cells \in Seq(Cells), Length(d) <= Len(cells)
    PROVE  /\ Copy(cells, d) \in Seq(Cells) /\ Len(Copy(cells, d)) = Len(cells)
           /\ \A j \in 1..Length(d) : Copy(cells, d)[j] = d
  <1>1. Len(cells) \in Nat /\ DOMAIN cells = 1..Len(cells) /\ \A k \in 1..Len(cells) : cells[k] \in Cells
    OBVIOUS
  <1>2. d \in Cells /\ Length(d) \in Nat
    BY Sizes DEF Cells
  <1>3. Copy(cells, d) = [k \in 1..Len(cells) |-> IF k <= Length(d) THEN d ELSE cells[k]]
    BY <1>1 DEF Copy
  <1>4. Copy(cells, d) \in [1..Len(cells) -> Cells]
    BY <1>1, <1>2, <1>3
  <1>5. Copy(cells, d) \in Seq(Cells) /\ Len(Copy(cells, d)) = Len(cells)
    BY <1>1, <1>4
  <1>6. \A j \in 1..Length(d) : Copy(cells, d)[j] = d
    BY <1>1, <1>2, <1>3
  <1> QED
    BY <1>5, <1>6

(* The buffer that is given: no one else's, and it holds the datagram.      *)
Given(s, d, b) ==
    /\ b \in 1..MaxBuffers
    /\ reader' = [reader EXCEPT ![s].at = "send", ![s].buffer = b]
    /\ heap' \in Seq(Seq(Cells)) /\ Len(heap) <= Len(heap') /\ Len(heap') <= MaxBuffers
    /\ Filled(heap', b, d)
    /\ \A c \in DOMAIN heap : Len(heap'[c]) = Len(heap[c]) /\ (c # b => heap'[c] = heap[c])
    /\ pool' \subseteq pool /\ b \notin pool'
    /\ \A h \in BufferHolders :
         h # InPool => b \notin Buffers(reader, channel, worker, pool)[h]

LEMMA BufferGiven ==
    ASSUME ShapeInv, OwnerInv, NEW s \in Sockets, NEW d \in Datagrams, acquirePacketBuffer(s, d)
    PROVE  \E b : Given(s, d, b)
  <1> DEFINE capacity == Capacity(Length(d))
             f == Buffers(reader, channel, worker, pool)
  <1>1. Length(d) \in Nat /\ capacity \in Nat /\ Length(d) <= capacity
    BY Sizes DEF Capacity
  <1>2. /\ heap \in Seq(Seq(Cells)) /\ Len(heap) \in Nat /\ DOMAIN heap = 1..Len(heap)
        /\ Len(heap) <= MaxBuffers
        /\ \A b \in DOMAIN heap : heap[b] \in Seq(Cells) /\ Len(heap[b]) \in Nat
        /\ \A h \in BufferHolders : f[h] \subseteq DOMAIN heap
    BY BuffersMade
  <1>3. f[InPool] = pool
    BY BufferChart
  <1>4. OwnedByOne(BufferHolders, f)
    BY DEF OwnerInv
  <1>5. acquirePacketBuffer(s, d) =>
          \/ \E b \in pool :
               /\ Len(heap[b]) = capacity /\ pool' = pool \ {b}
               /\ heap' = [heap EXCEPT ![b] = Copy(@, d)]
               /\ reader' = [reader EXCEPT ![s].at = "send", ![s].buffer = b]
          \/ /\ Len(heap) < MaxBuffers
             /\ heap' = Append(heap, Copy([k \in 1..capacity |-> NoDatagram], d))
             /\ reader' = [reader EXCEPT ![s].at = "send", ![s].buffer = Len(heap) + 1]
             /\ pool' = pool
    BY DEF acquirePacketBuffer
  <1> HIDE DEF capacity, f
  <1>6. ASSUME NEW b \in pool, Len(heap[b]) = capacity, pool' = pool \ {b},
               heap' = [heap EXCEPT ![b] = Copy(@, d)],
               reader' = [reader EXCEPT ![s].at = "send", ![s].buffer = b]
        PROVE  Given(s, d, b)
    <2>1. b \in DOMAIN heap /\ b \in 1..MaxBuffers /\ heap[b] \in Seq(Cells)
      BY <1>2, <1>3, BufferPlaces, Sizes
    <2>2. /\ Copy(heap[b], d) \in Seq(Cells) /\ Len(Copy(heap[b], d)) = Len(heap[b])
          /\ \A j \in 1..Length(d) : Copy(heap[b], d)[j] = d
      BY <1>1, <1>6, <2>1, CopyFacts
    <2>3. /\ heap' \in Seq(Seq(Cells)) /\ Len(heap') = Len(heap) /\ DOMAIN heap' = DOMAIN heap
          /\ heap'[b] = Copy(heap[b], d) /\ \A c \in DOMAIN heap : c # b => heap'[c] = heap[c]
      <3> DEFINE cells == Copy(heap[b], d)
      <3> HIDE DEF cells
      <3>1. heap' = [heap EXCEPT ![b] = cells] /\ cells \in Seq(Cells)
        BY <1>6, <2>2 DEF cells
      <3>2. /\ heap' \in Seq(Seq(Cells)) /\ Len(heap') = Len(heap)
            /\ \A c \in 1..Len(heap) : heap'[c] = IF c = b THEN cells ELSE heap[c]
        BY <1>2, <2>1, <3>1, ExceptSeq
      <3>3. DOMAIN heap' = DOMAIN heap
        BY <3>1
      <3> QED
        BY <1>2, <2>1, <3>2, <3>3 DEF cells
    <2>4. Filled(heap', b, d)
      BY <1>1, <1>6, <2>1, <2>2, <2>3 DEF Filled
    <2>5. \A c \in DOMAIN heap : Len(heap'[c]) = Len(heap[c]) /\ (c # b => heap'[c] = heap[c])
      BY <2>2, <2>3
    <2>6. \A h \in BufferHolders : h # InPool => b \notin f[h]
      BY <1>3, <1>4, BufferPlaces DEF OwnedByOne
    <2> QED
      BY <1>2, <1>6, <2>1, <2>3, <2>4, <2>5, <2>6 DEF Given, f
  <1>7. ASSUME Len(heap) < MaxBuffers, pool' = pool,
               heap' = Append(heap, Copy([k \in 1..capacity |-> NoDatagram], d)),
               reader' = [reader EXCEPT ![s].at = "send", ![s].buffer = Len(heap) + 1]
        PROVE  Given(s, d, Len(heap) + 1)
    <2> DEFINE b == Len(heap) + 1
               blank == [k \in 1..capacity |-> NoDatagram]
               cells == Copy(blank, d)
    <2>1. blank \in Seq(Cells) /\ Len(blank) = capacity
      BY <1>1 DEF Cells
    <2>2. cells \in Seq(Cells) /\ Len(cells) = capacity /\ \A j \in 1..Length(d) : cells[j] = d
      <3> HIDE DEF blank
      <3> QED
        BY <1>1, <2>1, CopyFacts
    <2>3. heap' = Append(heap, cells)
      BY <1>7
    <2> HIDE DEF blank, cells
    <2>4. /\ heap' \in Seq(Seq(Cells)) /\ Len(heap') = b /\ DOMAIN heap' = 1..b
          /\ heap'[b] = cells /\ \A c \in 1..Len(heap) : heap'[c] = heap[c]
      BY <1>2, <2>2, <2>3
    <2>5. b \in 1..MaxBuffers /\ b \in DOMAIN heap' /\ b \notin DOMAIN heap
      BY <1>2, <1>7, <2>4, Sizes
    <2>6. Filled(heap', b, d)
      BY <1>1, <2>2, <2>4, <2>5 DEF Filled
    <2>7. \A h \in BufferHolders : b \notin f[h]
      BY <1>2, <2>5
    <2>8. b \notin pool'
      BY <1>3, <1>7, <2>7, BufferPlaces
    <2>9. /\ Len(heap) <= Len(heap') /\ Len(heap') <= MaxBuffers
      BY <1>2, <1>7, <2>4, Sizes
    <2> QED
      BY <1>2, <1>7, <2>4, <2>5, <2>6, <2>7, <2>8, <2>9 DEF Given, f
  <1> QED
    BY <1>5, <1>6, <1>7

(* What stays filled: a buffer that is not the one given.                   *)
LEMMA StaysFilled ==
    ASSUME ShapeInv, NEW s, NEW d, NEW b, Given(s, d, b), NEW c, NEW e, Filled(heap, c, e), c # b
    PROVE  Filled(heap', c, e)
  <1>1. Len(heap) \in Nat /\ DOMAIN heap = 1..Len(heap)
    BY BuffersMade
  <1>2. DOMAIN heap' = 1..Len(heap') /\ Len(heap') \in Nat /\ Len(heap) <= Len(heap')
    BY DEF Given
  <1>3. DOMAIN heap \subseteq DOMAIN heap'
    BY <1>1, <1>2
  <1> QED
    BY <1>3 DEF Given, Filled

-----------------------------------------------------------------------------
(* The first state, and the steps of the kernel and of the stop             *)

LEMMA EmptySequence ==
    NoRepeat(<<>>) /\ Range(<<>>) = {} /\ BuffersIn(<<>>) = <<>> /\ DatagramsIn(<<>>) = <<>>
    /\ \A S : <<>> \in Seq(S)
  BY DEF NoRepeat, Range, BuffersIn, DatagramsIn

LEMMA PathInit == Init => PathInv
  <1> SUFFICES ASSUME Init PROVE PathInv
    OBVIOUS
  <1>1. /\ arrived = 0 /\ heap = <<>> /\ pool = {} /\ channel = <<>> /\ stopped = FALSE
        /\ socket = [s \in Sockets |-> <<>>] /\ reader = [s \in Sockets |-> IdleReader]
        /\ worker = [w \in Workers |-> IdleWorker] /\ parsed = {}
        /\ rows = [D \in SUBSET Cells |-> 0]
    BY DEF Init, Cells
  <1>2. IdleReader \in Receiver /\ IdleReader.at = "read" /\ IdleReader.slots = <<>>
        /\ IdleReader.buffer = NoBuffer /\ Len(<<>>) = 0
    BY DEF IdleReader, Receiver, NoBuffer
  <1>3. IdleWorker \in [at : {"idle", "parse"}, packet : Packets, record : Nat]
        /\ IdleWorker.at = "idle" /\ IdleWorker.packet.buffer = NoBuffer
        /\ IdleWorker.packet.of = NoDatagram
    BY Sizes DEF IdleWorker, NoPacket, Packets, NoBuffer
  <1>4. ShapeInv
    <2>1. PathTypes
      <3>1. arrived \in 0..Len(Sent) /\ Len(heap) <= MaxBuffers /\ Len(channel) <= QueueSize
        BY <1>1, <1>2, Sizes
      <3>2. socket \in [Sockets -> Seq(Datagrams)] /\ channel \in Seq(Packets)
        BY <1>1, EmptySequence
      <3>3. \A s \in Sockets : Len(reader[s].slots) <= BatchSize
        BY <1>1, <1>2, Sizes
      <3>4. worker \in [Workers -> [at : {"idle", "parse"}, packet : Packets, record : Nat]]
        BY <1>1, <1>3
      <3> QED
        BY <1>1, <3>1, <3>2, <3>3, <3>4 DEF PathTypes
    <2>2. HeapShape
      BY <1>1 DEF HeapShape
    <2>3. ReaderShape
      BY <1>1, <1>2 DEF ReaderShape
    <2>4. ChannelShape
      BY <1>1 DEF ChannelShape
    <2>5. WorkerShape
      BY <1>1 DEF WorkerShape
    <2> QED
      BY <2>1, <2>2, <2>3, <2>4, <2>5 DEF ShapeInv
  <1>5. OwnerInv
    <2> DEFINE f == Buffers(reader, channel, worker, pool)
    <2>1. /\ \A s \in Sockets : f[InReader(s)] = {reader[s].buffer} \ {NoBuffer}
          /\ \A w \in Workers : f[InWorker(w)] = {worker[w].packet.buffer} \ {NoBuffer}
          /\ f[InChannel] = Range(BuffersIn(channel)) /\ f[InPool] = pool
      BY BufferChart
    <2> HIDE DEF f
    <2>2. \A h \in BufferHolders : f[h] = {}
      BY <1>1, <1>2, <1>3, <2>1, BufferPlaces, EmptySequence
    <2>3. OwnedByOne(BufferHolders, f)
      BY <2>2 DEF OwnedByOne
    <2> QED
      BY <1>1, <2>3, EmptySequence DEF OwnerInv, f
  <1> DEFINE f == Places(arrived, socket, reader, channel, worker, parsed)
  <1>6. /\ \A s \in Sockets : f[InSocket(s)] = {} /\ f[InReader(s)] = {}
        /\ \A w \in Workers : f[InWorker(w)] = {}
        /\ f[OnWire] = {Sent[j] : j \in 1..Len(Sent)}
        /\ f[InChannel] = {} /\ f[InParsed] = {}
    <2>1. /\ \A s \in Sockets : f[InSocket(s)] = Range(socket[s])
          /\ \A s \in Sockets : f[InReader(s)] = Range(reader[s].slots)
          /\ \A w \in Workers : f[InWorker(w)] = {worker[w].packet.of} \ {NoDatagram}
          /\ f[OnWire] = {Sent[j] : j \in arrived+1..Len(Sent)}
          /\ f[InChannel] = Range(DatagramsIn(channel)) /\ f[InParsed] = parsed
      BY PlaceChart
    <2> HIDE DEF f
    <2> QED
      BY <1>1, <1>2, <1>3, <2>1, EmptySequence
  <1>7. PlaceInv
    <2> HIDE DEF f
    <2>1. OwnedByOne(DatagramHolders, f)
      <3>1. \A h \in DatagramHolders : h # OnWire => f[h] = {}
        BY <1>6, DatagramPlaces
      <3> QED
        BY <3>1 DEF OwnedByOne
    <2>2. \A s \in Sockets : NoRepeat(socket[s]) /\ NoRepeat(reader[s].slots)
      BY <1>1, <1>2, EmptySequence
    <2>3. NoRepeat(DatagramsIn(channel))
      BY <1>1, EmptySequence
    <2> QED
      BY <2>1, <2>2, <2>3 DEF PlaceInv, f
  <1>8. RowInv
    <2> HIDE DEF f
    <2>1. rows \in [SUBSET Cells -> Nat] /\ \A D \in SUBSET Cells : rows[D] = 0
      BY <1>1
    <2>2. \A d \in Datagrams : {d} \in SUBSET Cells
      BY DEF Cells
    <2>3. RowsOfOneDatagram
      BY <1>1, <2>1 DEF RowsOfOneDatagram
    <2>4. \A d \in Datagrams : rows[{d}] <= Format[d].records
      BY <2>1, <2>2, Sizes
    <2>5. \A w \in Workers : worker[w].at # "parse"
      BY <1>1, <1>3
    <2>6. \A h \in Waiting : f[h] \subseteq Datagrams
      <3>1. \A j \in 1..Len(Sent) : Sent[j] \in Datagrams
        BY PathAssumption
      <3> QED
        BY <1>6, <3>1, DatagramPlaces
    <2>7. \A h \in Waiting : \A d \in f[h] : rows[{d}] = 0
      BY <2>1, <2>2, <2>6
    <2> QED
      BY <1>1, <2>1, <2>3, <2>4, <2>5, <2>7 DEF RowInv, f
  <1> QED
    BY <1>4, <1>5, <1>7, <1>8 DEF PathInv

(* Steps that change nothing of the path but whether it is stopped.         *)
LEMMA PathKept ==
    ASSUME PathInv,
           UNCHANGED <<arrived, socket, reader, heap, pool, channel, worker, rows, parsed>>,
           stopped' \in BOOLEAN
    PROVE  PathInv'
  <1>1. ShapeInv'
    <2>1. PathTypes' /\ HeapShape' /\ ReaderShape'
      BY DEF PathInv, ShapeInv, PathTypes, HeapShape, ReaderShape
    <2>2. ChannelShape' /\ WorkerShape'
      BY DEF PathInv, ShapeInv, ChannelShape, WorkerShape
    <2> QED
      BY <2>1, <2>2 DEF ShapeInv
  <1>2. OwnerInv' /\ PlaceInv'
    BY DEF PathInv, OwnerInv, PlaceInv
  <1>3. RowInv'
    BY DEF PathInv, RowInv, RowsOfOneDatagram
  <1> QED
    BY <1>1, <1>2, <1>3 DEF PathInv

LEMMA QueueKeeps ==
    ASSUME ProgramInv, PathInv, Queue
    PROVE  PathInv'
  <1> DEFINE t == kernel.machine.a
             e == Sent[arrived + 1]
             f == Places(arrived, socket, reader, channel, worker, parsed)
             g == Places(arrived', socket', reader', channel', worker', parsed')
  <1>1. t \in Sockets
    BY SelectorFacts DEF Queue
  <1>2. arrived \in Nat /\ arrived < Len(Sent) /\ arrived' = arrived + 1
    BY Sizes DEF Queue, PathInv, ShapeInv, PathTypes, ProgramInv
  <1>3. /\ socket \in [Sockets -> Seq(Datagrams)]
        /\ socket' = [socket EXCEPT ![t] = Append(@, e)]
        /\ UNCHANGED <<reader, heap, pool, channel, worker, stopped, rows, parsed>>
    BY DEF Queue, PathInv, ShapeInv, PathTypes, pipelineVars
  <1>4. /\ \A s \in Sockets : f[InSocket(s)] = Range(socket[s]) /\ f[InReader(s)] = Range(reader[s].slots)
        /\ \A w \in Workers : f[InWorker(w)] = {worker[w].packet.of} \ {NoDatagram}
        /\ f[OnWire] = {Sent[j] : j \in arrived+1..Len(Sent)}
        /\ f[InChannel] = Range(DatagramsIn(channel)) /\ f[InParsed] = parsed
    BY PlaceChart
  <1>5. /\ \A s \in Sockets : g[InSocket(s)] = Range(socket'[s]) /\ g[InReader(s)] = Range(reader'[s].slots)
        /\ \A w \in Workers : g[InWorker(w)] = {worker'[w].packet.of} \ {NoDatagram}
        /\ g[OnWire] = {Sent[j] : j \in arrived'+1..Len(Sent)}
        /\ g[InChannel] = Range(DatagramsIn(channel')) /\ g[InParsed] = parsed'
    BY PlaceChart
  <1>6. OwnedByOne(DatagramHolders, f) /\ NoRepeat(socket[t])
    BY <1>1 DEF PathInv, PlaceInv
  <1>7. e \in Datagrams /\ \A j \in arrived+2..Len(Sent) : Sent[j] # e
    <2>1. \A j, k \in DOMAIN Sent : Sent[j] = Sent[k] => j = k
      BY PathAssumption DEF IsInjective
    <2>2. DOMAIN Sent = 1..Len(Sent)
      BY PathAssumption
    <2>3. arrived + 1 \in DOMAIN Sent
      BY <1>2, <2>2, Sizes
    <2>4. ASSUME NEW j \in arrived+2..Len(Sent) PROVE j \in DOMAIN Sent /\ j # arrived + 1
      BY <1>2, <2>2, Sizes
    <2> QED
      BY <2>1, <2>3, <2>4 DEF Datagrams
  <1> HIDE DEF f, g, t, e
  <1>8. /\ f[OnWire] = g[OnWire] \cup {e} /\ e \notin g[OnWire]
    <2>1. \A j : j \in arrived+1..Len(Sent) <=> (j = arrived + 1 \/ j \in arrived+2..Len(Sent))
      BY <1>2, Sizes
    <2>2. arrived' + 1 = arrived + 2
      BY <1>2
    <2>3. g[OnWire] = {Sent[j] : j \in arrived+2..Len(Sent)}
      BY <1>5, <2>2
    <2> QED
      BY <1>4, <1>7, <2>1, <2>3 DEF e
  <1>9. e \notin Range(socket[t])
    BY <1>1, <1>4, <1>6, <1>8, DatagramPlaces, PlacesDiffer DEF OwnedByOne
  <1>10. /\ socket' \in [Sockets -> Seq(Datagrams)]
         /\ Range(socket'[t]) = Range(socket[t]) \cup {e} /\ NoRepeat(socket'[t])
         /\ \A s \in Sockets : s # t => socket'[s] = socket[s]
    <2>1. /\ Append(socket[t], e) \in Seq(Datagrams)
          /\ Range(Append(socket[t], e)) = Range(socket[t]) \cup {e} /\ NoRepeat(Append(socket[t], e))
      BY <1>1, <1>3, <1>6, <1>7, <1>9, AppendFacts
    <2> QED
      BY <1>1, <1>3, <2>1
  <1>11. /\ g[InSocket(t)] = f[InSocket(t)] \cup {e}
         /\ \A h \in DatagramHolders : h # OnWire /\ h # InSocket(t) => g[h] = f[h]
    <2>1. g[InSocket(t)] = f[InSocket(t)] \cup {e}
      BY <1>1, <1>4, <1>5, <1>10
    <2>2. ASSUME NEW s \in Sockets, InSocket(s) # InSocket(t) PROVE g[InSocket(s)] = f[InSocket(s)]
      BY <1>4, <1>5, <1>10, <2>2
    <2>3. \A s \in Sockets : g[InReader(s)] = f[InReader(s)]
      BY <1>3, <1>4, <1>5
    <2>4. \A w \in Workers : g[InWorker(w)] = f[InWorker(w)]
      BY <1>3, <1>4, <1>5
    <2>5. g[InChannel] = f[InChannel] /\ g[InParsed] = f[InParsed]
      BY <1>3, <1>4, <1>5
    <2> QED
      BY <2>1, <2>2, <2>3, <2>4, <2>5, DatagramPlaces
  <1>12. OwnedByOne(DatagramHolders, g)
    <2>1. OnWire \in DatagramHolders /\ InSocket(t) \in DatagramHolders /\ OnWire # InSocket(t)
      BY <1>1, DatagramPlaces, PlacesDiffer
    <2>2. f[OnWire] \cap f[InSocket(t)] = {}
      BY <1>6, <2>1 DEF OwnedByOne
    <2>3. g[OnWire] \cap g[InSocket(t)] = {}
      BY <1>8, <1>11, <2>2
    <2>4. \A h \in DatagramHolders :
            h # OnWire /\ h # InSocket(t) => g[h] \subseteq f[h]
      BY <1>11
    <2>5. /\ g[OnWire] \subseteq f[OnWire] \cup f[InSocket(t)]
          /\ g[InSocket(t)] \subseteq f[OnWire] \cup f[InSocket(t)]
      BY <1>8, <1>11
    <2> QED
      BY <1>6, <2>1, <2>3, <2>4, <2>5, Moved
  <1>13. ShapeInv'
    <2>1. PathTypes'
      BY <1>2, <1>3, <1>10, Sizes DEF PathInv, ShapeInv, PathTypes
    <2>2. HeapShape' /\ ReaderShape'
      BY <1>3 DEF PathInv, ShapeInv, HeapShape, ReaderShape
    <2>3. ChannelShape' /\ WorkerShape'
      BY <1>3 DEF PathInv, ShapeInv, ChannelShape, WorkerShape
    <2> QED
      BY <2>1, <2>2, <2>3 DEF ShapeInv
  <1>14. OwnerInv'
    BY <1>3 DEF PathInv, OwnerInv
  <1>15. PlaceInv'
    <2>1. \A s \in Sockets : NoRepeat(socket'[s]) /\ NoRepeat(reader'[s].slots)
      BY <1>3, <1>10 DEF PathInv, PlaceInv
    <2>2. NoRepeat(DatagramsIn(channel'))
      BY <1>3 DEF PathInv, PlaceInv
    <2> QED
      BY <1>12, <2>1, <2>2 DEF PlaceInv, g
  <1>16. RowInv'
    <2>1. \A h \in Waiting : \A d \in f[h] : rows[{d}] = 0
      BY DEF PathInv, RowInv, f
    <2>2. \A h \in Waiting : \A d \in g[h] : rows'[{d}] = 0
      <3>1. rows[{e}] = 0
        BY <1>8, <2>1, DatagramPlaces
      <3>2. \A h \in Waiting : g[h] \subseteq f[h] \cup {e}
        BY <1>8, <1>11, DatagramPlaces
      <3> QED
        BY <1>3, <2>1, <3>1, <3>2
    <2>3. /\ rows' \in [SUBSET Cells -> Nat] /\ RowsOfOneDatagram'
          /\ \A d \in Datagrams : rows'[{d}] <= Format[d].records
          /\ \A d \in parsed' : rows'[{d}] = Format[d].records
          /\ \A w \in Workers : worker'[w].at = "parse" =>
               rows'[{worker'[w].packet.of}] = worker'[w].record
      BY <1>3 DEF PathInv, RowInv, RowsOfOneDatagram
    <2> QED
      BY <2>2, <2>3 DEF RowInv, g
  <1> QED
    BY <1>13, <1>14, <1>15, <1>16 DEF PathInv

-----------------------------------------------------------------------------
(* The steps of a receiver                                                  *)

(* A receiver with nothing to send takes from its socket, or drops, some of *)
(* its datagrams, and gives a buffer it has to the pool or drops it.        *)
LEMMA ReceiverKeeps ==
    ASSUME PathInv, NEW s \in Sockets,
           NEW r \in Receiver, reader' = [reader EXCEPT ![s] = r],
           r.at # "send", r.buffer = NoBuffer, Len(r.slots) <= BatchSize, NoRepeat(r.slots),
           NEW q \in Seq(Datagrams), socket' = [socket EXCEPT ![s] = q], NoRepeat(q),
           Range(q) \subseteq Range(socket[s]) \cup Range(reader[s].slots),
           Range(r.slots) \subseteq Range(socket[s]) \cup Range(reader[s].slots),
           Range(q) \cap Range(r.slots) = {},
           pool' \subseteq pool \cup ({reader[s].buffer} \ {NoBuffer}),
           \A b \in pool' : b \in DOMAIN heap /\ Len(heap[b]) \in {SmallSize, LargeSize},
           UNCHANGED <<arrived, heap, channel, worker, stopped, rows, parsed>>
    PROVE  PathInv'
  <1> USE DEF PathInv
  <1>1. reader \in [Sockets -> Receiver] /\ socket \in [Sockets -> Seq(Datagrams)]
    BY DEF ShapeInv, ReaderShape, PathTypes
  <1>2. /\ reader' \in [Sockets -> Receiver] /\ reader'[s] = r
        /\ \A t \in Sockets : t # s => reader'[t] = reader[t]
    BY <1>1
  <1>3. /\ socket' \in [Sockets -> Seq(Datagrams)] /\ socket'[s] = q
        /\ \A t \in Sockets : t # s => socket'[t] = socket[t]
    BY <1>1
  <1>4. ShapeInv'
    <2>1. PathTypes'
      <3>1. \A t \in Sockets : Len(reader'[t].slots) <= BatchSize
        BY <1>2 DEF ShapeInv, PathTypes
      <3> QED
        BY <1>3, <3>1 DEF ShapeInv, PathTypes
    <2>2. HeapShape'
      BY DEF ShapeInv, HeapShape
    <2>3. ReaderShape'
      <3>1. ASSUME NEW t \in Sockets
            PROVE  IF reader'[t].at = "send"
                   THEN reader'[t].slots # <<>> /\ Filled(heap, reader'[t].buffer, Head(reader'[t].slots))
                   ELSE reader'[t].buffer = NoBuffer
        BY <1>2 DEF ShapeInv, ReaderShape
      <3> QED
        BY <1>2, <3>1 DEF ReaderShape
    <2>4. ChannelShape' /\ WorkerShape'
      BY DEF ShapeInv, ChannelShape, WorkerShape
    <2> QED
      BY <2>1, <2>2, <2>3, <2>4 DEF ShapeInv
  <1>5. OwnerInv'
    <2> DEFINE f == Buffers(reader, channel, worker, pool)
               g == Buffers(reader', channel', worker', pool')
    <2>1. /\ \A t \in Sockets : f[InReader(t)] = {reader[t].buffer} \ {NoBuffer}
          /\ \A w \in Workers : f[InWorker(w)] = {worker[w].packet.buffer} \ {NoBuffer}
          /\ f[InChannel] = Range(BuffersIn(channel)) /\ f[InPool] = pool
      BY ONLY BufferChart
    <2>2. /\ \A t \in Sockets : g[InReader(t)] = {reader'[t].buffer} \ {NoBuffer}
          /\ \A w \in Workers : g[InWorker(w)] = {worker'[w].packet.buffer} \ {NoBuffer}
          /\ g[InChannel] = Range(BuffersIn(channel')) /\ g[InPool] = pool'
      BY ONLY BufferChart
    <2>3. OwnedByOne(BufferHolders, f) /\ NoRepeat(BuffersIn(channel'))
      BY DEF OwnerInv
    <2> HIDE DEF f, g
    <2>4. g[InReader(s)] = {} /\ g[InPool] \subseteq f[InPool] \cup f[InReader(s)]
      BY <1>2, <2>1, <2>2
    <2>5. \A h \in BufferHolders : h # InReader(s) /\ h # InPool => g[h] \subseteq f[h]
      <3>1. ASSUME NEW t \in Sockets, t # s
            PROVE  g[InReader(t)] = f[InReader(t)]
        <4>1. reader'[t].buffer = reader[t].buffer
          BY ONLY <1>2, <3>1
        <4> QED
          BY ONLY <2>1, <2>2, <4>1
      <3>2. \A w \in Workers : g[InWorker(w)] = f[InWorker(w)]
        BY <2>1, <2>2
      <3>3. g[InChannel] = f[InChannel]
        BY <2>1, <2>2
      <3> QED
        BY <3>1, <3>2, <3>3, BufferPlaces
    <2>6. /\ g[InReader(s)] \subseteq f[InReader(s)] \cup f[InPool]
          /\ g[InPool] \subseteq f[InReader(s)] \cup f[InPool]
          /\ g[InReader(s)] \cap g[InPool] = {}
          /\ InReader(s) \in BufferHolders /\ InPool \in BufferHolders
      BY <2>4, BufferPlaces
    <2>7. OwnedByOne(BufferHolders, g)
      BY <2>3, <2>5, <2>6, Moved
    <2> QED
      BY <2>3, <2>7 DEF OwnerInv, g
  <1> DEFINE f == Places(arrived, socket, reader, channel, worker, parsed)
             g == Places(arrived', socket', reader', channel', worker', parsed')
  <1>6. /\ \A t \in Sockets : f[InSocket(t)] = Range(socket[t]) /\ f[InReader(t)] = Range(reader[t].slots)
        /\ \A w \in Workers : f[InWorker(w)] = {worker[w].packet.of} \ {NoDatagram}
        /\ f[OnWire] = {Sent[j] : j \in arrived+1..Len(Sent)}
        /\ f[InChannel] = Range(DatagramsIn(channel)) /\ f[InParsed] = parsed
    BY ONLY PlaceChart
  <1>7. /\ \A t \in Sockets : g[InSocket(t)] = Range(socket'[t]) /\ g[InReader(t)] = Range(reader'[t].slots)
        /\ \A w \in Workers : g[InWorker(w)] = {worker'[w].packet.of} \ {NoDatagram}
        /\ g[OnWire] = {Sent[j] : j \in arrived'+1..Len(Sent)}
        /\ g[InChannel] = Range(DatagramsIn(channel')) /\ g[InParsed] = parsed'
    BY ONLY PlaceChart
  <1> HIDE DEF f, g
  <1>8. /\ g[InSocket(s)] \subseteq f[InSocket(s)] \cup f[InReader(s)]
        /\ g[InReader(s)] \subseteq f[InSocket(s)] \cup f[InReader(s)]
        /\ g[InSocket(s)] \cap g[InReader(s)] = {}
    BY <1>2, <1>3, <1>6, <1>7
  <1>9. \A h \in DatagramHolders : h # InSocket(s) /\ h # InReader(s) => g[h] = f[h]
    <2>1. \A t \in Sockets : t # s => g[InReader(t)] = f[InReader(t)] /\ g[InSocket(t)] = f[InSocket(t)]
      BY <1>2, <1>3, <1>6, <1>7
    <2>2. \A w \in Workers : g[InWorker(w)] = f[InWorker(w)]
      BY <1>6, <1>7
    <2>3. g[InChannel] = f[InChannel] /\ g[OnWire] = f[OnWire] /\ g[InParsed] = f[InParsed]
      BY <1>6, <1>7
    <2> QED
      BY <2>1, <2>2, <2>3, DatagramPlaces
  <1>10. PlaceInv'
    <2>1. OwnedByOne(DatagramHolders, g)
      <3>1. OwnedByOne(DatagramHolders, f)
        BY DEF PlaceInv, f
      <3>2. InSocket(s) \in DatagramHolders /\ InReader(s) \in DatagramHolders
        BY DatagramPlaces
      <3>3. \A h \in DatagramHolders : h # InSocket(s) /\ h # InReader(s) => g[h] \subseteq f[h]
        BY <1>9
      <3> QED
        BY <1>8, <3>1, <3>2, <3>3, Moved
    <2>2. \A t \in Sockets : NoRepeat(socket'[t]) /\ NoRepeat(reader'[t].slots)
      BY <1>2, <1>3 DEF PlaceInv
    <2>3. NoRepeat(DatagramsIn(channel'))
      BY DEF PlaceInv
    <2> QED
      BY <2>1, <2>2, <2>3 DEF PlaceInv, g
  <1>11. RowInv'
    <2>1. \A h \in Waiting : \A d \in f[h] : rows[{d}] = 0
      BY DEF RowInv, f
    <2>2. \A h \in Waiting : \A d \in g[h] : rows'[{d}] = 0
      BY <1>8, <1>9, <2>1, DatagramPlaces
    <2>3. /\ rows' \in [SUBSET Cells -> Nat] /\ RowsOfOneDatagram'
          /\ \A d \in Datagrams : rows'[{d}] <= Format[d].records
          /\ \A d \in parsed' : rows'[{d}] = Format[d].records
          /\ \A w \in Workers : worker'[w].at = "parse" =>
               rows'[{worker'[w].packet.of}] = worker'[w].record
      BY DEF RowInv, RowsOfOneDatagram
    <2> QED
      BY <2>2, <2>3 DEF RowInv, g
  <1> QED
    BY <1>4, <1>5, <1>10, <1>11

LEMMA MinOfTwo ==
    ASSUME NEW a \in Nat \ {0}, NEW b \in Nat \ {0}
    PROVE  Min({a, b}) \in Nat \ {0} /\ Min({a, b}) <= a /\ Min({a, b}) <= b
  <1>1. \E x \in {a, b} : \A y \in {a, b} : x <= y
    <2>1. a <= b \/ b <= a
      OBVIOUS
    <2> QED
      BY <2>1
  <1> DEFINE m == Min({a, b})
  <1>2. m \in {a, b} /\ \A y \in {a, b} : m <= y
    BY <1>1 DEF Min
  <1> HIDE DEF m
  <1>3. m \in Nat \ {0} /\ m <= a /\ m <= b
    BY <1>2
  <1> QED
    BY <1>3 DEF m

(* A buffer given back is put in the pool of its size or dropped.           *)
LEMMA Released ==
    ASSUME ShapeInv, NEW b \in DOMAIN heap, releasePacketBuffer(b)
    PROVE  /\ pool' \subseteq pool \cup {b}
           /\ \A c \in pool' : c \in DOMAIN heap /\ Len(heap[c]) \in {SmallSize, LargeSize}
  <1>1. \A c \in pool : c \in DOMAIN heap /\ Len(heap[c]) \in {SmallSize, LargeSize}
    BY DEF ShapeInv, PathTypes
  <1>2. CASE Len(heap[b]) \in {SmallSize, LargeSize}
    <2>1. pool' = pool \cup {b}
      BY <1>2 DEF releasePacketBuffer
    <2> QED
      BY <1>1, <1>2, <2>1
  <1>3. CASE Len(heap[b]) \notin {SmallSize, LargeSize}
    <2>1. pool' = pool
      BY <1>3 DEF releasePacketBuffer
    <2> QED
      BY <1>1, <2>1
  <1> QED
    BY <1>2, <1>3

(* What is known of a receiver.                                             *)
LEMMA ReceiverFacts ==
    ASSUME PathInv, NEW s \in Sockets
    PROVE  /\ reader[s] \in Receiver /\ reader[s].slots \in Seq(Datagrams)
           /\ Len(reader[s].slots) <= BatchSize /\ Len(reader[s].slots) \in Nat
           /\ socket[s] \in Seq(Datagrams)
           /\ NoRepeat(socket[s]) /\ NoRepeat(reader[s].slots)
           /\ Range(socket[s]) \cap Range(reader[s].slots) = {}
           /\ reader[s].at = "send" =>
                /\ reader[s].slots # <<>>
                /\ Filled(heap, reader[s].buffer, Head(reader[s].slots))
                /\ reader[s].buffer \in DOMAIN heap /\ reader[s].buffer \in Nat \ {0}
           /\ reader[s].at # "send" => reader[s].buffer = NoBuffer
           /\ \A b \in pool : b \in DOMAIN heap /\ Len(heap[b]) \in {SmallSize, LargeSize}
  <1>1. reader[s] \in Receiver
    BY DEF PathInv, ShapeInv, ReaderShape
  <1>2. reader[s].slots \in Seq(Datagrams)
    BY <1>1 DEF Receiver
  <1>3. Len(reader[s].slots) <= BatchSize /\ socket[s] \in Seq(Datagrams)
        /\ \A b \in pool : b \in DOMAIN heap /\ Len(heap[b]) \in {SmallSize, LargeSize}
    BY DEF PathInv, ShapeInv, PathTypes
  <1>4. Len(reader[s].slots) \in Nat
    BY <1>2
  <1>5. NoRepeat(socket[s]) /\ NoRepeat(reader[s].slots)
    BY DEF PathInv, PlaceInv
  <1>6. Range(socket[s]) \cap Range(reader[s].slots) = {}
    <2> DEFINE f == Places(arrived, socket, reader, channel, worker, parsed)
    <2>1. f[InSocket(s)] = Range(socket[s]) /\ f[InReader(s)] = Range(reader[s].slots)
      BY ONLY PlaceChart, s \in Sockets
    <2>2. OwnedByOne(DatagramHolders, f)
      BY DEF PathInv, PlaceInv
    <2> HIDE DEF f
    <2> QED
      BY <2>1, <2>2, DatagramPlaces, PlacesDiffer DEF OwnedByOne
  <1>7. IF reader[s].at = "send"
        THEN reader[s].slots # <<>> /\ Filled(heap, reader[s].buffer, Head(reader[s].slots))
        ELSE reader[s].buffer = NoBuffer
    BY DEF PathInv, ShapeInv, ReaderShape
  <1>8. \A b \in DOMAIN heap : b \in Nat \ {0}
    BY BuffersMade DEF PathInv
  <1> QED
    BY <1>1, <1>2, <1>3, <1>4, <1>5, <1>6, <1>7, <1>8 DEF Filled

LEMMA ReadBatchKeeps ==
    ASSUME PathInv, NEW s \in Sockets, ReadBatch(s)
    PROVE  PathInv'
  <1> DEFINE n == Min({BatchSize, Len(socket[s])})
             r == [reader[s] EXCEPT !.slots = SubSeq(socket[s], 1, n)]
             q == SubSeq(socket[s], n + 1, Len(socket[s]))
  <1>1. /\ reader[s] \in Receiver /\ socket[s] \in Seq(Datagrams) /\ NoRepeat(socket[s])
        /\ reader[s].buffer = NoBuffer /\ reader[s].at = "read" /\ socket[s] # <<>>
        /\ \A b \in pool : b \in DOMAIN heap /\ Len(heap[b]) \in {SmallSize, LargeSize}
    BY ReceiverFacts DEF ReadBatch
  <1>2. n \in Nat \ {0} /\ n <= BatchSize /\ n <= Len(socket[s])
    <2>1. Len(socket[s]) \in Nat \ {0}
      BY <1>1
    <2> QED
      BY <2>1, Sizes, MinOfTwo
  <1>3. /\ reader' = [reader EXCEPT ![s] = r] /\ socket' = [socket EXCEPT ![s] = q]
        /\ UNCHANGED <<arrived, heap, channel, worker, stopped, rows, parsed>> /\ pool' = pool
    BY DEF ReadBatch, readerUnchanged, kernelVars
  <1> DEFINE b == SubSeq(socket[s], 1, n)
  <1> HIDE DEF n
  <1>4. /\ b \in Seq(Datagrams) /\ q \in Seq(Datagrams) /\ Len(b) = n
        /\ Range(b) \cup Range(q) \subseteq Range(socket[s])
        /\ NoRepeat(b) /\ NoRepeat(q) /\ Range(b) \cap Range(q) = {}
    <2>1. n \in 1..Len(socket[s])
      BY <1>1, <1>2
    <2> QED
      BY <1>1, <2>1, SplitFacts
  <1> HIDE DEF b, q
  <1>5. r \in Receiver /\ r.at = "read" /\ r.slots = b /\ r.buffer = NoBuffer
    BY <1>1, <1>4 DEF Receiver, b
  <1> HIDE DEF r
  <1>6. /\ r.at # "send" /\ Len(r.slots) <= BatchSize /\ NoRepeat(r.slots)
        /\ Range(q) \subseteq Range(socket[s]) \cup Range(reader[s].slots)
        /\ Range(r.slots) \subseteq Range(socket[s]) \cup Range(reader[s].slots)
        /\ Range(q) \cap Range(r.slots) = {}
        /\ pool' \subseteq pool \cup ({reader[s].buffer} \ {NoBuffer})
        /\ \A c \in pool' : c \in DOMAIN heap /\ Len(heap[c]) \in {SmallSize, LargeSize}
    BY <1>1, <1>2, <1>3, <1>4, <1>5
  <1> QED
    BY <1>3, <1>4, <1>5, <1>6, ReceiverKeeps

(* The receiver goes on, with the slots left to it, or is gone.             *)
LEMMA SlotsKeep ==
    ASSUME PathInv, NEW s \in Sockets,
           NEW r \in Receiver, reader' = [reader EXCEPT ![s] = r],
           r.at # "send", r.buffer = NoBuffer,
           \/ r.slots = reader[s].slots \/ r.slots = <<>>
           \/ reader[s].slots # <<>> /\ r.slots = Tail(reader[s].slots),
           pool' \subseteq pool \cup ({reader[s].buffer} \ {NoBuffer}),
           \A b \in pool' : b \in DOMAIN heap /\ Len(heap[b]) \in {SmallSize, LargeSize},
           UNCHANGED <<arrived, socket, heap, channel, worker, stopped, rows, parsed>>
    PROVE  PathInv'
  <1> DEFINE q == socket[s]
             b == reader[s].slots
  <1>1. /\ b \in Seq(Datagrams) /\ Len(b) <= BatchSize /\ Len(b) \in Nat
        /\ q \in Seq(Datagrams) /\ NoRepeat(q) /\ NoRepeat(b) /\ Range(q) \cap Range(b) = {}
    BY ReceiverFacts
  <1>2. socket' = [socket EXCEPT ![s] = q]
    BY DEF PathInv, ShapeInv, PathTypes
  <1>3. \A t : t = b \/ t = <<>> \/ (b # <<>> /\ t = Tail(b)) =>
          Len(t) <= BatchSize /\ NoRepeat(t) /\ Range(t) \subseteq Range(b)
    <2> HIDE DEF b
    <2>1. Len(<<>>) <= BatchSize /\ NoRepeat(<<>>) /\ Range(<<>>) \subseteq Range(b)
      BY EmptySequence, Sizes
    <2>2. b # <<>> => Len(Tail(b)) <= BatchSize /\ NoRepeat(Tail(b)) /\ Range(Tail(b)) \subseteq Range(b)
      BY <1>1, TailFacts, Sizes
    <2> QED
      BY <1>1, <2>1, <2>2
  <1>4. Len(r.slots) <= BatchSize /\ NoRepeat(r.slots) /\ Range(r.slots) \subseteq Range(b)
    BY <1>3
  <1>5. /\ Range(q) \subseteq Range(q) \cup Range(b) /\ Range(r.slots) \subseteq Range(q) \cup Range(b)
        /\ Range(q) \cap Range(r.slots) = {}
    BY <1>1, <1>4
  <1> QED
    BY <1>1, <1>2, <1>4, <1>5, ReceiverKeeps

LEMMA ReceiverLoopKeeps ==
    ASSUME PathInv, NEW s \in Sockets, ReadFails(s) \/ SkipEmpty(s) \/ StopSending(s)
    PROVE  PathInv'
  <1>1. /\ reader[s] \in Receiver /\ reader[s].slots \in Seq(Datagrams)
        /\ reader[s].at = "send" => reader[s].buffer \in DOMAIN heap /\ reader[s].buffer # NoBuffer
        /\ reader[s].at # "send" => reader[s].buffer = NoBuffer
        /\ \A b \in pool : b \in DOMAIN heap /\ Len(heap[b]) \in {SmallSize, LargeSize}
    BY ReceiverFacts DEF NoBuffer
  <1>2. CASE ReadFails(s)
    <2> DEFINE r == [reader[s] EXCEPT !.at = "gone"]
    <2>1. reader' = [reader EXCEPT ![s] = r] /\ reader[s].at = "read" /\ pool' = pool
          /\ UNCHANGED <<arrived, socket, heap, channel, worker, stopped, rows, parsed>>
      BY <1>2 DEF ReadFails, readerUnchanged, kernelVars
    <2>2. r \in Receiver /\ r.at = "gone" /\ r.slots = reader[s].slots /\ r.buffer = NoBuffer
      BY <1>1, <2>1 DEF Receiver
    <2> HIDE DEF r
    <2>3. r.at # "send" /\ pool' \subseteq pool \cup ({reader[s].buffer} \ {NoBuffer})
          /\ \A b \in pool' : b \in DOMAIN heap /\ Len(heap[b]) \in {SmallSize, LargeSize}
      BY <1>1, <2>1, <2>2
    <2> QED
      BY <2>1, <2>2, <2>3, SlotsKeep
  <1>3. CASE SkipEmpty(s)
    <2> DEFINE r == [reader[s] EXCEPT !.slots = Tail(reader[s].slots)]
    <2>1. reader' = [reader EXCEPT ![s] = r] /\ reader[s].at = "read" /\ pool' = pool
          /\ reader[s].slots # <<>>
          /\ UNCHANGED <<arrived, socket, heap, channel, worker, stopped, rows, parsed>>
      BY <1>3 DEF SkipEmpty, readerUnchanged, kernelVars
    <2>2. Tail(reader[s].slots) \in Seq(Datagrams)
      BY <1>1, <2>1
    <2>3. r \in Receiver /\ r.at = "read" /\ r.slots = Tail(reader[s].slots) /\ r.buffer = NoBuffer
      BY <1>1, <2>1, <2>2 DEF Receiver
    <2> HIDE DEF r
    <2>4. r.at # "send" /\ pool' \subseteq pool \cup ({reader[s].buffer} \ {NoBuffer})
          /\ \A b \in pool' : b \in DOMAIN heap /\ Len(heap[b]) \in {SmallSize, LargeSize}
      BY <1>1, <2>1, <2>3
    <2> QED
      BY <2>1, <2>3, <2>4, SlotsKeep
  <1>4. CASE StopSending(s)
    <2> DEFINE r == [IdleReader EXCEPT !.at = "gone"]
    <2>1. /\ reader' = [reader EXCEPT ![s] = r] /\ reader[s].at = "send"
          /\ releasePacketBuffer(reader[s].buffer)
          /\ UNCHANGED <<arrived, socket, heap, channel, worker, stopped, rows, parsed>>
      BY <1>4 DEF StopSending, readerUnchanged, kernelVars
    <2>2. r \in Receiver /\ r.at = "gone" /\ r.slots = <<>> /\ r.buffer = NoBuffer
      <3>1. r = [at |-> "gone", slots |-> <<>>, buffer |-> 0]
        BY DEF IdleReader, NoBuffer
      <3>2. <<>> \in Seq(Datagrams)
        BY EmptySequence
      <3> HIDE DEF r
      <3> QED
        BY <3>1, <3>2 DEF Receiver, NoBuffer
    <2> HIDE DEF r
    <2>3. /\ pool' \subseteq pool \cup {reader[s].buffer}
          /\ \A c \in pool' : c \in DOMAIN heap /\ Len(heap[c]) \in {SmallSize, LargeSize}
      BY <1>1, <2>1, Released DEF PathInv
    <2>4. r.at # "send" /\ pool' \subseteq pool \cup ({reader[s].buffer} \ {NoBuffer})
      BY <1>1, <2>1, <2>2, <2>3
    <2> QED
      BY <2>1, <2>2, <2>3, <2>4, SlotsKeep
  <1> QED
    BY <1>2, <1>3, <1>4

(* The datagram is copied to a buffer that no one holds.                    *)
LEMMA CopyKeeps ==
    ASSUME PathInv, NEW s \in Sockets, CopyDatagram(s)
    PROVE  PathInv'
  <1> DEFINE d == Head(reader[s].slots)
  <1>1. /\ reader[s] \in Receiver /\ reader[s].slots \in Seq(Datagrams) /\ reader[s].slots # <<>>
        /\ reader[s].at = "read"
    BY ReceiverFacts DEF CopyDatagram
  <1>2. d \in Datagrams
    BY <1>1
  <1>3. acquirePacketBuffer(s, d) /\ UNCHANGED <<arrived, socket, channel, worker, stopped, rows, parsed>>
    BY DEF CopyDatagram, readerUnchanged, kernelVars
  <1>4. PICK b : Given(s, d, b)
    BY <1>2, <1>3, BufferGiven DEF PathInv
  <1>5. /\ b \in 1..MaxBuffers /\ b \in Nat \ {0}
        /\ reader' = [reader EXCEPT ![s].at = "send", ![s].buffer = b]
        /\ heap' \in Seq(Seq(Cells)) /\ Len(heap) <= Len(heap') /\ Len(heap') <= MaxBuffers
        /\ Filled(heap', b, d)
        /\ \A c \in DOMAIN heap : Len(heap'[c]) = Len(heap[c])
        /\ pool' \subseteq pool /\ b \notin pool'
        /\ \A h \in BufferHolders : h # InPool => b \notin Buffers(reader, channel, worker, pool)[h]
    BY <1>4, Sizes DEF Given
  <1>6. reader \in [Sockets -> Receiver]
    BY DEF PathInv, ShapeInv, ReaderShape
  <1>7. /\ reader' \in [Sockets -> Receiver]
        /\ reader'[s].at = "send" /\ reader'[s].buffer = b /\ reader'[s].slots = reader[s].slots
        /\ \A t \in Sockets : t # s => reader'[t] = reader[t]
    <2> DEFINE r == [reader[s] EXCEPT !.at = "send", !.buffer = b]
    <2>1. reader' = [reader EXCEPT ![s] = r]
      BY <1>5
    <2>2. r \in Receiver /\ r.at = "send" /\ r.buffer = b /\ r.slots = reader[s].slots
      BY <1>1, <1>5 DEF Receiver
    <2> HIDE DEF r
    <2> QED
      BY <1>6, <2>1, <2>2
  <1> DEFINE f == Buffers(reader, channel, worker, pool)
             g == Buffers(reader', channel', worker', pool')
  <1>8. /\ \A t \in Sockets : f[InReader(t)] = {reader[t].buffer} \ {NoBuffer}
        /\ \A w \in Workers : f[InWorker(w)] = {worker[w].packet.buffer} \ {NoBuffer}
        /\ f[InChannel] = Range(BuffersIn(channel)) /\ f[InPool] = pool
    BY ONLY BufferChart
  <1>9. /\ \A t \in Sockets : g[InReader(t)] = {reader'[t].buffer} \ {NoBuffer}
        /\ \A w \in Workers : g[InWorker(w)] = {worker'[w].packet.buffer} \ {NoBuffer}
        /\ g[InChannel] = Range(BuffersIn(channel')) /\ g[InPool] = pool'
    BY ONLY BufferChart
  <1>10. \A h \in BufferHolders : h # InPool => b \notin f[h]
    BY <1>5
  <1> HIDE DEF f, g, d
  <1>11. /\ g[InReader(s)] = {b} /\ g[InPool] \subseteq f[InPool] /\ b \notin g[InPool]
         /\ g[InChannel] = f[InChannel] /\ \A w \in Workers : g[InWorker(w)] = f[InWorker(w)]
    BY <1>3, <1>5, <1>7, <1>8, <1>9 DEF NoBuffer
  <1>12. ASSUME NEW t \in Sockets, t # s
         PROVE  g[InReader(t)] = f[InReader(t)]
    <2>1. reader'[t].buffer = reader[t].buffer
      BY <1>7, <1>12
    <2> QED
      BY ONLY <1>8, <1>9, <2>1
  <1>13. \A c, e : Filled(heap, c, e) /\ c # b => Filled(heap', c, e)
    BY <1>4, StaysFilled DEF PathInv
  <1>14. ShapeInv'
    <2>1. PathTypes'
      <3>1. \A t \in Sockets : Len(reader'[t].slots) <= BatchSize
        BY <1>7 DEF PathInv, ShapeInv, PathTypes
      <3>2. \A c \in pool' : c \in DOMAIN heap' /\ Len(heap'[c]) \in {SmallSize, LargeSize}
        <4>1. DOMAIN heap \subseteq DOMAIN heap'
          <5>1. DOMAIN heap = 1..Len(heap) /\ Len(heap) \in Nat
            BY BuffersMade DEF PathInv
          <5>2. DOMAIN heap' = 1..Len(heap') /\ Len(heap') \in Nat
            BY <1>5
          <5> QED
            BY <1>5, <5>1, <5>2
        <4> QED
          BY <1>5, <4>1 DEF PathInv, ShapeInv, PathTypes
      <3> QED
        BY <1>3, <1>5, <3>1, <3>2 DEF PathInv, ShapeInv, PathTypes
    <2>2. HeapShape'
      BY <1>5 DEF HeapShape
    <2>3. ReaderShape'
      <3>1. ASSUME NEW t \in Sockets
            PROVE  IF reader'[t].at = "send"
                   THEN /\ reader'[t].slots # <<>>
                        /\ Filled(heap', reader'[t].buffer, Head(reader'[t].slots))
                   ELSE reader'[t].buffer = NoBuffer
        <4>1. CASE t = s
          BY <1>1, <1>5, <1>7, <4>1 DEF d
        <4>2. CASE t # s
          <5>1. IF reader[t].at = "send"
                THEN /\ reader[t].slots # <<>>
                     /\ Filled(heap, reader[t].buffer, Head(reader[t].slots))
                ELSE reader[t].buffer = NoBuffer
            BY DEF PathInv, ShapeInv, ReaderShape
          <5>2. reader[t].at = "send" => reader[t].buffer # NoBuffer
            BY ReceiverFacts DEF NoBuffer
          <5>3. reader[t].buffer # NoBuffer => reader[t].buffer # b
            BY <1>8, <1>10, BufferPlaces, PlacesDiffer
          <5> QED
            BY <1>7, <1>13, <4>2, <5>1, <5>2, <5>3
        <4> QED
          BY <4>1, <4>2
      <3> QED
        BY <1>7, <3>1 DEF ReaderShape
    <2>4. ChannelShape'
      <3>1. ASSUME NEW k \in DOMAIN channel
            PROVE  Sound(heap', channel[k])
        <4>1. Sound(heap, channel[k])
          BY DEF PathInv, ShapeInv, ChannelShape
        <4>2. channel[k].buffer \in f[InChannel]
          BY <1>8 DEF BuffersIn, Range
        <4>3. channel[k].buffer # b
          BY <1>10, <4>2, BufferPlaces, PlacesDiffer
        <4> QED
          BY <1>13, <4>1, <4>3 DEF Sound
      <3> QED
        BY <1>3, <3>1 DEF ChannelShape
    <2>5. WorkerShape'
      <3>1. ASSUME NEW w \in Workers, worker[w] # IdleWorker
            PROVE  /\ worker[w].at = "parse" /\ Sound(heap', worker[w].packet)
                   /\ worker[w].record <= Records(worker[w].packet.length)
        <4>1. /\ worker[w].at = "parse" /\ Sound(heap, worker[w].packet)
              /\ worker[w].record <= Records(worker[w].packet.length)
          BY <3>1 DEF PathInv, ShapeInv, WorkerShape
        <4>2. worker[w].packet.buffer \in DOMAIN heap
          BY <4>1 DEF Sound, Filled
        <4>3. worker[w].packet.buffer # NoBuffer
          BY <4>2, BuffersMade DEF NoBuffer, PathInv
        <4>4. worker[w].packet.buffer # b
          BY <1>8, <1>10, <4>3, BufferPlaces, PlacesDiffer
        <4> QED
          BY <1>13, <4>1, <4>4 DEF Sound
      <3> QED
        BY <1>3, <3>1 DEF WorkerShape
    <2> QED
      BY <2>1, <2>2, <2>3, <2>4, <2>5 DEF ShapeInv
  <1>15. OwnerInv'
    <2> DEFINE fresh == {b}
    <2>1. OwnedByOne(BufferHolders, f) /\ NoRepeat(BuffersIn(channel'))
      BY <1>3 DEF OwnerInv, PathInv, f
    <2>2. \A h \in BufferHolders : h # InReader(s) /\ h # InPool => g[h] \subseteq f[h] /\ f[h] \cap fresh = {}
      <3>1. \A h \in BufferHolders : h # InReader(s) /\ h # InPool => g[h] = f[h]
        BY <1>11, <1>12, BufferPlaces
      <3> QED
        BY <1>10, <3>1
    <2>3. /\ InReader(s) \in BufferHolders /\ InPool \in BufferHolders
          /\ g[InReader(s)] \subseteq f[InReader(s)] \cup f[InPool] \cup fresh
          /\ g[InPool] \subseteq f[InReader(s)] \cup f[InPool] \cup fresh
          /\ g[InReader(s)] \cap g[InPool] = {}
      BY <1>11, BufferPlaces
    <2> HIDE DEF fresh
    <2>4. OwnedByOne(BufferHolders, g)
      BY <2>1, <2>2, <2>3, Admitted
    <2> QED
      BY <2>1, <2>4 DEF OwnerInv, g
  <1>16. PlaceInv' /\ RowInv'
    <2> DEFINE p == Places(arrived, socket, reader, channel, worker, parsed)
               q == Places(arrived', socket', reader', channel', worker', parsed')
    <2>1. /\ \A t \in Sockets : p[InSocket(t)] = Range(socket[t]) /\ p[InReader(t)] = Range(reader[t].slots)
          /\ \A w \in Workers : p[InWorker(w)] = {worker[w].packet.of} \ {NoDatagram}
          /\ p[OnWire] = {Sent[j] : j \in arrived+1..Len(Sent)}
          /\ p[InChannel] = Range(DatagramsIn(channel)) /\ p[InParsed] = parsed
      BY ONLY PlaceChart
    <2>2. /\ \A t \in Sockets : q[InSocket(t)] = Range(socket'[t]) /\ q[InReader(t)] = Range(reader'[t].slots)
          /\ \A w \in Workers : q[InWorker(w)] = {worker'[w].packet.of} \ {NoDatagram}
          /\ q[OnWire] = {Sent[j] : j \in arrived'+1..Len(Sent)}
          /\ q[InChannel] = Range(DatagramsIn(channel')) /\ q[InParsed] = parsed'
      BY ONLY PlaceChart
    <2>3. OwnedByOne(DatagramHolders, p) /\ \A h \in Waiting : \A e \in p[h] : rows[{e}] = 0
      BY DEF PathInv, PlaceInv, RowInv
    <2> HIDE DEF p, q
    <2>4. \A t \in Sockets : reader'[t].slots = reader[t].slots
      BY <1>7
    <2>5. \A h \in DatagramHolders : q[h] = p[h]
      <3>1. \A t \in Sockets : q[InReader(t)] = p[InReader(t)] /\ q[InSocket(t)] = p[InSocket(t)]
        BY <1>3, <2>1, <2>2, <2>4
      <3>2. /\ \A w \in Workers : q[InWorker(w)] = p[InWorker(w)]
            /\ q[InChannel] = p[InChannel] /\ q[OnWire] = p[OnWire] /\ q[InParsed] = p[InParsed]
        BY <1>3, <2>1, <2>2
      <3> QED
        BY <3>1, <3>2, DatagramPlaces
    <2>6. PlaceInv'
      <3>1. OwnedByOne(DatagramHolders, q)
        BY <2>3, <2>5, Kept
      <3>2. \A t \in Sockets : NoRepeat(socket'[t]) /\ NoRepeat(reader'[t].slots)
        BY <1>3, <2>4 DEF PathInv, PlaceInv
      <3> QED
        BY <1>3, <3>1, <3>2 DEF PathInv, PlaceInv, q
    <2>7. RowInv'
      <3>1. \A h \in Waiting : \A e \in q[h] : rows'[{e}] = 0
        BY <1>3, <2>3, <2>5, DatagramPlaces
      <3>2. /\ rows' \in [SUBSET Cells -> Nat] /\ RowsOfOneDatagram'
            /\ \A e \in Datagrams : rows'[{e}] <= Format[e].records
            /\ \A e \in parsed' : rows'[{e}] = Format[e].records
            /\ \A w \in Workers : worker'[w].at = "parse" =>
                 rows'[{worker'[w].packet.of}] = worker'[w].record
        BY <1>3 DEF PathInv, RowInv, RowsOfOneDatagram
      <3> QED
        BY <3>1, <3>2 DEF RowInv, q
    <2> QED
      BY <2>6, <2>7
  <1> QED
    BY <1>14, <1>15, <1>16 DEF PathInv

(* The packet carries the buffer and the datagram to the channel.           *)
LEMMA SendKeeps ==
    ASSUME PathInv, NEW s \in Sockets, SendPacket(s)
    PROVE  PathInv'
  <1> DEFINE d == Head(reader[s].slots)
             p == [buffer |-> reader[s].buffer, length |-> Length(d), of |-> d]
             r == [IdleReader EXCEPT !.slots = Tail(reader[s].slots)]
  <1>1. /\ reader[s].slots \in Seq(Datagrams) /\ reader[s].slots # <<>> /\ NoRepeat(reader[s].slots)
        /\ Len(reader[s].slots) <= BatchSize
        /\ Filled(heap, reader[s].buffer, d)
        /\ reader[s].buffer \in DOMAIN heap /\ reader[s].buffer \in Nat \ {0}
    BY ReceiverFacts DEF SendPacket
  <1>2. /\ channel' = Append(channel, p) /\ Len(channel) < QueueSize
        /\ reader' = [reader EXCEPT ![s] = r]
        /\ UNCHANGED <<arrived, socket, heap, pool, worker, stopped, rows, parsed>>
    BY DEF SendPacket, readerUnchanged, kernelVars
  <1>3. /\ d \in Datagrams /\ d \in Range(reader[s].slots)
        /\ Tail(reader[s].slots) \in Seq(Datagrams) /\ NoRepeat(Tail(reader[s].slots))
        /\ Len(Tail(reader[s].slots)) <= BatchSize
        /\ Range(Tail(reader[s].slots)) \subseteq Range(reader[s].slots)
        /\ d \notin Range(Tail(reader[s].slots))
    BY <1>1, TailFacts, Sizes
  <1>4. r \in Receiver /\ r.at = "read" /\ r.buffer = NoBuffer /\ r.slots = Tail(reader[s].slots)
    <2> DEFINE b == Tail(reader[s].slots)
    <2>0. b \in Seq(Datagrams)
      BY <1>3
    <2> HIDE DEF b
    <2>1. r = [at |-> "read", slots |-> b, buffer |-> 0] /\ b \in Seq(Datagrams)
      BY <2>0 DEF IdleReader, NoBuffer, b
    <2> HIDE DEF r
    <2>2. r \in Receiver /\ r.at = "read" /\ r.buffer = NoBuffer /\ r.slots = b
      BY <2>1 DEF Receiver, NoBuffer
    <2> QED
      BY <2>2 DEF b
  <1>5. /\ p \in Packets /\ p.buffer = reader[s].buffer /\ p.of = d /\ p.length = Length(d)
    <2>1. reader[s].buffer \in 0..MaxBuffers
      BY <1>1, BuffersMade, Sizes DEF PathInv
    <2> QED
      BY <1>3, <2>1, Sizes DEF Packets
  <1> HIDE DEF p, r, d
  <1>6. Sound(heap, p)
    BY <1>1, <1>5 DEF Sound
  <1>7. reader \in [Sockets -> Receiver] /\ channel \in Seq(Packets)
    BY DEF PathInv, ShapeInv, ReaderShape, PathTypes
  <1>8. /\ reader' \in [Sockets -> Receiver] /\ reader'[s] = r
        /\ \A t \in Sockets : t # s => reader'[t] = reader[t]
    BY <1>2, <1>4, <1>7
  <1> DEFINE f == Buffers(reader, channel, worker, pool)
             g == Buffers(reader', channel', worker', pool')
  <1>9. /\ \A t \in Sockets : f[InReader(t)] = {reader[t].buffer} \ {NoBuffer}
        /\ \A w \in Workers : f[InWorker(w)] = {worker[w].packet.buffer} \ {NoBuffer}
        /\ f[InChannel] = Range(BuffersIn(channel)) /\ f[InPool] = pool
    BY ONLY BufferChart
  <1>10. /\ \A t \in Sockets : g[InReader(t)] = {reader'[t].buffer} \ {NoBuffer}
         /\ \A w \in Workers : g[InWorker(w)] = {worker'[w].packet.buffer} \ {NoBuffer}
         /\ g[InChannel] = Range(BuffersIn(channel')) /\ g[InPool] = pool'
    BY ONLY BufferChart
  <1>11. OwnedByOne(BufferHolders, f) /\ NoRepeat(BuffersIn(channel))
    BY DEF PathInv, OwnerInv
  <1> DEFINE e == Places(arrived, socket, reader, channel, worker, parsed)
             h == Places(arrived', socket', reader', channel', worker', parsed')
  <1>12. /\ \A t \in Sockets : e[InSocket(t)] = Range(socket[t]) /\ e[InReader(t)] = Range(reader[t].slots)
         /\ \A w \in Workers : e[InWorker(w)] = {worker[w].packet.of} \ {NoDatagram}
         /\ e[OnWire] = {Sent[j] : j \in arrived+1..Len(Sent)}
         /\ e[InChannel] = Range(DatagramsIn(channel)) /\ e[InParsed] = parsed
    BY ONLY PlaceChart
  <1>13. /\ \A t \in Sockets : h[InSocket(t)] = Range(socket'[t]) /\ h[InReader(t)] = Range(reader'[t].slots)
         /\ \A w \in Workers : h[InWorker(w)] = {worker'[w].packet.of} \ {NoDatagram}
         /\ h[OnWire] = {Sent[j] : j \in arrived'+1..Len(Sent)}
         /\ h[InChannel] = Range(DatagramsIn(channel')) /\ h[InParsed] = parsed'
    BY ONLY PlaceChart
  <1>14. /\ OwnedByOne(DatagramHolders, e) /\ NoRepeat(DatagramsIn(channel))
         /\ \A i \in Waiting : \A x \in e[i] : rows[{x}] = 0
    BY DEF PathInv, PlaceInv, RowInv
  <1> HIDE DEF f, g, e, h
  <1>15. /\ channel' \in Seq(Packets) /\ Len(channel') = Len(channel) + 1 /\ Len(channel) \in Nat
         /\ \A k \in DOMAIN channel' : (k \in DOMAIN channel /\ channel'[k] = channel[k]) \/ channel'[k] = p
    <2>1. /\ DOMAIN channel = 1..Len(channel) /\ Len(channel) \in Nat
          /\ channel' \in Seq(Packets) /\ Len(channel') = Len(channel) + 1
          /\ DOMAIN channel' = 1..Len(channel)+1
          /\ \A k \in 1..Len(channel) : channel'[k] = channel[k]
          /\ channel'[Len(channel) + 1] = p
      BY <1>2, <1>5, <1>7
    <2>2. \A n \in Nat : \A k \in 1..n+1 : k \in 1..n \/ k = n + 1
      OBVIOUS
    <2> QED
      BY <2>1, <2>2
  <1>16. /\ BuffersIn(channel) \in Seq(0..MaxBuffers) /\ p.buffer \in 0..MaxBuffers
         /\ DatagramsIn(channel) \in Seq(Cells)
         /\ BuffersIn(channel') = Append(BuffersIn(channel), p.buffer)
         /\ DatagramsIn(channel') = Append(DatagramsIn(channel), p.of)
    BY <1>2, <1>5, <1>7, PacketFields DEF Packets, Cells
  <1>17. f[InReader(s)] = {p.buffer} /\ p.buffer \notin f[InChannel]
    <2>1. f[InReader(s)] = {p.buffer}
      BY <1>1, <1>5, <1>9 DEF NoBuffer
    <2> QED
      BY <1>11, <2>1, BufferPlaces, PlacesDiffer DEF OwnedByOne
  <1>18. Range(BuffersIn(channel')) = f[InChannel] \cup {p.buffer} /\ NoRepeat(BuffersIn(channel'))
    <2> DEFINE S == 0..MaxBuffers
               q == BuffersIn(channel)
    <2>1. q \in Seq(S) /\ p.buffer \in S /\ NoRepeat(q) /\ p.buffer \notin Range(q)
          /\ Range(q) = f[InChannel] /\ BuffersIn(channel') = Append(q, p.buffer)
      BY <1>9, <1>11, <1>16, <1>17
    <2> HIDE DEF S, q
    <2> QED
      BY ONLY <2>1, AppendFacts
  <1>19. d \notin e[InChannel]
    BY <1>3, <1>12, <1>14, DatagramPlaces, PlacesDiffer DEF OwnedByOne
  <1>20. Range(DatagramsIn(channel')) = e[InChannel] \cup {d} /\ NoRepeat(DatagramsIn(channel'))
    BY <1>3, <1>5, <1>12, <1>14, <1>16, <1>19, AppendFacts DEF Cells
  <1>21. ShapeInv'
    <2>1. PathTypes'
      <3>1. \A t \in Sockets : Len(reader'[t].slots) <= BatchSize
        BY <1>3, <1>4, <1>8 DEF PathInv, ShapeInv, PathTypes
      <3>2. Len(channel') <= QueueSize
        BY <1>2, <1>15, Sizes
      <3> QED
        BY <1>2, <1>15, <3>1, <3>2 DEF PathInv, ShapeInv, PathTypes
    <2>2. HeapShape' /\ WorkerShape'
      BY <1>2 DEF PathInv, ShapeInv, HeapShape, WorkerShape
    <2>3. ReaderShape'
      <3>1. ASSUME NEW t \in Sockets
            PROVE  IF reader'[t].at = "send"
                   THEN /\ reader'[t].slots # <<>>
                        /\ Filled(heap', reader'[t].buffer, Head(reader'[t].slots))
                   ELSE reader'[t].buffer = NoBuffer
        BY <1>2, <1>4, <1>8 DEF PathInv, ShapeInv, ReaderShape
      <3> QED
        BY <1>8, <3>1 DEF ReaderShape
    <2>4. ChannelShape'
      <3>1. \A k \in DOMAIN channel : Sound(heap, channel[k])
        BY DEF PathInv, ShapeInv, ChannelShape
      <3>2. \A k \in DOMAIN channel' : Sound(heap, channel'[k])
        BY <1>6, <1>15, <3>1
      <3>3. heap' = heap
        BY <1>2
      <3> QED
        BY <3>2, <3>3 DEF ChannelShape
    <2> QED
      BY <2>1, <2>2, <2>3, <2>4 DEF ShapeInv
  <1>22. OwnerInv'
    <2>1. g[InReader(s)] = {} /\ g[InChannel] = f[InChannel] \cup {p.buffer}
      BY <1>4, <1>8, <1>10, <1>18
    <2>2. ASSUME NEW t \in Sockets, t # s PROVE g[InReader(t)] = f[InReader(t)]
      <3>1. reader'[t].buffer = reader[t].buffer
        BY <1>8, <2>2
      <3> QED
        BY ONLY <1>9, <1>10, <3>1
    <2>3. \A w \in Workers : g[InWorker(w)] = f[InWorker(w)]
      BY <1>2, <1>9, <1>10
    <2>4. g[InPool] = f[InPool]
      BY <1>2, <1>9, <1>10
    <2>5. \A i \in BufferHolders : i # InReader(s) /\ i # InChannel => g[i] \subseteq f[i]
      BY <2>2, <2>3, <2>4, BufferPlaces
    <2>6. /\ InReader(s) \in BufferHolders /\ InChannel \in BufferHolders
          /\ g[InReader(s)] \subseteq f[InReader(s)] \cup f[InChannel]
          /\ g[InChannel] \subseteq f[InReader(s)] \cup f[InChannel]
          /\ g[InReader(s)] \cap g[InChannel] = {}
      BY <1>17, <2>1, BufferPlaces
    <2>7. OwnedByOne(BufferHolders, g)
      BY <1>11, <2>5, <2>6, Moved
    <2> QED
      BY <1>18, <2>7 DEF OwnerInv, g
  <1>23. /\ h[InReader(s)] = Range(Tail(reader[s].slots)) /\ h[InChannel] = e[InChannel] \cup {d}
         /\ \A i \in DatagramHolders : i # InReader(s) /\ i # InChannel => h[i] = e[i]
    <2>1. h[InReader(s)] = Range(Tail(reader[s].slots)) /\ h[InChannel] = e[InChannel] \cup {d}
      BY <1>4, <1>8, <1>13, <1>20
    <2>2. ASSUME NEW t \in Sockets, t # s PROVE h[InReader(t)] = e[InReader(t)]
      <3>1. reader'[t].slots = reader[t].slots
        BY <1>8, <2>2
      <3> QED
        BY ONLY <1>12, <1>13, <3>1
    <2>3. \A t \in Sockets : h[InSocket(t)] = e[InSocket(t)]
      BY <1>2, <1>12, <1>13
    <2>4. \A w \in Workers : h[InWorker(w)] = e[InWorker(w)]
      BY <1>2, <1>12, <1>13
    <2>5. h[OnWire] = e[OnWire] /\ h[InParsed] = e[InParsed]
      BY <1>2, <1>12, <1>13
    <2> QED
      BY <2>1, <2>2, <2>3, <2>4, <2>5, DatagramPlaces
  <1>24. /\ e[InReader(s)] = Range(reader[s].slots)
         /\ h[InReader(s)] \subseteq e[InReader(s)]
         /\ h[InChannel] \subseteq e[InReader(s)] \cup e[InChannel]
    BY <1>3, <1>12, <1>23
  <1>25. PlaceInv'
    <2>1. InReader(s) \in DatagramHolders /\ InChannel \in DatagramHolders /\ InReader(s) # InChannel
      BY DatagramPlaces, PlacesDiffer
    <2>2. e[InReader(s)] \cap e[InChannel] = {}
      BY <1>14, <2>1 DEF OwnedByOne
    <2>3. h[InReader(s)] \cap h[InChannel] = {}
      BY <1>3, <1>23, <1>24, <2>2
    <2>4. OwnedByOne(DatagramHolders, h)
      <3>1. \A i \in DatagramHolders : i # InReader(s) /\ i # InChannel => h[i] \subseteq e[i]
        BY <1>23
      <3>2. h[InReader(s)] \subseteq e[InReader(s)] \cup e[InChannel]
        BY <1>24
      <3> QED
        BY <1>14, <1>24, <2>1, <2>3, <3>1, <3>2, Moved
    <2>5. \A t \in Sockets : NoRepeat(socket'[t]) /\ NoRepeat(reader'[t].slots)
      BY <1>2, <1>3, <1>4, <1>8 DEF PathInv, PlaceInv
    <2> QED
      BY <1>20, <2>4, <2>5 DEF PlaceInv, h
  <1>26. RowInv'
    <2>1. \A i \in Waiting : \A x \in h[i] : rows[{x}] = 0
      BY <1>14, <1>23, <1>24, DatagramPlaces
    <2>2. /\ rows' \in [SUBSET Cells -> Nat] /\ RowsOfOneDatagram'
          /\ \A x \in Datagrams : rows'[{x}] <= Format[x].records
          /\ \A x \in parsed' : rows'[{x}] = Format[x].records
          /\ \A w \in Workers : worker'[w].at = "parse" =>
               rows'[{worker'[w].packet.of}] = worker'[w].record
      BY <1>2 DEF PathInv, RowInv, RowsOfOneDatagram
    <2> QED
      BY <1>2, <2>1, <2>2 DEF RowInv, h
  <1> QED
    BY <1>21, <1>22, <1>25, <1>26 DEF PathInv

-----------------------------------------------------------------------------
(* The steps of a packet worker                                             *)

(* What is known of a worker and of its packet.                             *)
LEMMA WorkerFacts ==
    ASSUME PathInv, NEW w \in Workers
    PROVE  /\ worker \in [Workers -> [at : {"idle", "parse"}, packet : Packets, record : Nat]]
           /\ worker[w].at = "idle" => worker[w] = IdleWorker
           /\ worker[w].at = "parse" =>
                /\ worker[w].packet \in Packets /\ Sound(heap, worker[w].packet)
                /\ worker[w].packet.of \in Datagrams
                /\ worker[w].packet.length = Length(worker[w].packet.of)
                /\ worker[w].record \in Nat
                /\ worker[w].record <= Records(worker[w].packet.length)
                /\ worker[w].packet.buffer \in DOMAIN heap
                /\ worker[w].packet.buffer # NoBuffer
                /\ rows[{worker[w].packet.of}] = worker[w].record
  <1>1. worker \in [Workers -> [at : {"idle", "parse"}, packet : Packets, record : Nat]]
    BY DEF PathInv, ShapeInv, PathTypes
  <1>2. \/ worker[w] = IdleWorker
        \/ /\ worker[w].at = "parse" /\ Sound(heap, worker[w].packet)
           /\ worker[w].record <= Records(worker[w].packet.length)
    BY DEF PathInv, ShapeInv, WorkerShape
  <1>3. IdleWorker.at = "idle"
    BY DEF IdleWorker
  <1>4. worker[w].at = "parse" => rows[{worker[w].packet.of}] = worker[w].record
    BY DEF PathInv, RowInv
  <1>5. NoBuffer \notin DOMAIN heap
    BY BuffersMade DEF PathInv, NoBuffer
  <1>6. worker[w].record \in Nat
    BY <1>1
  <1>7. ASSUME worker[w].at = "parse"
        PROVE  /\ Sound(heap, worker[w].packet) /\ worker[w].record <= Records(worker[w].packet.length)
               /\ worker[w].packet \in Packets /\ worker[w].packet.of \in Datagrams
               /\ worker[w].packet.length = Length(worker[w].packet.of)
               /\ worker[w].packet.buffer \in DOMAIN heap
    BY <1>2, <1>3, <1>7 DEF Sound, Filled
  <1>8. worker[w].at = "idle" => worker[w] = IdleWorker
    BY <1>2
  <1> QED
    BY <1>1, <1>4, <1>5, <1>6, <1>7, <1>8

(* The head of the channel is taken by an idle worker.                      *)
LEMMA TakeKeeps ==
    ASSUME PathInv, NEW v \in Workers, TakePacket(v)
    PROVE  PathInv'
  <1> DEFINE p == Head(channel)
             r == [at |-> "parse", packet |-> p, record |-> 0]
  <1>1. channel \in Seq(Packets) /\ channel # <<>> /\ Len(channel) <= QueueSize
        /\ worker \in [Workers -> [at : {"idle", "parse"}, packet : Packets, record : Nat]]
    BY DEF TakePacket, PathInv, ShapeInv, PathTypes
  <1>2. /\ worker' = [worker EXCEPT ![v] = r] /\ channel' = Tail(channel)
        /\ UNCHANGED <<arrived, socket, reader, heap, pool, stopped, rows, parsed>>
    BY DEF TakePacket, workerUnchanged, kernelVars
  <1>3. worker[v] = IdleWorker
    BY WorkerFacts DEF TakePacket
  <1>4. /\ p \in Packets /\ Sound(heap, p) /\ channel' \in Seq(Packets)
        /\ Len(channel') <= QueueSize
        /\ \A k \in DOMAIN channel' : Sound(heap, channel'[k])
    <2>1. /\ Len(channel) \in Nat \ {0} /\ DOMAIN channel = 1..Len(channel) /\ p = channel[1]
          /\ p \in Packets /\ channel' \in Seq(Packets) /\ Len(channel') = Len(channel) - 1
          /\ DOMAIN channel' = 1..Len(channel)-1
          /\ \A k \in 1..Len(channel)-1 : channel'[k] = channel[k + 1]
      BY <1>1, <1>2
    <2>2. \A k \in DOMAIN channel : Sound(heap, channel[k])
      BY DEF PathInv, ShapeInv, ChannelShape
    <2>3. 1 \in DOMAIN channel /\ \A k \in DOMAIN channel' : k + 1 \in DOMAIN channel
      BY <2>1
    <2>4. Len(channel') <= QueueSize
      BY <1>1, <2>1, Sizes
    <2> QED
      BY <2>1, <2>2, <2>3, <2>4
  <1> HIDE DEF p
  <1>5. /\ p.of \in Datagrams /\ p.length = Length(p.of) /\ p.buffer \in DOMAIN heap
        /\ p.buffer # NoBuffer
    <2>1. NoBuffer \notin DOMAIN heap
      BY BuffersMade DEF PathInv, NoBuffer
    <2> QED
      BY <1>4, <2>1 DEF Sound, Filled
  <1>6. /\ r \in [at : {"idle", "parse"}, packet : Packets, record : Nat]
        /\ r.at = "parse" /\ r.packet = p /\ r.record = 0
    BY <1>4
  <1> HIDE DEF r
  <1>7. /\ worker' \in [Workers -> [at : {"idle", "parse"}, packet : Packets, record : Nat]]
        /\ worker'[v] = r /\ \A w \in Workers : w # v => worker'[w] = worker[w]
    BY <1>1, <1>2, <1>6
  <1>8. /\ BuffersIn(channel) \in Seq(0..MaxBuffers) /\ BuffersIn(channel) # <<>>
        /\ DatagramsIn(channel) \in Seq(Cells) /\ DatagramsIn(channel) # <<>>
        /\ BuffersIn(channel') = Tail(BuffersIn(channel)) /\ Head(BuffersIn(channel)) = p.buffer
        /\ DatagramsIn(channel') = Tail(DatagramsIn(channel)) /\ Head(DatagramsIn(channel)) = p.of
    BY <1>1, <1>2, PacketFields DEF p, Cells
  <1> DEFINE f == Buffers(reader, channel, worker, pool)
             g == Buffers(reader', channel', worker', pool')
  <1>9. /\ \A t \in Sockets : f[InReader(t)] = {reader[t].buffer} \ {NoBuffer}
        /\ \A w \in Workers : f[InWorker(w)] = {worker[w].packet.buffer} \ {NoBuffer}
        /\ f[InChannel] = Range(BuffersIn(channel)) /\ f[InPool] = pool
    BY ONLY BufferChart
  <1>10. /\ \A t \in Sockets : g[InReader(t)] = {reader'[t].buffer} \ {NoBuffer}
         /\ \A w \in Workers : g[InWorker(w)] = {worker'[w].packet.buffer} \ {NoBuffer}
         /\ g[InChannel] = Range(BuffersIn(channel')) /\ g[InPool] = pool'
    BY ONLY BufferChart
  <1>11. OwnedByOne(BufferHolders, f) /\ NoRepeat(BuffersIn(channel))
    BY DEF PathInv, OwnerInv
  <1> DEFINE e == Places(arrived, socket, reader, channel, worker, parsed)
             h == Places(arrived', socket', reader', channel', worker', parsed')
  <1>12. /\ \A t \in Sockets : e[InSocket(t)] = Range(socket[t]) /\ e[InReader(t)] = Range(reader[t].slots)
         /\ \A w \in Workers : e[InWorker(w)] = {worker[w].packet.of} \ {NoDatagram}
         /\ e[OnWire] = {Sent[j] : j \in arrived+1..Len(Sent)}
         /\ e[InChannel] = Range(DatagramsIn(channel)) /\ e[InParsed] = parsed
    BY ONLY PlaceChart
  <1>13. /\ \A t \in Sockets : h[InSocket(t)] = Range(socket'[t]) /\ h[InReader(t)] = Range(reader'[t].slots)
         /\ \A w \in Workers : h[InWorker(w)] = {worker'[w].packet.of} \ {NoDatagram}
         /\ h[OnWire] = {Sent[j] : j \in arrived'+1..Len(Sent)}
         /\ h[InChannel] = Range(DatagramsIn(channel')) /\ h[InParsed] = parsed'
    BY ONLY PlaceChart
  <1>14. /\ OwnedByOne(DatagramHolders, e) /\ NoRepeat(DatagramsIn(channel))
         /\ \A i \in Waiting : \A x \in e[i] : rows[{x}] = 0
    BY DEF PathInv, PlaceInv, RowInv
  <1> HIDE DEF f, g, e, h
  <1>15. /\ p.buffer \in f[InChannel] /\ g[InChannel] \subseteq f[InChannel]
         /\ p.buffer \notin g[InChannel] /\ NoRepeat(BuffersIn(channel'))
    <2> DEFINE S == 0..MaxBuffers
               q == BuffersIn(channel)
    <2>1. q \in Seq(S) /\ q # <<>> /\ NoRepeat(q) /\ f[InChannel] = Range(q) /\ Head(q) = p.buffer
          /\ g[InChannel] = Range(Tail(q)) /\ BuffersIn(channel') = Tail(q)
      BY <1>8, <1>9, <1>10, <1>11
    <2> HIDE DEF S, q
    <2>2. Head(q) \in Range(q) /\ Range(Tail(q)) \subseteq Range(q)
          /\ NoRepeat(Tail(q)) /\ Head(q) \notin Range(Tail(q))
      BY ONLY <2>1, TailFacts
    <2> QED
      BY <2>1, <2>2
  <1>16. /\ p.of \in e[InChannel] /\ h[InChannel] \subseteq e[InChannel]
         /\ p.of \notin h[InChannel] /\ NoRepeat(DatagramsIn(channel'))
    <2> DEFINE q == DatagramsIn(channel)
    <2>1. q \in Seq(Cells) /\ q # <<>> /\ NoRepeat(q) /\ e[InChannel] = Range(q) /\ Head(q) = p.of
          /\ h[InChannel] = Range(Tail(q)) /\ DatagramsIn(channel') = Tail(q)
      BY <1>8, <1>12, <1>13, <1>14
    <2> HIDE DEF q
    <2>2. Head(q) \in Range(q) /\ Range(Tail(q)) \subseteq Range(q)
          /\ NoRepeat(Tail(q)) /\ Head(q) \notin Range(Tail(q))
      BY ONLY <2>1, TailFacts
    <2> QED
      BY <2>1, <2>2
  <1>17. ShapeInv'
    <2>1. PathTypes'
      BY <1>2, <1>4, <1>7 DEF PathInv, ShapeInv, PathTypes
    <2>2. HeapShape' /\ ReaderShape'
      BY <1>2 DEF PathInv, ShapeInv, HeapShape, ReaderShape
    <2>3. ChannelShape'
      <3>1. heap' = heap
        BY <1>2
      <3> QED
        BY <1>4, <3>1 DEF ChannelShape
    <2>4. WorkerShape'
      <3>1. Records(p.length) \in Nat
        BY <1>5, ParserReads, Sizes
      <3>2. ASSUME NEW w \in Workers
            PROVE  \/ worker'[w] = IdleWorker
                   \/ /\ worker'[w].at = "parse" /\ Sound(heap, worker'[w].packet)
                      /\ worker'[w].record <= Records(worker'[w].packet.length)
        <4>1. CASE w = v
          BY <1>4, <1>6, <1>7, <3>1, <4>1
        <4>2. CASE w # v
          BY <1>7, <4>2 DEF PathInv, ShapeInv, WorkerShape
        <4> QED
          BY <4>1, <4>2
      <3>3. heap' = heap
        BY <1>2
      <3> QED
        BY <3>2, <3>3 DEF WorkerShape
    <2> QED
      BY <2>1, <2>2, <2>3, <2>4 DEF ShapeInv
  <1>18. OwnerInv'
    <2>1. g[InWorker(v)] = {p.buffer}
      BY <1>5, <1>6, <1>7, <1>10
    <2>2. ASSUME NEW w \in Workers, w # v PROVE g[InWorker(w)] = f[InWorker(w)]
      <3>1. worker'[w].packet = worker[w].packet
        BY <1>7, <2>2
      <3> QED
        BY ONLY <1>9, <1>10, <3>1
    <2>3. \A t \in Sockets : g[InReader(t)] = f[InReader(t)]
      BY <1>2, <1>9, <1>10
    <2>4. g[InPool] = f[InPool]
      BY <1>2, <1>9, <1>10
    <2>5. \A i \in BufferHolders : i # InWorker(v) /\ i # InChannel => g[i] \subseteq f[i]
      BY <2>2, <2>3, <2>4, BufferPlaces
    <2>6. /\ InWorker(v) \in BufferHolders /\ InChannel \in BufferHolders
          /\ g[InWorker(v)] \subseteq f[InWorker(v)] \cup f[InChannel]
          /\ g[InChannel] \subseteq f[InWorker(v)] \cup f[InChannel]
          /\ g[InWorker(v)] \cap g[InChannel] = {}
      BY <1>15, <2>1, BufferPlaces
    <2>7. OwnedByOne(BufferHolders, g)
      BY <1>11, <2>5, <2>6, Moved
    <2> QED
      BY <1>15, <2>7 DEF OwnerInv, g
  <1>19. /\ h[InWorker(v)] = {p.of}
         /\ \A i \in DatagramHolders : i # InWorker(v) /\ i # InChannel => h[i] = e[i]
    <2>1. h[InWorker(v)] = {p.of}
      BY <1>5, <1>6, <1>7, <1>13, Sizes
    <2>2. ASSUME NEW w \in Workers, w # v PROVE h[InWorker(w)] = e[InWorker(w)]
      <3>1. worker'[w].packet = worker[w].packet
        BY <1>7, <2>2
      <3> QED
        BY ONLY <1>12, <1>13, <3>1
    <2>3. \A t \in Sockets : h[InSocket(t)] = e[InSocket(t)] /\ h[InReader(t)] = e[InReader(t)]
      BY <1>2, <1>12, <1>13
    <2>4. h[OnWire] = e[OnWire] /\ h[InParsed] = e[InParsed]
      BY <1>2, <1>12, <1>13
    <2> QED
      BY <2>1, <2>2, <2>3, <2>4, DatagramPlaces
  <1>20. PlaceInv'
    <2>1. /\ InWorker(v) \in DatagramHolders /\ InChannel \in DatagramHolders
          /\ h[InWorker(v)] \subseteq e[InWorker(v)] \cup e[InChannel]
          /\ h[InChannel] \subseteq e[InWorker(v)] \cup e[InChannel]
          /\ h[InWorker(v)] \cap h[InChannel] = {}
      BY <1>16, <1>19, DatagramPlaces
    <2>2. \A i \in DatagramHolders : i # InWorker(v) /\ i # InChannel => h[i] \subseteq e[i]
      BY <1>19
    <2>3. OwnedByOne(DatagramHolders, h)
      BY <1>14, <2>1, <2>2, Moved
    <2>4. \A t \in Sockets : NoRepeat(socket'[t]) /\ NoRepeat(reader'[t].slots)
      BY <1>2 DEF PathInv, PlaceInv
    <2> QED
      BY <1>16, <2>3, <2>4 DEF PlaceInv, h
  <1>21. RowInv'
    <2>1. \A i \in Waiting : \A x \in h[i] : rows[{x}] = 0
      <3>1. ASSUME NEW i \in Waiting
            PROVE  h[i] \subseteq e[i]
        BY <1>16, <1>19, DatagramPlaces, PlacesDiffer
      <3> QED
        BY <1>14, <3>1
    <2>2. \A w \in Workers : worker'[w].at = "parse" =>
            rows[{worker'[w].packet.of}] = worker'[w].record
      <3>1. rows[{p.of}] = 0
        BY <1>14, <1>16, DatagramPlaces
      <3> QED
        BY <1>6, <1>7, <3>1 DEF PathInv, RowInv
    <2>3. /\ rows' \in [SUBSET Cells -> Nat] /\ RowsOfOneDatagram'
          /\ \A x \in Datagrams : rows'[{x}] <= Format[x].records
          /\ \A x \in parsed' : rows'[{x}] = Format[x].records
      BY <1>2 DEF PathInv, RowInv, RowsOfOneDatagram
    <2> QED
      BY <1>2, <2>1, <2>2, <2>3 DEF RowInv, h
  <1> QED
    BY <1>17, <1>18, <1>20, <1>21 DEF PathInv

(* A record's bytes are the datagram's, and its row is one more.            *)
LEMMA ParseKeeps ==
    ASSUME PathInv, NEW v \in Workers, ParseRecord(v)
    PROVE  PathInv'
  <1> DEFINE p == worker[v].packet
             k == worker[v].record
             d == p.of
             bytes == {heap[p.buffer][j] : j \in BytesRead(Data(p), k)}
             r == [worker[v] EXCEPT !.record = k + 1]
  <1>1. /\ worker \in [Workers -> [at : {"idle", "parse"}, packet : Packets, record : Nat]]
        /\ worker[v].at = "parse" /\ p \in Packets /\ Sound(heap, p) /\ d \in Datagrams
        /\ p.length = Length(d) /\ k \in Nat /\ rows[{d}] = k
    BY WorkerFacts DEF ParseRecord
  <1>2. /\ k < Records(p.length) /\ rows' = [rows EXCEPT ![bytes] = @ + 1]
        /\ worker' = [worker EXCEPT ![v] = r]
        /\ UNCHANGED <<arrived, socket, reader, heap, pool, channel, stopped, parsed>>
    BY DEF ParseRecord, workerUnchanged, kernelVars, Data
  <1>3. k < Format[d].records /\ Format[d].records \in Nat /\ Records(p.length) = Format[d].records
    BY <1>1, <1>2, ParserReads, Sizes
  <1>4. bytes = {d}
    <2>1. 1 \in BytesRead(Length(d), k) /\ BytesRead(Length(d), k) \subseteq 1..Length(d)
      BY <1>1, <1>3, ParserReads
    <2>2. \A j \in 1..Length(d) : heap[p.buffer][j] = d
      BY <1>1 DEF Sound, Filled
    <2> QED
      BY <1>1, <2>1, <2>2 DEF Data
  <1>5. /\ r \in [at : {"idle", "parse"}, packet : Packets, record : Nat]
        /\ r.at = "parse" /\ r.packet = p /\ r.record = k + 1
    BY <1>1
  <1> HIDE DEF r, bytes
  <1>6. /\ worker' \in [Workers -> [at : {"idle", "parse"}, packet : Packets, record : Nat]]
        /\ worker'[v] = r /\ \A w \in Workers : w # v => worker'[w] = worker[w]
    BY <1>1, <1>2, <1>5
  <1>7. \A w \in Workers : worker'[w].packet = worker[w].packet
    BY <1>5, <1>6
  <1> DEFINE f == Buffers(reader, channel, worker, pool)
             g == Buffers(reader', channel', worker', pool')
  <1>8. /\ \A t \in Sockets : f[InReader(t)] = {reader[t].buffer} \ {NoBuffer}
        /\ \A w \in Workers : f[InWorker(w)] = {worker[w].packet.buffer} \ {NoBuffer}
        /\ f[InChannel] = Range(BuffersIn(channel)) /\ f[InPool] = pool
    BY ONLY BufferChart
  <1>9. /\ \A t \in Sockets : g[InReader(t)] = {reader'[t].buffer} \ {NoBuffer}
        /\ \A w \in Workers : g[InWorker(w)] = {worker'[w].packet.buffer} \ {NoBuffer}
        /\ g[InChannel] = Range(BuffersIn(channel')) /\ g[InPool] = pool'
    BY ONLY BufferChart
  <1>10. OwnedByOne(BufferHolders, f) /\ NoRepeat(BuffersIn(channel))
    BY DEF PathInv, OwnerInv
  <1> DEFINE e == Places(arrived, socket, reader, channel, worker, parsed)
             h == Places(arrived', socket', reader', channel', worker', parsed')
  <1>11. /\ \A t \in Sockets : e[InSocket(t)] = Range(socket[t]) /\ e[InReader(t)] = Range(reader[t].slots)
         /\ \A w \in Workers : e[InWorker(w)] = {worker[w].packet.of} \ {NoDatagram}
         /\ e[OnWire] = {Sent[j] : j \in arrived+1..Len(Sent)}
         /\ e[InChannel] = Range(DatagramsIn(channel)) /\ e[InParsed] = parsed
    BY ONLY PlaceChart
  <1>12. /\ \A t \in Sockets : h[InSocket(t)] = Range(socket'[t]) /\ h[InReader(t)] = Range(reader'[t].slots)
         /\ \A w \in Workers : h[InWorker(w)] = {worker'[w].packet.of} \ {NoDatagram}
         /\ h[OnWire] = {Sent[j] : j \in arrived'+1..Len(Sent)}
         /\ h[InChannel] = Range(DatagramsIn(channel')) /\ h[InParsed] = parsed'
    BY ONLY PlaceChart
  <1>13. /\ OwnedByOne(DatagramHolders, e)
         /\ \A i \in Waiting : \A x \in e[i] : rows[{x}] = 0
    BY DEF PathInv, PlaceInv, RowInv
  <1> HIDE DEF f, g, e, h
  <1>14. ShapeInv'
    <2>1. PathTypes'
      BY <1>2, <1>6 DEF PathInv, ShapeInv, PathTypes
    <2>2. HeapShape' /\ ReaderShape' /\ ChannelShape'
      BY <1>2 DEF PathInv, ShapeInv, HeapShape, ReaderShape, ChannelShape
    <2>3. WorkerShape'
      <3>1. ASSUME NEW w \in Workers
            PROVE  \/ worker'[w] = IdleWorker
                   \/ /\ worker'[w].at = "parse" /\ Sound(heap, worker'[w].packet)
                      /\ worker'[w].record <= Records(worker'[w].packet.length)
        <4>1. CASE w = v
          BY <1>1, <1>3, <1>5, <1>6, <4>1
        <4>2. CASE w # v
          BY <1>6, <4>2 DEF PathInv, ShapeInv, WorkerShape
        <4> QED
          BY <4>1, <4>2
      <3>2. heap' = heap
        BY <1>2
      <3> QED
        BY <3>1, <3>2 DEF WorkerShape
    <2> QED
      BY <2>1, <2>2, <2>3 DEF ShapeInv
  <1>15. OwnerInv'
    <2>1. \A w \in Workers : g[InWorker(w)] = f[InWorker(w)]
      BY ONLY <1>7, <1>8, <1>9
    <2>2. \A t \in Sockets : g[InReader(t)] = f[InReader(t)]
      BY <1>2, <1>8, <1>9
    <2>3. g[InPool] = f[InPool] /\ g[InChannel] = f[InChannel]
      BY <1>2, <1>8, <1>9
    <2>4. \A i \in BufferHolders : g[i] \subseteq f[i]
      BY <2>1, <2>2, <2>3, BufferPlaces
    <2>5. OwnedByOne(BufferHolders, g)
      BY <1>10, <2>4, Kept
    <2> QED
      BY <1>2, <1>10, <2>5 DEF OwnerInv, g
  <1>16. \A i \in DatagramHolders : h[i] = e[i]
    <2>1. \A w \in Workers : h[InWorker(w)] = e[InWorker(w)]
      BY ONLY <1>7, <1>11, <1>12
    <2>2. \A t \in Sockets : h[InSocket(t)] = e[InSocket(t)] /\ h[InReader(t)] = e[InReader(t)]
      BY <1>2, <1>11, <1>12
    <2>3. h[OnWire] = e[OnWire] /\ h[InParsed] = e[InParsed] /\ h[InChannel] = e[InChannel]
      BY <1>2, <1>11, <1>12
    <2> QED
      BY <2>1, <2>2, <2>3, DatagramPlaces
  <1>17. PlaceInv'
    <2>1. OwnedByOne(DatagramHolders, h)
      <3>1. \A i \in DatagramHolders : h[i] \subseteq e[i]
        BY <1>16
      <3> QED
        BY <1>13, <3>1, Kept
    <2>2. \A t \in Sockets : NoRepeat(socket'[t]) /\ NoRepeat(reader'[t].slots)
      BY <1>2 DEF PathInv, PlaceInv
    <2>3. NoRepeat(DatagramsIn(channel'))
      BY <1>2 DEF PathInv, PlaceInv
    <2> QED
      BY <2>1, <2>2, <2>3 DEF PlaceInv, h
  <1>18. RowInv'
    <2> HIDE DEF p, k, d
    <2>1. rows \in [SUBSET Cells -> Nat] /\ {d} \in SUBSET Cells
      BY <1>1 DEF PathInv, RowInv, Cells
    <2>2. /\ rows' \in [SUBSET Cells -> Nat] /\ rows'[{d}] = k + 1
          /\ \A D \in SUBSET Cells : D # {d} => rows'[D] = rows[D]
      BY <1>1, <1>2, <1>4, <2>1
    <2>3. \A x \in Datagrams : x # d => rows'[{x}] = rows[{x}]
      <3>1. \A x \in Datagrams : {x} \in SUBSET Cells
        BY DEF Cells
      <3>2. \A x : x # d => {x} # {d}
        OBVIOUS
      <3> QED
        BY <2>2, <3>1, <3>2
    <2>4. d \in e[InWorker(v)]
      BY <1>1, <1>11, Sizes DEF d, p
    <2>5. \A i \in DatagramHolders : i # InWorker(v) => d \notin e[i]
      BY <1>13, <2>4, DatagramPlaces DEF OwnedByOne
    <2>6. RowsOfOneDatagram'
      <3>1. \A D \in SUBSET Cells : rows[D] > 0 => \E x \in Datagrams : D = {x}
        BY <2>1 DEF PathInv, RowInv, RowsOfOneDatagram
      <3>2. \A D \in SUBSET Cells : rows'[D] > 0 => \E x \in Datagrams : D = {x}
        BY <1>1, <2>2, <3>1
      <3> QED
        BY <2>2, <3>2 DEF RowsOfOneDatagram
    <2>7. \A x \in Datagrams : rows'[{x}] <= Format[x].records
      <3>1. rows'[{d}] <= Format[d].records
        BY <1>1, <1>3, <2>2
      <3> QED
        BY <2>3, <3>1 DEF PathInv, RowInv
    <2>8. \A x \in parsed : rows'[{x}] = Format[x].records
      <3>1. d \notin parsed /\ parsed \subseteq Datagrams
        BY <1>11, <2>5, DatagramPlaces, PlacesDiffer DEF PathInv, ShapeInv, PathTypes
      <3> QED
        BY <2>3, <3>1 DEF PathInv, RowInv
    <2>9. ASSUME NEW w \in Workers, worker'[w].at = "parse"
          PROVE  rows'[{worker'[w].packet.of}] = worker'[w].record
      <3>1. CASE w = v
        BY <1>5, <1>6, <2>2, <3>1 DEF d
      <3>2. CASE w # v
        <4>1. worker[w].at = "parse" /\ worker'[w] = worker[w]
          BY <1>6, <2>9, <3>2
        <4>2. worker[w].packet.of \in Datagrams /\ rows[{worker[w].packet.of}] = worker[w].record
          BY <4>1, WorkerFacts
        <4>3. worker[w].packet.of # d
          <5>1. worker[w].packet.of \in e[InWorker(w)]
            BY <1>11, <4>2, Sizes
          <5> QED
            BY <2>5, <3>2, <5>1, DatagramPlaces, PlacesDiffer
        <4> QED
          BY <2>3, <4>1, <4>2, <4>3
      <3> QED
        BY <3>1, <3>2
    <2>10. \A i \in Waiting : \A x \in h[i] : rows'[{x}] = 0
      <3>1. \A i \in Waiting : d \notin e[i] /\ e[i] \subseteq Datagrams
        <4>1. \A i \in Waiting : d \notin e[i]
          BY <2>5, DatagramPlaces, PlacesDiffer
        <4>2. \A t \in Sockets : e[InSocket(t)] \subseteq Datagrams /\ e[InReader(t)] \subseteq Datagrams
          <5>1. ASSUME NEW q \in Seq(Datagrams) PROVE Range(q) \subseteq Datagrams
            BY DEF Range
          <5> QED
            BY <1>11, <5>1, ReceiverFacts
        <4>3. e[InChannel] \subseteq Datagrams
          BY <1>11 DEF PathInv, ShapeInv, ChannelShape, Sound, Filled, DatagramsIn, Range
        <4>4. e[OnWire] \subseteq Datagrams
          <5>1. \A j \in 1..Len(Sent) : Sent[j] \in Datagrams
            BY PathAssumption
          <5>2. \A j \in arrived+1..Len(Sent) : j \in 1..Len(Sent)
            BY Sizes DEF PathInv, ShapeInv, PathTypes
          <5> QED
            BY <1>11, <5>1, <5>2
        <4> QED
          BY <4>1, <4>2, <4>3, <4>4, DatagramPlaces
      <3>2. \A i \in Waiting : h[i] = e[i]
        BY <1>16, DatagramPlaces
      <3> QED
        BY <1>13, <2>3, <3>1, <3>2
    <2> QED
      BY <1>2, <2>2, <2>6, <2>7, <2>8, <2>9, <2>10 DEF RowInv, h
  <1> QED
    BY <1>14, <1>15, <1>17, <1>18 DEF PathInv

(* The buffer goes back, and the datagram has the rows of its records.      *)
LEMMA FinishKeeps ==
    ASSUME PathInv, NEW v \in Workers, FinishPacket(v)
    PROVE  PathInv'
  <1> DEFINE p == worker[v].packet
             d == p.of
  <1>1. /\ worker \in [Workers -> [at : {"idle", "parse"}, packet : Packets, record : Nat]]
        /\ worker[v].at = "parse" /\ d \in Datagrams /\ p.length = Length(d)
        /\ p.buffer \in DOMAIN heap /\ p.buffer # NoBuffer /\ rows[{d}] = worker[v].record
    BY WorkerFacts DEF FinishPacket
  <1>2. /\ worker[v].record = Records(p.length) /\ releasePacketBuffer(p.buffer)
        /\ parsed' = parsed \cup {d} /\ worker' = [worker EXCEPT ![v] = IdleWorker]
        /\ UNCHANGED <<arrived, socket, reader, heap, channel, stopped, rows>>
    BY DEF FinishPacket, workerUnchanged, kernelVars, Data
  <1>3. rows[{d}] = Format[d].records
    BY <1>1, <1>2, ParserReads
  <1>4. /\ IdleWorker \in [at : {"idle", "parse"}, packet : Packets, record : Nat]
        /\ IdleWorker.at = "idle" /\ IdleWorker.packet.buffer = NoBuffer
        /\ IdleWorker.packet.of = NoDatagram
    BY Sizes DEF IdleWorker, NoPacket, Packets, NoBuffer
  <1>5. /\ worker' \in [Workers -> [at : {"idle", "parse"}, packet : Packets, record : Nat]]
        /\ worker'[v] = IdleWorker /\ \A w \in Workers : w # v => worker'[w] = worker[w]
    BY <1>1, <1>2, <1>4
  <1>6. /\ pool' \subseteq pool \cup {p.buffer}
        /\ \A c \in pool' : c \in DOMAIN heap /\ Len(heap[c]) \in {SmallSize, LargeSize}
    BY <1>1, <1>2, Released DEF PathInv
  <1> DEFINE f == Buffers(reader, channel, worker, pool)
             g == Buffers(reader', channel', worker', pool')
  <1>7. /\ \A t \in Sockets : f[InReader(t)] = {reader[t].buffer} \ {NoBuffer}
        /\ \A w \in Workers : f[InWorker(w)] = {worker[w].packet.buffer} \ {NoBuffer}
        /\ f[InChannel] = Range(BuffersIn(channel)) /\ f[InPool] = pool
    BY ONLY BufferChart
  <1>8. /\ \A t \in Sockets : g[InReader(t)] = {reader'[t].buffer} \ {NoBuffer}
        /\ \A w \in Workers : g[InWorker(w)] = {worker'[w].packet.buffer} \ {NoBuffer}
        /\ g[InChannel] = Range(BuffersIn(channel')) /\ g[InPool] = pool'
    BY ONLY BufferChart
  <1>9. OwnedByOne(BufferHolders, f) /\ NoRepeat(BuffersIn(channel))
    BY DEF PathInv, OwnerInv
  <1> DEFINE e == Places(arrived, socket, reader, channel, worker, parsed)
             h == Places(arrived', socket', reader', channel', worker', parsed')
  <1>10. /\ \A t \in Sockets : e[InSocket(t)] = Range(socket[t]) /\ e[InReader(t)] = Range(reader[t].slots)
         /\ \A w \in Workers : e[InWorker(w)] = {worker[w].packet.of} \ {NoDatagram}
         /\ e[OnWire] = {Sent[j] : j \in arrived+1..Len(Sent)}
         /\ e[InChannel] = Range(DatagramsIn(channel)) /\ e[InParsed] = parsed
    BY ONLY PlaceChart
  <1>11. /\ \A t \in Sockets : h[InSocket(t)] = Range(socket'[t]) /\ h[InReader(t)] = Range(reader'[t].slots)
         /\ \A w \in Workers : h[InWorker(w)] = {worker'[w].packet.of} \ {NoDatagram}
         /\ h[OnWire] = {Sent[j] : j \in arrived'+1..Len(Sent)}
         /\ h[InChannel] = Range(DatagramsIn(channel')) /\ h[InParsed] = parsed'
    BY ONLY PlaceChart
  <1>12. /\ OwnedByOne(DatagramHolders, e)
         /\ \A i \in Waiting : \A x \in e[i] : rows[{x}] = 0
    BY DEF PathInv, PlaceInv, RowInv
  <1> HIDE DEF f, g, e, h
  <1>13. ShapeInv'
    <2>1. PathTypes'
      BY <1>1, <1>2, <1>5, <1>6 DEF PathInv, ShapeInv, PathTypes
    <2>2. HeapShape' /\ ReaderShape' /\ ChannelShape'
      BY <1>2 DEF PathInv, ShapeInv, HeapShape, ReaderShape, ChannelShape
    <2>3. WorkerShape'
      <3>1. ASSUME NEW w \in Workers
            PROVE  \/ worker'[w] = IdleWorker
                   \/ /\ worker'[w].at = "parse" /\ Sound(heap, worker'[w].packet)
                      /\ worker'[w].record <= Records(worker'[w].packet.length)
        BY <1>5 DEF PathInv, ShapeInv, WorkerShape
      <3>2. heap' = heap
        BY <1>2
      <3> QED
        BY <3>1, <3>2 DEF WorkerShape
    <2> QED
      BY <2>1, <2>2, <2>3 DEF ShapeInv
  <1>14. OwnerInv'
    <2>1. g[InWorker(v)] = {} /\ f[InWorker(v)] = {p.buffer} /\ g[InPool] \subseteq f[InPool] \cup {p.buffer}
      BY <1>1, <1>4, <1>5, <1>6, <1>7, <1>8
    <2>2. ASSUME NEW w \in Workers, w # v PROVE g[InWorker(w)] = f[InWorker(w)]
      <3>1. worker'[w].packet = worker[w].packet
        BY <1>5, <2>2
      <3> QED
        BY ONLY <1>7, <1>8, <3>1
    <2>3. \A t \in Sockets : g[InReader(t)] = f[InReader(t)]
      BY <1>2, <1>7, <1>8
    <2>4. g[InChannel] = f[InChannel]
      BY <1>2, <1>7, <1>8
    <2>5. \A i \in BufferHolders : i # InWorker(v) /\ i # InPool => g[i] \subseteq f[i]
      BY <2>2, <2>3, <2>4, BufferPlaces
    <2>6. /\ InWorker(v) \in BufferHolders /\ InPool \in BufferHolders
          /\ g[InWorker(v)] \subseteq f[InWorker(v)] \cup f[InPool]
          /\ g[InPool] \subseteq f[InWorker(v)] \cup f[InPool]
          /\ g[InWorker(v)] \cap g[InPool] = {}
      BY <2>1, BufferPlaces
    <2>7. OwnedByOne(BufferHolders, g)
      BY <1>9, <2>5, <2>6, Moved
    <2> QED
      BY <1>2, <1>9, <2>7 DEF OwnerInv, g
  <1>15. /\ h[InWorker(v)] = {} /\ e[InWorker(v)] = {d} /\ h[InParsed] = e[InParsed] \cup {d}
         /\ \A i \in DatagramHolders : i # InWorker(v) /\ i # InParsed => h[i] = e[i]
    <2>1. h[InWorker(v)] = {} /\ e[InWorker(v)] = {d} /\ h[InParsed] = e[InParsed] \cup {d}
      BY <1>1, <1>2, <1>4, <1>5, <1>10, <1>11, Sizes
    <2>2. ASSUME NEW w \in Workers, w # v PROVE h[InWorker(w)] = e[InWorker(w)]
      <3>1. worker'[w].packet = worker[w].packet
        BY <1>5, <2>2
      <3> QED
        BY ONLY <1>10, <1>11, <3>1
    <2>3. \A t \in Sockets : h[InSocket(t)] = e[InSocket(t)] /\ h[InReader(t)] = e[InReader(t)]
      BY <1>2, <1>10, <1>11
    <2>4. h[OnWire] = e[OnWire] /\ h[InChannel] = e[InChannel]
      BY <1>2, <1>10, <1>11
    <2> QED
      BY <2>1, <2>2, <2>3, <2>4, DatagramPlaces
  <1>16. PlaceInv'
    <2>1. /\ InWorker(v) \in DatagramHolders /\ InParsed \in DatagramHolders
          /\ h[InWorker(v)] \subseteq e[InWorker(v)] \cup e[InParsed]
          /\ h[InParsed] \subseteq e[InWorker(v)] \cup e[InParsed]
          /\ h[InWorker(v)] \cap h[InParsed] = {}
      BY <1>15, DatagramPlaces
    <2>2. \A i \in DatagramHolders : i # InWorker(v) /\ i # InParsed => h[i] \subseteq e[i]
      BY <1>15
    <2>3. OwnedByOne(DatagramHolders, h)
      BY <1>12, <2>1, <2>2, Moved
    <2>4. /\ \A t \in Sockets : NoRepeat(socket'[t]) /\ NoRepeat(reader'[t].slots)
          /\ NoRepeat(DatagramsIn(channel'))
      BY <1>2 DEF PathInv, PlaceInv
    <2> QED
      BY <2>3, <2>4 DEF PlaceInv, h
  <1>17. RowInv'
    <2>1. \A i \in Waiting : h[i] = e[i]
      BY <1>15, DatagramPlaces, PlacesDiffer
    <2>2. /\ rows' \in [SUBSET Cells -> Nat] /\ RowsOfOneDatagram'
          /\ \A x \in Datagrams : rows'[{x}] <= Format[x].records
      BY <1>2 DEF PathInv, RowInv, RowsOfOneDatagram
    <2>3. \A x \in parsed' : rows[{x}] = Format[x].records
      BY <1>2, <1>3 DEF PathInv, RowInv
    <2>4. \A w \in Workers : worker'[w].at = "parse" =>
            rows[{worker'[w].packet.of}] = worker'[w].record
      BY <1>4, <1>5 DEF PathInv, RowInv
    <2> QED
      BY <1>2, <1>12, <2>1, <2>2, <2>3, <2>4 DEF RowInv, h
  <1> QED
    BY <1>13, <1>14, <1>16, <1>17 DEF PathInv

-----------------------------------------------------------------------------
(* The theorems                                                             *)

LEMMA InductiveInit == Init => IInv
  BY ProgramInit, PathInit DEF IInv

LEMMA InductiveNext == IInv /\ [Next]_vars => IInv'
  <1> SUFFICES ASSUME ProgramInv, PathInv, [Next]_vars
               PROVE  PathInv'
    BY ProgramNext DEF IInv
  <1>1. CASE Arrive
    BY <1>1, PathKept DEF Arrive, pipelineVars, PathInv, ShapeInv, PathTypes
  <1>2. CASE RunProgram
    BY <1>2, PathKept DEF RunProgram, pipelineVars, PathInv, ShapeInv, PathTypes
  <1>3. CASE Queue
    BY <1>3, QueueKeeps
  <1>4. CASE RequestStop
    BY <1>4, PathKept DEF RequestStop, kernelVars
  <1>5. CASE \E s \in Sockets :
               \/ ReadBatch(s) \/ ReadFails(s) \/ SkipEmpty(s) \/ CopyDatagram(s)
               \/ SendPacket(s) \/ StopSending(s)
    BY <1>5, ReadBatchKeeps, ReceiverLoopKeeps, CopyKeeps, SendKeeps
  <1>6. CASE \E w \in Workers : TakePacket(w) \/ ParseRecord(w) \/ FinishPacket(w)
    BY <1>6, TakeKeeps, ParseKeeps, FinishKeeps
  <1>7. CASE UNCHANGED vars
    BY <1>7, PathKept DEF vars, kernelVars, PathInv, ShapeInv, PathTypes
  <1> QED
    BY <1>1, <1>2, <1>3, <1>4, <1>5, <1>6, <1>7 DEF Next

(* Every state the kernel, the receivers and the workers reach satisfies    *)
(* the inductive invariant.                                                 *)
THEOREM PathInductive == Spec => []IInv
  <1> QED
    BY InductiveInit, InductiveNext, PTL DEF Spec

(* Types of the whole path: a receiver never has more than a batch, the     *)
(* channel never more than its capacity, and a pool only buffers of its     *)
(* size (acquirePacketBuffer and releasePacketBuffer, src/main.go).         *)
THEOREM TypeCorrect == Spec => []TypeOK
  <1>1. IInv => TypeOK
    <2> SUFFICES ASSUME ProgramInv, PathInv PROVE TypeOK
      BY DEF IInv
    <2>1. /\ kernel.at \in {"idle", "run"} /\ kernel.machine \in Machine
          /\ kernel.machine.pc \in DOMAIN program
      BY SelectorFacts
    <2>2. ASSUME NEW s \in Sockets
          PROVE  /\ reader[s] \in [at : {"read", "send", "gone"}, slots : Seq(Datagrams),
                                   buffer : 0..Len(heap)]
                 /\ Len(reader[s].slots) <= BatchSize
      <3>1. reader[s] \in Receiver /\ Len(reader[s].slots) <= BatchSize
            /\ (reader[s].at = "send" => reader[s].buffer \in DOMAIN heap)
            /\ (reader[s].at # "send" => reader[s].buffer = 0)
        BY ReceiverFacts DEF NoBuffer
      <3>2. DOMAIN heap = 1..Len(heap) /\ Len(heap) \in Nat
        BY BuffersMade DEF PathInv
      <3>3. reader[s].buffer \in 0..Len(heap)
        BY <3>1, <3>2
      <3> QED
        BY <3>1, <3>3 DEF Receiver
    <2> QED
      BY <2>1, <2>2 DEF TypeOK, PathInv, ShapeInv, PathTypes
  <1> QED
    BY <1>1, PathInductive, PTL

LEMMA AtMostOne ==
    ASSUME NEW S, \A x, y \in S : x = y
    PROVE  Cardinality(S) = IF S = {} THEN 0 ELSE 1
  <1>1. CASE S = {}
    BY <1>1, FS_EmptySet
  <1>2. CASE S # {}
    <2>1. PICK x : S = {x}
      BY <1>2
    <2> QED
      BY <1>2, <2>1, FS_Singleton
  <1> QED
    BY <1>1, <1>2

(* A buffer has at most one holder among the receivers, the channel, the    *)
(* workers and the pools, also when the collector stops (udpReadLoop,       *)
(* packetWorker and releasePacketBuffer, src/main.go).                      *)
THEOREM OneHolder == Spec => []BuffersOwnedOnce
  <1>1. IInv => BuffersOwnedOnce
    <2> SUFFICES ASSUME PathInv, NEW b \in DOMAIN heap
                 PROVE  Holders(b) <= 1
      BY DEF IInv, BuffersOwnedOnce
    <2> DEFINE f == Buffers(reader, channel, worker, pool)
               R == {s \in Sockets : reader[s].buffer = b}
               C == {k \in DOMAIN channel : channel[k].buffer = b}
               W == {w \in Workers : worker[w].packet.buffer = b}
               P == {x \in pool : x = b}
    <2>1. /\ \A s \in Sockets : f[InReader(s)] = {reader[s].buffer} \ {NoBuffer}
          /\ \A w \in Workers : f[InWorker(w)] = {worker[w].packet.buffer} \ {NoBuffer}
          /\ f[InChannel] = Range(BuffersIn(channel)) /\ f[InPool] = pool
      BY ONLY BufferChart
    <2>2. b # NoBuffer
      BY BuffersMade DEF PathInv, NoBuffer
    <2>3. \A h, i \in BufferHolders : b \in f[h] /\ b \in f[i] => h = i
      BY DEF PathInv, OwnerInv, OwnedByOne
    <2>4. NoRepeat(BuffersIn(channel))
      BY DEF PathInv, OwnerInv
    <2> HIDE DEF f
    <2>5. /\ \A s \in R : b \in f[InReader(s)] /\ InReader(s) \in BufferHolders
          /\ \A w \in W : b \in f[InWorker(w)] /\ InWorker(w) \in BufferHolders
          /\ \A k \in C : b \in f[InChannel]
          /\ \A x \in P : b \in f[InPool]
          /\ InChannel \in BufferHolders /\ InPool \in BufferHolders
      <3>1. \A k \in C : b \in f[InChannel]
        BY <2>1 DEF BuffersIn, Range
      <3> QED
        BY <2>1, <2>2, <3>1, BufferPlaces
    <2>6. \A x, y \in C : x = y
      BY <2>4 DEF NoRepeat, BuffersIn
    <2>7. \A x, y \in P : x = y
      OBVIOUS
    <2> HIDE DEF R, C, W, P
    <2>8. \A x, y \in R : x = y
      BY <2>3, <2>5, PlacesDiffer
    <2>9. \A x, y \in W : x = y
      BY <2>3, <2>5, PlacesDiffer
    <2>10. /\ R # {} => C = {} /\ W = {} /\ P = {}
           /\ C # {} => R = {} /\ W = {} /\ P = {}
           /\ W # {} => R = {} /\ C = {} /\ P = {}
      BY <2>3, <2>5, PlacesDiffer
    <2>11. /\ Cardinality(R) = IF R = {} THEN 0 ELSE 1
           /\ Cardinality(C) = IF C = {} THEN 0 ELSE 1
           /\ Cardinality(W) = IF W = {} THEN 0 ELSE 1
           /\ Cardinality(P) = IF P = {} THEN 0 ELSE 1
      BY <2>6, <2>7, <2>8, <2>9, AtMostOne
    <2>12. Holders(b) = Cardinality(R) + Cardinality(C) + Cardinality(W) + Cardinality(P)
      BY DEF Holders, R, C, W, P
    <2> QED
      BY <2>10, <2>11, <2>12
  <1> QED
    BY <1>1, PathInductive, PTL

(* No row mixes the bytes of two datagrams, nor reads beyond the end of its *)
(* own, whatever the buffer held before (parsePacket, src/main.go).         *)
THEOREM RowsPure == Spec => []RowsOfOneDatagram
  <1>1. IInv => RowsOfOneDatagram
    BY DEF IInv, PathInv, RowInv
  <1> QED
    BY <1>1, PathInductive, PTL

(* A finished datagram has given a row for each of its records, and none    *)
(* gives more, however often its buffer is used (packetWorker, src/main.go).*)
THEOREM RowsOfEachRecord == Spec => []RowsComplete
  <1>1. IInv => RowsComplete
    BY DEF IInv, PathInv, RowInv, RowsComplete
  <1> QED
    BY <1>1, PathInductive, PTL
=============================================================================
