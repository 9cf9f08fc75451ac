---------------------------- MODULE ReusePortHash ----------------------------
(***************************************************************************)
(* The socket a datagram goes to in the reuseport_bpf mode: the classic    *)
(* BPF program the collector builds (udp_receiver_linux.go), the kernel's  *)
(* interpreter for it, and the function that is said to mirror it          *)
(* (reuseport_hash.go).  A payload is a sequence of words and an offset    *)
(* the number of a word.  The width of a word and the exclusive or of two  *)
(* are parameters: 32 bits in the program, fewer in a model.               *)
(***************************************************************************)
EXTENDS Integers, Sequences, SequencesExt

CONSTANTS
    Modulus,            \* how many values a word has, 2^32
    Half,               \* what a shift by half a word divides by, 2^16
    ExclusiveOr(_, _),  \* the exclusive or of two words
    HashOffsets,        \* UDP_REUSEPORT_HASH_OFFSETS
    SocketCount         \* UDP_RECEIVERS

Words == 0..Modulus-1

(* Of the exclusive or, the two hashes need no more than this.              *)
ASSUME HashAssumption ==
    /\ Modulus \in Nat \ {0} /\ Half \in Nat \ {0}
    /\ \A a, b \in Words : ExclusiveOr(a, b) \in Words /\ ExclusiveOr(a, b) = ExclusiveOr(b, a)
    /\ HashOffsets \in Seq(Nat) /\ HashOffsets # <<>>
    /\ SocketCount \in Nat /\ SocketCount > 1

(* The two halves of a prime; the upper one changes no product of words of  *)
(* 16 bits or less.                                                         *)
Wide(high, low) == IF Modulus > 65536 THEN high * 65536 + low ELSE low

reusePortHashPrimes ==
    <<Wide(\h9e37, \h79b1), Wide(\h85eb, \hca6b), Wide(\hc2b2, \hae35), Wide(\h27d4, \heb2f),
      Wide(\h1656, \h67b1), Wide(\hd3a2, \h646c), Wide(\hfd70, \h46c5), Wide(\hb55a, \h4f09)>>

Prime(k) == reusePortHashPrimes[((k - 1) % Len(reusePortHashPrimes)) + 1] % Modulus

(* The word at an offset, the first being at offset 0.                      *)
HasWord(payload, offset) == offset < Len(payload)
WordAt(payload, offset) == payload[offset + 1]

-----------------------------------------------------------------------------
(* The function                                                             *)

HashError == -1

Mixed(payload, offsets, k) == (WordAt(payload, offsets[k]) * Prime(k)) % Modulus

(* The hash after each of the offsets.                                      *)
Hashes(payload, offsets) ==
    LET hash[k \in DOMAIN offsets] ==
          IF k = 1 THEN Mixed(payload, offsets, k)
          ELSE ExclusiveOr(hash[k - 1], Mixed(payload, offsets, k))
    IN hash

reusePortPayloadHash(payload, offsets, socketCount) ==
    IF \E k \in DOMAIN offsets : ~HasWord(payload, offsets[k]) THEN HashError
    ELSE LET hash == Hashes(payload, offsets)[Len(offsets)]
         IN ExclusiveOr(hash, hash \div Half) % socketCount

-----------------------------------------------------------------------------
(* The program                                                              *)

I(op, k) == [op |-> op, k |-> k]

(* Faulty variant: the scratch memory keeps the first word only.            *)
LoadAndMixStoredOnce(offsets, k) ==
    <<I("LoadWordAbsolute", offsets[k]), I("MultiplyK", Prime(k))>>
        \o (IF k > 1 THEN <<I("LoadXMemory", 0), I("XorX", 0)>> ELSE <<I("StoreA", 0)>>)

LoadAndMix(offsets, k) ==
    <<I("LoadWordAbsolute", offsets[k]), I("MultiplyK", Prime(k))>>
        \o (IF k > 1 THEN <<I("LoadXMemory", 0), I("XorX", 0)>> ELSE <<>>)
        \o <<I("StoreA", 0)>>

ReturnSocket(socketCount) ==
    <<I("RightShiftK", Half), I("LoadXMemory", 0), I("XorX", 0),
      I("ModuloK", socketCount), I("ReturnA", 0)>>

buildReusePortCBPF(socketCount, offsets) ==
    FlattenSeq([k \in DOMAIN offsets |-> LoadAndMix(offsets, k)]) \o ReturnSocket(socketCount)

-----------------------------------------------------------------------------
(* The kernel's interpreter: the accumulator, the index register, one word  *)
(* of scratch memory; a load beyond the payload ends the program with 0.    *)
(* The k of a shift is the power of two it divides by.                      *)

Machine == [pc : Nat, a : Words, x : Words, memory : Words, returned : BOOLEAN]

Fresh == [pc |-> 1, a |-> 0, x |-> 0, memory |-> 0, returned |-> FALSE]

Execute(m, i, payload) ==
    LET next == [m EXCEPT !.pc = @ + 1]
    IN CASE i.op = "LoadWordAbsolute" ->
              IF HasWord(payload, i.k) THEN [next EXCEPT !.a = WordAt(payload, i.k)]
              ELSE [m EXCEPT !.a = 0, !.returned = TRUE]
         [] i.op = "MultiplyK" -> [next EXCEPT !.a = (@ * i.k) % Modulus]
         [] i.op = "RightShiftK" -> [next EXCEPT !.a = @ \div i.k]
         [] i.op = "ModuloK" -> [next EXCEPT !.a = @ % i.k]
         [] i.op = "XorX" -> [next EXCEPT !.a = ExclusiveOr(@, m.x)]
         [] i.op = "LoadXMemory" -> [next EXCEPT !.x = m.memory]
         [] i.op = "StoreA" -> [next EXCEPT !.memory = m.a]
         [] i.op = "ReturnA" -> [m EXCEPT !.returned = TRUE]
=============================================================================
