------------------------------ MODULE ByteOrder ------------------------------
(***************************************************************************)
(* Integers in network byte order: the hton and ntoh templates that        *)
(* src/src/RpcMessage.cc and src/calculator/CalculatorProtocol.cc each     *)
(* define, with the memcpy that follows.                                   *)
(***************************************************************************)
EXTENDS Integers, Sequences

CONSTANT Base   \* how many values a byte has: 256

ASSUME ByteAssumption == Base \in Nat \ {0, 1}

Bytes == 0..(Base - 1)

\* Base to the n.
Pow[n \in Nat] == IF n = 0 THEN 1 ELSE Base * Pow[n - 1]

\* The w bytes of n, the most significant first.
hton(n, w) == [k \in 1..w |-> (n \div Pow[w - k]) % Base]

\* The number whose bytes these are.
ntoh(bytes) ==
  LET value[k \in 0..Len(bytes)] == IF k = 0 THEN 0 ELSE value[k - 1] * Base + bytes[k]
  IN  value[Len(bytes)]
==============================================================================
