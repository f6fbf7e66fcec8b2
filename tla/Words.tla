-------------------------------- MODULE Words --------------------------------
(***************************************************************************)
(* The signed words that a TPC program computes with.  Every type of the   *)
(* language takes one machine word (rep/rapport.md: 8 bytes for `char' and *)
(* for `int' alike), so sums, products and opposites are taken modulo the  *)
(* number of words and quotients are truncated towards zero.               *)
(***************************************************************************)
EXTENDS Integers

CONSTANT WordMax  \* 2^63 - 1

ASSUME WordMaxAssumption == WordMax \in Nat

Word == -WordMax - 1 .. WordMax

\* The word with the same bits as the low bits of n.
Wrap(n) == IF n \in Word THEN n
           ELSE ((n + WordMax + 1) % (2 * (WordMax + 1))) - WordMax - 1

Abs(n) == IF n < 0 THEN -n ELSE n

\* Division of the integer n by the word d # 0, and what is left of n.
Quotient(n, d) == IF (n < 0) = (d < 0) THEN Abs(n) \div Abs(d) ELSE -(Abs(n) \div Abs(d))
Remainder(n, d) == n - d * Quotient(n, d)

Truth(b) == IF b THEN 1 ELSE 0
=============================================================================
