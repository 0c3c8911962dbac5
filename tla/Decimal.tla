------------------------------ MODULE Decimal -------------------------------
(* Numbers as decimal digits, one byte each: strconv, and the loops that   *)
(* read and write lengths, identifiers and counts.                         *)
EXTENDS Integers, Sequences, SequencesExt

Byte == 0 .. 255
Zero == 48                      \* the byte '0'
IsDigit == Zero .. Zero + 9

\* The digits of n, each plus base.
Digits(n, base) ==
  LET count == CHOOSE k \in 1 .. n + 1 : n < 10^k /\ (k = 1 \/ 10^(k - 1) <= n)
  IN  [k \in 1 .. count |-> ((n \div 10^(count - k)) % 10) + base]

\* One more digit.
Shift(n, digit) == n * 10 + digit

\* The number that the bytes s stand for.
Number(s) == FoldLeft(LAMBDA n, b : Shift(n, b - Zero), 0, s)
=============================================================================
