----------------------------- MODULE Selection ------------------------------
(***************************************************************************)
(* The elements of a sequence that are in a set, in their order: SelectSeq *)
(* for the test of membership, written as a recursive function so that it  *)
(* can be reasoned about.                                                  *)
(***************************************************************************)
EXTENDS Integers, Sequences

\* What is selected of each prefix of s, by its length.
SelectedOf(s, S) ==
  LET f[i \in 0 .. Len(s)] ==
        IF i = 0 THEN <<>> ELSE f[i - 1] \o (IF s[i] \in S THEN <<s[i]>> ELSE <<>>)
  IN  f

Selected(s, S) == SelectedOf(s, S)[Len(s)]
=============================================================================
