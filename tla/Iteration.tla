------------------------------ MODULE Iteration ------------------------------
(***************************************************************************)
(* A for loop of the code over the positions 1..n of an array: Step(x, t,  *)
(* k) is the state that its body, at position k, makes of t; x is all else *)
(* the body reads.                                                         *)
(***************************************************************************)
EXTENDS Integers

CONSTANT Step(_, _, _)

Iterate(x, s, n) ==
  LET after[k \in 0..n] == IF k = 0 THEN s ELSE Step(x, after[k - 1], k)
  IN  after[n]
=============================================================================
