----------------------------- MODULE Summation -----------------------------
(* What the values of a function on a finite set add up to. *)
EXTENDS FiniteSetsExt

Sum(f, S) == MapThenSumSet(LAMBDA d : f[d], S)
=============================================================================
