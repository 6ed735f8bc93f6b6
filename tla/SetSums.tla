------------------------------- MODULE SetSums -------------------------------
(***************************************************************************)
(* Sums over finite sets of what a function gives their elements.          *)
(***************************************************************************)
EXTENDS FiniteSetsExt

Sum(v, S) == MapThenSumSet(LAMBDA x : v[x], S)
=============================================================================
