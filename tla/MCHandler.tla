----------------------------- MODULE MCHandler -----------------------------
(* Handler for TLC with goroutines that are interchangeable: no property here *)
(* names one.                                                                 *)
EXTENDS Handler

Symmetry == Permutations(Proc)
=============================================================================
