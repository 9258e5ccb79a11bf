------------------------------ MODULE MCScript ------------------------------
(* Script on small sets of calls; the calls are interchangeable.           *)
EXTENDS Script, TLC

Symmetry == Permutations(Calls)
=============================================================================
