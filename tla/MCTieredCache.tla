--------------------------- MODULE MCTieredCache ---------------------------
(* TieredCache on small sets; instances and fibers are interchangeable.    *)
EXTENDS TieredCache, TLC

Symmetry == Permutations(Instances) \cup Permutations(Procs)
=============================================================================
