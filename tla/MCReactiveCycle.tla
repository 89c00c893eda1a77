-------------------------- MODULE MCReactiveCycle --------------------------
EXTENDS ReactiveCycle, TLC

Symmetry == Permutations(Writers) \union Permutations(Procs) \union Permutations(Contents)
=============================================================================
