------------------------------ MODULE MCStore ------------------------------
EXTENDS Store, TLC

Symmetry == Permutations(Pushers) \cup Permutations(Waiters) \cup Permutations(Sinks)
=============================================================================
