----------------------------- MODULE MCCoordinator -----------------------------
EXTENDS Coordinator, TLC

CONSTANTS w1, w2, r1, r2

Symmetric == Permutations(Writers) \cup Permutations(Requests)
=============================================================================
