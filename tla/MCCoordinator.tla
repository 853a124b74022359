--------------------------- MODULE MCCoordinator ---------------------------
EXTENDS Coordinator, TLC

Symmetry == Permutations(Tasks) \cup Permutations(Callers)
=============================================================================
