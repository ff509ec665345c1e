--------------------------- MODULE MCTaskNumbers ---------------------------
EXTENDS TaskNumbers, TLC

Symmetry == Permutations(Instances)
=============================================================================
