--------------------------- MODULE MCBuildbucket ---------------------------
EXTENDS Buildbucket, TLC

Symmetry == Permutations(Workers) \cup Permutations(TaskIds)
=============================================================================
