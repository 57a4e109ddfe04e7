--------------------------- MODULE MCPageZeroing ---------------------------
EXTENDS PageZeroing, TLC

Symmetry == Permutations(Frames)
=============================================================================
