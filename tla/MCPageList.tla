---------------------------- MODULE MCPageList ----------------------------
EXTENDS PageList, TLC

Symmetry == Permutations(Pages)
=============================================================================
