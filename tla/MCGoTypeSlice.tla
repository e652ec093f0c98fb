---------------------------- MODULE MCGoTypeSlice ----------------------------
EXTENDS GoTypeSlice, TLC

Symmetry == Permutations(Ptr)
==============================================================================
