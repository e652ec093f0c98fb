--------------------------- MODULE MCGoTypeFactory ---------------------------
EXTENDS GoTypeFactory, TLC

(* Factories are interchangeable, and so are the pointers to objects that  *)
(* nobody changes, and the other pointers.                                 *)
Symmetry ==
  Permutations(Factory) \cup Permutations(Sealed) \cup Permutations(Ptr \ Sealed)
==============================================================================
