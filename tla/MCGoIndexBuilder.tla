--------------------------- MODULE MCGoIndexBuilder ---------------------------
EXTENDS GoIndexBuilder, MCIndexPool

(* One file with an ordinary path.                                         *)
MCPlainFile == CallsWithout(OneFile({<<"a">>}, Contents(0, 2)))
==============================================================================
