----------------------------- MODULE MCIndexPool -----------------------------
(* The types from which the models of the index builders make their files: *)
(* every kind of type, names that differ in case only, a name without a    *)
(* version and one with two At signs.                                      *)
EXTENDS GoIndex

MCLower == [t \in {"x", "X", "v", "f", "F"} |->
              CASE t = "X" -> "x" [] t = "F" -> "f" [] OTHER -> t]

(* The paths a and A differ in case only; a#/b needs two pieces.           *)
MCPaths == {<<"a">>, <<"A">>, <<"b">>, <<"a", "b">>}

MCRank == [p \in MCPaths |->
             CASE p = <<"b">> -> 2 [] p = <<"a", "b">> -> 3 [] OTHER -> 1]

Pool ==
  {Resource(<<"x", "@", "v">>), Resource(<<"X", "@", "v">>), Resource(<<"x", "@", "f">>),
   Resource(<<"x">>),
   Resource(<<"x", "@", "x", "@", "v">>),
   ResourceFunction(<<"x">>, <<"v">>, <<"f">>), ResourceFunction(<<"X">>, <<"v">>, <<"F">>),
   ResourceFunction(<<"x">>, <<"v">>, <<"v">>),
   NamespaceFunction(<<"f">>), NamespaceFunction(<<"F">>), OtherType}

Contents(min, max) == UNION {[1..n -> Pool] : n \in min..max}

OneFile(P, contents) == {<<[path |-> p, types |-> c]>> : p \in P, c \in contents}

TwoFiles(P, Q, first, second) ==
  {<<[path |-> p, types |-> c], [path |-> q, types |-> d]>> :
     p \in P, q \in Q, c \in first, d \in second}

(* No reference, one within the index, and ones to a file with an ordinary *)
(* path or not.                                                            *)
Optional == {None, TypeReference(0), CrossFileTypeReference(<<"a">>, 1),
             CrossFileTypeReference(<<"a", "b">>, 1)}

Call(files, fallback, configuration) ==
  [typeFiles |-> files, fallback |-> fallback, configuration |-> configuration]

CallsWithout(inputs) == {Call(files, None, None) : files \in inputs}
==============================================================================
