----------------------------- MODULE MCTypeGraphs -----------------------------
(* The tables the Markdown writers are run on.                             *)
EXTENDS TypeGraph

Lists(S, max) == UNION {[1..n -> S] : n \in 0..max}

(* A type that may refer to the places in S.                               *)
Nodes(S, name) ==
  {StringType} \cup {ArrayType(r) : r \in S}
  \cup {UnionType(rs) : rs \in Lists(S, 1)}
  \cup {ObjectType(name, rs) : rs \in Lists(S, 1)}
  \cup {DiscriminatedObjectType(name, rs, es) : rs \in Lists(S, 1), es \in Lists(S, 1)}

(* A resource with one function, and three types that refer to each other  *)
(* in every way; the third is an object with two properties, or that       *)
(* function.                                                               *)
MCResourceTables ==
  {<<ResourceType(<<1, 1>>, 1, <<3>>), a, b, c>> :
     a \in Nodes(1..3, <<2, 0>>), b \in Nodes(1..3, <<1, 0>>),
     c \in {FunctionType(<<r>>) : r \in 1..3}
           \cup {ObjectType(<<3, 0>>, <<r, s>>) : r \in 1..2, s \in 2..3}}

(* Functions of both kinds, and references out of range.                   *)
MCFunctionTables ==
  {<<f, a, b>> :
     f \in {ResourceFunctionType(<<1, 0>>, <<1, 2>>), NamespaceFunctionType(<<1, 0>>, <<2, 1>>),
            NamespaceFunctionType(<<1, 0>>, <<1, 3>>), ResourceType(<<1, 0>>, 1, <<2>>)},
     a \in Nodes(1..3, <<1, 0>>), b \in Nodes(0..2, <<2, 0>>) \cup {FunctionType(<<1>>)}}

(* Two resources or functions in every order of their names, and objects   *)
(* that refer to each other, to these or to the string.                    *)
MCOrderTables ==
  LET Names2 == {<<1, 1>>, <<1, 2>>, <<2, 1>>}
      Roots2(name) == {ResourceType(name, 2, <<>>), ResourceFunctionType(name, <<2, 3>>),
                       NamespaceFunctionType(name, <<3, 2>>), FunctionType(<<3>>)}
  IN  {<<r, s, a, b, StringType>> :
         r \in UNION {Roots2(n) : n \in Names2}, s \in UNION {Roots2(n) : n \in Names2},
         a \in {ObjectType(<<2, 0>>, rs) : rs \in {<<1, 4>>, <<3, 4>>, <<4, 3>>}},
         b \in {ObjectType(<<m, 0>>, <<q>>) : m \in {1, 3}, q \in 0..2}
               \cup {ArrayType(q) : q \in 1..2} \cup {UnionType(<<0, 2>>)}}

(* An element that is an array of an object nothing else refers to.        *)
MCElementTables ==
  {<<ResourceType(<<1, 1>>, 1, <<>>), DiscriminatedObjectType(<<1, 0>>, <<>>, <<2>>), a, b>> :
     a \in Nodes({3}, <<2, 0>>), b \in Nodes(1..2, <<3, 0>>)}

(* A body that an element refers back to, and objects of one name.         *)
MCEqualNames ==
  {<<ResourceType(<<1, 1>>, 1, <<>>), ObjectType(<<3, 0>>, <<2, 4>>),
     DiscriminatedObjectType(<<4, 0>>, <<>>, <<1, 3>>), ObjectType(<<5, 0>>, <<5>>),
     ObjectType(<<6, 0>>, <<>>), ObjectType(<<6, 0>>, <<>>)>>}
==============================================================================
