------------------------------ MODULE TypeGraph ------------------------------
(***************************************************************************)
(* The table of types that the Markdown writers read, as a graph.  A type  *)
(* is its kind, its name, and references to other types: its places in     *)
(* the table counted from 0, in the order the writers visit them (sorted   *)
(* property names, then additionalProperties; an array's item; a union's   *)
(* elements; inputs or parameters, then the output; a resource's body).    *)
(* Elements of a discriminated object and functions of a resource are kept *)
(* apart.  A reference may be out of range.                                *)
(*                                                                         *)
(* A name is a pair of numbers, the place of the part before "@" and that  *)
(* of the part after it in the order of lower-case texts.                  *)
(***************************************************************************)
EXTENDS Naturals, Sequences, FiniteSets, SequencesExt

NoName == <<0, 0>>

Node(kind, name, refs) ==
  [kind |-> kind, name |-> name, refs |-> refs, elements |-> <<>>, functions |-> <<>>]

StringType == Node("StringType", NoName, <<>>)

ObjectType(name, refs) == Node("ObjectType", name, refs)

DiscriminatedObjectType(name, refs, elements) ==
  [Node("DiscriminatedObjectType", name, refs) EXCEPT !.elements = elements]

ArrayType(item) == Node("ArrayType", NoName, <<item>>)

UnionType(elements) == Node("UnionType", NoName, elements)

FunctionType(refs) == Node("FunctionType", NoName, refs)

ResourceType(name, body, functions) ==
  [Node("ResourceType", name, <<body>>) EXCEPT !.functions = functions]

ResourceFunctionType(name, refs) == Node("ResourceFunctionType", name, refs)

NamespaceFunctionType(name, refs) == Node("NamespaceFunctionType", name, refs)

Kind ==
  {"StringType", "ObjectType", "DiscriminatedObjectType", "ArrayType", "UnionType",
   "FunctionType", "ResourceType", "ResourceFunctionType", "NamespaceFunctionType"}

Table ==
  Seq({node \in [kind : Kind, name : Nat \X Nat, refs : Seq(Nat), elements : Seq(Nat),
                 functions : Seq(Nat)] :
         /\ node.kind # "DiscriminatedObjectType" => node.elements = <<>>
         /\ node.kind # "ResourceType" => node.functions = <<>>})

(* The types a page has a heading and a link for.                          *)
Linkable == {"ObjectType", "DiscriminatedObjectType"}

(* The types whose name is made of the names of others.                    *)
Composed == {"ArrayType", "UnionType"}

InRange(types, ref) == ref < Len(types)

At(types, ref) == types[ref + 1]

Refs(types) == 0..(Len(types) - 1)

RefsOfKind(types, kind) == {ref \in Refs(types) : At(types, ref).kind = kind}

(* The sequences of all of S, each once, with nothing before what it       *)
(* should come after: one sequence, if Before is a strict total order.     *)
Orderings(S, Before(_, _)) ==
  {s \in Bijection(1..Cardinality(S), S) :
     \A i, j \in 1..Cardinality(S) : i < j => Before(s[i], s[j])}

(* A stable sort of references in the order of the table ...               *)
SortedRefs(S, Less(_, _)) ==
  Orderings(S, LAMBDA m, n : Less(m, n) \/ (~Less(n, m) /\ m < n))

(* ... and of those in s, without repetitions, in the order of s.          *)
FirstAt(s, ref) == CHOOSE i \in DOMAIN s : s[i] = ref /\ \A j \in 1..(i - 1) : s[j] # ref

SortedFirsts(s, Less(_, _)) ==
  Orderings(ToSet(s), LAMBDA m, n : Less(m, n) \/ (~Less(n, m) /\ FirstAt(s, m) < FirstAt(s, n)))

NameLess(m, n) == m[1] < n[1] \/ (m[1] = n[1] /\ m[2] < n[2])

BaseLess(m, n) == m[1] < n[1]

-----------------------------------------------------------------------------
(* What follows says nothing about a writer.  Reachable, by one or more of *)
(* the given links, is what is in every set they do not lead out of.       *)
Successors(links, S) == {l[2] : l \in {k \in links : k[1] \in S}}

Reachable(links, S) ==
  LET targets == {l[2] : l \in links}
  IN  {n \in targets : \A T \in SUBSET targets :
                         Successors(links, S \cup T) \subseteq T => n \in T}

Cyclic(links) == \E n \in {l[1] : l \in links} : n \in Reachable(links, {n})

(* Spelling out a name follows items and union elements ...                *)
NameLinks(types) ==
  {l \in Refs(types) \X Refs(types) :
     At(types, l[1]).kind \in Composed /\ l[2] \in ToSet(At(types, l[1]).refs)}

(* ... and writing a type follows its discriminated elements, or its body. *)
ElementLinks(types) ==
  {l \in Refs(types) \X Refs(types) : l[2] \in ToSet(At(types, l[1]).elements)}

BodyLinks(types) ==
  {l \in Refs(types) \X Refs(types) :
     At(types, l[1]).kind = "ResourceType" /\ l[2] \in ToSet(At(types, l[1]).refs)}

(* The types named by spelling out the names of S.                         *)
Mentioned(types, S) == S \cup Reachable(NameLinks(types), S)

(* Those mentioned in a union or by a function of a resource.              *)
NotWalked(types) ==
  Mentioned(types, UNION {ToSet(At(types, ref).refs) :
    ref \in {r \in Refs(types) : At(types, r).kind \in {"UnionType", "FunctionType"}}})

Elements(types) == Successors(ElementLinks(types), Refs(types))

Bodies(types) == Successors(BodyLinks(types), Refs(types))
==============================================================================
