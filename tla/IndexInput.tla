------------------------------ MODULE IndexInput ------------------------------
(***************************************************************************)
(* What the index builders of both languages read: type files, and the     *)
(* texts by which they compare paths and names.                            *)
(*                                                                         *)
(* A name is a sequence of tokens in which At and Colon stand for the      *)
(* characters the builders split and join at; a token is any text without  *)
(* them.  Lower gives the lower-case form of a token.  A path is the       *)
(* sequence of its pieces between the texts "#/", which usually is one     *)
(* piece; beyond that only its place in the order of lower-case paths      *)
(* counts.                                                                 *)
(***************************************************************************)
EXTENDS Naturals, Sequences, FiniteSets, SequencesExt

CONSTANTS
  Token, Lower,   \* Lower[t] is the lower-case token of t
  At, Colon,
  Path, PathRank  \* PathRank[p]: place of the lower-case p; equal when equal

Char == Token \cup {At, Colon}

ASSUME LowerAssumption ==
  /\ Lower \in [Token -> Token]
  /\ \A t \in Token : Lower[Lower[t]] = Lower[t]
ASSUME SeparatorAssumption == At # Colon /\ {At, Colon} \cap Token = {}
ASSUME RankAssumption == PathRank \in [Path -> Nat]

LowerName(n) == [i \in DOMAIN n |-> IF n[i] \in Token THEN Lower[n[i]] ELSE n[i]]

(* The types an index is made of; every other kind is skipped.             *)
Resource(n) == [kind |-> "ResourceType", name |-> n]

ResourceFunction(rt, v, n) ==
  [kind |-> "ResourceFunctionType", resourceType |-> rt, apiVersion |-> v, name |-> n]

NamespaceFunction(n) == [kind |-> "NamespaceFunctionType", name |-> n]

OtherType == [kind |-> "ObjectType"]

Name == Seq(Char)

Type ==
  [kind : {"ResourceType", "NamespaceFunctionType"}, name : Name]
  \cup [kind : {"ResourceFunctionType"}, resourceType : Name, apiVersion : Name, name : Name]
  \cup {OtherType}

TypeFile == [path : Path, types : Seq(Type)]

(* The text under which a resource function is known.                      *)
FunctionKey(t) ==
  LowerName(t.resourceType \o <<At>> \o t.apiVersion \o <<Colon>> \o t.name)

(* types.CrossFileTypeReference and types.TypeReference.                   *)
CrossFileTypeReference(path, i) == [relativePath |-> path, ref |-> i]

TypeReference(i) == [ref |-> i]

(* The types of the files one after the other, each with its reference.    *)
EntryOf(file, i) ==
  [type |-> file.types[i], ref |-> CrossFileTypeReference(file.path, i - 1)]

EntriesOf(file) == [i \in 1..Len(file.types) |-> EntryOf(file, i)]

Entries(files) == FlattenSeq([k \in 1..Len(files) |-> EntriesOf(files[k])])

(* The orders a sort by lower-case path may leave the files in.            *)
Orders(files) ==
  {[k \in 1..Len(files) |-> files[perm[k]]] :
     perm \in {p \in Bijection(1..Len(files), 1..Len(files)) :
                 \A i, j \in 1..Len(files) : i < j =>
                   PathRank[files[p[i]].path] <= PathRank[files[p[j]].path]}}

(* An assignment to the entry of a map.                                    *)
Put(map, key, value) ==
  [k \in DOMAIN map \cup {key} |-> IF k = key THEN value ELSE map[k]]

DistinctPaths(files) ==
  \A i, j \in 1..Len(files) : PathRank[files[i].path] = PathRank[files[j].path] => i = j
-----------------------------------------------------------------------------
(* The same index, said without running a builder and without an order of  *)
(* the files: among the types that share a key, the one in the file with   *)
(* the lowest path, and there the first, is listed.                        *)
EntrySet(files, kind) ==
  {e \in UNION {ToSet(EntriesOf(files[k])) : k \in 1..Len(files)} : e.type.kind = kind}

Precedes(d, e) ==
  LET dRank == PathRank[d.ref.relativePath]
      eRank == PathRank[e.ref.relativePath]
  IN  dRank < eRank \/ (dRank = eRank /\ d.ref.ref < e.ref.ref)

FirstOfKey(S, Key(_)) ==
  {e \in S : \A d \in S : Key(d.type) = Key(e.type) => ~Precedes(d, e)}

ListsInOrder(refs, S) ==
  \E sorted \in [1..Len(refs) -> S] :
    /\ \A e \in S : \E i \in 1..Len(refs) : sorted[i] = e
    /\ \A i, j \in 1..Len(refs) : i < j => Precedes(sorted[i], sorted[j])
    /\ \A i \in 1..Len(refs) : refs[i] = sorted[i].ref

ResourceKey(t) == LowerName(t.name)
==============================================================================
