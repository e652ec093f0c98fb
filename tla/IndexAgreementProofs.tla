------------------------- MODULE IndexAgreementProofs -------------------------
(***************************************************************************)
(* Proofs about the two index builders, for any type files.                *)
(*                                                                         *)
(* What a builder has seen and listed is a function of where it is in the  *)
(* sorted files (GoInv, TsInv): at every place the keys seen are those of  *)
(* the first types of their key so far, and these are what is listed.      *)
(* At the end of the files this says all there is to say of the index.     *)
(***************************************************************************)
EXTENDS IndexAgreement, SequenceTheorems, FiniteSetTheorems, WellFoundedInduction, TLAPS

(* What the two builders have in common: going through the sorted files    *)
(* place by place and listing each key the first time it is met gives what *)
(* IndexInput says without an order.                                       *)

(* A place is the number of a file and the number of a type in it.         *)
Places(files) ==
  UNION {{k} \X (1..Len(files[k].types)) : k \in 1..Len(files)}

TypeAt(files, p) == files[p[1]].types[p[2]]

EntryAt(files, p) == EntryOf(files[p[1]], p[2])

Earlier(p, q) == p[1] < q[1] \/ (p[1] = q[1] /\ p[2] < q[2])

(* The key by which duplicates of a type are known.                        *)
Key(t) == IF t.kind = "ResourceFunctionType" THEN FunctionKey(t) ELSE ResourceKey(t)

Same(files, p, q) ==
  /\ TypeAt(files, p).kind = TypeAt(files, q).kind
  /\ Key(TypeAt(files, p)) = Key(TypeAt(files, q))

First(files, p) == \A q \in Places(files) : Earlier(q, p) => ~Same(files, q, p)

(* The places before c whose types a builder lists, and their keys.        *)
Listed(files, kind, c) ==
  {p \in Places(files) : Earlier(p, c) /\ TypeAt(files, p).kind = kind /\ First(files, p)}

Seen(files, kind, c) == {Key(TypeAt(files, p)) : p \in Listed(files, kind, c)}

(* The references to the types at the places P, in order.                  *)
Lists(refs, files, P) ==
  \E places \in [1..Len(refs) -> P] :
    /\ \A p \in P : \E i \in 1..Len(refs) : places[i] = p
    /\ \A i, j \in 1..Len(refs) : i < j => Earlier(places[i], places[j])
    /\ \A i \in 1..Len(refs) : refs[i] = EntryAt(files, places[i]).ref

-----------------------------------------------------------------------------
(* A set of natural numbers has a least element.                           *)
LEMMA LeastNat ==
  ASSUME NEW T, T \subseteq Nat, T # {}
  PROVE  \E n \in T : \A m \in T : n <= m
<1>1. PICK n \in T : \A m \in T : <<m, n>> \notin OpToRel(<, Nat)
  BY WFMin, NatLessThanWellFounded, Zenon
<1>2. \A m \in T : ~(m < n)
  BY <1>1, Zenon DEF OpToRel
<1>3. QED
  BY <1>2

(* The lower-case form of a name has its separators where the name has.    *)
LEMMA LowerNameKeepsPlaces ==
  ASSUME NEW n \in Name
  PROVE  /\ LowerName(n) \in Name /\ Len(LowerName(n)) = Len(n)
         /\ \A i \in 1..Len(n) : LowerName(n)[i] = At <=> n[i] = At
<1>1. n \in [1..Len(n) -> Char] /\ Len(n) \in Nat
  BY DEF Name
<1>2. \A i \in 1..Len(n) : /\ n[i] \in Char
                           /\ (IF n[i] \in Token THEN Lower[n[i]] ELSE n[i]) \in Char
                           /\ (IF n[i] \in Token THEN Lower[n[i]] ELSE n[i]) = At <=> n[i] = At
  BY <1>1, LowerAssumption, SeparatorAssumption DEF Char
<1>3. LowerName(n) = [i \in 1..Len(n) |-> IF n[i] \in Token THEN Lower[n[i]] ELSE n[i]]
  BY <1>1 DEF LowerName
<1>4. LowerName(n) \in [1..Len(n) -> Char]
  BY <1>2, <1>3
<1>5. QED
  BY <1>1, <1>2, <1>3, <1>4 DEF Name

(* Places come one after the other.                                        *)
LEMMA EarlierIsOrder ==
  ASSUME NEW p \in Nat \X Nat, NEW q \in Nat \X Nat
  PROVE  /\ Earlier(p, q) => ~Earlier(q, p)
         /\ p # q => Earlier(p, q) \/ Earlier(q, p)
         /\ \A r \in Nat \X Nat : Earlier(p, q) /\ Earlier(q, r) => Earlier(p, r)
BY DEF Earlier

(* A place names a file and a type of that file.                           *)
LEMMA PlacesArePairs ==
  ASSUME NEW files \in Seq(TypeFile), NEW p \in Places(files)
  PROVE  /\ p \in Nat \X Nat /\ p[1] \in 1..Len(files)
         /\ p[2] \in 1..Len(files[p[1]].types)
         /\ files[p[1]] \in TypeFile
         /\ TypeAt(files, p) \in Type
<1>1. PICK k \in 1..Len(files) : p \in {k} \X (1..Len(files[k].types))
  BY DEF Places
<1>2. p \in Nat \X Nat /\ p[1] \in 1..Len(files) /\ p[2] \in 1..Len(files[p[1]].types)
  BY <1>1
<1>3. files[p[1]] \in TypeFile
  BY <1>2
<1>4. files[p[1]].types \in Seq(Type)
  BY <1>3 DEF TypeFile
<1>5. TypeAt(files, p) \in Type
  BY <1>2, <1>4, ElementOfSeq DEF TypeAt
<1>6. QED
  BY <1>2, <1>3, <1>5

(* Of the types with the kind and key of one, some place is the first.     *)
LEMMA FirstExists ==
  ASSUME NEW files \in Seq(TypeFile), NEW p \in Places(files)
  PROVE  \E q \in Places(files) : /\ First(files, q) /\ Same(files, q, p)
                                  /\ q = p \/ Earlier(q, p)
<1> DEFINE T == {q \in Places(files) : Same(files, q, p)}
<1>1. p \in T
  BY DEF Same
<1>2. \A q \in T : q \in Nat \X Nat
  BY PlacesArePairs
<1>3. PICK q1 \in T : \A r \in T : q1[1] <= r[1]
  <2> DEFINE S == {r[1] : r \in T}
  <2>1. S \subseteq Nat /\ S # {}
    BY <1>1, <1>2
  <2> HIDE DEF T
  <2>2. PICK n \in S : \A m \in S : n <= m
    BY <2>1, LeastNat
  <2>3. QED
    BY <2>2
<1>4. PICK q \in T : q[1] = q1[1] /\ \A r \in T : r[1] = q1[1] => q[2] <= r[2]
  <2> DEFINE R == {r \in T : r[1] = q1[1]}
  <2> DEFINE S == {r[2] : r \in R}
  <2>1. S \subseteq Nat /\ S # {}
    BY <1>2, <1>3
  <2> HIDE DEF T
  <2>2. PICK n \in S : \A m \in S : n <= m
    BY <2>1, LeastNat
  <2>3. QED
    BY <2>2
<1>5. \A r \in T : ~Earlier(r, q)
  BY <1>2, <1>3, <1>4 DEF Earlier
<1>6. First(files, q)
  BY <1>5 DEF First, Same
<1>7. q = p \/ Earlier(q, p)
  BY <1>1, <1>2, <1>5, EarlierIsOrder
<1>8. QED
  BY <1>6, <1>7

-----------------------------------------------------------------------------
(* The cursor <<k, i>> of a builder moves over one place, or to the next   *)
(* file from the end of one.                                               *)
LEMMA VisitedPlace ==
  ASSUME NEW files \in Seq(TypeFile), NEW c \in Places(files), NEW kind,
         NEW next, next = <<c[1], c[2] + 1>>
  PROVE  Listed(files, kind, next) =
           IF TypeAt(files, c).kind = kind /\ Key(TypeAt(files, c)) \notin Seen(files, kind, c)
           THEN Listed(files, kind, c) \cup {c} ELSE Listed(files, kind, c)
<1>1. \A p \in Places(files) : Earlier(p, next) <=> Earlier(p, c) \/ p = c
  BY PlacesArePairs DEF Earlier
<1>2. First(files, c) <=> Key(TypeAt(files, c)) \notin Seen(files, TypeAt(files, c).kind, c)
  <2>1. ASSUME First(files, c), NEW p \in Listed(files, TypeAt(files, c).kind, c)
        PROVE  Key(TypeAt(files, p)) # Key(TypeAt(files, c))
    BY <2>1 DEF Listed, First, Same
  <2>2. ASSUME ~First(files, c)
        PROVE  \E p \in Listed(files, TypeAt(files, c).kind, c) :
                 Key(TypeAt(files, p)) = Key(TypeAt(files, c))
    <3>1. PICK q \in Places(files) : /\ First(files, q) /\ Same(files, q, c)
                                     /\ q = c \/ Earlier(q, c)
      BY FirstExists
    <3>2. q # c
      BY <2>2, <3>1
    <3>3. QED
      BY <3>1, <3>2 DEF Listed, Same
  <2>3. QED
    BY <2>1, <2>2 DEF Seen
<1>3. QED
  BY <1>1, <1>2 DEF Listed

(* Behind the last type of a file the same types have been visited as in   *)
(* front of the next file.                                                 *)
LEMMA FileDone ==
  ASSUME NEW files \in Seq(TypeFile), NEW k \in 1..Len(files), NEW i \in Nat, NEW kind,
         i > Len(files[k].types)
  PROVE  Listed(files, kind, <<k + 1, 1>>) = Listed(files, kind, <<k, i>>)
<1>1. \A p \in Places(files) : Earlier(p, <<k + 1, 1>>) <=> Earlier(p, <<k, i>>)
  BY PlacesArePairs DEF Earlier
<1>2. QED
  BY <1>1 DEF Listed

(* At the start nothing has been listed.                                   *)
LEMMA NothingListed ==
  ASSUME NEW files \in Seq(TypeFile), NEW kind, NEW i \in {0, 1}
  PROVE  Listed(files, kind, <<i, i>>) = {} /\ Seen(files, kind, <<i, i>>) = {}
<1>1. \A p \in Places(files) : ~Earlier(p, <<i, i>>)
  BY PlacesArePairs DEF Earlier
<1>2. QED
  BY <1>1 DEF Listed, Seen

(* A reference added at the end of a list of earlier ones.                 *)
LEMMA ListsAppend ==
  ASSUME NEW files \in Seq(TypeFile), NEW refs, NEW R, refs \in Seq(R), NEW P, NEW c,
         Lists(refs, files, P), \A p \in P : Earlier(p, c)
  PROVE  Lists(Append(refs, EntryAt(files, c).ref), files, P \cup {c})
<1> DEFINE n == Len(refs)
           new == Append(refs, EntryAt(files, c).ref)
<1>1. PICK places \in [1..n -> P] :
        /\ \A p \in P : \E i \in 1..n : places[i] = p
        /\ \A i, j \in 1..n : i < j => Earlier(places[i], places[j])
        /\ \A i \in 1..n : refs[i] = EntryAt(files, places[i]).ref
  BY DEF Lists
<1>2. n \in Nat /\ Len(new) = n + 1 /\ new[n + 1] = EntryAt(files, c).ref
      /\ \A i \in 1..n : new[i] = refs[i]
  OBVIOUS
<1> DEFINE all == [i \in 1..(n + 1) |-> IF i = n + 1 THEN c ELSE places[i]]
<1>3. all \in [1..Len(new) -> P \cup {c}]
  BY <1>1, <1>2
<1>4. \A p \in P \cup {c} : \E i \in 1..Len(new) : all[i] = p
  BY <1>1, <1>2
<1>5. \A i, j \in 1..Len(new) : i < j => Earlier(all[i], all[j])
  <2> SUFFICES ASSUME NEW i \in 1..(n + 1), NEW j \in 1..(n + 1), i < j
               PROVE  Earlier(all[i], all[j])
    BY <1>2
  <2>1. i \in 1..n /\ all[i] = places[i] /\ all[i] \in P
    BY <1>1, <1>2
  <2>2. CASE j = n + 1
    BY <2>1, <2>2
  <2>3. CASE j # n + 1
    <3>1. j \in 1..n /\ all[j] = places[j]
      BY <1>2, <2>3
    <3>2. QED
      BY <1>1, <2>1, <3>1
  <2>4. QED
    BY <2>2, <2>3
<1>6. \A i \in 1..Len(new) : new[i] = EntryAt(files, all[i]).ref
  BY <1>1, <1>2
<1>7. QED
  BY <1>3, <1>4, <1>5, <1>6 DEF Lists

-----------------------------------------------------------------------------
(* The sorted files hold the types of the files that were given, and when  *)
(* the paths differ their ranks go up.                                     *)
Ascending(files) ==
  \A i, j \in 1..Len(files) : i < j => PathRank[files[i].path] < PathRank[files[j].path]

(* Ordering the files loses none and adds none, and distinct paths end up  *)
(* in ascending order.                                                     *)
LEMMA OrderFacts ==
  ASSUME NEW input \in Seq(TypeFile), NEW files \in Orders(input)
  PROVE  /\ files \in Seq(TypeFile)
         /\ \A kind : EntrySet(files, kind) = EntrySet(input, kind)
         /\ DistinctPaths(input) => Ascending(files)
         /\ \A k \in 1..Len(files) : \E i \in 1..Len(input) : files[k] = input[i]
<1> DEFINE n == Len(input)
<1>1. PICK p \in Bijection(1..n, 1..n) :
        /\ \A i, j \in 1..n : i < j => PathRank[input[p[i]].path] <= PathRank[input[p[j]].path]
        /\ files = [k \in 1..n |-> input[p[k]]]
  BY DEF Orders
<1>2. /\ p \in [1..n -> 1..n]
      /\ \A k \in 1..n : \E i \in 1..n : p[i] = k
      /\ \A i, j \in 1..n : p[i] = p[j] => i = j
  <2>1. p \in Injection(1..n, 1..n) /\ p \in Surjection(1..n, 1..n)
    BY <1>1 DEF Bijection
  <2>2. p \in [1..n -> 1..n] /\ \A k \in 1..n : \E i \in 1..n : p[i] = k
    BY <2>1, Zenon DEF Surjection
  <2>3. DOMAIN p = 1..n /\ IsInjective(p)
    BY <2>1, <2>2 DEF Injection
  <2>4. QED
    BY <2>2, <2>3, Zenon DEF IsInjective
<1>3. n \in Nat /\ \A k \in 1..n : input[k] \in TypeFile
  OBVIOUS
<1> HIDE DEF n
<1>4. files \in Seq(TypeFile) /\ Len(files) = n
  BY <1>1, <1>2, <1>3
<1>5. \A i \in 1..n : files[i] = input[p[i]]
  BY <1>1
<1>6. {ToSet(EntriesOf(files[k])) : k \in 1..Len(files)} =
      {ToSet(EntriesOf(input[k])) : k \in 1..Len(input)}
  <2>1. \A k \in 1..n : \E i \in 1..n : files[k] = input[i]
    BY <1>2, <1>5
  <2>2. \A i \in 1..n : \E k \in 1..n : files[k] = input[i]
    BY <1>2, <1>5
  <2>3. QED
    BY <2>1, <2>2, <1>4, Zenon DEF n
<1>7. \A kind : EntrySet(files, kind) = EntrySet(input, kind)
  BY <1>6 DEF EntrySet
<1>8. ASSUME DistinctPaths(input), NEW i \in 1..n, NEW j \in 1..n, i < j
      PROVE  PathRank[files[i].path] < PathRank[files[j].path]
  <2>1. p[i] \in 1..n /\ p[j] \in 1..n /\ p[i] # p[j]
    BY <1>2, <1>3, <1>8
  <2>2. PathRank[input[p[i]].path] # PathRank[input[p[j]].path]
    BY <2>1, <1>8, Zenon DEF DistinctPaths, n
  <2>3. PathRank[input[p[i]].path] \in Nat /\ PathRank[input[p[j]].path] \in Nat
    BY <2>1, <1>3, RankAssumption DEF TypeFile
  <2>4. QED
    BY <2>2, <2>3, <1>1, <1>5, <1>8
<1>9. \A k \in 1..Len(files) : \E i \in 1..Len(input) : files[k] = input[i]
  BY <1>2, <1>4, <1>5 DEF n
<1>10. QED
  BY <1>4, <1>7, <1>8, <1>9 DEF Ascending

(* The entries of a kind are those at the places of that kind.             *)
LEMMA EntriesAtPlaces ==
  ASSUME NEW files \in Seq(TypeFile), NEW kind
  PROVE  EntrySet(files, kind) =
           {EntryAt(files, p) : p \in {q \in Places(files) : TypeAt(files, q).kind = kind}}
<1>1. \A p \in Places(files) : EntryAt(files, p).type = TypeAt(files, p)
  BY DEF EntryAt, EntryOf, TypeAt
<1>2. ASSUME NEW k \in 1..Len(files)
      PROVE  ToSet(EntriesOf(files[k])) =
               {EntryAt(files, <<k, i>>) : i \in 1..Len(files[k].types)}
  BY DEF ToSet, EntriesOf, EntryAt
<1>3. ASSUME NEW e \in EntrySet(files, kind)
      PROVE  \E p \in Places(files) : TypeAt(files, p).kind = kind /\ e = EntryAt(files, p)
  <2>1. PICK k \in 1..Len(files) : e \in ToSet(EntriesOf(files[k]))
    BY DEF EntrySet
  <2>2. PICK i \in 1..Len(files[k].types) : e = EntryAt(files, <<k, i>>)
    BY <2>1, <1>2
  <2>3. <<k, i>> \in Places(files)
    <3>1. files[k] \in TypeFile
      OBVIOUS
    <3>2. files[k].types \in Seq(Type)
      BY <3>1 DEF TypeFile
    <3>3. QED
      BY <3>2 DEF Places
  <2>4. e.type.kind = kind
    BY DEF EntrySet
  <2>5. QED
    BY <2>2, <2>3, <2>4, <1>1
<1>4. ASSUME NEW p \in Places(files), TypeAt(files, p).kind = kind
      PROVE  EntryAt(files, p) \in EntrySet(files, kind)
  <2>1. p = <<p[1], p[2]>> /\ p[1] \in 1..Len(files) /\ p[2] \in 1..Len(files[p[1]].types)
    BY PlacesArePairs
  <2>2. EntryAt(files, p) \in ToSet(EntriesOf(files[p[1]]))
    BY <2>1, <1>2
  <2>3. QED
    BY <2>1, <2>2, <1>1, <1>4 DEF EntrySet
<1>5. QED
  BY <1>3, <1>4

(* In files with different paths an entry precedes another when its place  *)
(* is earlier.                                                             *)
LEMMA EarlierPrecedes ==
  ASSUME NEW files \in Seq(TypeFile), Ascending(files),
         NEW p \in Places(files), NEW q \in Places(files)
  PROVE  Precedes(EntryAt(files, p), EntryAt(files, q)) <=> Earlier(p, q)
<1>1. /\ EntryAt(files, p).ref = [relativePath |-> files[p[1]].path, ref |-> p[2] - 1]
      /\ EntryAt(files, q).ref = [relativePath |-> files[q[1]].path, ref |-> q[2] - 1]
  BY DEF EntryAt, EntryOf, CrossFileTypeReference
<1> DEFINE pRank == PathRank[files[p[1]].path]
           qRank == PathRank[files[q[1]].path]
<1>2. Precedes(EntryAt(files, p), EntryAt(files, q)) <=>
        pRank < qRank \/ (pRank = qRank /\ p[2] - 1 < q[2] - 1)
  BY <1>1 DEF Precedes
<1>3. pRank \in Nat /\ qRank \in Nat
  BY PlacesArePairs, RankAssumption DEF TypeFile
<1>4. /\ p[1] < q[1] => pRank < qRank
      /\ q[1] < p[1] => qRank < pRank
      /\ p[1] = q[1] => pRank = qRank
  BY PlacesArePairs DEF Ascending
<1>5. p \in Nat \X Nat /\ q \in Nat \X Nat
  BY PlacesArePairs
<1> HIDE DEF pRank, qRank
<1>6. QED
  BY <1>2, <1>3, <1>4, <1>5 DEF Earlier

(* Past the last file what has been listed are the entries IndexInput      *)
(* calls the first of their key.                                           *)
LEMMA ListedAreFirst ==
  ASSUME NEW files \in Seq(TypeFile), Ascending(files), NEW kind,
         NEW k \in Nat, NEW i \in Nat, k > Len(files)
  PROVE  LET listed == {EntryAt(files, p) : p \in Listed(files, kind, <<k, i>>)}
         IN  IF kind = "ResourceFunctionType"
             THEN FirstOfKey(EntrySet(files, kind), FunctionKey) = listed
             ELSE FirstOfKey(EntrySet(files, kind), ResourceKey) = listed
<1> DEFINE S == EntrySet(files, kind)
           listed == {EntryAt(files, p) : p \in Listed(files, kind, <<k, i>>)}
           firsts == {e \in S : \A d \in S : Key(d.type) = Key(e.type) => ~Precedes(d, e)}
<1>1. S = {EntryAt(files, p) : p \in {q \in Places(files) : TypeAt(files, q).kind = kind}}
  BY EntriesAtPlaces
<1>2. \A p \in Places(files) : EntryAt(files, p).type = TypeAt(files, p)
  BY DEF EntryAt, EntryOf, TypeAt
<1>3. \A p \in Places(files) : Earlier(p, <<k, i>>)
  BY PlacesArePairs DEF Earlier
<1>4. \A e \in S : e.type.kind = kind
  BY DEF EntrySet
<1> HIDE DEF S
<1>5. ASSUME NEW e \in firsts
      PROVE  e \in listed
  <2>1. PICK p \in Places(files) : TypeAt(files, p).kind = kind /\ e = EntryAt(files, p)
    BY <1>1
  <2>2. ASSUME NEW q \in Places(files), Earlier(q, p), Same(files, q, p)
        PROVE  FALSE
    <3>1. EntryAt(files, q) \in S
      BY <2>1, <2>2, <1>1 DEF Same
    <3>2. Key(EntryAt(files, q).type) = Key(e.type)
      BY <2>1, <2>2, <1>2 DEF Same
    <3>3. QED
      BY <3>1, <3>2, <2>1, <2>2, EarlierPrecedes
  <2>3. p \in Listed(files, kind, <<k, i>>)
    BY <2>1, <2>2, <1>3 DEF Listed, First
  <2>4. QED
    BY <2>1, <2>3
<1>6. ASSUME NEW p \in Listed(files, kind, <<k, i>>)
      PROVE  EntryAt(files, p) \in firsts
  <2>1. p \in Places(files) /\ TypeAt(files, p).kind = kind /\ First(files, p)
    BY DEF Listed
  <2>2. ASSUME NEW d \in S, Key(d.type) = Key(EntryAt(files, p).type), Precedes(d, EntryAt(files, p))
        PROVE  FALSE
    <3>1. PICK q \in Places(files) : TypeAt(files, q).kind = kind /\ d = EntryAt(files, q)
      BY <1>1
    <3>2. Earlier(q, p) /\ Same(files, q, p)
      BY <2>1, <2>2, <3>1, <1>2, EarlierPrecedes DEF Same
    <3>3. QED
      BY <2>1, <3>1, <3>2 DEF First
  <2>3. QED
    BY <2>1, <2>2, <1>1
<1>7. firsts = listed
  BY <1>5, <1>6
<1>8. kind = "ResourceFunctionType" => FirstOfKey(S, FunctionKey) = firsts
  BY <1>4 DEF FirstOfKey, Key
<1>9. kind # "ResourceFunctionType" => FirstOfKey(S, ResourceKey) = firsts
  BY <1>4 DEF FirstOfKey, Key
<1>10. QED
  BY <1>7, <1>8, <1>9 DEF S

(* A list of references at places is one in the order of IndexInput.       *)
LEMMA ListsAreInOrder ==
  ASSUME NEW files \in Seq(TypeFile), Ascending(files), NEW refs,
         NEW P, P \subseteq Places(files), Lists(refs, files, P)
  PROVE  ListsInOrder(refs, {EntryAt(files, p) : p \in P})
<1>1. PICK places \in [1..Len(refs) -> P] :
        /\ \A p \in P : \E i \in 1..Len(refs) : places[i] = p
        /\ \A i, j \in 1..Len(refs) : i < j => Earlier(places[i], places[j])
        /\ \A i \in 1..Len(refs) : refs[i] = EntryAt(files, places[i]).ref
  BY DEF Lists
<1> DEFINE sorted == [i \in 1..Len(refs) |-> EntryAt(files, places[i])]
<1>2. sorted \in [1..Len(refs) -> {EntryAt(files, p) : p \in P}]
  BY <1>1
<1>3. \A e \in {EntryAt(files, p) : p \in P} : \E i \in 1..Len(refs) : sorted[i] = e
  BY <1>1
<1>4. \A i, j \in 1..Len(refs) : i < j => Precedes(sorted[i], sorted[j])
  BY <1>1, EarlierPrecedes
<1>5. \A i \in 1..Len(refs) : refs[i] = sorted[i].ref
  BY <1>1
<1>6. QED
  BY <1>2, <1>3, <1>4, <1>5 DEF ListsInOrder

-----------------------------------------------------------------------------
(* A function, whatever its domain.                                        *)
IsMap(f) == f = [x \in DOMAIN f |-> f[x]]

goAt == <<goFile, goType>>

GoTypeOK ==
  /\ typeFiles \in Seq(TypeFile) /\ goFiles \in Seq(TypeFile)
  /\ goFile \in 0..(Len(goFiles) + 1) /\ goType \in Nat
  /\ idx = [Resources |-> idx.Resources, ResourceFunctions |-> idx.ResourceFunctions,
            NamespaceFunctions |-> idx.NamespaceFunctions,
            FallbackResource |-> idx.FallbackResource,
            ConfigurationType |-> idx.ConfigurationType]
  /\ {idx.FallbackResource, idx.ConfigurationType} \subseteq {None} \cup Reference
  /\ IsMap(idx.Resources) /\ IsMap(idx.ResourceFunctions)

(* The files are the given ones until they are sorted.                     *)
GoSorted ==
  IF goFile = 0 THEN goType = 0 /\ goFiles = typeFiles
  ELSE goType >= 1 /\ goFiles \in Orders(typeFiles)

GoSeen ==
  /\ resourceSeen = Seen(goFiles, "ResourceType", goAt)
  /\ functionSeen = Seen(goFiles, "ResourceFunctionType", goAt)

(* The resources listed so far: the first of their key that have an At.    *)
GoListed ==
  {p \in Listed(goFiles, "ResourceType", goAt) : Go!Splits(TypeAt(goFiles, p).name)}

GoResourceKey(p) == Go!splitResourceName(TypeAt(goFiles, p).name)

GoResources ==
  /\ DOMAIN idx.Resources = {GoResourceKey(p) : p \in GoListed}
  /\ \A p \in GoListed : idx.Resources[GoResourceKey(p)] = EntryAt(goFiles, p).ref

(* The resource functions listed so far, by resource type and version.     *)
GoGroup(p) == Go!FunctionGroup(TypeAt(goFiles, p))

GoGroupPlaces(group) ==
  {p \in Listed(goFiles, "ResourceFunctionType", goAt) : GoGroup(p) = group}

GoFunctions ==
  /\ DOMAIN idx.ResourceFunctions =
       {GoGroup(p) : p \in Listed(goFiles, "ResourceFunctionType", goAt)}
  /\ \A group \in DOMAIN idx.ResourceFunctions :
       /\ idx.ResourceFunctions[group] \in Seq(Reference)
       /\ Lists(idx.ResourceFunctions[group], goFiles, GoGroupPlaces(group))

(* And all namespace functions.                                            *)
GoNamespacePlaces ==
  {p \in Places(goFiles) :
     Earlier(p, goAt) /\ TypeAt(goFiles, p).kind = "NamespaceFunctionType"}

GoNamespace ==
  /\ idx.NamespaceFunctions \in Seq(Reference)
  /\ Lists(idx.NamespaceFunctions, goFiles, GoNamespacePlaces)

GoInv ==
  GoTypeOK /\ GoSorted /\ GoSeen /\ GoResources /\ GoFunctions /\ GoNamespace

-----------------------------------------------------------------------------
(* The same for TypeScript, which lists names without a version as well,   *)
(* groups resource functions by lower-case type and version, and lists     *)
(* only the first namespace function of a name.                            *)
tsAt == <<tsFile, tsType>>

TsTypeOK ==
  /\ tsFiles \in Seq(TypeFile)
  /\ tsFile \in 0..(Len(tsFiles) + 1) /\ tsType \in Nat
  /\ IsMap(resDictionary) /\ IsMap(funcDictionary)

TsSorted ==
  IF tsFile = 0 THEN tsType = 0 /\ tsFiles = <<>>
  ELSE tsType >= 1 /\ tsFiles \in Orders(typeFiles)

TsSeen ==
  /\ resourceTypes = Seen(tsFiles, "ResourceType", tsAt)
  /\ resourceFunctions = Seen(tsFiles, "ResourceFunctionType", tsAt)
  /\ namespaceFunctionNames = Seen(tsFiles, "NamespaceFunctionType", tsAt)

TsListed == Listed(tsFiles, "ResourceType", tsAt)

TsResources ==
  /\ DOMAIN resDictionary = {TypeAt(tsFiles, p).name : p \in TsListed}
  /\ \A p \in TsListed : resDictionary[TypeAt(tsFiles, p).name] = EntryAt(tsFiles, p).ref

TsGroup(p) == Ts!FunctionGroup(TypeAt(tsFiles, p))

TsGroupPlaces(group) ==
  {p \in Listed(tsFiles, "ResourceFunctionType", tsAt) : TsGroup(p) = group}

TsFunctions ==
  /\ DOMAIN funcDictionary =
       {TsGroup(p) : p \in Listed(tsFiles, "ResourceFunctionType", tsAt)}
  /\ \A group \in DOMAIN funcDictionary :
       /\ funcDictionary[group] \in Seq(Reference)
       /\ Lists(funcDictionary[group], tsFiles, TsGroupPlaces(group))

TsNamespace ==
  /\ namespaceFunctions \in Seq(Reference)
  /\ Lists(namespaceFunctions, tsFiles, Listed(tsFiles, "NamespaceFunctionType", tsAt))

TsInv == TsTypeOK /\ TsSorted /\ TsSeen /\ TsResources /\ TsFunctions /\ TsNamespace

Inv == GoInv /\ TsInv

-----------------------------------------------------------------------------
(* AtPos is the place of the last At, or zero if there is none.            *)
LEMMA AtPosFacts ==
  ASSUME NEW n \in Name
  PROVE  /\ Go!AtPos(n) \in 0..Len(n)
         /\ Go!AtPos(n) > 0 => n[Go!AtPos(n)] = At
         /\ \A i \in 1..Len(n) : n[i] = At => i <= Go!AtPos(n)
<1> DEFINE I == {0} \cup {i \in DOMAIN n : n[i] = At}
           T == {Len(n) - i : i \in I}
<1>1. Len(n) \in Nat /\ DOMAIN n = 1..Len(n) /\ I \subseteq 0..Len(n) /\ 0 \in I
  BY DEF Name
<1>2. \A i \in I : i > 0 => n[i] = At
  BY <1>1
<1>3. \A i \in 1..Len(n) : n[i] = At => i \in I
  BY <1>1
<1> HIDE DEF I
<1>4. T \subseteq Nat /\ T # {}
  BY <1>1
<1>5. PICK m \in T : \A k \in T : m <= k
  BY <1>4, LeastNat
<1>6. PICK x \in I : m = Len(n) - x
  BY <1>5
<1>7. \A y \in I : x >= y
  <2> SUFFICES ASSUME NEW y \in I
               PROVE  x >= y
    OBVIOUS
  <2>1. m <= Len(n) - y
    BY <1>5
  <2>2. QED
    BY <2>1, <1>1, <1>6
<1>8. Go!Max(I) \in I /\ \A y \in I : Go!Max(I) >= y
  BY <1>6, <1>7, Zenon DEF Go!Max
<1>9. Go!AtPos(n) = Go!Max(I)
  BY Zenon DEF Go!AtPos, I
<1>10. QED
  BY <1>1, <1>2, <1>3, <1>8, <1>9

(* Names with the same lower-case form have their last At at the same      *)
(* place.                                                                  *)
LEMMA AtPosOfLower ==
  ASSUME NEW n \in Name, NEW m \in Name, LowerName(n) = LowerName(m)
  PROVE  Go!AtPos(n) = Go!AtPos(m) /\ Go!Splits(n) = Go!Splits(m)
<1>1. Len(n) = Len(m) /\ Len(n) \in Nat /\ \A i \in 1..Len(n) : n[i] = At <=> m[i] = At
  BY LowerNameKeepsPlaces DEF Name
<1>2. Go!AtPos(n) = Go!AtPos(m)
  BY <1>1, AtPosFacts
<1>3. QED
  BY <1>1, <1>2 DEF Go!Splits

(* A text cut at an At is its two parts with the At between them.          *)
LEMMA WholeAgain ==
  ASSUME NEW n \in Seq(Char), NEW a \in 1..Len(n), n[a] = At,
         NEW front \in Seq(Char), Len(front) = a - 1,
         \A i \in 1..(a - 1) : front[i] = n[i],
         NEW back \in Seq(Char), Len(back) = Len(n) - a,
         \A i \in 1..(Len(n) - a) : back[i] = n[i + a]
  PROVE  front \o <<At>> \o back = n
<1>0. At \in Char /\ Len(n) \in Nat
  BY DEF Char
<1> DEFINE head == Append(front, At)
           whole == front \o <<At>> \o back
<1>1. /\ head \in Seq(Char) /\ Len(head) = a /\ head[a] = At
      /\ \A i \in 1..(a - 1) : head[i] = n[i]
  BY <1>0
<1>2. whole = head \o back
  BY <1>0, AppendIsConcat
<1> HIDE DEF head, whole
<1>3. /\ whole \in Seq(Char) /\ Len(whole) = Len(n)
      /\ \A i \in 1..Len(n) : whole[i] = IF i <= a THEN head[i] ELSE back[i - a]
  <2>1. /\ head \o back \in Seq(Char)
        /\ Len(head \o back) = Len(head) + Len(back)
        /\ \A i \in 1..(Len(head) + Len(back)) :
             (head \o back)[i] = IF i <= Len(head) THEN head[i] ELSE back[i - Len(head)]
    <3>1. head \in Seq(Char) /\ back \in Seq(Char)
      BY <1>0, <1>1
    <3>2. QED
      BY <3>1, ConcatProperties, Zenon
  <2>2. Len(head) + Len(back) = Len(n) /\ Len(head) = a
    BY <1>0, <1>1
  <2>3. QED
    BY <1>2, <2>1, <2>2
<1>4. \A i \in 1..Len(n) : whole[i] = n[i]
  <2> SUFFICES ASSUME NEW i \in 1..Len(n)
               PROVE  whole[i] = n[i]
    OBVIOUS
  <2>1. CASE i <= a
    <3>1. head[i] = n[i]
      BY <2>1, <1>0, <1>1
    <3>2. QED
      BY <2>1, <3>1, <1>3
  <2>2. CASE i > a
    <3>1. i - a \in 1..(Len(n) - a) /\ (i - a) + a = i
      BY <2>2, <1>0
    <3>2. back[i - a] = n[(i - a) + a]
      BY <3>1, <1>0
    <3>3. QED
      BY <2>2, <3>1, <3>2, <1>0, <1>3
  <2>3. QED
    BY <2>1, <2>2, <1>0
<1>5. QED
  BY <1>0, <1>3, <1>4, SeqEqual DEF whole

(* A name that is split is the text of its two parts again, and the second *)
(* part has no At.                                                         *)
LEMMA SplitFacts ==
  ASSUME NEW n \in Name, Go!Splits(n)
  PROVE  /\ Go!splitResourceName(n) \in Name \X Name
         /\ FlatKey(Go!splitResourceName(n)) = n
         /\ \A i \in 1..Len(Go!splitResourceName(n)[2]) : Go!splitResourceName(n)[2][i] # At
<1> DEFINE a == Go!AtPos(n)
<1>1. Len(n) \in Nat /\ n \in Seq(Char) /\ a \in 2..(Len(n) - 1) /\ n[a] = At
      /\ \A i \in 1..Len(n) : n[i] = At => i <= a
  BY AtPosFacts DEF Go!Splits, Name
<1> DEFINE front == SubSeq(n, 1, a - 1)
           back == SubSeq(n, a + 1, Len(n))
<1>2. Go!splitResourceName(n) = <<front, back>>
  BY DEF Go!splitResourceName
<1> HIDE DEF a
<1>3. /\ front \in Seq(Char) /\ Len(front) = a - 1
      /\ \A i \in 1..(a - 1) : front[i] = n[i]
  BY <1>1
<1>4. /\ back \in Seq(Char) /\ Len(back) = Len(n) - a
      /\ \A i \in 1..(Len(n) - a) : back[i] = n[i + a]
  BY <1>1
<1> HIDE DEF front, back
<1>5. At \in Char
  BY DEF Char
<1>6. front \o <<At>> \o back = n
  <2>1. a \in 1..Len(n)
    BY <1>1
  <2>2. QED
    BY <1>1, <1>3, <1>4, <2>1, WholeAgain, Zenon
<1>7. ASSUME NEW i \in 1..Len(back)
      PROVE  back[i] # At
  <2>1. i + a \in 1..Len(n) /\ i + a > a /\ back[i] = n[i + a]
    BY <1>1, <1>4
  <2>2. QED
    BY <2>1, <1>1
<1>8. QED
  BY <1>2, <1>3, <1>4, <1>6, <1>7 DEF FlatKey, Name

-----------------------------------------------------------------------------
(* The two builders use the definitions of GoIndex and IndexInput.         *)
LEMMA SameDefinitions ==
  /\ \A map, key, value : Go!Put(map, key, value) = Put(map, key, value)
  /\ \A map, key, value : Ts!Put(map, key, value) = Put(map, key, value)
  /\ \A file, i : /\ Go!EntryOf(file, i) = EntryOf(file, i)
                  /\ Ts!EntryOf(file, i) = EntryOf(file, i)
  /\ \A files : Go!Orders(files) = Orders(files)
  /\ \A t : Go!ResourceKey(t) = ResourceKey(t) /\ Ts!ResourceKey(t) = ResourceKey(t)
  /\ \A t : Go!FunctionKey(t) = FunctionKey(t) /\ Ts!FunctionKey(t) = FunctionKey(t)
<1>1. \A n : Go!LowerName(n) = LowerName(n) /\ Ts!LowerName(n) = LowerName(n)
  BY DEF Go!LowerName, Ts!LowerName, LowerName
<1>2. \A t : Go!ResourceKey(t) = ResourceKey(t) /\ Ts!ResourceKey(t) = ResourceKey(t)
  BY <1>1, Zenon DEF Go!ResourceKey, Ts!ResourceKey, ResourceKey
<1>3. \A t : Go!FunctionKey(t) = FunctionKey(t) /\ Ts!FunctionKey(t) = FunctionKey(t)
  BY <1>1, Zenon DEF Go!FunctionKey, Ts!FunctionKey, FunctionKey
<1>4. \A S, T : Go!Bijection(S, T) = Bijection(S, T)
  BY DEF Go!Bijection, Go!Injection, Go!Surjection, Go!IsInjective,
         Bijection, Injection, Surjection, IsInjective
<1>5. \A files : Go!Orders(files) = Orders(files)
  BY <1>4, Zenon DEF Go!Orders, Orders
<1>6. \A file, i : /\ Go!EntryOf(file, i) = EntryOf(file, i)
                   /\ Ts!EntryOf(file, i) = EntryOf(file, i)
  BY DEF Go!EntryOf, Go!CrossFileTypeReference, Ts!EntryOf, Ts!CrossFileTypeReference,
         EntryOf, CrossFileTypeReference
<1>7. /\ \A map, key, value : Go!Put(map, key, value) = Put(map, key, value)
      /\ \A map, key, value : Ts!Put(map, key, value) = Put(map, key, value)
  BY DEF Go!Put, Ts!Put, Put
<1>8. QED
  BY <1>2, <1>3, <1>5, <1>6, <1>7

(* The entry made for a place holds the type at that place and a           *)
(* reference with the path of its file.                                    *)
LEMMA EntryFacts ==
  ASSUME NEW files \in Seq(TypeFile), NEW p \in Places(files)
  PROVE  /\ EntryAt(files, p).type = TypeAt(files, p)
         /\ EntryAt(files, p).ref \in Reference
<1>1. p[2] \in Nat \ {0} /\ files[p[1]] \in TypeFile
  BY PlacesArePairs
<1>2. EntryAt(files, p).ref = [relativePath |-> files[p[1]].path, ref |-> p[2] - 1]
  BY DEF EntryAt, EntryOf, CrossFileTypeReference
<1>3. EntryAt(files, p).ref \in Reference
  BY <1>1, <1>2 DEF TypeFile, Reference
<1>4. QED
  BY <1>3 DEF EntryAt, EntryOf, TypeAt

(* An empty list lists nothing.                                            *)
LEMMA ListsNothing ==
  ASSUME NEW files
  PROVE  Lists(<<>>, files, {})
<1>1. 1..Len(<<>>) = {}
  OBVIOUS
<1>2. [i \in {} |-> 0] \in [{} -> {}]
  OBVIOUS
<1>3. QED
  BY <1>1, <1>2, Zenon DEF Lists

(* BuildIndex starts with an empty index.                                  *)
LEMMA GoInit ==
  ASSUME Go!Init
  PROVE  GoInv
<1>1. PICK in \in Inputs :
        /\ typeFiles = in.typeFiles
        /\ idx = [Go!NewTypeIndex EXCEPT !.FallbackResource = in.fallback,
                                         !.ConfigurationType = in.configuration]
  BY DEF Go!Init
<1>2. /\ goFiles = typeFiles /\ goFile = 0 /\ goType = 0
      /\ resourceSeen = {} /\ functionSeen = {}
  BY DEF Go!Init
<1>3. idx = [Resources |-> <<>>, ResourceFunctions |-> <<>>, NamespaceFunctions |-> <<>>,
             FallbackResource |-> in.fallback, ConfigurationType |-> in.configuration]
  BY <1>1 DEF Go!NewTypeIndex
<1>4. /\ typeFiles \in Seq(TypeFile)
      /\ {in.fallback, in.configuration} \subseteq {None} \cup Reference
  BY <1>1, InputAssumption
<1>5. GoTypeOK
  BY <1>2, <1>3, <1>4 DEF GoTypeOK, IsMap
<1>6. GoSorted
  BY <1>2 DEF GoSorted
<1>7. \A kind : Listed(goFiles, kind, goAt) = {} /\ Seen(goFiles, kind, goAt) = {}
  BY <1>2, <1>4, NothingListed DEF goAt
<1>8. GoSeen
  BY <1>2, <1>7 DEF GoSeen
<1>9. GoResources
  BY <1>3, <1>7 DEF GoResources, GoListed
<1>10. GoFunctions
  BY <1>3, <1>7 DEF GoFunctions
<1>11. GoNamespace
  <2>1. GoNamespacePlaces = {}
    BY <1>2, <1>4, PlacesArePairs DEF GoNamespacePlaces, goAt, Earlier
  <2>2. QED
    BY <1>3, <2>1, ListsNothing DEF GoNamespace
<1>12. QED
  BY <1>5, <1>6, <1>8, <1>9, <1>10, <1>11 DEF GoInv

(* Sorting comes before anything is listed.                                *)
LEMMA GoSort ==
  ASSUME GoInv, Go!Sort
  PROVE  GoInv'
<1>1. /\ goFile = 0 /\ goFile' = 1 /\ goType' = 1 /\ goFiles' \in Orders(typeFiles)
      /\ UNCHANGED <<typeFiles, resourceSeen, functionSeen, idx>>
  BY SameDefinitions DEF Go!Sort, GoInv, GoSorted
<1>2. goType = 0 /\ goFiles \in Seq(TypeFile) /\ goFiles' \in Seq(TypeFile)
  BY <1>1, OrderFacts DEF GoInv, GoSorted, GoTypeOK
<1>3. /\ \A kind : Listed(goFiles, kind, goAt) = {} /\ Seen(goFiles, kind, goAt) = {}
      /\ GoNamespacePlaces = {}
  BY <1>1, <1>2, NothingListed, PlacesArePairs DEF goAt, GoNamespacePlaces, Earlier
<1>4. goAt' = <<1, 1>>
  BY <1>1 DEF goAt
<1>5. /\ \A kind : Listed(goFiles', kind, goAt') = {} /\ Seen(goFiles', kind, goAt') = {}
      /\ GoNamespacePlaces' = {}
  <2>1. \A kind : Listed(goFiles', kind, goAt') = {} /\ Seen(goFiles', kind, goAt') = {}
    BY <1>2, <1>4, NothingListed
  <2>2. \A p \in Places(goFiles') : ~Earlier(p, <<1, 1>>)
    BY <1>2, PlacesArePairs DEF Earlier
  <2>3. QED
    BY <1>4, <2>1, <2>2 DEF GoNamespacePlaces
<1>6. GoTypeOK' /\ GoSorted'
  BY <1>1, <1>2 DEF GoInv, GoTypeOK, GoSorted
<1>7. GoSeen' /\ GoResources'
  BY <1>1, <1>3, <1>5 DEF GoInv, GoSeen, GoResources, GoListed
<1>8. GoFunctions'
  BY <1>1, <1>3, <1>5 DEF GoInv, GoFunctions
<1>9. GoNamespace'
  <2>1. Len(idx.NamespaceFunctions) = 0
    BY <1>3 DEF GoInv, GoNamespace, Lists
  <2>2. idx.NamespaceFunctions = <<>>
    BY <2>1 DEF GoInv, GoNamespace
  <2>3. QED
    BY <1>1, <1>5, <2>2, ListsNothing DEF GoNamespace
<1>10. QED
  BY <1>6, <1>7, <1>8, <1>9 DEF GoInv

(* Where the builder is when it visits a type.                             *)
LEMMA GoAtPlace ==
  ASSUME GoInv, Go!VisitType
  PROVE  /\ goAt \in Places(goFiles) /\ goFiles \in Seq(TypeFile)
         /\ goAt' = <<goAt[1], goAt[2] + 1>> /\ goType' \in Nat /\ goType' >= 1
         /\ UNCHANGED <<typeFiles, goFiles, goFile>>
         /\ TypeAt(goFiles, goAt) \in Type
         /\ Go!EntryOf(goFiles[goFile], goType).type = TypeAt(goFiles, goAt)
         /\ Go!EntryOf(goFiles[goFile], goType).ref = EntryAt(goFiles, goAt).ref
         /\ EntryAt(goFiles, goAt).ref \in Reference
<1>1. /\ goFile \in 1..Len(goFiles) /\ goType <= Len(goFiles[goFile].types)
      /\ goType' = goType + 1 /\ UNCHANGED <<typeFiles, goFiles, goFile>>
  BY DEF Go!VisitType
<1>2. goFiles \in Seq(TypeFile) /\ goType \in Nat /\ goType >= 1
  BY <1>1 DEF GoInv, GoTypeOK, GoSorted
<1>3. Len(goFiles[goFile].types) \in Nat
  <2>1. goFiles[goFile] \in TypeFile
    BY <1>1, <1>2
  <2>2. QED
    BY <2>1 DEF TypeFile
<1>4. goAt \in Places(goFiles) /\ goAt[1] = goFile /\ goAt[2] = goType
  BY <1>1, <1>2, <1>3 DEF Places, goAt
<1>5. goAt' = <<goAt[1], goAt[2] + 1>>
  BY <1>1, <1>4 DEF goAt
<1>6. Go!EntryOf(goFiles[goFile], goType) = EntryAt(goFiles, goAt)
  BY <1>4, SameDefinitions DEF EntryAt
<1>7. QED
  BY <1>1, <1>2, <1>4, <1>5, <1>6, EntryFacts, PlacesArePairs

(* A step that leaves the resources alone, at a type of another kind.      *)
LEMMA GoResourcesKept ==
  ASSUME GoInv, Go!VisitType, TypeAt(goFiles, goAt).kind # "ResourceType",
         resourceSeen' = resourceSeen, idx'.Resources = idx.Resources
  PROVE  GoResources' /\ resourceSeen' = Seen(goFiles', "ResourceType", goAt')
<1>1. Listed(goFiles', "ResourceType", goAt') = Listed(goFiles, "ResourceType", goAt)
  BY GoAtPlace, VisitedPlace
<1>2. QED
  BY <1>1, GoAtPlace DEF GoInv, GoResources, GoListed, GoResourceKey, GoSeen, Seen

(* A type that is no resource function leaves the Go table of resource     *)
(* functions as it should be at the next place.                            *)
LEMMA GoFunctionsKept ==
  ASSUME GoInv, Go!VisitType, TypeAt(goFiles, goAt).kind # "ResourceFunctionType",
         functionSeen' = functionSeen, idx'.ResourceFunctions = idx.ResourceFunctions
  PROVE  GoFunctions' /\ functionSeen' = Seen(goFiles', "ResourceFunctionType", goAt')
<1>1. Listed(goFiles', "ResourceFunctionType", goAt') =
      Listed(goFiles, "ResourceFunctionType", goAt)
  BY GoAtPlace, VisitedPlace
<1>2. \A group : GoGroupPlaces(group)' = GoGroupPlaces(group)
  BY <1>1, GoAtPlace DEF GoGroupPlaces, GoGroup
<1>3. {GoGroup(p) : p \in Listed(goFiles, "ResourceFunctionType", goAt)}' =
      {GoGroup(p) : p \in Listed(goFiles, "ResourceFunctionType", goAt)}
  BY <1>1, GoAtPlace DEF GoGroup
<1>4. GoFunctions'
  BY <1>2, <1>3, GoAtPlace DEF GoInv, GoFunctions
<1>5. QED
  BY <1>1, <1>4, GoAtPlace DEF GoInv, GoSeen, Seen

(* A type that is no namespace function leaves the Go list of namespace    *)
(* functions as it should be at the next place.                            *)
LEMMA GoNamespaceKept ==
  ASSUME GoInv, Go!VisitType, TypeAt(goFiles, goAt).kind # "NamespaceFunctionType",
         idx'.NamespaceFunctions = idx.NamespaceFunctions
  PROVE  GoNamespace'
<1>1. \A p \in Places(goFiles) : Earlier(p, goAt') <=> Earlier(p, goAt) \/ p = goAt
  BY GoAtPlace, PlacesArePairs DEF Earlier
<1>2. GoNamespacePlaces' = GoNamespacePlaces
  BY <1>1, GoAtPlace DEF GoNamespacePlaces
<1>3. QED
  BY <1>2, GoAtPlace DEF GoInv, GoNamespace

(* The types of the index and of the cursor after a visit.                 *)
LEMMA GoVisitTypeOK ==
  ASSUME GoInv, Go!VisitType, IsMap(idx'.Resources), IsMap(idx'.ResourceFunctions),
         idx' = [Resources |-> idx'.Resources, ResourceFunctions |-> idx'.ResourceFunctions,
                 NamespaceFunctions |-> idx'.NamespaceFunctions,
                 FallbackResource |-> idx.FallbackResource,
                 ConfigurationType |-> idx.ConfigurationType]
  PROVE  GoTypeOK' /\ GoSorted'
<1>1. /\ idx'.FallbackResource = idx.FallbackResource
      /\ idx'.ConfigurationType = idx.ConfigurationType
  OBVIOUS
<1>2. goFile # 0 /\ goFile' # 0
  BY GoAtPlace DEF Go!VisitType
<1>3. QED
  BY <1>1, <1>2, GoAtPlace DEF GoInv, GoTypeOK, GoSorted

(* Names that are listed are names, and different ones have different keys.*)
LEMMA ResourceNames ==
  ASSUME NEW files \in Seq(TypeFile), NEW p \in Places(files),
         TypeAt(files, p).kind \in {"ResourceType", "NamespaceFunctionType"}
  PROVE  /\ TypeAt(files, p).name \in Name
         /\ Key(TypeAt(files, p)) = LowerName(TypeAt(files, p).name)
<1>1. TypeAt(files, p) \in [kind : {"ResourceType", "NamespaceFunctionType"}, name : Name]
  BY PlacesArePairs DEF Type, OtherType
<1>2. QED
  BY <1>1 DEF Key, ResourceKey

(* A resource is listed unless its key has been seen or it has no version. *)
LEMMA GoVisitResource ==
  ASSUME GoInv, Go!VisitType, TypeAt(goFiles, goAt).kind = "ResourceType",
         Go!IndexResource(TypeAt(goFiles, goAt), EntryAt(goFiles, goAt).ref)
  PROVE  GoInv'
<1> DEFINE t == TypeAt(goFiles, goAt)
           ref == EntryAt(goFiles, goAt).ref
           listed == Listed(goFiles, "ResourceType", goAt)
<1>1. /\ t.name \in Name /\ Key(t) = LowerName(t.name) /\ ResourceKey(t) = Key(t)
      /\ \A p \in listed : /\ p \in Places(goFiles) /\ TypeAt(goFiles, p).name \in Name
                           /\ Key(TypeAt(goFiles, p)) = LowerName(TypeAt(goFiles, p).name)
  BY GoAtPlace, ResourceNames DEF Listed, ResourceKey
<1>2. /\ idx' = IF Key(t) \in resourceSeen \/ ~Go!Splits(t.name) THEN idx
                ELSE [idx EXCEPT !.Resources = Put(@, Go!splitResourceName(t.name), ref)]
      /\ resourceSeen' = resourceSeen \cup {Key(t)}
      /\ functionSeen' = functionSeen
  BY <1>1, SameDefinitions DEF Go!IndexResource, Go!AddResource
<1>3. resourceSeen = {Key(TypeAt(goFiles, p)) : p \in listed}
  BY DEF GoInv, GoSeen, Seen
<1>4. Listed(goFiles, "ResourceType", goAt') =
        IF Key(t) \notin resourceSeen THEN listed \cup {goAt} ELSE listed
  BY GoAtPlace, VisitedPlace DEF GoInv, GoSeen
<1>5. resourceSeen' = Seen(goFiles', "ResourceType", goAt')
  BY <1>2, <1>3, <1>4, GoAtPlace DEF Seen
<1>6. IsMap(idx.Resources) /\ IsMap(idx.ResourceFunctions)
      /\ idx = [Resources |-> idx.Resources, ResourceFunctions |-> idx.ResourceFunctions,
                NamespaceFunctions |-> idx.NamespaceFunctions,
                FallbackResource |-> idx.FallbackResource,
                ConfigurationType |-> idx.ConfigurationType]
  BY DEF GoInv, GoTypeOK
<1>7. /\ idx'.ResourceFunctions = idx.ResourceFunctions
      /\ idx'.NamespaceFunctions = idx.NamespaceFunctions
      /\ idx'.Resources = IF Key(t) \in resourceSeen \/ ~Go!Splits(t.name) THEN idx.Resources
                          ELSE Put(idx.Resources, Go!splitResourceName(t.name), ref)
      /\ idx' = [Resources |-> idx'.Resources, ResourceFunctions |-> idx'.ResourceFunctions,
                 NamespaceFunctions |-> idx'.NamespaceFunctions,
                 FallbackResource |-> idx.FallbackResource,
                 ConfigurationType |-> idx.ConfigurationType]
  BY <1>2, <1>6
<1> DEFINE new == Put(idx.Resources, GoResourceKey(goAt), ref)
<1>8. /\ IsMap(new)
      /\ DOMAIN new = DOMAIN idx.Resources \cup {GoResourceKey(goAt)}
      /\ new[GoResourceKey(goAt)] = ref
      /\ \A key \in DOMAIN idx.Resources :
           key # GoResourceKey(goAt) => new[key] = idx.Resources[key]
  BY DEF Put, IsMap
<1> HIDE DEF new
<1>9. GoTypeOK' /\ GoSorted'
  <2>1. IsMap(idx'.Resources)
    BY <1>6, <1>7, <1>8 DEF new, GoResourceKey
  <2>2. QED
    BY <2>1, <1>6, <1>7, GoVisitTypeOK
<1>10. GoFunctions' /\ functionSeen' = Seen(goFiles', "ResourceFunctionType", goAt')
  BY <1>2, <1>7, GoFunctionsKept
<1>11. GoNamespace'
  BY <1>7, GoNamespaceKept
<1>12. GoListed' = IF Key(t) \in resourceSeen \/ ~Go!Splits(t.name) THEN GoListed
                   ELSE GoListed \cup {goAt}
  BY <1>4, GoAtPlace DEF GoListed
<1>13. GoResources'
  <2>1. /\ \A p : GoResourceKey(p)' = GoResourceKey(p)
        /\ \A p : EntryAt(goFiles, p)' = EntryAt(goFiles, p)
    BY GoAtPlace DEF GoResourceKey
  <2>2. CASE Key(t) \in resourceSeen \/ ~Go!Splits(t.name)
    BY <2>1, <2>2, <1>7, <1>12 DEF GoInv, GoResources
  <2>3. CASE Key(t) \notin resourceSeen /\ Go!Splits(t.name)
    <3>1. \A p \in GoListed : GoResourceKey(p) # GoResourceKey(goAt)
      <4> SUFFICES ASSUME NEW p \in GoListed, GoResourceKey(p) = GoResourceKey(goAt)
                   PROVE  FALSE
        OBVIOUS
      <4>1. p \in listed /\ Go!Splits(TypeAt(goFiles, p).name)
        BY DEF GoListed
      <4>2. TypeAt(goFiles, p).name = t.name
        BY <4>1, <1>1, <2>3, SplitFacts DEF GoResourceKey
      <4>3. QED
        BY <4>1, <4>2, <1>1, <1>3, <2>3
    <3>2. GoListed' = GoListed \cup {goAt}
      BY <1>12, <2>3
    <3>3. idx'.Resources = new
      BY <1>7, <2>3 DEF new, GoResourceKey
    <3>4. DOMAIN idx'.Resources = {GoResourceKey(p) : p \in GoListed'}
      BY <3>2, <3>3, <1>8 DEF GoInv, GoResources
    <3>5. \A p \in GoListed' : idx'.Resources[GoResourceKey(p)] = EntryAt(goFiles, p).ref
      BY <3>1, <3>2, <3>3, <1>8 DEF GoInv, GoResources
    <3>6. QED
      BY <2>1, <3>4, <3>5 DEF GoResources
  <2>4. QED
    BY <2>2, <2>3
<1>14. QED
  BY <1>5, <1>9, <1>10, <1>11, <1>13 DEF GoInv, GoSeen

(* A resource function is added to those of its resource unless its key    *)
(* has been seen.                                                          *)
LEMMA GoVisitFunction ==
  ASSUME GoInv, Go!VisitType, TypeAt(goFiles, goAt).kind = "ResourceFunctionType",
         Go!IndexResourceFunction(TypeAt(goFiles, goAt), EntryAt(goFiles, goAt).ref)
  PROVE  GoInv'
<1> DEFINE t == TypeAt(goFiles, goAt)
           ref == EntryAt(goFiles, goAt).ref
           listed == Listed(goFiles, "ResourceFunctionType", goAt)
           group == GoGroup(goAt)
           known == IF group \in DOMAIN idx.ResourceFunctions
                    THEN idx.ResourceFunctions[group] ELSE <<>>
           new == Put(idx.ResourceFunctions, group, Append(known, ref))
<1>1. FunctionKey(t) = Key(t)
  BY DEF Key
<1>2. IsMap(idx.Resources) /\ IsMap(idx.ResourceFunctions)
      /\ idx = [Resources |-> idx.Resources, ResourceFunctions |-> idx.ResourceFunctions,
                NamespaceFunctions |-> idx.NamespaceFunctions,
                FallbackResource |-> idx.FallbackResource,
                ConfigurationType |-> idx.ConfigurationType]
  BY DEF GoInv, GoTypeOK
<1>3. /\ idx' = IF Key(t) \in functionSeen THEN idx ELSE [idx EXCEPT !.ResourceFunctions = new]
      /\ functionSeen' = functionSeen \cup {Key(t)}
      /\ resourceSeen' = resourceSeen
  BY <1>1, SameDefinitions DEF Go!IndexResourceFunction, Go!AddResourceFunction, GoGroup
<1>4. functionSeen = {Key(TypeAt(goFiles, p)) : p \in listed}
  BY DEF GoInv, GoSeen, Seen
<1>5. Listed(goFiles, "ResourceFunctionType", goAt') =
        IF Key(t) \notin functionSeen THEN listed \cup {goAt} ELSE listed
  BY GoAtPlace, VisitedPlace DEF GoInv, GoSeen
<1>6. functionSeen' = Seen(goFiles', "ResourceFunctionType", goAt')
  BY <1>3, <1>4, <1>5, GoAtPlace DEF Seen
<1>7. /\ IsMap(new)
      /\ DOMAIN new = DOMAIN idx.ResourceFunctions \cup {group}
      /\ new[group] = Append(known, ref)
      /\ \A key \in DOMAIN idx.ResourceFunctions :
           key # group => new[key] = idx.ResourceFunctions[key]
  BY DEF Put, IsMap
<1> HIDE DEF new
<1>8. /\ idx'.Resources = idx.Resources
      /\ idx'.NamespaceFunctions = idx.NamespaceFunctions
      /\ idx'.ResourceFunctions = IF Key(t) \in functionSeen THEN idx.ResourceFunctions ELSE new
      /\ idx' = [Resources |-> idx'.Resources, ResourceFunctions |-> idx'.ResourceFunctions,
                 NamespaceFunctions |-> idx'.NamespaceFunctions,
                 FallbackResource |-> idx.FallbackResource,
                 ConfigurationType |-> idx.ConfigurationType]
  BY <1>2, <1>3
<1>9. GoTypeOK' /\ GoSorted'
  <2>1. IsMap(idx'.ResourceFunctions)
    BY <1>2, <1>7, <1>8
  <2>2. QED
    BY <2>1, <1>2, <1>8, GoVisitTypeOK
<1>10. GoResources' /\ resourceSeen' = Seen(goFiles', "ResourceType", goAt')
  BY <1>3, <1>8, GoResourcesKept
<1>11. GoNamespace'
  BY <1>8, GoNamespaceKept
<1>12. GoFunctions'
  <2>1. \A p : GoGroup(p)' = GoGroup(p)
    BY GoAtPlace DEF GoGroup
  <2>2. CASE Key(t) \in functionSeen
    <3>1. Listed(goFiles, "ResourceFunctionType", goAt)' = listed
      BY <2>2, <1>5, GoAtPlace
    <3>2. \A g : GoGroupPlaces(g)' = GoGroupPlaces(g)
      BY <2>1, <3>1 DEF GoGroupPlaces
    <3>3. QED
      BY <2>1, <2>2, <3>1, <3>2, <1>8, GoAtPlace DEF GoInv, GoFunctions
  <2>3. CASE Key(t) \notin functionSeen
    <3>1. Listed(goFiles, "ResourceFunctionType", goAt)' = listed \cup {goAt}
      BY <2>3, <1>5, GoAtPlace
    <3>2. \A g : GoGroupPlaces(g)' = IF g = group THEN GoGroupPlaces(g) \cup {goAt}
                                     ELSE GoGroupPlaces(g)
      BY <2>1, <3>1 DEF GoGroupPlaces
    <3>3. DOMAIN idx'.ResourceFunctions =
            {GoGroup(p) : p \in Listed(goFiles, "ResourceFunctionType", goAt)}'
      BY <2>1, <2>3, <3>1, <1>7, <1>8 DEF GoInv, GoFunctions
    <3>4. known \in Seq(Reference) /\ Lists(known, goFiles, GoGroupPlaces(group))
      <4>1. CASE group \in DOMAIN idx.ResourceFunctions
        BY <4>1 DEF GoInv, GoFunctions
      <4>2. CASE group \notin DOMAIN idx.ResourceFunctions
        <5>1. GoGroupPlaces(group) = {}
          BY <4>2 DEF GoInv, GoFunctions, GoGroupPlaces
        <5>2. QED
          BY <4>2, <5>1, ListsNothing
      <4>3. QED
        BY <4>1, <4>2
    <3>5. \A p \in GoGroupPlaces(group) : Earlier(p, goAt)
      BY DEF GoGroupPlaces, Listed
    <3> HIDE DEF known
    <3>6. /\ Append(known, ref) \in Seq(Reference)
          /\ Lists(Append(known, ref), goFiles, GoGroupPlaces(group) \cup {goAt})
      <4>1. goFiles \in Seq(TypeFile) /\ ref \in Reference
        BY GoAtPlace
      <4>2. Append(known, ref) \in Seq(Reference)
        BY <3>4, <4>1
      <4>3. Lists(Append(known, ref), goFiles, GoGroupPlaces(group) \cup {goAt})
        BY <3>4, <3>5, <4>1, ListsAppend, Zenon
      <4>4. QED
        BY <4>2, <4>3
    <3>7. ASSUME NEW g \in DOMAIN idx'.ResourceFunctions
          PROVE  /\ idx'.ResourceFunctions[g] \in Seq(Reference)
                 /\ Lists(idx'.ResourceFunctions[g], goFiles', GoGroupPlaces(g)')
      <4>1. CASE g = group
        <5>1. idx'.ResourceFunctions[g] = Append(known, ref)
          BY <4>1, <2>3, <1>7, <1>8
        <5>2. QED
          BY <4>1, <5>1, <3>2, <3>6, GoAtPlace
      <4>2. CASE g # group
        <5>1. g \in DOMAIN idx.ResourceFunctions
              /\ idx'.ResourceFunctions[g] = idx.ResourceFunctions[g]
          BY <4>2, <2>3, <1>7, <1>8
        <5>2. QED
          BY <4>2, <5>1, <3>2, GoAtPlace DEF GoInv, GoFunctions
      <4>3. QED
        BY <4>1, <4>2
    <3>8. QED
      BY <3>3, <3>7 DEF GoFunctions
  <2>4. QED
    BY <2>2, <2>3
<1>13. QED
  BY <1>6, <1>9, <1>10, <1>11, <1>12 DEF GoInv, GoSeen

(* Every namespace function is added.                                      *)
LEMMA GoVisitNamespace ==
  ASSUME GoInv, Go!VisitType, TypeAt(goFiles, goAt).kind = "NamespaceFunctionType",
         Go!IndexNamespaceFunction(EntryAt(goFiles, goAt).ref)
  PROVE  GoInv'
<1> DEFINE ref == EntryAt(goFiles, goAt).ref
<1>1. IsMap(idx.Resources) /\ IsMap(idx.ResourceFunctions)
      /\ idx = [Resources |-> idx.Resources, ResourceFunctions |-> idx.ResourceFunctions,
                NamespaceFunctions |-> idx.NamespaceFunctions,
                FallbackResource |-> idx.FallbackResource,
                ConfigurationType |-> idx.ConfigurationType]
  BY DEF GoInv, GoTypeOK
<1>2. /\ idx' = [idx EXCEPT !.NamespaceFunctions = Append(@, ref)]
      /\ resourceSeen' = resourceSeen /\ functionSeen' = functionSeen
  BY DEF Go!IndexNamespaceFunction, Go!AddNamespaceFunction
<1>3. /\ idx'.Resources = idx.Resources
      /\ idx'.ResourceFunctions = idx.ResourceFunctions
      /\ idx'.NamespaceFunctions = Append(idx.NamespaceFunctions, ref)
      /\ idx' = [Resources |-> idx'.Resources, ResourceFunctions |-> idx'.ResourceFunctions,
                 NamespaceFunctions |-> idx'.NamespaceFunctions,
                 FallbackResource |-> idx.FallbackResource,
                 ConfigurationType |-> idx.ConfigurationType]
  BY <1>1, <1>2
<1>4. GoTypeOK' /\ GoSorted'
  BY <1>1, <1>3, GoVisitTypeOK
<1>5. GoResources' /\ resourceSeen' = Seen(goFiles', "ResourceType", goAt')
  BY <1>2, <1>3, GoResourcesKept
<1>6. GoFunctions' /\ functionSeen' = Seen(goFiles', "ResourceFunctionType", goAt')
  BY <1>2, <1>3, GoFunctionsKept
<1>7. GoNamespace'
  <2>1. goFiles \in Seq(TypeFile) /\ ref \in Reference
    BY GoAtPlace
  <2>2. idx.NamespaceFunctions \in Seq(Reference)
        /\ Lists(idx.NamespaceFunctions, goFiles, GoNamespacePlaces)
    BY DEF GoInv, GoNamespace
  <2>3. \A p \in GoNamespacePlaces : Earlier(p, goAt)
    BY DEF GoNamespacePlaces
  <2>4. Lists(idx'.NamespaceFunctions, goFiles, GoNamespacePlaces \cup {goAt})
    <3>1. Lists(Append(idx.NamespaceFunctions, ref), goFiles, GoNamespacePlaces \cup {goAt})
      BY <2>1, <2>2, <2>3, ListsAppend, Zenon
    <3>2. QED
      BY <3>1, <1>3
  <2>5. \A p \in Places(goFiles) : Earlier(p, goAt') <=> Earlier(p, goAt) \/ p = goAt
    BY GoAtPlace, PlacesArePairs DEF Earlier
  <2>6. GoNamespacePlaces' = GoNamespacePlaces \cup {goAt}
    BY <2>5, GoAtPlace DEF GoNamespacePlaces
  <2>7. idx'.NamespaceFunctions \in Seq(Reference)
    BY <1>3, <2>1, <2>2
  <2>8. QED
    BY <2>4, <2>6, <2>7, GoAtPlace DEF GoNamespace
<1>8. QED
  BY <1>4, <1>5, <1>6, <1>7 DEF GoInv, GoSeen

(* Types of other kinds are skipped.                                       *)
LEMMA GoVisitOther ==
  ASSUME GoInv, Go!VisitType, TypeAt(goFiles, goAt).kind = "ObjectType",
         UNCHANGED <<resourceSeen, functionSeen, idx>>
  PROVE  GoInv'
<1>1. IsMap(idx'.Resources) /\ IsMap(idx'.ResourceFunctions)
      /\ idx' = [Resources |-> idx'.Resources, ResourceFunctions |-> idx'.ResourceFunctions,
                 NamespaceFunctions |-> idx'.NamespaceFunctions,
                 FallbackResource |-> idx.FallbackResource,
                 ConfigurationType |-> idx.ConfigurationType]
  BY DEF GoInv, GoTypeOK
<1>2. GoTypeOK' /\ GoSorted'
  BY <1>1, GoVisitTypeOK
<1>3. QED
  BY <1>2, GoResourcesKept, GoFunctionsKept, GoNamespaceKept DEF GoInv, GoSeen

(* Visiting a type in BuildIndex, whatever its kind, keeps the invariant.  *)
LEMMA GoVisit ==
  ASSUME GoInv, Go!VisitType
  PROVE  GoInv'
<1> DEFINE t == TypeAt(goFiles, goAt)
           ref == EntryAt(goFiles, goAt).ref
<1>1. \/ t.kind = "ResourceType" /\ Go!IndexResource(t, ref)
      \/ t.kind = "ResourceFunctionType" /\ Go!IndexResourceFunction(t, ref)
      \/ t.kind = "NamespaceFunctionType" /\ Go!IndexNamespaceFunction(ref)
      \/ t.kind = "ObjectType" /\ UNCHANGED <<resourceSeen, functionSeen, idx>>
  BY GoAtPlace DEF Go!VisitType
<1>2. QED
  BY <1>1, GoVisitResource, GoVisitFunction, GoVisitNamespace, GoVisitOther

(* Nothing is listed between two files.                                    *)
LEMMA GoNextFile ==
  ASSUME GoInv, Go!NextFile
  PROVE  GoInv'
<1>1. /\ goFile \in 1..Len(goFiles) /\ goType > Len(goFiles[goFile].types)
      /\ goFile' = goFile + 1 /\ goType' = 1
      /\ UNCHANGED <<typeFiles, goFiles, resourceSeen, functionSeen, idx>>
  BY DEF Go!NextFile
<1>2. goFiles \in Seq(TypeFile) /\ goType \in Nat
  BY DEF GoInv, GoTypeOK
<1>3. goAt = <<goFile, goType>> /\ goAt' = <<goFile + 1, 1>>
  BY <1>1 DEF goAt
<1>4. \A kind : Listed(goFiles, kind, goAt') = Listed(goFiles, kind, goAt)
  BY <1>1, <1>2, <1>3, FileDone
<1>5. GoTypeOK' /\ GoSorted'
  BY <1>1, <1>2 DEF GoInv, GoTypeOK, GoSorted
<1>6. GoSeen'
  BY <1>1, <1>4 DEF GoInv, GoSeen, Seen
<1>7. GoResources'
  BY <1>1, <1>4 DEF GoInv, GoResources, GoListed, GoResourceKey
<1>8. GoFunctions'
  <2>1. \A g : GoGroupPlaces(g)' = GoGroupPlaces(g)
    BY <1>1, <1>4 DEF GoGroupPlaces, GoGroup
  <2>2. {GoGroup(p) : p \in Listed(goFiles, "ResourceFunctionType", goAt)}' =
        {GoGroup(p) : p \in Listed(goFiles, "ResourceFunctionType", goAt)}
    BY <1>1, <1>4 DEF GoGroup
  <2>3. QED
    BY <1>1, <2>1, <2>2 DEF GoInv, GoFunctions
<1>9. GoNamespace'
  <2>1. \A p \in Places(goFiles) : Earlier(p, goAt') <=> Earlier(p, goAt)
    BY <1>1, <1>2, <1>3, PlacesArePairs DEF Earlier
  <2>2. GoNamespacePlaces' = GoNamespacePlaces
    BY <1>1, <2>1 DEF GoNamespacePlaces
  <2>3. QED
    BY <1>1, <2>2 DEF GoInv, GoNamespace
<1>10. QED
  BY <1>5, <1>6, <1>7, <1>8, <1>9 DEF GoInv

(* Nothing else changes what the Go builder has done.                      *)
LEMMA GoStep ==
  ASSUME GoInv, [Next]_<<typeFiles, goVars, tsVars>>
  PROVE  GoInv'
<1>1. CASE Go!Sort
  BY <1>1, GoSort
<1>2. CASE Go!VisitType
  BY <1>2, GoVisit
<1>3. CASE Go!NextFile
  BY <1>3, GoNextFile
<1>4. CASE UNCHANGED <<typeFiles, goVars>>
  BY <1>4 DEF goVars, GoInv, GoTypeOK, GoSorted, GoSeen, GoResources, GoFunctions, GoNamespace,
              GoListed, GoResourceKey, GoGroup, GoGroupPlaces, GoNamespacePlaces, goAt
<1>5. QED
  BY <1>1, <1>2, <1>3, <1>4 DEF Next, Ts!Sort, Ts!VisitType, Ts!NextFile

-----------------------------------------------------------------------------
(* What the finished index lists, with the definitions of IndexInput.      *)
LEMMA SameListings ==
  /\ \A files, kind : /\ Go!EntrySet(files, kind) = EntrySet(files, kind)
                      /\ Ts!EntrySet(files, kind) = EntrySet(files, kind)
  /\ \A S : /\ Go!FirstOfKey(S, Go!ResourceKey) = FirstOfKey(S, ResourceKey)
            /\ Go!FirstOfKey(S, Go!FunctionKey) = FirstOfKey(S, FunctionKey)
            /\ Ts!FirstOfKey(S, Ts!ResourceKey) = FirstOfKey(S, ResourceKey)
            /\ Ts!FirstOfKey(S, Ts!FunctionKey) = FirstOfKey(S, FunctionKey)
  /\ \A refs, S : /\ Go!ListsInOrder(refs, S) = ListsInOrder(refs, S)
                  /\ Ts!ListsInOrder(refs, S) = ListsInOrder(refs, S)
  /\ \A files : /\ Go!DistinctPaths(files) = DistinctPaths(files)
                /\ Ts!DistinctPaths(files) = DistinctPaths(files)
<1>1. \A d, e : Go!Precedes(d, e) = Precedes(d, e) /\ Ts!Precedes(d, e) = Precedes(d, e)
  BY DEF Go!Precedes, Ts!Precedes, Precedes
<1>2. \A file : Go!EntriesOf(file) = EntriesOf(file) /\ Ts!EntriesOf(file) = EntriesOf(file)
  BY SameDefinitions, Zenon DEF Go!EntriesOf, Ts!EntriesOf, EntriesOf
<1>3. \A s : Go!ToSet(s) = ToSet(s) /\ Ts!ToSet(s) = ToSet(s)
  BY DEF Go!ToSet, Ts!ToSet, ToSet
<1>4. \A files, kind : /\ Go!EntrySet(files, kind) = EntrySet(files, kind)
                       /\ Ts!EntrySet(files, kind) = EntrySet(files, kind)
  BY <1>2, <1>3, Zenon DEF Go!EntrySet, Ts!EntrySet, EntrySet
<1>5. \A S : /\ Go!FirstOfKey(S, Go!ResourceKey) = FirstOfKey(S, ResourceKey)
             /\ Go!FirstOfKey(S, Go!FunctionKey) = FirstOfKey(S, FunctionKey)
             /\ Ts!FirstOfKey(S, Ts!ResourceKey) = FirstOfKey(S, ResourceKey)
             /\ Ts!FirstOfKey(S, Ts!FunctionKey) = FirstOfKey(S, FunctionKey)
  BY <1>1, SameDefinitions, Zenon DEF Go!FirstOfKey, Ts!FirstOfKey, FirstOfKey
<1>6. \A refs, S : /\ Go!ListsInOrder(refs, S) = ListsInOrder(refs, S)
                   /\ Ts!ListsInOrder(refs, S) = ListsInOrder(refs, S)
  BY <1>1, Zenon DEF Go!ListsInOrder, Ts!ListsInOrder, ListsInOrder
<1>7. \A files : /\ Go!DistinctPaths(files) = DistinctPaths(files)
                 /\ Ts!DistinctPaths(files) = DistinctPaths(files)
  BY DEF Go!DistinctPaths, Ts!DistinctPaths, DistinctPaths
<1>8. QED
  BY <1>4, <1>5, <1>6, <1>7

(* The entries listed at the end of the files.                             *)
LEMMA GoDoneFacts ==
  ASSUME GoInv, Go!Done
  PROVE  /\ goFiles \in Seq(TypeFile) /\ typeFiles \in Seq(TypeFile)
         /\ \A kind : EntrySet(goFiles, kind) = EntrySet(typeFiles, kind)
         /\ DistinctPaths(typeFiles) => Ascending(goFiles)
         /\ goFile \in Nat /\ goType \in Nat /\ goFile > Len(goFiles)
<1>1. goFiles \in Seq(TypeFile) /\ typeFiles \in Seq(TypeFile) /\ goFile \in Nat /\ goType \in Nat
  BY DEF GoInv, GoTypeOK
<1>2. goFile > Len(goFiles) /\ goFile # 0
  BY <1>1 DEF Go!Done
<1>3. goFiles \in Orders(typeFiles)
  BY <1>2 DEF GoInv, GoSorted
<1>4. QED
  BY <1>1, <1>2, <1>3, OrderFacts

(* When BuildIndex is done, its invariant says that the first resource of  *)
(* every name is listed, under its own spelling.                           *)
LEMMA GoResourcesDone ==
  ASSUME GoInv
  PROVE  ResourcesIndexed
<1> SUFFICES ASSUME Go!Done, DistinctPaths(typeFiles)
             PROVE  LET listed == {e \in FirstOfKey(EntrySet(typeFiles, "ResourceType"),
                                                    ResourceKey) : Go!Splits(e.type.name)}
                    IN  /\ DOMAIN idx.Resources =
                             {Go!splitResourceName(e.type.name) : e \in listed}
                        /\ \A e \in listed :
                             Go!GetResource(idx, Go!splitResourceName(e.type.name)) = e.ref
  BY SameListings DEF ResourcesIndexed, Go!ResourcesIndexed
<1> DEFINE firsts == FirstOfKey(EntrySet(typeFiles, "ResourceType"), ResourceKey)
           listed == {e \in firsts : Go!Splits(e.type.name)}
           places == Listed(goFiles, "ResourceType", goAt)
<1>1. firsts = {EntryAt(goFiles, p) : p \in places}
  <2>1. FirstOfKey(EntrySet(goFiles, "ResourceType"), ResourceKey) =
        {EntryAt(goFiles, p) : p \in places}
    BY GoDoneFacts, ListedAreFirst DEF goAt
  <2>2. QED
    BY <2>1, GoDoneFacts
<1>2. \A p \in places : EntryAt(goFiles, p).type = TypeAt(goFiles, p)
  BY EntryFacts, GoDoneFacts DEF Listed
<1> HIDE DEF firsts
<1>3. listed = {EntryAt(goFiles, p) : p \in GoListed}
  BY <1>1, <1>2 DEF GoListed
<1>4. \A p \in GoListed : /\ EntryAt(goFiles, p).type = TypeAt(goFiles, p)
                          /\ Go!splitResourceName(EntryAt(goFiles, p).type.name) = GoResourceKey(p)
  BY <1>2 DEF GoListed, GoResourceKey
<1> HIDE DEF listed
<1>5. DOMAIN idx.Resources = {Go!splitResourceName(e.type.name) : e \in listed}
  BY <1>3, <1>4 DEF GoInv, GoResources
<1>6. ASSUME NEW e \in listed
      PROVE  Go!GetResource(idx, Go!splitResourceName(e.type.name)) = e.ref
  <2>1. PICK p \in GoListed : e = EntryAt(goFiles, p)
    BY <1>3
  <2>2. GoResourceKey(p) \in DOMAIN idx.Resources /\ idx.Resources[GoResourceKey(p)] = e.ref
    BY <2>1 DEF GoInv, GoResources
  <2>3. QED
    BY <2>1, <2>2, <1>4 DEF Go!GetResource
<1>7. QED
  BY <1>5, <1>6 DEF listed, firsts

(* When BuildIndex is done, no two resources listed differ in case only.   *)
LEMMA GoEachResourceDone ==
  ASSUME GoInv
  PROVE  EachResourceOnce
<1> SUFFICES ASSUME Go!Done, NEW e \in EntrySet(typeFiles, "ResourceType"),
                    Go!Splits(e.type.name)
             PROVE  Cardinality({key \in DOMAIN idx.Resources :
                                   LowerName(FlatKey(key)) = ResourceKey(e.type)}) = 1
  <2>1. \A e \in EntrySet(typeFiles, "ResourceType") :
          {key \in DOMAIN idx.Resources : Go!LowerName(Go!FlatKey(key)) = Go!ResourceKey(e.type)} =
          {key \in DOMAIN idx.Resources : LowerName(FlatKey(key)) = ResourceKey(e.type)}
    BY SameDefinitions DEF Go!LowerName, LowerName, Go!FlatKey, FlatKey
  <2>2. Go!EntrySet(typeFiles, "ResourceType") = EntrySet(typeFiles, "ResourceType")
    BY SameListings
  <2>3. \A S : Go!Cardinality(S) = Cardinality(S)
    BY Zenon DEF Go!Cardinality, Cardinality
  <2>4. QED
    BY <2>1, <2>2, <2>3, Zenon DEF EachResourceOnce, Go!EachResourceOnce
<1>1. PICK p \in Places(goFiles) : TypeAt(goFiles, p).kind = "ResourceType"
                                   /\ e = EntryAt(goFiles, p)
  <2>1. e \in EntrySet(goFiles, "ResourceType")
    BY GoDoneFacts
  <2>2. QED
    BY <2>1, GoDoneFacts, EntriesAtPlaces
<1>2. PICK q \in Places(goFiles) : First(goFiles, q) /\ Same(goFiles, q, p)
  BY GoDoneFacts, FirstExists
<1> DEFINE nameOf(r) == TypeAt(goFiles, r).name
           places == Listed(goFiles, "ResourceType", goAt)
<1>3. \A r \in Places(goFiles) : TypeAt(goFiles, r).kind = "ResourceType" =>
        nameOf(r) \in Name /\ Key(TypeAt(goFiles, r)) = LowerName(nameOf(r))
  BY GoDoneFacts, ResourceNames
<1>4. /\ e.type = TypeAt(goFiles, p) /\ ResourceKey(e.type) = LowerName(nameOf(p))
      /\ LowerName(nameOf(q)) = LowerName(nameOf(p))
  BY <1>1, <1>2, <1>3, EntryFacts, GoDoneFacts DEF Same, ResourceKey
<1>5. q \in GoListed
  <2>1. Earlier(q, goAt)
    BY GoDoneFacts, PlacesArePairs DEF Earlier, goAt
  <2>2. TypeAt(goFiles, q).kind = "ResourceType"
    BY <1>1, <1>2 DEF Same
  <2>3. Go!Splits(nameOf(q))
    BY <1>1, <1>3, <1>4, <2>2, AtPosOfLower
  <2>4. QED
    BY <1>2, <2>1, <2>2, <2>3 DEF GoListed, Listed
<1>6. \A r \in GoListed : /\ nameOf(r) \in Name /\ FlatKey(GoResourceKey(r)) = nameOf(r)
                          /\ LowerName(nameOf(r)) = LowerName(nameOf(q)) => r = q
  <2> SUFFICES ASSUME NEW r \in GoListed
               PROVE  /\ nameOf(r) \in Name /\ FlatKey(GoResourceKey(r)) = nameOf(r)
                      /\ LowerName(nameOf(r)) = LowerName(nameOf(q)) => r = q
    OBVIOUS
  <2>1. /\ r \in Places(goFiles) /\ TypeAt(goFiles, r).kind = "ResourceType"
        /\ First(goFiles, r) /\ Go!Splits(nameOf(r))
        /\ TypeAt(goFiles, q).kind = "ResourceType"
    BY <1>5 DEF GoListed, Listed
  <2>2. nameOf(r) \in Name /\ FlatKey(GoResourceKey(r)) = nameOf(r)
    BY <1>3, <2>1, SplitFacts DEF GoResourceKey
  <2>3. ASSUME LowerName(nameOf(r)) = LowerName(nameOf(q)), r # q
        PROVE  FALSE
    <3>1. Same(goFiles, r, q) /\ Same(goFiles, q, r)
      BY <1>3, <2>1, <2>3 DEF Same
    <3>2. Earlier(r, q) \/ Earlier(q, r)
      BY <2>1, <2>3, GoDoneFacts, PlacesArePairs, EarlierIsOrder
    <3>3. QED
      BY <1>2, <2>1, <3>1, <3>2 DEF First
  <2>4. QED
    BY <2>2, <2>3
<1>7. DOMAIN idx.Resources = {GoResourceKey(r) : r \in GoListed}
  BY DEF GoInv, GoResources
<1> HIDE DEF nameOf
<1>8. {key \in DOMAIN idx.Resources : LowerName(FlatKey(key)) = ResourceKey(e.type)} =
      {GoResourceKey(q)}
  BY <1>4, <1>5, <1>6, <1>7
<1>9. QED
  BY <1>8, FS_Singleton

(* When BuildIndex is done, the resource functions are those of the        *)
(* input, under their type and version.                                    *)
LEMMA GoFunctionsDone ==
  ASSUME GoInv
  PROVE  ResourceFunctionsIndexed
<1> DEFINE firsts == FirstOfKey(EntrySet(typeFiles, "ResourceFunctionType"), FunctionKey)
           places == Listed(goFiles, "ResourceFunctionType", goAt)
<1> SUFFICES ASSUME Go!Done, DistinctPaths(typeFiles)
             PROVE  /\ DOMAIN idx.ResourceFunctions = {Go!FunctionGroup(e.type) : e \in firsts}
                    /\ \A group \in DOMAIN idx.ResourceFunctions :
                         ListsInOrder(Go!GetResourceFunctions(idx, group),
                                      {e \in firsts : Go!FunctionGroup(e.type) = group})
  BY SameListings, Zenon DEF ResourceFunctionsIndexed, Go!ResourceFunctionsIndexed
<1>1. firsts = {EntryAt(goFiles, p) : p \in places}
  <2>1. FirstOfKey(EntrySet(goFiles, "ResourceFunctionType"), FunctionKey) =
        {EntryAt(goFiles, p) : p \in places}
    BY GoDoneFacts, ListedAreFirst DEF goAt
  <2>2. QED
    BY <2>1, GoDoneFacts
<1>2. \A p \in places : /\ p \in Places(goFiles)
                        /\ Go!FunctionGroup(EntryAt(goFiles, p).type) = GoGroup(p)
  BY EntryFacts, GoDoneFacts DEF Listed, GoGroup
<1> HIDE DEF firsts, places
<1>3. DOMAIN idx.ResourceFunctions = {Go!FunctionGroup(e.type) : e \in firsts}
  BY <1>1, <1>2 DEF GoInv, GoFunctions, places
<1>4. ASSUME NEW group \in DOMAIN idx.ResourceFunctions
      PROVE  ListsInOrder(Go!GetResourceFunctions(idx, group),
                          {e \in firsts : Go!FunctionGroup(e.type) = group})
  <2>1. {e \in firsts : Go!FunctionGroup(e.type) = group} =
        {EntryAt(goFiles, p) : p \in GoGroupPlaces(group)}
    BY <1>1, <1>2 DEF GoGroupPlaces, places
  <2>2. GoGroupPlaces(group) \subseteq Places(goFiles)
    BY DEF GoGroupPlaces, Listed
  <2>3. Lists(idx.ResourceFunctions[group], goFiles, GoGroupPlaces(group))
    BY DEF GoInv, GoFunctions
  <2>4. ListsInOrder(idx.ResourceFunctions[group],
                     {EntryAt(goFiles, p) : p \in GoGroupPlaces(group)})
    BY <2>2, <2>3, GoDoneFacts, ListsAreInOrder
  <2>5. QED
    BY <2>1, <2>4 DEF Go!GetResourceFunctions
<1>5. QED
  BY <1>3, <1>4

-----------------------------------------------------------------------------
(* The TypeScript builder.  The stable order of its files is an order.     *)
LEMMA TsOrders ==
  ASSUME typeFiles \in Seq(TypeFile), NEW files, files \in Ts!OrderBy(typeFiles)
  PROVE  files \in Orders(typeFiles)
<1> DEFINE n == Len(typeFiles)
<1>1. \A S, T : Ts!Bijection(S, T) = Bijection(S, T)
  BY DEF Ts!Bijection, Ts!Injection, Ts!Surjection, Ts!IsInjective,
         Bijection, Injection, Surjection, IsInjective
<1>2. PICK p \in Bijection(1..n, 1..n) :
        /\ \A i, j \in 1..n : i < j => Ts!Before(typeFiles, p[i], p[j])
        /\ files = [k \in 1..n |-> typeFiles[p[k]]]
  BY <1>1 DEF Ts!OrderBy
<1>3. p \in [1..n -> 1..n]
  BY <1>2, Zenon DEF Bijection, Injection
<1>4. \A i \in 1..n : PathRank[typeFiles[p[i]].path] \in Nat
  <2>1. \A i \in 1..n : typeFiles[p[i]] \in TypeFile
    BY <1>3
  <2>2. QED
    BY <2>1, RankAssumption DEF TypeFile
<1>5. \A i, j \in 1..n : i < j =>
        PathRank[typeFiles[p[i]].path] <= PathRank[typeFiles[p[j]].path]
  BY <1>2, <1>4 DEF Ts!Before
<1>6. QED
  BY <1>2, <1>5, Zenon DEF Orders

(* buildIndex starts in its invariant.                                     *)
LEMMA TsInit ==
  ASSUME Ts!Start
  PROVE  TsInv
<1>1. /\ tsFiles = <<>> /\ tsFile = 0 /\ tsType = 0
      /\ resourceTypes = {} /\ resourceFunctions = {} /\ namespaceFunctionNames = {}
      /\ resDictionary = <<>> /\ funcDictionary = <<>> /\ namespaceFunctions = <<>>
  BY DEF Ts!Start
<1>2. TsTypeOK /\ TsSorted
  BY <1>1 DEF TsTypeOK, TsSorted, IsMap
<1>3. \A kind : Listed(tsFiles, kind, tsAt) = {} /\ Seen(tsFiles, kind, tsAt) = {}
  BY <1>1, <1>2, NothingListed DEF tsAt, TsTypeOK
<1>4. TsSeen /\ TsResources
  BY <1>1, <1>3 DEF TsSeen, TsResources, TsListed
<1>5. TsFunctions
  BY <1>1, <1>3 DEF TsFunctions
<1>6. TsNamespace
  <2>1. Lists(<<>>, tsFiles, {})
    BY ListsNothing, Zenon
  <2>2. Lists(namespaceFunctions, tsFiles, Listed(tsFiles, "NamespaceFunctionType", tsAt))
    BY <1>1, <1>3, <2>1, Zenon
  <2>3. namespaceFunctions \in Seq(Reference)
    BY <1>1
  <2>4. QED
    BY <2>2, <2>3 DEF TsNamespace
<1>7. QED
  BY <1>2, <1>4, <1>5, <1>6 DEF TsInv

(* Any stable order by path keeps the invariant of buildIndex.             *)
LEMMA TsSort ==
  ASSUME GoTypeOK, TsInv, Ts!Sort
  PROVE  TsInv'
<1>1. /\ tsFile = 0 /\ tsFile' = 1 /\ tsType' = 1 /\ tsFiles' \in Orders(typeFiles)
      /\ UNCHANGED <<typeFiles, resourceTypes, resourceFunctions, namespaceFunctionNames,
                     resDictionary, funcDictionary, namespaceFunctions>>
  BY TsOrders DEF Ts!Sort, GoTypeOK
<1>2. tsType = 0 /\ tsFiles \in Seq(TypeFile) /\ tsFiles' \in Seq(TypeFile)
  BY <1>1, OrderFacts DEF TsInv, TsSorted, TsTypeOK, GoTypeOK
<1>3. \A kind : Listed(tsFiles, kind, tsAt) = {} /\ Seen(tsFiles, kind, tsAt) = {}
  BY <1>1, <1>2, NothingListed DEF tsAt
<1>4. tsAt' = <<1, 1>>
  BY <1>1 DEF tsAt
<1>5. \A kind : Listed(tsFiles', kind, tsAt') = {} /\ Seen(tsFiles', kind, tsAt') = {}
  BY <1>2, <1>4, NothingListed
<1>6. TsTypeOK' /\ TsSorted'
  BY <1>1, <1>2 DEF TsInv, TsTypeOK, TsSorted
<1>7. TsSeen' /\ TsResources'
  BY <1>1, <1>3, <1>5 DEF TsInv, TsSeen, TsResources, TsListed
<1>8. TsFunctions'
  BY <1>1, <1>3, <1>5 DEF TsInv, TsFunctions
<1>9. TsNamespace'
  <2>1. Len(namespaceFunctions) = 0
    BY <1>3 DEF TsInv, TsNamespace, Lists
  <2>2. namespaceFunctions = <<>>
    BY <2>1 DEF TsInv, TsNamespace
  <2>3. QED
    BY <1>1, <1>5, <2>2, ListsNothing DEF TsNamespace
<1>10. QED
  BY <1>6, <1>7, <1>8, <1>9 DEF TsInv

(* A visit of buildIndex is at a place of its ordered files and moves on   *)
(* to the next type of the same file.                                      *)
LEMMA TsAtPlace ==
  ASSUME TsInv, Ts!VisitType
  PROVE  /\ tsAt \in Places(tsFiles) /\ tsFiles \in Seq(TypeFile)
         /\ tsAt' = <<tsAt[1], tsAt[2] + 1>>
         /\ UNCHANGED <<typeFiles, tsFiles, tsFile>>
         /\ TypeAt(tsFiles, tsAt) \in Type
         /\ Ts!EntryOf(tsFiles[tsFile], tsType).type = TypeAt(tsFiles, tsAt)
         /\ Ts!EntryOf(tsFiles[tsFile], tsType).ref = EntryAt(tsFiles, tsAt).ref
         /\ EntryAt(tsFiles, tsAt).ref \in Reference
         /\ tsFile' # 0 /\ TsSorted'
         /\ tsFile' \in 0..(Len(tsFiles') + 1) /\ tsType' \in Nat
<1>1. /\ tsFile \in 1..Len(tsFiles) /\ tsType <= Len(tsFiles[tsFile].types)
      /\ tsType' = tsType + 1 /\ UNCHANGED <<typeFiles, tsFiles, tsFile>>
  BY DEF Ts!VisitType
<1>2. tsFiles \in Seq(TypeFile) /\ tsType \in Nat /\ tsType >= 1
  BY <1>1 DEF TsInv, TsTypeOK, TsSorted
<1>3. Len(tsFiles[tsFile].types) \in Nat
  <2>1. tsFiles[tsFile] \in TypeFile
    BY <1>1, <1>2
  <2>2. QED
    BY <2>1 DEF TypeFile
<1>4. tsAt \in Places(tsFiles) /\ tsAt[1] = tsFile /\ tsAt[2] = tsType
  BY <1>1, <1>2, <1>3 DEF Places, tsAt
<1>5. tsAt' = <<tsAt[1], tsAt[2] + 1>>
  BY <1>1, <1>4 DEF tsAt
<1>6. Ts!EntryOf(tsFiles[tsFile], tsType) = EntryAt(tsFiles, tsAt)
  BY <1>4, SameDefinitions DEF EntryAt
<1>7. TsSorted'
  BY <1>1, <1>2 DEF TsInv, TsSorted
<1>8. QED
  BY <1>1, <1>2, <1>4, <1>5, <1>6, <1>7, EntryFacts, PlacesArePairs

(* Steps that leave a part of the index alone.                             *)
LEMMA TsResourcesKept ==
  ASSUME TsInv, Ts!VisitType, TypeAt(tsFiles, tsAt).kind # "ResourceType",
         resourceTypes' = resourceTypes, resDictionary' = resDictionary
  PROVE  TsResources' /\ resourceTypes' = Seen(tsFiles', "ResourceType", tsAt')
<1>1. Listed(tsFiles', "ResourceType", tsAt') = Listed(tsFiles, "ResourceType", tsAt)
  BY TsAtPlace, VisitedPlace
<1>2. QED
  BY <1>1, TsAtPlace DEF TsInv, TsResources, TsListed, TsSeen, Seen

(* A type that is no resource function leaves the dictionary of resource   *)
(* functions as it should be at the next place.                            *)
LEMMA TsFunctionsKept ==
  ASSUME TsInv, Ts!VisitType, TypeAt(tsFiles, tsAt).kind # "ResourceFunctionType",
         resourceFunctions' = resourceFunctions, funcDictionary' = funcDictionary
  PROVE  TsFunctions' /\ resourceFunctions' = Seen(tsFiles', "ResourceFunctionType", tsAt')
<1>1. Listed(tsFiles', "ResourceFunctionType", tsAt') =
      Listed(tsFiles, "ResourceFunctionType", tsAt)
  BY TsAtPlace, VisitedPlace
<1>2. \A group : TsGroupPlaces(group)' = TsGroupPlaces(group)
  BY <1>1, TsAtPlace DEF TsGroupPlaces, TsGroup
<1>3. {TsGroup(p) : p \in Listed(tsFiles, "ResourceFunctionType", tsAt)}' =
      {TsGroup(p) : p \in Listed(tsFiles, "ResourceFunctionType", tsAt)}
  BY <1>1, TsAtPlace DEF TsGroup
<1>4. TsFunctions'
  BY <1>2, <1>3, TsAtPlace DEF TsInv, TsFunctions
<1>5. QED
  BY <1>1, <1>4, TsAtPlace DEF TsInv, TsSeen, Seen

(* A type that is no namespace function leaves the namespace functions as  *)
(* they should be at the next place.                                       *)
LEMMA TsNamespaceKept ==
  ASSUME TsInv, Ts!VisitType, TypeAt(tsFiles, tsAt).kind # "NamespaceFunctionType",
         namespaceFunctionNames' = namespaceFunctionNames,
         namespaceFunctions' = namespaceFunctions
  PROVE  TsNamespace' /\ namespaceFunctionNames' = Seen(tsFiles', "NamespaceFunctionType", tsAt')
<1>1. Listed(tsFiles', "NamespaceFunctionType", tsAt') =
      Listed(tsFiles, "NamespaceFunctionType", tsAt)
  BY TsAtPlace, VisitedPlace
<1>2. QED
  BY <1>1, TsAtPlace DEF TsInv, TsNamespace, TsSeen, Seen

(* A resource is listed under its name unless its key has been seen.       *)
LEMMA TsVisitResource ==
  ASSUME TsInv, Ts!VisitType, TypeAt(tsFiles, tsAt).kind = "ResourceType",
         Ts!IndexResource(TypeAt(tsFiles, tsAt), EntryAt(tsFiles, tsAt).ref)
  PROVE  TsInv'
<1> DEFINE t == TypeAt(tsFiles, tsAt)
           ref == EntryAt(tsFiles, tsAt).ref
           new == Put(resDictionary, t.name, ref)
<1>1. /\ t.name \in Name /\ Key(t) = LowerName(t.name) /\ ResourceKey(t) = Key(t)
      /\ \A p \in TsListed : /\ p \in Places(tsFiles) /\ TypeAt(tsFiles, p).name \in Name
                             /\ Key(TypeAt(tsFiles, p)) = LowerName(TypeAt(tsFiles, p).name)
  BY TsAtPlace, ResourceNames DEF Listed, ResourceKey, TsListed
<1>2. /\ resDictionary' = IF Key(t) \in resourceTypes THEN resDictionary ELSE new
      /\ resourceTypes' = resourceTypes \cup {Key(t)}
      /\ UNCHANGED <<resourceFunctions, namespaceFunctionNames, funcDictionary,
                     namespaceFunctions>>
  BY <1>1, SameDefinitions DEF Ts!IndexResource
<1>3. resourceTypes = {Key(TypeAt(tsFiles, p)) : p \in TsListed}
  BY DEF TsInv, TsSeen, Seen, TsListed
<1>4. TsListed' = IF Key(t) \notin resourceTypes THEN TsListed \cup {tsAt} ELSE TsListed
  BY TsAtPlace, VisitedPlace DEF TsInv, TsSeen, TsListed
<1>5. resourceTypes' = Seen(tsFiles', "ResourceType", tsAt')
  BY <1>2, <1>3, <1>4, TsAtPlace DEF Seen, TsListed
<1>6. /\ IsMap(new)
      /\ DOMAIN new = DOMAIN resDictionary \cup {t.name}
      /\ new[t.name] = ref
      /\ \A key \in DOMAIN resDictionary : key # t.name => new[key] = resDictionary[key]
  BY DEF Put, IsMap
<1> HIDE DEF new
<1>7. TsTypeOK' /\ TsSorted'
  BY <1>2, <1>6, TsAtPlace DEF TsInv, TsTypeOK
<1>8. TsFunctions' /\ resourceFunctions' = Seen(tsFiles', "ResourceFunctionType", tsAt')
  BY <1>2, TsFunctionsKept
<1>9. TsNamespace' /\ namespaceFunctionNames' = Seen(tsFiles', "NamespaceFunctionType", tsAt')
  BY <1>2, TsNamespaceKept
<1>10. TsResources'
  <2>1. CASE Key(t) \in resourceTypes
    BY <2>1, <1>2, <1>4, TsAtPlace DEF TsInv, TsResources
  <2>2. CASE Key(t) \notin resourceTypes
    <3>1. \A p \in TsListed : TypeAt(tsFiles, p).name # t.name
      BY <2>2, <1>1, <1>3
    <3>2. TsListed' = TsListed \cup {tsAt} /\ resDictionary' = new
      BY <1>2, <1>4, <2>2
    <3>3. DOMAIN resDictionary' = {TypeAt(tsFiles, p).name : p \in TsListed'}
      BY <3>2, <1>6 DEF TsInv, TsResources
    <3>4. \A p \in TsListed' : resDictionary'[TypeAt(tsFiles, p).name] = EntryAt(tsFiles, p).ref
      BY <3>1, <3>2, <1>6 DEF TsInv, TsResources
    <3>5. QED
      BY <3>3, <3>4, TsAtPlace DEF TsResources
  <2>3. QED
    BY <2>1, <2>2
<1>11. QED
  BY <1>5, <1>7, <1>8, <1>9, <1>10 DEF TsInv, TsSeen

(* A namespace function is added unless its name has been seen.            *)
LEMMA TsVisitNamespace ==
  ASSUME TsInv, Ts!VisitType, TypeAt(tsFiles, tsAt).kind = "NamespaceFunctionType",
         Ts!IndexNamespaceFunction(TypeAt(tsFiles, tsAt), EntryAt(tsFiles, tsAt).ref)
  PROVE  TsInv'
<1> DEFINE t == TypeAt(tsFiles, tsAt)
           ref == EntryAt(tsFiles, tsAt).ref
           listed == Listed(tsFiles, "NamespaceFunctionType", tsAt)
<1>1. ResourceKey(t) = Key(t)
  BY DEF Key
<1>2. /\ namespaceFunctions' = IF Key(t) \in namespaceFunctionNames THEN namespaceFunctions
                               ELSE Append(namespaceFunctions, ref)
      /\ namespaceFunctionNames' = namespaceFunctionNames \cup {Key(t)}
      /\ UNCHANGED <<resourceTypes, resourceFunctions, resDictionary, funcDictionary>>
  BY <1>1, SameDefinitions DEF Ts!IndexNamespaceFunction
<1>3. namespaceFunctionNames = {Key(TypeAt(tsFiles, p)) : p \in listed}
  BY DEF TsInv, TsSeen, Seen
<1>4. Listed(tsFiles, "NamespaceFunctionType", tsAt') =
        IF Key(t) \notin namespaceFunctionNames THEN listed \cup {tsAt} ELSE listed
  BY TsAtPlace, VisitedPlace DEF TsInv, TsSeen
<1>5. namespaceFunctionNames' = Seen(tsFiles', "NamespaceFunctionType", tsAt')
  BY <1>2, <1>3, <1>4, TsAtPlace DEF Seen
<1>6. TsTypeOK' /\ TsSorted'
  BY <1>2, TsAtPlace DEF TsInv, TsTypeOK
<1>7. TsResources' /\ resourceTypes' = Seen(tsFiles', "ResourceType", tsAt')
  BY <1>2, TsResourcesKept
<1>8. TsFunctions' /\ resourceFunctions' = Seen(tsFiles', "ResourceFunctionType", tsAt')
  BY <1>2, TsFunctionsKept
<1>9. TsNamespace'
  <2>1. namespaceFunctions \in Seq(Reference) /\ Lists(namespaceFunctions, tsFiles, listed)
    BY DEF TsInv, TsNamespace
  <2>2. CASE Key(t) \in namespaceFunctionNames
    BY <2>1, <2>2, <1>2, <1>4, TsAtPlace DEF TsNamespace
  <2>3. CASE Key(t) \notin namespaceFunctionNames
    <3>1. tsFiles \in Seq(TypeFile) /\ ref \in Reference
      BY TsAtPlace
    <3>2. \A p \in listed : Earlier(p, tsAt)
      BY DEF Listed
    <3>3. Lists(Append(namespaceFunctions, ref), tsFiles, listed \cup {tsAt})
      BY <2>1, <3>1, <3>2, ListsAppend, Zenon
    <3>4. Append(namespaceFunctions, ref) \in Seq(Reference)
      BY <2>1, <3>1
    <3>5. QED
      BY <2>3, <3>3, <3>4, <1>2, <1>4, TsAtPlace DEF TsNamespace
  <2>4. QED
    BY <2>2, <2>3
<1>10. QED
  BY <1>5, <1>6, <1>7, <1>8, <1>9 DEF TsInv, TsSeen

(* A resource function is added to its group unless its key has been seen. *)
LEMMA TsVisitFunction ==
  ASSUME TsInv, Ts!VisitType, TypeAt(tsFiles, tsAt).kind = "ResourceFunctionType",
         Ts!IndexResourceFunction(TypeAt(tsFiles, tsAt), EntryAt(tsFiles, tsAt).ref)
  PROVE  TsInv'
<1> DEFINE t == TypeAt(tsFiles, tsAt)
           ref == EntryAt(tsFiles, tsAt).ref
           listed == Listed(tsFiles, "ResourceFunctionType", tsAt)
           group == TsGroup(tsAt)
           known == IF group \in DOMAIN funcDictionary THEN funcDictionary[group] ELSE <<>>
           new == Put(funcDictionary, group, Append(known, ref))
<1>1. FunctionKey(t) = Key(t)
  BY DEF Key
<1>2. /\ funcDictionary' = IF Key(t) \in resourceFunctions THEN funcDictionary ELSE new
      /\ resourceFunctions' = resourceFunctions \cup {Key(t)}
      /\ UNCHANGED <<resourceTypes, namespaceFunctionNames, resDictionary, namespaceFunctions>>
  BY <1>1, SameDefinitions DEF Ts!IndexResourceFunction, TsGroup
<1>3. resourceFunctions = {Key(TypeAt(tsFiles, p)) : p \in listed}
  BY DEF TsInv, TsSeen, Seen
<1>4. Listed(tsFiles, "ResourceFunctionType", tsAt') =
        IF Key(t) \notin resourceFunctions THEN listed \cup {tsAt} ELSE listed
  BY TsAtPlace, VisitedPlace DEF TsInv, TsSeen
<1>5. resourceFunctions' = Seen(tsFiles', "ResourceFunctionType", tsAt')
  BY <1>2, <1>3, <1>4, TsAtPlace DEF Seen
<1>6. /\ IsMap(new)
      /\ DOMAIN new = DOMAIN funcDictionary \cup {group}
      /\ new[group] = Append(known, ref)
      /\ \A key \in DOMAIN funcDictionary : key # group => new[key] = funcDictionary[key]
  BY DEF Put, IsMap
<1> HIDE DEF new
<1>7. TsTypeOK' /\ TsSorted'
  BY <1>2, <1>6, TsAtPlace DEF TsInv, TsTypeOK
<1>8. TsResources' /\ resourceTypes' = Seen(tsFiles', "ResourceType", tsAt')
  BY <1>2, TsResourcesKept
<1>9. TsNamespace' /\ namespaceFunctionNames' = Seen(tsFiles', "NamespaceFunctionType", tsAt')
  BY <1>2, TsNamespaceKept
<1>10. TsFunctions'
  <2>1. \A p : TsGroup(p)' = TsGroup(p)
    BY TsAtPlace DEF TsGroup
  <2>2. CASE Key(t) \in resourceFunctions
    <3>1. Listed(tsFiles, "ResourceFunctionType", tsAt)' = listed
      BY <2>2, <1>4, TsAtPlace
    <3>2. \A g : TsGroupPlaces(g)' = TsGroupPlaces(g)
      BY <2>1, <3>1 DEF TsGroupPlaces
    <3>3. QED
      BY <2>1, <2>2, <3>1, <3>2, <1>2, TsAtPlace DEF TsInv, TsFunctions
  <2>3. CASE Key(t) \notin resourceFunctions
    <3>1. Listed(tsFiles, "ResourceFunctionType", tsAt)' = listed \cup {tsAt}
      BY <2>3, <1>4, TsAtPlace
    <3>2. \A g : TsGroupPlaces(g)' = IF g = group THEN TsGroupPlaces(g) \cup {tsAt}
                                     ELSE TsGroupPlaces(g)
      BY <2>1, <3>1 DEF TsGroupPlaces
    <3>3. DOMAIN funcDictionary' =
            {TsGroup(p) : p \in Listed(tsFiles, "ResourceFunctionType", tsAt)}'
      BY <2>1, <2>3, <3>1, <1>2, <1>6 DEF TsInv, TsFunctions
    <3>4. known \in Seq(Reference) /\ Lists(known, tsFiles, TsGroupPlaces(group))
      <4>1. CASE group \in DOMAIN funcDictionary
        BY <4>1 DEF TsInv, TsFunctions
      <4>2. CASE group \notin DOMAIN funcDictionary
        <5>1. TsGroupPlaces(group) = {}
          BY <4>2 DEF TsInv, TsFunctions, TsGroupPlaces
        <5>2. QED
          BY <4>2, <5>1, ListsNothing
      <4>3. QED
        BY <4>1, <4>2
    <3>5. \A p \in TsGroupPlaces(group) : Earlier(p, tsAt)
      BY DEF TsGroupPlaces, Listed
    <3> HIDE DEF known
    <3>6. /\ Append(known, ref) \in Seq(Reference)
          /\ Lists(Append(known, ref), tsFiles, TsGroupPlaces(group) \cup {tsAt})
      <4>1. tsFiles \in Seq(TypeFile) /\ ref \in Reference
        BY TsAtPlace
      <4>2. Append(known, ref) \in Seq(Reference)
        BY <3>4, <4>1
      <4>3. Lists(Append(known, ref), tsFiles, TsGroupPlaces(group) \cup {tsAt})
        BY <3>4, <3>5, <4>1, ListsAppend, Zenon
      <4>4. QED
        BY <4>2, <4>3
    <3>7. ASSUME NEW g \in DOMAIN funcDictionary'
          PROVE  /\ funcDictionary'[g] \in Seq(Reference)
                 /\ Lists(funcDictionary'[g], tsFiles', TsGroupPlaces(g)')
      <4>1. CASE g = group
        <5>1. funcDictionary'[g] = Append(known, ref)
          BY <4>1, <2>3, <1>2, <1>6
        <5>2. QED
          BY <4>1, <5>1, <3>2, <3>6, TsAtPlace
      <4>2. CASE g # group
        <5>1. g \in DOMAIN funcDictionary /\ funcDictionary'[g] = funcDictionary[g]
          BY <4>2, <2>3, <1>2, <1>6
        <5>2. QED
          BY <4>2, <5>1, <3>2, TsAtPlace DEF TsInv, TsFunctions
      <4>3. QED
        BY <4>1, <4>2
    <3>8. QED
      BY <3>3, <3>7 DEF TsFunctions
  <2>4. QED
    BY <2>2, <2>3
<1>11. QED
  BY <1>5, <1>7, <1>8, <1>9, <1>10 DEF TsInv, TsSeen

(* Visiting a type in buildIndex, whatever its kind, keeps the invariant.  *)
LEMMA TsVisit ==
  ASSUME TsInv, Ts!VisitType
  PROVE  TsInv'
<1> DEFINE t == TypeAt(tsFiles, tsAt)
           ref == EntryAt(tsFiles, tsAt).ref
<1>1. \/ t.kind = "ResourceType" /\ Ts!IndexResource(t, ref)
      \/ t.kind = "ResourceFunctionType" /\ Ts!IndexResourceFunction(t, ref)
      \/ t.kind = "NamespaceFunctionType" /\ Ts!IndexNamespaceFunction(t, ref)
      \/ /\ t.kind = "ObjectType"
         /\ UNCHANGED <<resourceTypes, resourceFunctions, namespaceFunctionNames,
                        resDictionary, funcDictionary, namespaceFunctions>>
  BY TsAtPlace DEF Ts!VisitType
<1>2. CASE /\ t.kind = "ObjectType"
           /\ UNCHANGED <<resourceTypes, resourceFunctions, namespaceFunctionNames,
                          resDictionary, funcDictionary, namespaceFunctions>>
  <2>1. TsTypeOK' /\ TsSorted'
    BY <1>2, TsAtPlace DEF TsInv, TsTypeOK
  <2>2. QED
    BY <1>2, <2>1, TsResourcesKept, TsFunctionsKept, TsNamespaceKept DEF TsInv, TsSeen
<1>3. QED
  BY <1>1, <1>2, TsVisitResource, TsVisitFunction, TsVisitNamespace

(* Going on to the next file keeps the invariant of buildIndex.            *)
LEMMA TsNextFile ==
  ASSUME TsInv, Ts!NextFile
  PROVE  TsInv'
<1>1. /\ tsFile \in 1..Len(tsFiles) /\ tsType > Len(tsFiles[tsFile].types)
      /\ tsFile' = tsFile + 1 /\ tsType' = 1
      /\ UNCHANGED <<typeFiles, tsFiles, resourceTypes, resourceFunctions,
                     namespaceFunctionNames, resDictionary, funcDictionary,
                     namespaceFunctions>>
  BY DEF Ts!NextFile
<1>2. tsFiles \in Seq(TypeFile) /\ tsType \in Nat
  BY DEF TsInv, TsTypeOK
<1>3. tsAt = <<tsFile, tsType>> /\ tsAt' = <<tsFile + 1, 1>>
  BY <1>1 DEF tsAt
<1>4. \A kind : Listed(tsFiles, kind, tsAt') = Listed(tsFiles, kind, tsAt)
  BY <1>1, <1>2, <1>3, FileDone
<1>5. TsTypeOK' /\ TsSorted'
  BY <1>1, <1>2 DEF TsInv, TsTypeOK, TsSorted
<1>6. TsSeen' /\ TsResources' /\ TsNamespace'
  BY <1>1, <1>4 DEF TsInv, TsSeen, Seen, TsResources, TsListed, TsNamespace
<1>7. TsFunctions'
  <2>1. \A g : TsGroupPlaces(g)' = TsGroupPlaces(g)
    BY <1>1, <1>4 DEF TsGroupPlaces, TsGroup
  <2>2. {TsGroup(p) : p \in Listed(tsFiles, "ResourceFunctionType", tsAt)}' =
        {TsGroup(p) : p \in Listed(tsFiles, "ResourceFunctionType", tsAt)}
    BY <1>1, <1>4 DEF TsGroup
  <2>3. QED
    BY <1>1, <2>1, <2>2 DEF TsInv, TsFunctions
<1>8. QED
  BY <1>5, <1>6, <1>7 DEF TsInv

(* Every step of the two builders keeps the invariant of buildIndex.       *)
LEMMA TsStep ==
  ASSUME GoInv, TsInv, [Next]_<<typeFiles, goVars, tsVars>>
  PROVE  TsInv'
<1>1. CASE Ts!Sort
  BY <1>1, TsSort DEF GoInv
<1>2. CASE Ts!VisitType
  BY <1>2, TsVisit
<1>3. CASE Ts!NextFile
  BY <1>3, TsNextFile
<1>4. CASE UNCHANGED <<typeFiles, tsVars>>
  BY <1>4 DEF tsVars, TsInv, TsTypeOK, TsSorted, TsSeen, TsResources, TsFunctions, TsNamespace,
              TsListed, TsGroup, TsGroupPlaces, tsAt
<1>5. QED
  BY <1>1, <1>2, <1>3, <1>4 DEF Next, Go!Sort, Go!VisitType, Go!NextFile

-----------------------------------------------------------------------------
(* In every reachable state what each builder has seen and listed are the  *)
(* first types of their key among those it has gone through: the loops of  *)
(* BuildIndex (index.go:111) and buildIndex (indexer.ts:15).               *)
THEOREM Invariance == Spec => []Inv
<1>1. Init => Inv
  BY GoInit, TsInit DEF Init, Inv
<1>2. Inv /\ [Next]_<<typeFiles, goVars, tsVars>> => Inv'
  BY GoStep, TsStep DEF Inv
<1>3. QED
  BY <1>1, <1>2, PTL DEF Spec

(* The same facts about the finished TypeScript index.                     *)
LEMMA TsDoneFacts ==
  ASSUME Inv, Ts!Done
  PROVE  /\ tsFiles \in Seq(TypeFile) /\ typeFiles \in Seq(TypeFile)
         /\ tsFiles \in Orders(typeFiles)
         /\ \A kind : EntrySet(tsFiles, kind) = EntrySet(typeFiles, kind)
         /\ DistinctPaths(typeFiles) => Ascending(tsFiles)
         /\ tsFile \in Nat /\ tsType \in Nat /\ tsFile > Len(tsFiles)
<1>1. /\ tsFiles \in Seq(TypeFile) /\ typeFiles \in Seq(TypeFile)
      /\ tsFile \in Nat /\ tsType \in Nat
  BY DEF Inv, GoInv, GoTypeOK, TsInv, TsTypeOK
<1>2. tsFile > Len(tsFiles) /\ tsFile # 0
  BY <1>1 DEF Ts!Done
<1>3. tsFiles \in Orders(typeFiles)
  BY <1>2 DEF Inv, TsInv, TsSorted
<1>4. QED
  BY <1>1, <1>2, <1>3, OrderFacts

(* When buildIndex is done, the first resource and the first namespace     *)
(* function of every name are listed.                                      *)
LEMMA TsNamesDone ==
  ASSUME Inv
  PROVE  FirstNamesIndexed
<1> DEFINE firsts == FirstOfKey(EntrySet(typeFiles, "ResourceType"), ResourceKey)
           namespaces == FirstOfKey(EntrySet(typeFiles, "NamespaceFunctionType"), ResourceKey)
           places == Listed(tsFiles, "NamespaceFunctionType", tsAt)
<1> SUFFICES ASSUME Ts!Done, DistinctPaths(typeFiles)
             PROVE  /\ DOMAIN resDictionary = {e.type.name : e \in firsts}
                    /\ \A e \in firsts : resDictionary[e.type.name] = e.ref
                    /\ ListsInOrder(namespaceFunctions, namespaces)
  BY SameListings, Zenon DEF FirstNamesIndexed, Ts!FirstNamesIndexed
<1>1. \A kind : kind # "ResourceFunctionType" =>
        FirstOfKey(EntrySet(typeFiles, kind), ResourceKey) =
          {EntryAt(tsFiles, p) : p \in Listed(tsFiles, kind, tsAt)}
  BY TsDoneFacts, ListedAreFirst DEF tsAt
<1>2. firsts = {EntryAt(tsFiles, p) : p \in TsListed}
  BY <1>1 DEF TsListed
<1>3. namespaces = {EntryAt(tsFiles, p) : p \in places}
  BY <1>1
<1>4. \A p \in TsListed : EntryAt(tsFiles, p).type = TypeAt(tsFiles, p)
  BY EntryFacts, TsDoneFacts DEF Listed, TsListed
<1>5. Lists(namespaceFunctions, tsFiles, places) /\ places \subseteq Places(tsFiles)
  BY DEF Inv, TsInv, TsNamespace, Listed
<1> HIDE DEF firsts, namespaces, places
<1>6. DOMAIN resDictionary = {e.type.name : e \in firsts}
  BY <1>2, <1>4 DEF Inv, TsInv, TsResources
<1>7. \A e \in firsts : resDictionary[e.type.name] = e.ref
  BY <1>2, <1>4 DEF Inv, TsInv, TsResources
<1>8. ListsInOrder(namespaceFunctions, namespaces)
  BY <1>3, <1>5, TsDoneFacts, ListsAreInOrder
<1>9. QED
  BY <1>6, <1>7, <1>8

(* When buildIndex is done, a group of resource functions holds all of     *)
(* its type and version, whatever their spelling.                          *)
LEMMA TsFunctionsDone ==
  ASSUME Inv
  PROVE  FunctionGroupsComplete
<1> DEFINE firsts == FirstOfKey(EntrySet(typeFiles, "ResourceFunctionType"), FunctionKey)
           places == Listed(tsFiles, "ResourceFunctionType", tsAt)
<1> SUFFICES ASSUME Ts!Done, DistinctPaths(typeFiles)
             PROVE  /\ DOMAIN funcDictionary = {Ts!FunctionGroup(e.type) : e \in firsts}
                    /\ \A group \in DOMAIN funcDictionary :
                         ListsInOrder(funcDictionary[group],
                                      {e \in firsts : Ts!FunctionGroup(e.type) = group})
  BY SameListings, Zenon DEF FunctionGroupsComplete, Ts!FunctionGroupsComplete
<1>1. firsts = {EntryAt(tsFiles, p) : p \in places}
  BY TsDoneFacts, ListedAreFirst DEF tsAt
<1>2. \A p \in places : /\ p \in Places(tsFiles)
                        /\ Ts!FunctionGroup(EntryAt(tsFiles, p).type) = TsGroup(p)
  BY EntryFacts, TsDoneFacts DEF Listed, TsGroup
<1> HIDE DEF firsts, places
<1>3. DOMAIN funcDictionary = {Ts!FunctionGroup(e.type) : e \in firsts}
  BY <1>1, <1>2 DEF Inv, TsInv, TsFunctions, places
<1>4. ASSUME NEW group \in DOMAIN funcDictionary
      PROVE  ListsInOrder(funcDictionary[group],
                          {e \in firsts : Ts!FunctionGroup(e.type) = group})
  <2>1. {e \in firsts : Ts!FunctionGroup(e.type) = group} =
        {EntryAt(tsFiles, p) : p \in TsGroupPlaces(group)}
    BY <1>1, <1>2 DEF TsGroupPlaces, places
  <2>2. TsGroupPlaces(group) \subseteq Places(tsFiles)
    BY DEF TsGroupPlaces, Listed
  <2>3. Lists(funcDictionary[group], tsFiles, TsGroupPlaces(group))
    BY DEF Inv, TsInv, TsFunctions
  <2>4. QED
    BY <2>1, <2>2, <2>3, TsDoneFacts, ListsAreInOrder
<1>5. QED
  BY <1>3, <1>4

(* Two names a builder lists have different lower-case forms, so under a   *)
(* listed name there is one reference, whichever builder listed it.        *)
LEMMA SameResources ==
  ASSUME Inv
  PROVE  ResourcesAgree
<1> DEFINE firsts == FirstOfKey(EntrySet(typeFiles, "ResourceType"), ResourceKey)
<1> SUFFICES ASSUME Go!Done, Ts!Done, DistinctPaths(typeFiles)
             PROVE  /\ {FlatKey(key) : key \in DOMAIN idx.Resources} =
                         {name \in DOMAIN resDictionary : Go!Splits(name)}
                    /\ \A key \in DOMAIN idx.Resources :
                         idx.Resources[key] = resDictionary[FlatKey(key)]
  BY DEF ResourcesAgree, BothDone
<1>1. /\ DOMAIN resDictionary = {e.type.name : e \in firsts}
      /\ \A e \in firsts : resDictionary[e.type.name] = e.ref
  BY TsNamesDone, SameListings, Zenon DEF FirstNamesIndexed, Ts!FirstNamesIndexed
<1> DEFINE listed == {e \in firsts : Go!Splits(e.type.name)}
<1>2. /\ DOMAIN idx.Resources = {Go!splitResourceName(e.type.name) : e \in listed}
      /\ \A e \in listed : Go!GetResource(idx, Go!splitResourceName(e.type.name)) = e.ref
  BY GoResourcesDone, SameListings DEF Inv, ResourcesIndexed, Go!ResourcesIndexed
<1>3. \A e \in firsts : e.type.name \in Name
  <2>1. \A e \in EntrySet(goFiles, "ResourceType") : e.type.name \in Name
    BY GoDoneFacts, EntriesAtPlaces, EntryFacts, ResourceNames DEF Inv
  <2>2. QED
    BY <2>1, GoDoneFacts DEF Inv, FirstOfKey
<1> HIDE DEF firsts
<1>4. \A e \in listed : /\ FlatKey(Go!splitResourceName(e.type.name)) = e.type.name
                        /\ idx.Resources[Go!splitResourceName(e.type.name)] = e.ref
  BY <1>2, <1>3, SplitFacts DEF Go!GetResource
<1>5. {FlatKey(key) : key \in DOMAIN idx.Resources} = {e.type.name : e \in listed}
  BY <1>2, <1>4
<1>6. {name \in DOMAIN resDictionary : Go!Splits(name)} = {e.type.name : e \in listed}
  BY <1>1
<1>7. \A key \in DOMAIN idx.Resources : idx.Resources[key] = resDictionary[FlatKey(key)]
  BY <1>1, <1>2, <1>4
<1>8. QED
  BY <1>5, <1>6, <1>7

(* Both builders list the same resource functions, each in the order of    *)
(* their references.                                                       *)
LEMMA SameFunctions ==
  ASSUME Inv
  PROVE  FunctionsAgree
<1> DEFINE firsts == FirstOfKey(EntrySet(typeFiles, "ResourceFunctionType"), FunctionKey)
           ofGo(group) == {e \in firsts : Go!FunctionGroup(e.type) = group}
           ofTs(group) == {e \in firsts : Ts!FunctionGroup(e.type) = group}
<1> SUFFICES ASSUME BothDone
             PROVE  FunctionsAgree
  BY DEF FunctionsAgree
<1>1. /\ DOMAIN idx.ResourceFunctions = {Go!FunctionGroup(e.type) : e \in firsts}
      /\ \A group \in DOMAIN idx.ResourceFunctions :
           ListsInOrder(idx.ResourceFunctions[group], ofGo(group))
  BY GoFunctionsDone, SameListings DEF Inv, BothDone, ResourceFunctionsIndexed,
     Go!ResourceFunctionsIndexed, Go!GetResourceFunctions
<1>2. /\ DOMAIN funcDictionary = {Ts!FunctionGroup(e.type) : e \in firsts}
      /\ \A group \in DOMAIN funcDictionary : ListsInOrder(funcDictionary[group], ofTs(group))
  BY TsFunctionsDone, SameListings DEF BothDone, FunctionGroupsComplete, Ts!FunctionGroupsComplete
<1>3. \A e \in firsts : Ts!FunctionGroup(e.type) = LowerGroup(Go!FunctionGroup(e.type))
  BY DEF Ts!FunctionGroup, Go!FunctionGroup, LowerGroup, Ts!LowerName, LowerName
<1>4. /\ \A group \in DOMAIN idx.ResourceFunctions : idx.ResourceFunctions[group] \in Seq(Reference)
      /\ \A group \in DOMAIN funcDictionary : funcDictionary[group] \in Seq(Reference)
  BY DEF Inv, GoInv, GoFunctions, TsInv, TsFunctions
<1> HIDE DEF firsts
<1>5. DOMAIN funcDictionary = {LowerGroup(group) : group \in DOMAIN idx.ResourceFunctions}
  BY <1>1, <1>2, <1>3
<1>6. ASSUME NEW refs \in Seq(Reference), NEW S, ListsInOrder(refs, S)
      PROVE  ToSet(refs) = {e.ref : e \in S}
  BY <1>6 DEF ListsInOrder, ToSet
<1>7. ASSUME NEW lower \in DOMAIN funcDictionary
      PROVE  ToSet(funcDictionary[lower]) =
               UNION {ToSet(idx.ResourceFunctions[group]) :
                        group \in {g \in DOMAIN idx.ResourceFunctions : LowerGroup(g) = lower}}
  <2> DEFINE groups == {g \in DOMAIN idx.ResourceFunctions : LowerGroup(g) = lower}
  <2>1. ToSet(funcDictionary[lower]) = {e.ref : e \in ofTs(lower)}
    BY <1>2, <1>4, <1>6
  <2>2. \A g \in groups : ToSet(idx.ResourceFunctions[g]) = {e.ref : e \in ofGo(g)}
    BY <1>1, <1>4, <1>6
  <2>3. \A e \in ofTs(lower) : \E g \in groups : e \in ofGo(g)
    BY <1>1, <1>3
  <2>4. \A g \in groups : ofGo(g) \subseteq ofTs(lower)
    BY <1>3
  <2> HIDE DEF groups, ofGo, ofTs
  <2>5. UNION {ToSet(idx.ResourceFunctions[g]) : g \in groups} = {e.ref : e \in ofTs(lower)}
    BY <2>2, <2>3, <2>4
  <2>6. QED
    BY <2>1, <2>5 DEF groups
<1> DEFINE Before(r, s) ==
             \/ PathRank[r.relativePath] < PathRank[s.relativePath]
             \/ PathRank[r.relativePath] = PathRank[s.relativePath] /\ r.ref < s.ref
<1>8. ASSUME NEW refs, NEW S, ListsInOrder(refs, S),
             NEW a \in 1..Len(refs), NEW b \in 1..Len(refs), a < b
      PROVE  Before(refs[a], refs[b])
  <2>1. PICK sorted \in [1..Len(refs) -> S] :
          /\ \A m, n \in 1..Len(refs) : m < n => Precedes(sorted[m], sorted[n])
          /\ \A m \in 1..Len(refs) : refs[m] = sorted[m].ref
    BY <1>8 DEF ListsInOrder
  <2>2. Precedes(sorted[a], sorted[b]) /\ refs[a] = sorted[a].ref /\ refs[b] = sorted[b].ref
    BY <2>1, <1>8
  <2>3. QED
    BY <2>2 DEF Precedes
<1>9. ASSUME NEW group \in DOMAIN idx.ResourceFunctions,
             NEW i \in 1..Len(idx.ResourceFunctions[group]),
             NEW j \in 1..Len(idx.ResourceFunctions[group]),
             NEW k \in 1..Len(funcDictionary[LowerGroup(group)]),
             NEW l \in 1..Len(funcDictionary[LowerGroup(group)]),
             idx.ResourceFunctions[group][i] = funcDictionary[LowerGroup(group)][k],
             idx.ResourceFunctions[group][j] = funcDictionary[LowerGroup(group)][l]
      PROVE  i < j <=> k < l
  <2> DEFINE goRefs == idx.ResourceFunctions[group]
             tsRefs == funcDictionary[LowerGroup(group)]
  <2>1. LowerGroup(group) \in DOMAIN funcDictionary
    BY <1>5
  <2>2. ListsInOrder(goRefs, ofGo(group)) /\ ListsInOrder(tsRefs, ofTs(LowerGroup(group)))
    BY <2>1, <1>1, <1>2
  <2>3. /\ \A a, b \in 1..Len(goRefs) : a < b => Before(goRefs[a], goRefs[b])
        /\ \A a, b \in 1..Len(tsRefs) : a < b => Before(tsRefs[a], tsRefs[b])
    BY <2>2, <1>8
  <2>4. goRefs \in Seq(Reference) /\ tsRefs \in Seq(Reference)
    BY <2>1, <1>4
  <2>5. \A e \in firsts : PathRank[e.ref.relativePath] \in Nat /\ e.ref.ref \in Nat
    <3>1. \A e \in EntrySet(goFiles, "ResourceFunctionType") :
            e.ref.relativePath \in Path /\ e.ref.ref \in Nat
      <4> SUFFICES ASSUME NEW p \in Places(goFiles)
                   PROVE  /\ EntryAt(goFiles, p).ref.relativePath \in Path
                          /\ EntryAt(goFiles, p).ref.ref \in Nat
        BY EntriesAtPlaces, GoDoneFacts DEF Inv, BothDone
      <4>1. EntryAt(goFiles, p).ref = [relativePath |-> goFiles[p[1]].path, ref |-> p[2] - 1]
        BY DEF EntryAt, EntryOf, CrossFileTypeReference
      <4>2. p[2] \in Nat \ {0} /\ goFiles[p[1]] \in TypeFile
        BY PlacesArePairs, GoDoneFacts DEF Inv, BothDone
      <4>3. QED
        BY <4>1, <4>2 DEF TypeFile
    <3>2. firsts \subseteq EntrySet(goFiles, "ResourceFunctionType")
      BY GoDoneFacts DEF Inv, BothDone, FirstOfKey, firsts
    <3>3. QED
      BY <3>1, <3>2, RankAssumption
  <2>6. /\ \A a \in 1..Len(goRefs) : \E e \in firsts : goRefs[a] = e.ref
        /\ \A a \in 1..Len(tsRefs) : \E e \in firsts : tsRefs[a] = e.ref
    BY <2>2 DEF ListsInOrder
  <2> DEFINE Placed(r) == PathRank[r.relativePath] \in Nat /\ r.ref \in Nat
  <2>7. Placed(goRefs[i]) /\ Placed(goRefs[j])
    BY <2>5, <2>6
  <2>8. goRefs[i] = tsRefs[k] /\ goRefs[j] = tsRefs[l]
    BY <1>9
  <2>9. /\ i < j => Before(goRefs[i], goRefs[j])
        /\ j < i => Before(goRefs[j], goRefs[i])
        /\ k < l => Before(tsRefs[k], tsRefs[l])
        /\ l < k => Before(tsRefs[l], tsRefs[k])
    BY <2>3, <1>9
  <2> DEFINE ri == PathRank[goRefs[i].relativePath]
             rj == PathRank[goRefs[j].relativePath]
             ii == goRefs[i].ref
             ij == goRefs[j].ref
  <2>10. /\ i < j => ri < rj \/ (ri = rj /\ ii < ij)
         /\ j < i => rj < ri \/ (rj = ri /\ ij < ii)
         /\ k < l => ri < rj \/ (ri = rj /\ ii < ij)
         /\ l < k => rj < ri \/ (rj = ri /\ ij < ii)
    BY <2>8, <2>9
  <2>11. ri \in Nat /\ rj \in Nat /\ ii \in Nat /\ ij \in Nat
    BY <2>7
  <2>12. i \in Nat /\ j \in Nat /\ k \in Nat /\ l \in Nat
    OBVIOUS
  <2>13. i = j => goRefs[i] = goRefs[j]
    OBVIOUS
  <2>14. (i = j => ri = rj /\ ii = ij) /\ (k = l => ri = rj /\ ii = ij)
    BY <2>8, <2>13
  <2> HIDE DEF ri, rj, ii, ij, goRefs, tsRefs
  <2>15. QED
    BY <2>10, <2>11, <2>12, <2>14
<1>10. QED
  BY <1>5, <1>7, <1>9 DEF FunctionsAgree, GetResourceFunctions

-----------------------------------------------------------------------------
(* Go!X and X are the same for the definitions of GoIndex as well.         *)
LEMMA SameCodec ==
  /\ \A i : Go!MarshalJSON(i) = MarshalJSON(i)
  /\ \A file : Go!UnmarshalJSON(file) = UnmarshalJSON(file)
<1>1. \A r : Go!RefText(r) = RefText(r) /\ Go!OptionalText(r) = OptionalText(r)
  BY DEF Go!RefText, RefText, Go!OptionalText, OptionalText, Go!None, None
<1>2. \A s : Go!MapSeq(s, Go!RefText) = MapSeq(s, RefText)
  BY <1>1, Zenon DEF Go!MapSeq, MapSeq
<1>3. \A key : Go!FlatKey(key) = FlatKey(key)
  BY DEF Go!FlatKey, FlatKey
<1>4. \A f : Go!Range(f) = Range(f)
  BY DEF Go!Range, Range
<1>5. \A resources : Go!Flattened(resources) = Flattened(resources)
  <2> SUFFICES ASSUME NEW resources
               PROVE  Go!Flattened(resources) = Flattened(resources)
    OBVIOUS
  <2>1. {Go!FlatKey(key) : key \in DOMAIN resources} = {FlatKey(key) : key \in DOMAIN resources}
    BY <1>3
  <2>2. [{Go!FlatKey(key) : key \in DOMAIN resources} -> Go!Range(resources)] =
        [{FlatKey(key) : key \in DOMAIN resources} -> Range(resources)]
    BY <2>1, <1>4, Zenon
  <2>3. \A flat :
          (\A name \in DOMAIN flat : \E key \in DOMAIN resources :
             Go!FlatKey(key) = name /\ resources[key] = flat[name]) <=>
          (\A name \in DOMAIN flat : \E key \in DOMAIN resources :
             FlatKey(key) = name /\ resources[key] = flat[name])
    BY <1>3, Zenon
  <2>4. QED
    BY <2>2, <2>3, Zenon DEF Go!Flattened, Flattened
<1>6. \A i : Go!MarshalJSON(i) = MarshalJSON(i)
  BY <1>1, <1>2, <1>5, Zenon DEF Go!MarshalJSON, MarshalJSON
<1>7. \A text : Go!unmarshalTypeReference(text) = unmarshalTypeReference(text)
  BY DEF Go!unmarshalTypeReference, unmarshalTypeReference, Go!CrossFileTypeReference,
         CrossFileTypeReference, Go!TypeReference, TypeReference, Go!Failed, Failed
<1>8. \A s : Go!MapSeq(s, Go!unmarshalTypeReference) = MapSeq(s, unmarshalTypeReference)
  BY <1>7, Zenon DEF Go!MapSeq, MapSeq
<1>9. \A text : Go!OptionalRef(text) = OptionalRef(text)
  BY <1>7, Zenon DEF Go!OptionalRef, OptionalRef, Go!None, None
<1>10. \A name : Go!Parts(name) = Parts(name)
  BY Zenon DEF Go!Parts, Parts, Go!Failed, Failed, Go!Cardinality, Cardinality
<1>11. \A s : Go!ToSet(s) = ToSet(s)
  BY DEF Go!ToSet, ToSet
<1>12. Go!Failed = Failed
  BY DEF Go!Failed, Failed
<1>13. \A file : Go!UnmarshalJSON(file) = UnmarshalJSON(file)
  <2> SUFFICES ASSUME NEW file
               PROVE  Go!UnmarshalJSON(file) = UnmarshalJSON(file)
    OBVIOUS
  <2> DEFINE goKeys == {Go!Parts(name) : name \in DOMAIN file.resources}
             keys == {Parts(name) : name \in DOMAIN file.resources}
             goRead == [Resources |-> [key \in goKeys |->
                          Go!unmarshalTypeReference(file.resources[Go!FlatKey(key)])],
                        ResourceFunctions |-> [key \in DOMAIN file.resourceFunctions |->
                          Go!MapSeq(file.resourceFunctions[key], Go!unmarshalTypeReference)],
                        NamespaceFunctions |->
                          Go!MapSeq(file.namespaceFunctions, Go!unmarshalTypeReference),
                        FallbackResource |-> Go!OptionalRef(file.fallbackResourceType),
                        ConfigurationType |-> Go!OptionalRef(file.configurationType)]
             read == [Resources |-> [key \in keys |->
                        unmarshalTypeReference(file.resources[FlatKey(key)])],
                      ResourceFunctions |-> [key \in DOMAIN file.resourceFunctions |->
                        MapSeq(file.resourceFunctions[key], unmarshalTypeReference)],
                      NamespaceFunctions |-> MapSeq(file.namespaceFunctions, unmarshalTypeReference),
                      FallbackResource |-> OptionalRef(file.fallbackResourceType),
                      ConfigurationType |-> OptionalRef(file.configurationType)]
             goRefs(i) == Go!Range(i.Resources)
                          \cup (UNION {Go!ToSet(s) : s \in Go!Range(i.ResourceFunctions)})
                          \cup Go!ToSet(i.NamespaceFunctions)
                          \cup {i.FallbackResource, i.ConfigurationType}
             refs(i) == Range(i.Resources)
                        \cup (UNION {ToSet(s) : s \in Range(i.ResourceFunctions)})
                        \cup ToSet(i.NamespaceFunctions)
                        \cup {i.FallbackResource, i.ConfigurationType}
  <2>1. /\ Go!UnmarshalJSON(file) =
             IF Go!Failed \in goKeys THEN Go!Failed
             ELSE IF Go!Failed \in goRefs(goRead) THEN Go!Failed ELSE goRead
        /\ UnmarshalJSON(file) =
             IF Failed \in keys THEN Failed ELSE IF Failed \in refs(read) THEN Failed ELSE read
    BY Zenon DEF Go!UnmarshalJSON, UnmarshalJSON
  <2>2. goKeys = keys
    BY <1>10
  <2>3. [key \in keys |-> Go!unmarshalTypeReference(file.resources[Go!FlatKey(key)])] =
        [key \in keys |-> unmarshalTypeReference(file.resources[FlatKey(key)])]
    BY <1>3, <1>7, Zenon
  <2>4. [key \in DOMAIN file.resourceFunctions |->
           Go!MapSeq(file.resourceFunctions[key], Go!unmarshalTypeReference)] =
        [key \in DOMAIN file.resourceFunctions |->
           MapSeq(file.resourceFunctions[key], unmarshalTypeReference)]
    BY <1>8, Zenon
  <2> HIDE DEF goKeys, keys
  <2>5. goRead = read
    BY <1>8, <1>9, <2>2, <2>3, <2>4, Zenon
  <2>6. \A i : goRefs(i) = refs(i)
    BY <1>4, <1>11
  <2> HIDE DEF goRead, read, goRefs, refs
  <2>7. QED
    BY <1>12, <2>1, <2>2, <2>5, <2>6
<1>14. QED
  BY <1>6, <1>13

(* A reference that both Go and C# read as it was written.                 *)
Readable(r) ==
  /\ r \notin {None, Failed} /\ RefText(r) # None
  /\ unmarshalTypeReference(RefText(r)) = r
  /\ ReadReference(RefText(r)) # Failed
  /\ "relativePath" \in DOMAIN r => ReadReference(RefText(r)) = r

(* Any reference to a plain path is.                                       *)
LEMMA PlainReferences ==
  ASSUME NEW r \in Reference, "relativePath" \in DOMAIN r => Go!Plain(r.relativePath)
  PROVE  Readable(r)
<1>0. DOMAIN None = {"none"} /\ DOMAIN Failed = {"failed"}
  BY DEF None, Failed
<1>1. CASE r \in [ref : Nat]
  <2>1. r = [ref |-> r.ref] /\ "relativePath" \notin DOMAIN r /\ "ref" \in DOMAIN r
    BY <1>1
  <2> DEFINE empty == <<"">>
  <2>2. RefText(r) = [prefix |-> empty, index |-> r.ref]
    BY <2>1 DEF RefText
  <2>4. Len(empty) = 1
    OBVIOUS
  <2>9. \A text : text.prefix = empty =>
          unmarshalTypeReference(text) = TypeReference(text.index)
    BY Zenon DEF unmarshalTypeReference
  <2> HIDE DEF empty
  <2>3. /\ r # None /\ r # Failed /\ RefText(r) # None
        /\ RefText(r).prefix = empty /\ RefText(r).index = r.ref
    BY <2>1, <2>2, <1>0
  <2>5. unmarshalTypeReference(RefText(r)) = [ref |-> r.ref]
    BY <2>3, <2>9, Zenon DEF TypeReference
  <2>6. ReadReference(RefText(r)) = [relativePath |-> empty, ref |-> r.ref]
    BY <2>3, <2>4, Zenon DEF ReadReference, CrossFileTypeReference
  <2>7. ReadReference(RefText(r)) # Failed
    BY <2>6, <1>0
  <2>8. QED
    BY <2>1, <2>3, <2>5, <2>7, Zenon DEF Readable
<1>2. CASE r \in [relativePath : Path, ref : Nat]
  <2>1. /\ r = [relativePath |-> r.relativePath, ref |-> r.ref]
        /\ "relativePath" \in DOMAIN r /\ "ref" \in DOMAIN r
    BY <1>2
  <2>2. RefText(r) = [prefix |-> r.relativePath, index |-> r.ref]
    BY <2>1 DEF RefText
  <2>3. Len(r.relativePath) = 1 /\ r.relativePath # <<"">>
    BY <2>1 DEF Go!Plain
  <2>4. /\ r # None /\ r # Failed /\ RefText(r) # None
        /\ RefText(r).prefix = r.relativePath /\ RefText(r).index = r.ref
    BY <2>1, <2>2, <1>0
  <2>5. unmarshalTypeReference(RefText(r)) = [relativePath |-> r.relativePath, ref |-> r.ref]
    BY <2>3, <2>4, Zenon DEF unmarshalTypeReference, CrossFileTypeReference
  <2>6. ReadReference(RefText(r)) = [relativePath |-> r.relativePath, ref |-> r.ref]
    BY <2>3, <2>4, Zenon DEF ReadReference, CrossFileTypeReference
  <2>7. QED
    BY <2>1, <2>4, <2>5, <2>6, Zenon DEF Readable
<1>3. QED
  BY <1>1, <1>2 DEF Reference

(* A resource key without At in either part is what its text falls into,   *)
LEMMA PartsOfFlatKey ==
  ASSUME NEW key \in Name \X Name,
         \A i \in 1..Len(key[1]) : key[1][i] # At,
         \A i \in 1..Len(key[2]) : key[2][i] # At
  PROVE  Parts(FlatKey(key)) = key /\ key # Failed
<1> DEFINE a == key[1]  b == key[2]  n == FlatKey(key)  m == Len(a) + 1
<1>1. a \in Seq(Char) /\ b \in Seq(Char) /\ At \in Char /\ Len(a) \in Nat /\ Len(b) \in Nat
  BY DEF Name, Char
<1>2. /\ n \in Seq(Char) /\ Len(n) = m + Len(b) /\ n[m] = At
      /\ \A i \in 1..Len(a) : n[i] = a[i]
      /\ \A i \in 1..Len(b) : n[m + i] = b[i]
  <2>1. n = Append(a, At) \o b
    BY <1>1, AppendIsConcat DEF FlatKey
  <2> DEFINE head == Append(a, At)
  <2>2. head \in Seq(Char) /\ Len(head) = m /\ head[m] = At /\ \A i \in 1..Len(a) : head[i] = a[i]
    BY <1>1
  <2> HIDE DEF head
  <2>3. /\ head \o b \in Seq(Char)
        /\ Len(head \o b) = Len(head) + Len(b)
        /\ \A i \in 1..(Len(head) + Len(b)) :
             (head \o b)[i] = IF i <= Len(head) THEN head[i] ELSE b[i - Len(head)]
    BY <1>1, <2>2, ConcatProperties, Zenon
  <2>4. n = head \o b
    BY <2>1 DEF head
  <2> HIDE DEF n
  <2>5. \A i \in 1..Len(b) : m + i \in 1..(m + Len(b)) /\ ~(m + i <= m) /\ (m + i) - m = i
    BY <1>1
  <2>6. QED
    BY <1>1, <2>2, <2>3, <2>4, <2>5
<1> HIDE DEF n
<1>3. {i \in DOMAIN n : n[i] = At} = {m}
  <2>1. DOMAIN n = 1..(m + Len(b)) /\ m \in 1..(m + Len(b))
    BY <1>1, <1>2
  <2>2. ASSUME NEW i \in 1..(m + Len(b)), i # m
        PROVE  n[i] # At
    <3>1. CASE i < m
      <4>1. i \in 1..Len(a)
        BY <3>1, <1>1
      <4>2. n[i] = a[i] /\ a[i] # At
        BY <4>1, <1>2
      <4>3. QED
        BY <4>2
    <3>2. CASE i > m
      <4>1. i - m \in 1..Len(b) /\ m + (i - m) = i
        BY <3>2, <1>1
      <4>2. n[m + (i - m)] = b[i - m] /\ b[i - m] # At
        BY <4>1, <1>2
      <4>3. QED
        BY <4>1, <4>2
    <3>3. QED
      BY <2>2, <3>1, <3>2, <1>1
  <2>3. QED
    BY <2>1, <2>2, <1>2
<1>4. Parts(n) = <<SubSeq(n, 1, m - 1), SubSeq(n, m + 1, Len(n))>>
  <2>1. Cardinality({m}) = 1 /\ (CHOOSE i \in {m} : TRUE) = m
    BY FS_Singleton
  <2>2. QED
    BY <1>3, <2>1, Zenon DEF Parts
<1>5. SubSeq(n, 1, m - 1) = a
  <2>1. SubSeq(n, 1, m - 1) \in Seq(Char) /\ Len(SubSeq(n, 1, m - 1)) = Len(a)
        /\ \A i \in 1..Len(a) : SubSeq(n, 1, m - 1)[i] = n[i]
    BY <1>1, <1>2
  <2> DEFINE front == SubSeq(n, 1, m - 1)
  <2>2. front \in Seq(Char) /\ Len(front) = Len(a) /\ \A i \in 1..Len(front) : front[i] = a[i]
    BY <2>1, <1>2
  <2> HIDE DEF front, a
  <2>3. QED
    BY <2>2, <1>1, SeqEqual DEF front
<1>6. SubSeq(n, m + 1, Len(n)) = b
  <2>1. SubSeq(n, m + 1, Len(n)) \in Seq(Char) /\ Len(SubSeq(n, m + 1, Len(n))) = Len(b)
        /\ \A i \in 1..Len(b) : SubSeq(n, m + 1, Len(n))[i] = n[m + i]
    BY <1>1, <1>2
  <2> DEFINE back == SubSeq(n, m + 1, Len(n))
  <2>2. back \in Seq(Char) /\ Len(back) = Len(b) /\ \A i \in 1..Len(back) : back[i] = b[i]
    BY <2>1, <1>2
  <2> HIDE DEF back, b
  <2>3. QED
    BY <2>2, <1>1, SeqEqual DEF back
<1>7. key = <<a, b>>
  OBVIOUS
<1>8. <<a, b>> # Failed
  <2>1. 1 \in DOMAIN <<a, b>> /\ 2 \in DOMAIN <<a, b>> /\ DOMAIN Failed = {"failed"}
    BY DEF Failed
  <2>2. QED
    BY <2>1
<1>9. QED
  BY <1>4, <1>5, <1>6, <1>7, <1>8 DEF n

(* and a text that falls into two parts is that of its parts.              *)
LEMMA FlatKeyOfParts ==
  ASSUME NEW name \in Name, Parts(name) # Failed
  PROVE  FlatKey(Parts(name)) = name
<1> DEFINE at == {i \in DOMAIN name : name[i] = At}
<1>1. Cardinality(at) = 1
  BY Zenon DEF Parts
<1>2. DOMAIN name = 1..Len(name) /\ Len(name) \in Nat /\ name \in Seq(Char)
  BY DEF Name
<1>3. at \subseteq 1..Len(name)
  BY <1>2
<1>4. \E m \in at : at = {m}
  <2>1. IsFiniteSet(at)
    <3>1. 1 \in Int /\ Len(name) \in Int
      BY <1>2
    <3>2. IsFiniteSet(1..Len(name))
      BY <3>1, FS_Interval, Zenon
    <3>3. QED
      BY <1>3, <3>2, FS_Subset, Zenon
  <2>2. QED
    BY <1>1, <2>1, FS_Singleton
<1>5. PICK m \in 1..Len(name) : at = {m} /\ name[m] = At
  BY <1>3, <1>4
<1>6. (CHOOSE i \in at : TRUE) = m
  BY <1>5
<1> DEFINE front == SubSeq(name, 1, m - 1)
           back == SubSeq(name, m + 1, Len(name))
<1>7. Parts(name) = <<front, back>>
  BY <1>1, <1>6, Zenon DEF Parts
<1>0. Len(name) \in Nat /\ name \in Seq(Char) /\ m \in Nat /\ 1 <= m /\ m <= Len(name)
  BY <1>2
<1>8. /\ front \in Seq(Char) /\ Len(front) = m - 1
      /\ \A i \in 1..(m - 1) : front[i] = name[i]
  BY <1>0
<1>9. /\ back \in Seq(Char) /\ Len(back) = Len(name) - m
      /\ \A i \in 1..(Len(name) - m) : back[i] = name[i + m]
  BY <1>0
<1> HIDE DEF front, back
<1>10. FlatKey(Parts(name)) = front \o <<At>> \o back
  BY <1>7 DEF FlatKey
<1>11. front \o <<At>> \o back = name
  BY <1>0, <1>5, <1>8, <1>9, WholeAgain, Zenon
<1>12. QED
  BY <1>10, <1>11

(* What a builder writes to index.json, resources by their texts.          *)
Written(resources, functions, namespace, fallback, configuration) ==
  [resources |-> MapSeq(resources, RefText),
   resourceFunctions |-> [key \in DOMAIN functions |-> MapSeq(functions[key], RefText)],
   namespaceFunctions |-> MapSeq(namespace, RefText),
   fallbackResourceType |-> OptionalText(fallback),
   configurationType |-> OptionalText(configuration)]

ReadableSeq(refs) == refs \in Seq(Reference) /\ \A i \in 1..Len(refs) : Readable(refs[i])

(* Readable references and resource texts of two parts are read back.      *)
GoReads(resources, functions, namespace, fallback, configuration) ==
  /\ \A name \in DOMAIN resources : /\ Readable(resources[name])
                                    /\ Parts(name) # Failed /\ FlatKey(Parts(name)) = name
  /\ IsMap(functions) /\ \A key \in DOMAIN functions : ReadableSeq(functions[key])
  /\ ReadableSeq(namespace)
  /\ fallback = None \/ Readable(fallback)
  /\ configuration = None \/ Readable(configuration)

ReadIndex(resources, functions, namespace, fallback, configuration) ==
  [Resources |-> [key \in {Parts(name) : name \in DOMAIN resources} |-> resources[FlatKey(key)]],
   ResourceFunctions |-> functions, NamespaceFunctions |-> namespace,
   FallbackResource |-> fallback, ConfigurationType |-> configuration]

(* UnmarshalJSON reads a text whose parts it accepts back to the index     *)
(* the text was written from.                                              *)
LEMMA ReadBack ==
  ASSUME NEW resources, NEW functions, NEW namespace, NEW fallback, NEW configuration,
         GoReads(resources, functions, namespace, fallback, configuration)
  PROVE  UnmarshalJSON(Written(resources, functions, namespace, fallback, configuration)) =
           ReadIndex(resources, functions, namespace, fallback, configuration)
<1> DEFINE file == Written(resources, functions, namespace, fallback, configuration)
           keys == {Parts(name) : name \in DOMAIN resources}
           read == [Resources |-> [key \in keys |-> resources[FlatKey(key)]],
                    ResourceFunctions |-> functions, NamespaceFunctions |-> namespace,
                    FallbackResource |-> fallback, ConfigurationType |-> configuration]
<1> USE DEF GoReads
<1>1. /\ file.resources = MapSeq(resources, RefText)
      /\ file.resourceFunctions =
           [key \in DOMAIN functions |-> MapSeq(functions[key], RefText)]
      /\ file.namespaceFunctions = MapSeq(namespace, RefText)
      /\ file.fallbackResourceType = OptionalText(fallback)
      /\ file.configurationType = OptionalText(configuration)
  BY DEF Written
<1> HIDE DEF file
<1>2. DOMAIN file.resources = DOMAIN resources
      /\ \A name \in DOMAIN resources : file.resources[name] = RefText(resources[name])
  BY <1>1 DEF MapSeq
<1>3. ASSUME NEW refs, ReadableSeq(refs)
      PROVE  MapSeq(MapSeq(refs, RefText), unmarshalTypeReference) = refs
  <2>1. refs \in Seq(Reference) /\ DOMAIN refs = 1..Len(refs) /\ refs = [i \in DOMAIN refs |-> refs[i]]
    BY <1>3 DEF ReadableSeq
  <2>2. DOMAIN MapSeq(refs, RefText) = DOMAIN refs
        /\ \A i \in DOMAIN refs : MapSeq(refs, RefText)[i] = RefText(refs[i])
    BY DEF MapSeq
  <2>3. \A i \in DOMAIN refs : unmarshalTypeReference(MapSeq(refs, RefText)[i]) = refs[i]
    BY <1>3, <2>1, <2>2 DEF ReadableSeq, Readable
  <2>4. MapSeq(MapSeq(refs, RefText), unmarshalTypeReference) =
          [i \in DOMAIN refs |-> unmarshalTypeReference(MapSeq(refs, RefText)[i])]
    BY <2>2, Zenon DEF MapSeq
  <2>5. QED
    BY <2>1, <2>3, <2>4
<1>4. [key \in {Parts(name) : name \in DOMAIN file.resources} |->
         unmarshalTypeReference(file.resources[FlatKey(key)])] =
      [key \in keys |-> resources[FlatKey(key)]]
  <2>1. {Parts(name) : name \in DOMAIN file.resources} = keys
    BY <1>2
  <2>2. \A key \in keys : unmarshalTypeReference(file.resources[FlatKey(key)]) =
                            resources[FlatKey(key)]
    BY <1>2 DEF Readable
  <2>3. QED
    BY <2>1, <2>2
<1>5. [key \in DOMAIN file.resourceFunctions |->
         MapSeq(file.resourceFunctions[key], unmarshalTypeReference)] = functions
  <2>1. DOMAIN file.resourceFunctions = DOMAIN functions
        /\ \A key \in DOMAIN functions :
             file.resourceFunctions[key] = MapSeq(functions[key], RefText)
    BY <1>1
  <2>2. \A key \in DOMAIN functions :
          MapSeq(file.resourceFunctions[key], unmarshalTypeReference) = functions[key]
    BY <1>3, <2>1
  <2>3. QED
    BY <2>1, <2>2 DEF IsMap
<1>6. MapSeq(file.namespaceFunctions, unmarshalTypeReference) = namespace
  BY <1>1, <1>3
<1>7. \A r : r = None \/ Readable(r) => OptionalRef(OptionalText(r)) = r /\ r # Failed
  <2>1. None # Failed
    BY DEF None, Failed
  <2>2. QED
    BY <2>1, Zenon DEF Readable, OptionalRef, OptionalText
<1>8. Failed \notin keys
  OBVIOUS
<1>14. \A key \in keys : Readable(resources[FlatKey(key)])
  OBVIOUS
<1>9. /\ read.Resources = [key \in keys |-> resources[FlatKey(key)]]
      /\ read.ResourceFunctions = functions /\ read.NamespaceFunctions = namespace
      /\ read.FallbackResource = fallback /\ read.ConfigurationType = configuration
  OBVIOUS
<1> DEFINE fileKeys == {Parts(name) : name \in DOMAIN file.resources}
           fromFile == [Resources |-> [key \in fileKeys |->
                          unmarshalTypeReference(file.resources[FlatKey(key)])],
                        ResourceFunctions |-> [key \in DOMAIN file.resourceFunctions |->
                          MapSeq(file.resourceFunctions[key], unmarshalTypeReference)],
                        NamespaceFunctions |->
                          MapSeq(file.namespaceFunctions, unmarshalTypeReference),
                        FallbackResource |-> OptionalRef(file.fallbackResourceType),
                        ConfigurationType |-> OptionalRef(file.configurationType)]
           refs(i) == Range(i.Resources)
                      \cup (UNION {ToSet(s) : s \in Range(i.ResourceFunctions)})
                      \cup ToSet(i.NamespaceFunctions)
                      \cup {i.FallbackResource, i.ConfigurationType}
<1>10. fileKeys = keys /\ fromFile = read
  BY <1>1, <1>2, <1>4, <1>5, <1>6, <1>7, Zenon
<1>11. UnmarshalJSON(file) =
         IF Failed \in fileKeys THEN Failed
         ELSE IF Failed \in refs(fromFile) THEN Failed ELSE fromFile
  BY Zenon DEF UnmarshalJSON
<1> HIDE DEF read, fromFile, keys, fileKeys
<1>12. Failed \notin refs(read)
  <2>1. Failed \notin Range(read.Resources)
    BY <1>9, <1>14 DEF Range, Readable
  <2>2. \A s : ReadableSeq(s) => Failed \notin ToSet(s)
    BY DEF ReadableSeq, Readable, ToSet
  <2>3. Failed \notin UNION {ToSet(s) : s \in Range(read.ResourceFunctions)}
    BY <1>9, <2>2 DEF Range
  <2>4. QED
    BY <1>7, <1>9, <2>1, <2>2, <2>3
<1> HIDE DEF refs
<1>13. UnmarshalJSON(file) = read
  BY <1>8, <1>10, <1>11, <1>12
<1>15. QED
  BY <1>13 DEF ReadIndex, read, keys, file

(* A reference to a type of the sorted files is readable, and what C#      *)
(* loads by it is that type.                                               *)
CrossFile(r) == Readable(r) /\ "relativePath" \in DOMAIN r

CrossFileSeq(refs) == ReadableSeq(refs) /\ \A i \in 1..Len(refs) : CrossFile(refs[i])

(* When all paths are plain, the reference of an entry is one that Go      *)
(* reads back.                                                             *)
LEMMA PlaceIsReadable ==
  ASSUME NEW files \in Orders(typeFiles), typeFiles \in Seq(TypeFile), PlainPaths,
         NEW p \in Places(files)
  PROVE  CrossFile(EntryAt(files, p).ref)
<1>1. files \in Seq(TypeFile) /\ \A k \in 1..Len(files) : \E i \in 1..Len(typeFiles) :
                                   files[k] = typeFiles[i]
  BY OrderFacts
<1>2. p[1] \in 1..Len(files) /\ EntryAt(files, p).ref \in Reference
  BY <1>1, PlacesArePairs, EntryFacts
<1>3. EntryAt(files, p).ref = [relativePath |-> files[p[1]].path, ref |-> p[2] - 1]
  BY DEF EntryAt, EntryOf, CrossFileTypeReference
<1>4. Go!Plain(files[p[1]].path)
  BY <1>1, <1>2 DEF PlainPaths, Go!PlainPaths
<1>5. "relativePath" \in DOMAIN EntryAt(files, p).ref
      /\ Go!Plain(EntryAt(files, p).ref.relativePath)
  BY <1>3, <1>4
<1>6. QED
  BY <1>2, <1>5, PlainReferences DEF CrossFile

(* The mark of a failed load is no type.                                   *)
LEMMA TypesAreNotFailed ==
  ASSUME NEW t \in Type
  PROVE  t # Failed
<1>1. "kind" \in DOMAIN t
  BY DEF Type, OtherType
<1>2. DOMAIN Failed = {"failed"}
  BY DEF Failed
<1>3. QED
  BY <1>1, <1>2

(* When no two files share a path, the C# loader finds under the           *)
(* reference of an entry the type the entry was made for.                  *)
LEMMA PlaceIsLoaded ==
  ASSUME NEW files \in Orders(typeFiles), typeFiles \in Seq(TypeFile), OneFilePerPath,
         NEW p \in Places(files)
  PROVE  LoadType(typeFiles, EntryAt(files, p).ref) = TypeAt(files, p)
<1>1. files \in Seq(TypeFile) /\ \A k \in 1..Len(files) : \E i \in 1..Len(typeFiles) :
                                   files[k] = typeFiles[i]
  BY OrderFacts
<1>2. /\ p[1] \in 1..Len(files) /\ p[2] \in 1..Len(files[p[1]].types) /\ p[2] \in Nat
      /\ files[p[1]] \in TypeFile
  BY <1>1, PlacesArePairs
<1> DEFINE file == files[p[1]]
           ref == EntryAt(files, p).ref
           found == {f \in ToSet(typeFiles) : f.path = ref.relativePath}
<1>3. ref.relativePath = file.path /\ ref.ref = p[2] - 1
  BY DEF EntryAt, EntryOf, CrossFileTypeReference
<1>4. PICK i \in 1..Len(typeFiles) : file = typeFiles[i]
  BY <1>1, <1>2
<1>5. found = {file}
  <2>1. ToSet(typeFiles) = {typeFiles[j] : j \in 1..Len(typeFiles)}
    BY DEF ToSet
  <2>2. QED
    BY <2>1, <1>3, <1>4 DEF OneFilePerPath
<1>6. Len(file.types) \in Nat
  BY <1>2 DEF TypeFile
<1>7. ref.ref < Len(file.types) /\ ref.ref + 1 = p[2]
  BY <1>2, <1>3, <1>6
<1>8. TypeAt(files, p) = file.types[p[2]]
  BY DEF TypeAt
<1> HIDE DEF ref, file
<1>9. found # {} /\ (CHOOSE f \in found : TRUE) = file
  BY <1>5
<1> DEFINE loaded == CHOOSE f \in found : TRUE
<1>10. LoadType(typeFiles, ref) =
         IF found = {} THEN Failed
         ELSE IF ref.ref < Len(loaded.types) THEN loaded.types[ref.ref + 1] ELSE Failed
  BY Zenon DEF LoadType
<1> HIDE DEF found, loaded
<1>11. QED
  BY <1>7, <1>8, <1>9, <1>10, Zenon DEF ref, loaded

(* All that the finished Go index lists.                                   *)
LEMMA GoListsReadable ==
  ASSUME GoInv, Go!Done, PlainPaths
  PROVE  /\ goFiles \in Orders(typeFiles)
         /\ \A key \in DOMAIN idx.Resources : CrossFile(idx.Resources[key])
         /\ \A group \in DOMAIN idx.ResourceFunctions : CrossFileSeq(idx.ResourceFunctions[group])
         /\ CrossFileSeq(idx.NamespaceFunctions)
         /\ \A r \in {idx.FallbackResource, idx.ConfigurationType} : r = None \/ Readable(r)
<1>1. goFiles \in Orders(typeFiles) /\ typeFiles \in Seq(TypeFile)
  BY GoDoneFacts DEF GoInv, GoSorted
<1>2. \A p \in Places(goFiles) : CrossFile(EntryAt(goFiles, p).ref)
  BY <1>1, PlaceIsReadable
<1>3. \A key \in DOMAIN idx.Resources : CrossFile(idx.Resources[key])
  BY <1>2 DEF GoInv, GoResources, GoListed, Listed
<1>4. ASSUME NEW refs \in Seq(Reference), NEW P, P \subseteq Places(goFiles), Lists(refs, goFiles, P)
      PROVE  CrossFileSeq(refs)
  <2>1. \A i \in 1..Len(refs) : CrossFile(refs[i])
    BY <1>2, <1>4 DEF Lists
  <2>2. QED
    BY <2>1 DEF CrossFileSeq, ReadableSeq, CrossFile
<1>5. \A group \in DOMAIN idx.ResourceFunctions :
        CrossFileSeq(idx.ResourceFunctions[group])
  <2>1. \A group : GoGroupPlaces(group) \subseteq Places(goFiles)
    BY DEF GoGroupPlaces, Listed
  <2>2. QED
    BY <1>4, <2>1 DEF GoInv, GoFunctions
<1>6. CrossFileSeq(idx.NamespaceFunctions)
  <2>1. GoNamespacePlaces \subseteq Places(goFiles)
    BY DEF GoNamespacePlaces
  <2>2. QED
    BY <1>4, <2>1 DEF GoInv, GoNamespace
<1>7. \A r \in {idx.FallbackResource, idx.ConfigurationType} : r = None \/ Readable(r)
  <2>1. \A r \in {idx.FallbackResource, idx.ConfigurationType} :
          r \in {None} \cup Reference /\ ("relativePath" \in DOMAIN r => Go!Plain(r.relativePath))
    BY DEF GoInv, GoTypeOK, PlainPaths, Go!PlainPaths
  <2>2. QED
    BY <2>1, PlainReferences
<1>8. QED
  BY <1>1, <1>3, <1>5, <1>6, <1>7

(* MarshalJSON has one outcome when no two keys make the same text.        *)
LEMMA OneFlattening ==
  ASSUME NEW resources, IsMap(resources), NEW flat \in Flattened(resources),
         \A k, l \in DOMAIN resources : FlatKey(k) = FlatKey(l) => k = l
  PROVE  /\ DOMAIN flat = {FlatKey(key) : key \in DOMAIN resources}
         /\ IsMap(flat)
         /\ \A key \in DOMAIN resources : flat[FlatKey(key)] = resources[key]
<1>1. /\ flat \in [{FlatKey(key) : key \in DOMAIN resources} -> Range(resources)]
      /\ \A name \in DOMAIN flat : \E key \in DOMAIN resources :
           FlatKey(key) = name /\ resources[key] = flat[name]
  BY DEF Flattened
<1>2. QED
  BY <1>1 DEF IsMap

(* The Go index is what UnmarshalJSON makes of any of its texts.           *)
LEMMA GoRoundTrip ==
  ASSUME Inv
  PROVE  PlainIndexRoundTrips
<1> SUFFICES ASSUME PlainPaths, \A key \in DOMAIN idx.Resources : ~Go!Contains(key[1], At),
                    Go!Done, NEW file \in MarshalJSON(idx)
             PROVE  UnmarshalJSON(file) = idx
  BY SameCodec, Zenon DEF PlainIndexRoundTrips, Go!PlainIndexRoundTrips, Go!IndexRoundTrips,
                          PlainPaths
<1>1. GoInv /\ IsMap(idx.Resources) /\ IsMap(idx.ResourceFunctions)
  BY DEF Inv, GoInv, GoTypeOK
<1>2. ASSUME NEW key \in DOMAIN idx.Resources
      PROVE  Parts(FlatKey(key)) = key /\ key # Failed
  <2>1. PICK p \in GoListed : key = Go!splitResourceName(TypeAt(goFiles, p).name)
    BY <1>1 DEF GoInv, GoResources, GoResourceKey
  <2>2. TypeAt(goFiles, p).name \in Name /\ Go!Splits(TypeAt(goFiles, p).name)
    BY <2>1, <1>1, GoDoneFacts, ResourceNames DEF GoListed, Listed
  <2>3. key \in Name \X Name /\ \A i \in 1..Len(key[2]) : key[2][i] # At
    BY <2>1, <2>2, SplitFacts
  <2>4. \A i \in 1..Len(key[1]) : key[1][i] # At
    BY DEF Go!Contains
  <2>5. QED
    BY <2>3, <2>4, PartsOfFlatKey, Zenon
<1>3. PICK flat \in Flattened(idx.Resources) :
        file = Written(flat, idx.ResourceFunctions, idx.NamespaceFunctions,
                       idx.FallbackResource, idx.ConfigurationType)
  BY Zenon DEF MarshalJSON, Written
<1>4. \A k, l \in DOMAIN idx.Resources : FlatKey(k) = FlatKey(l) => k = l
  BY <1>2, Zenon
<1>5. /\ DOMAIN flat = {FlatKey(key) : key \in DOMAIN idx.Resources}
      /\ \A key \in DOMAIN idx.Resources : flat[FlatKey(key)] = idx.Resources[key]
  BY <1>1, <1>4, OneFlattening
<1>6. \A name \in DOMAIN flat : /\ Readable(flat[name])
                                /\ Parts(name) # Failed /\ FlatKey(Parts(name)) = name
  BY <1>1, <1>2, <1>5, GoListsReadable DEF CrossFile
<1>7. UnmarshalJSON(file) = ReadIndex(flat, idx.ResourceFunctions, idx.NamespaceFunctions,
                                      idx.FallbackResource, idx.ConfigurationType)
  <2>1. GoReads(flat, idx.ResourceFunctions, idx.NamespaceFunctions,
                idx.FallbackResource, idx.ConfigurationType)
    BY <1>1, <1>6, GoListsReadable DEF GoReads, CrossFileSeq
  <2>2. QED
    BY <1>3, <2>1, ReadBack, Zenon
<1>8. {Parts(name) : name \in DOMAIN flat} = DOMAIN idx.Resources
  BY <1>2, <1>5
<1>9. [key \in DOMAIN idx.Resources |-> flat[FlatKey(key)]] = idx.Resources
  BY <1>1, <1>5 DEF IsMap
<1>10. idx = [Resources |-> idx.Resources, ResourceFunctions |-> idx.ResourceFunctions,
              NamespaceFunctions |-> idx.NamespaceFunctions,
              FallbackResource |-> idx.FallbackResource,
              ConfigurationType |-> idx.ConfigurationType]
  BY <1>1 DEF GoInv, GoTypeOK
<1>11. QED
  BY <1>7, <1>8, <1>9, <1>10, Zenon DEF ReadIndex

(* What C# reads of the same text, if all references are to files.         *)
CsReads(resources, functions, namespace, fallback, configuration) ==
  /\ IsMap(resources) /\ \A name \in DOMAIN resources : CrossFile(resources[name])
  /\ IsMap(functions) /\ \A key \in DOMAIN functions : CrossFileSeq(functions[key])
  /\ CrossFileSeq(namespace)
  /\ fallback = None \/ Readable(fallback)
  /\ configuration = None \/ Readable(configuration)

LoadedIndex(resources, functions, namespace) ==
  [Resources |-> resources, ResourceFunctions |-> functions, NamespaceFunctions |-> namespace]

(* The C# reader reads a text whose parts it accepts to the index the      *)
(* text was written from.                                                  *)
LEMMA CsReadBack ==
  ASSUME NEW resources, NEW functions, NEW namespace, NEW fallback, NEW configuration,
         CsReads(resources, functions, namespace, fallback, configuration)
  PROVE  LoadTypeIndex(Written(resources, functions, namespace, fallback, configuration)) =
           LoadedIndex(resources, functions, namespace)
<1> DEFINE file == Written(resources, functions, namespace, fallback, configuration)
<1> USE DEF CsReads, CrossFileSeq
<1>1. /\ file.resources = MapSeq(resources, RefText)
      /\ file.resourceFunctions =
           [key \in DOMAIN functions |-> MapSeq(functions[key], RefText)]
      /\ file.namespaceFunctions = MapSeq(namespace, RefText)
      /\ file.fallbackResourceType = OptionalText(fallback)
      /\ file.configurationType = OptionalText(configuration)
  BY DEF Written
<1> HIDE DEF file
<1>2. /\ DOMAIN file.resources = DOMAIN resources
      /\ \A name \in DOMAIN resources : file.resources[name] = RefText(resources[name])
  BY <1>1 DEF MapSeq
<1>3. ASSUME NEW refs, CrossFileSeq(refs)
      PROVE  /\ MapSeq(MapSeq(refs, RefText), ReadReference) = refs
             /\ \A text \in ToSet(MapSeq(refs, RefText)) : ReadReference(text) # Failed
  <2>1. refs \in Seq(Reference) /\ DOMAIN refs = 1..Len(refs) /\ refs = [i \in DOMAIN refs |-> refs[i]]
    BY <1>3 DEF ReadableSeq
  <2>2. DOMAIN MapSeq(refs, RefText) = DOMAIN refs
        /\ \A i \in DOMAIN refs : MapSeq(refs, RefText)[i] = RefText(refs[i])
    BY DEF MapSeq
  <2>3. \A i \in DOMAIN refs : /\ ReadReference(MapSeq(refs, RefText)[i]) = refs[i]
                               /\ ReadReference(MapSeq(refs, RefText)[i]) # Failed
    BY <1>3, <2>1, <2>2 DEF CrossFile, Readable
  <2>4. MapSeq(MapSeq(refs, RefText), ReadReference) =
          [i \in DOMAIN refs |-> ReadReference(MapSeq(refs, RefText)[i])]
    BY <2>2, Zenon DEF MapSeq
  <2>5. \A s : ToSet(s) = {s[i] : i \in DOMAIN s}
    BY DEF ToSet
  <2>6. \A text \in ToSet(MapSeq(refs, RefText)) : ReadReference(text) # Failed
    BY <2>2, <2>3, <2>5
  <2>7. QED
    BY <2>1, <2>3, <2>4, <2>6
<1>4. MapSeq(file.resources, ReadReference) = resources
  <2>1. MapSeq(file.resources, ReadReference) =
          [name \in DOMAIN resources |-> ReadReference(file.resources[name])]
    BY <1>2, Zenon DEF MapSeq
  <2>2. \A name \in DOMAIN resources : ReadReference(file.resources[name]) = resources[name]
    BY <1>2 DEF CrossFile, Readable
  <2>3. QED
    BY <2>1, <2>2 DEF IsMap
<1>5. /\ DOMAIN file.resourceFunctions = DOMAIN functions
      /\ \A key \in DOMAIN functions :
           file.resourceFunctions[key] = MapSeq(functions[key], RefText)
  BY <1>1
<1>6. [key \in DOMAIN file.resourceFunctions |->
         MapSeq(file.resourceFunctions[key], ReadReference)] = functions
  <2>1. \A key \in DOMAIN functions :
          MapSeq(file.resourceFunctions[key], ReadReference) = functions[key]
    BY <1>3, <1>5
  <2>2. QED
    BY <2>1, <1>5 DEF IsMap
<1>7. MapSeq(file.namespaceFunctions, ReadReference) = namespace
  BY <1>1, <1>3
<1>8. ASSUME NEW text \in ReferenceTexts(file)
      PROVE  ReadReference(text) # Failed
  <2>1. ASSUME text \in Range(file.resources)
        PROVE  ReadReference(text) # Failed
    BY <2>1, <1>2 DEF Range, CrossFile, Readable
  <2>2. ASSUME NEW s \in Range(file.resourceFunctions), text \in ToSet(s)
        PROVE  ReadReference(text) # Failed
    <3>1. PICK key \in DOMAIN functions : s = MapSeq(functions[key], RefText)
      BY <1>5 DEF Range
    <3>2. QED
      BY <2>2, <3>1, <1>3
  <2>3. ASSUME text \in ToSet(file.namespaceFunctions)
        PROVE  ReadReference(text) # Failed
    BY <2>3, <1>1, <1>3
  <2>4. ASSUME NEW r, r = None \/ Readable(r), OptionalText(r) # None
        PROVE  ReadReference(OptionalText(r)) # Failed
    BY <2>4, Zenon DEF Readable, OptionalText
  <2>5. text # None
    BY DEF ReferenceTexts
  <2>6. ASSUME text \in {file.fallbackResourceType, file.configurationType}
        PROVE  ReadReference(text) # Failed
    BY <2>4, <2>5, <2>6, <1>1
  <2>7. QED
    BY <2>1, <2>2, <2>3, <2>6 DEF ReferenceTexts
<1>9. QED
  BY <1>4, <1>6, <1>7, <1>8, Zenon DEF LoadTypeIndex, LoadedIndex, file

(* All that the finished TypeScript index lists.                           *)
LEMMA TsListsReadable ==
  ASSUME Inv, Ts!Done, PlainPaths
  PROVE  /\ \A name \in DOMAIN resDictionary : CrossFile(resDictionary[name])
         /\ \A group \in DOMAIN funcDictionary : CrossFileSeq(funcDictionary[group])
         /\ CrossFileSeq(namespaceFunctions)
<1>1. tsFiles \in Orders(typeFiles) /\ typeFiles \in Seq(TypeFile)
  BY TsDoneFacts
<1>2. \A p \in Places(tsFiles) : CrossFile(EntryAt(tsFiles, p).ref)
  BY <1>1, PlaceIsReadable
<1>3. \A name \in DOMAIN resDictionary : CrossFile(resDictionary[name])
  BY <1>2 DEF Inv, TsInv, TsResources, TsListed, Listed
<1>4. ASSUME NEW refs \in Seq(Reference), NEW P, P \subseteq Places(tsFiles), Lists(refs, tsFiles, P)
      PROVE  CrossFileSeq(refs)
  <2>1. \A i \in 1..Len(refs) : CrossFile(refs[i])
    BY <1>2, <1>4 DEF Lists
  <2>2. QED
    BY <2>1 DEF CrossFileSeq, ReadableSeq, CrossFile
<1>5. \A group \in DOMAIN funcDictionary : CrossFileSeq(funcDictionary[group])
  <2>1. \A group : TsGroupPlaces(group) \subseteq Places(tsFiles)
    BY DEF TsGroupPlaces, Listed
  <2>2. QED
    BY <1>4, <2>1 DEF Inv, TsInv, TsFunctions
<1>6. CrossFileSeq(namespaceFunctions)
  <2>1. Listed(tsFiles, "NamespaceFunctionType", tsAt) \subseteq Places(tsFiles)
    BY DEF Listed
  <2>2. QED
    BY <1>4, <2>1 DEF Inv, TsInv, TsNamespace
<1>7. QED
  BY <1>3, <1>5, <1>6

(* The references TypeScript writes are to files, or none.                 *)
LEMMA TsFileWritten ==
  ASSUME Inv, Go!Done, PlainPaths,
         NEW fallback, fallback = (IF "relativePath" \in DOMAIN idx.FallbackResource
                                   THEN idx.FallbackResource ELSE None),
         NEW configuration, configuration = (IF "relativePath" \in DOMAIN idx.ConfigurationType
                                             THEN idx.ConfigurationType ELSE None)
  PROVE  /\ TsFile = Written(resDictionary, funcDictionary, namespaceFunctions,
                             fallback, configuration)
         /\ fallback = None \/ Readable(fallback)
         /\ configuration = None \/ Readable(configuration)
<1>1. "relativePath" \notin DOMAIN None
  BY DEF None
<1>2. /\ CrossFileText(idx.FallbackResource) = OptionalText(fallback)
      /\ CrossFileText(idx.ConfigurationType) = OptionalText(configuration)
  BY <1>1, Zenon DEF CrossFileText, OptionalText
<1>3. TsFile = Written(resDictionary, funcDictionary, namespaceFunctions, fallback, configuration)
  BY <1>2, Zenon DEF TsFile, Written
<1>4. \A r \in {idx.FallbackResource, idx.ConfigurationType} : r = None \/ Readable(r)
  BY GoListsReadable DEF Inv
<1>5. QED
  BY <1>1, <1>3, <1>4

-----------------------------------------------------------------------------
(* C# loads by a reference to a place the type that is there.              *)
LEMMA KindIsLoaded ==
  ASSUME NEW ref, NEW t \in Type, LoadType(typeFiles, ref) = t, NEW kind
  PROVE  LoadOfKind(typeFiles, ref, kind) = IF t.kind = kind THEN t ELSE Failed
<1>1. t # Failed
  BY TypesAreNotFailed
<1>2. QED
  BY <1>1, Zenon DEF LoadOfKind

(* What an index has to list for C# to find what it names.                 *)
LEMMA LoadsWhatIsNamed ==
  ASSUME NEW files \in Orders(typeFiles), typeFiles \in Seq(TypeFile), OneFilePerPath,
         NEW resources, NEW functions, NEW namespace,
         \A name \in DOMAIN resources : \E p \in Places(files) :
           /\ resources[name] = EntryAt(files, p).ref
           /\ TypeAt(files, p).kind = "ResourceType" /\ TypeAt(files, p).name = name,
         \A key \in DOMAIN functions : \A ref \in ToSet(functions[key]) : \E p \in Places(files) :
           /\ ref = EntryAt(files, p).ref
           /\ TypeAt(files, p).kind = "ResourceFunctionType"
           /\ LowerName(TypeAt(files, p).resourceType) = LowerName(key[1])
           /\ LowerName(TypeAt(files, p).apiVersion) = LowerName(key[2]),
         \A ref \in ToSet(namespace) : \E p \in Places(files) :
           /\ ref = EntryAt(files, p).ref
           /\ TypeAt(files, p).kind = "NamespaceFunctionType"
  PROVE  NamesWhatItLoads(typeFiles, LoadedIndex(resources, functions, namespace))
<1> DEFINE index == LoadedIndex(resources, functions, namespace)
<1>1. /\ index.Resources = resources /\ index.ResourceFunctions = functions
      /\ index.NamespaceFunctions = namespace
  BY DEF LoadedIndex
<1>2. ASSUME NEW p \in Places(files), NEW kind
      PROVE  /\ LoadOfKind(typeFiles, EntryAt(files, p).ref, kind) =
                  IF TypeAt(files, p).kind = kind THEN TypeAt(files, p) ELSE Failed
             /\ TypeAt(files, p) # Failed
  <2>1. files \in Seq(TypeFile)
    BY OrderFacts
  <2>2. TypeAt(files, p) \in Type
    BY <2>1, PlacesArePairs
  <2>3. LoadType(typeFiles, EntryAt(files, p).ref) = TypeAt(files, p)
    BY PlaceIsLoaded
  <2>4. QED
    BY <2>2, <2>3, KindIsLoaded, TypesAreNotFailed
<1> HIDE DEF index
<1>3. ASSUME NEW name \in DOMAIN resources
      PROVE  LET type == LoadResourceType(typeFiles, index.Resources[name])
             IN  type # Failed /\ type.name = name
  BY <1>1, <1>2 DEF LoadResourceType
<1>4. ASSUME NEW key \in DOMAIN functions, NEW ref \in ToSet(functions[key])
      PROVE  LET type == LoadResourceFunctionType(typeFiles, ref)
             IN  /\ type # Failed
                 /\ LowerName(type.resourceType) = LowerName(key[1])
                 /\ LowerName(type.apiVersion) = LowerName(key[2])
  BY <1>2 DEF LoadResourceFunctionType
<1>5. ASSUME NEW ref \in ToSet(namespace)
      PROVE  LoadNamespaceFunctionType(typeFiles, ref) # Failed
  BY <1>2 DEF LoadNamespaceFunctionType
<1>6. QED
  BY <1>1, <1>3, <1>4, <1>5, Zenon DEF NamesWhatItLoads, index

(* A lower-case name is its own lower-case form.                           *)
LEMMA LowerTwice ==
  ASSUME NEW n \in Name
  PROVE  LowerName(LowerName(n)) = LowerName(n)
<1>1. n \in [1..Len(n) -> Char] /\ Len(n) \in Nat
  BY DEF Name
<1>2. \A i \in 1..Len(n) : n[i] \in Token => Lower[n[i]] \in Token /\ Lower[Lower[n[i]]] = Lower[n[i]]
  BY LowerAssumption
<1>3. QED
  BY <1>1, <1>2 DEF LowerName

(* An index that was loaded is no failure.                                 *)
LEMMA LoadedIsIndex ==
  ASSUME NEW resources, NEW functions, NEW namespace
  PROVE  LoadedIndex(resources, functions, namespace) # Failed
<1>1. "Resources" \in DOMAIN LoadedIndex(resources, functions, namespace)
      /\ DOMAIN Failed = {"failed"}
  BY DEF LoadedIndex, Failed
<1>2. QED
  BY <1>1

(* References listed from places are those of the types there.             *)
LEMMA ListedFromPlaces ==
  ASSUME NEW refs \in Seq(Reference), NEW files, NEW P, Lists(refs, files, P)
  PROVE  \A ref \in ToSet(refs) : \E p \in P : ref = EntryAt(files, p).ref
<1>1. \A ref \in ToSet(refs) : \E i \in 1..Len(refs) : ref = refs[i]
  BY DEF ToSet
<1>2. QED
  BY <1>1 DEF Lists

(* C# loads every type of any text that Go may write for its index.        *)
LEMMA CsLoadsGoIndex ==
  ASSUME Inv, Go!Done, PlainPaths, OneFilePerPath, NEW file \in MarshalJSON(idx)
  PROVE  CsLoads(file)
<1>1. /\ GoInv /\ goFiles \in Orders(typeFiles) /\ typeFiles \in Seq(TypeFile)
      /\ goFiles \in Seq(TypeFile)
  BY GoListsReadable, GoDoneFacts DEF Inv
<1>2. PICK flat \in Flattened(idx.Resources) :
        file = Written(flat, idx.ResourceFunctions, idx.NamespaceFunctions,
                       idx.FallbackResource, idx.ConfigurationType)
  BY Zenon DEF MarshalJSON, Written
<1>3. /\ IsMap(flat)
      /\ \A name \in DOMAIN flat : \E key \in DOMAIN idx.Resources :
           FlatKey(key) = name /\ idx.Resources[key] = flat[name]
  BY DEF Flattened, IsMap
<1>4. \A name \in DOMAIN flat : CrossFile(flat[name])
  BY <1>1, <1>3, GoListsReadable
<1>5. CsReads(flat, idx.ResourceFunctions, idx.NamespaceFunctions,
              idx.FallbackResource, idx.ConfigurationType)
  BY <1>1, <1>3, <1>4, GoListsReadable DEF CsReads, GoInv, GoTypeOK
<1>6. LoadTypeIndex(file) = LoadedIndex(flat, idx.ResourceFunctions, idx.NamespaceFunctions)
  BY <1>2, <1>5, CsReadBack, Zenon
<1>7. ASSUME NEW name \in DOMAIN flat
      PROVE  \E p \in Places(goFiles) :
               /\ flat[name] = EntryAt(goFiles, p).ref
               /\ TypeAt(goFiles, p).kind = "ResourceType" /\ TypeAt(goFiles, p).name = name
  <2>1. PICK key \in DOMAIN idx.Resources : FlatKey(key) = name /\ idx.Resources[key] = flat[name]
    BY <1>3
  <2>2. PICK p \in GoListed : key = GoResourceKey(p)
    BY <1>1 DEF GoInv, GoResources
  <2>3. idx.Resources[key] = EntryAt(goFiles, p).ref
    BY <1>1, <2>2 DEF GoInv, GoResources
  <2>4. /\ p \in Places(goFiles) /\ TypeAt(goFiles, p).kind = "ResourceType"
        /\ Go!Splits(TypeAt(goFiles, p).name)
    BY DEF GoListed, Listed
  <2>5. TypeAt(goFiles, p).name \in Name
    BY <1>1, <2>4, ResourceNames
  <2>6. FlatKey(key) = TypeAt(goFiles, p).name
    BY <2>2, <2>4, <2>5, SplitFacts DEF GoResourceKey
  <2>7. QED
    BY <2>1, <2>3, <2>4, <2>6
<1>8. ASSUME NEW key \in DOMAIN idx.ResourceFunctions, NEW ref \in ToSet(idx.ResourceFunctions[key])
      PROVE  \E p \in Places(goFiles) :
               /\ ref = EntryAt(goFiles, p).ref
               /\ TypeAt(goFiles, p).kind = "ResourceFunctionType"
               /\ LowerName(TypeAt(goFiles, p).resourceType) = LowerName(key[1])
               /\ LowerName(TypeAt(goFiles, p).apiVersion) = LowerName(key[2])
  <2>1. /\ idx.ResourceFunctions[key] \in Seq(Reference)
        /\ Lists(idx.ResourceFunctions[key], goFiles, GoGroupPlaces(key))
    BY <1>1 DEF GoInv, GoFunctions
  <2>2. PICK p \in GoGroupPlaces(key) : ref = EntryAt(goFiles, p).ref
    BY <2>1, ListedFromPlaces
  <2>3. /\ p \in Places(goFiles) /\ TypeAt(goFiles, p).kind = "ResourceFunctionType"
        /\ key = <<TypeAt(goFiles, p).resourceType, TypeAt(goFiles, p).apiVersion>>
    BY DEF GoGroupPlaces, Listed, GoGroup, Go!FunctionGroup
  <2>4. QED
    BY <2>2, <2>3
<1>9. ASSUME NEW ref \in ToSet(idx.NamespaceFunctions)
      PROVE  \E p \in Places(goFiles) : /\ ref = EntryAt(goFiles, p).ref
                                        /\ TypeAt(goFiles, p).kind = "NamespaceFunctionType"
  BY <1>1, ListedFromPlaces DEF GoInv, GoNamespace, GoNamespacePlaces
<1>10. NamesWhatItLoads(typeFiles,
                        LoadedIndex(flat, idx.ResourceFunctions, idx.NamespaceFunctions))
  BY <1>1, <1>7, <1>8, <1>9, LoadsWhatIsNamed
<1>11. QED
  BY <1>6, <1>10, LoadedIsIndex DEF CsLoads

(* C# loads every type of the text that TypeScript writes for its index.   *)
LEMMA CsLoadsTsIndex ==
  ASSUME Inv, Go!Done, Ts!Done, PlainPaths, OneFilePerPath
  PROVE  CsLoads(TsFile)
<1>1. /\ tsFiles \in Orders(typeFiles) /\ typeFiles \in Seq(TypeFile)
      /\ tsFiles \in Seq(TypeFile)
  BY TsDoneFacts
<1> DEFINE fallback == IF "relativePath" \in DOMAIN idx.FallbackResource
                       THEN idx.FallbackResource ELSE None
           configuration == IF "relativePath" \in DOMAIN idx.ConfigurationType
                            THEN idx.ConfigurationType ELSE None
<1>2. /\ TsFile = Written(resDictionary, funcDictionary, namespaceFunctions,
                          fallback, configuration)
      /\ fallback = None \/ Readable(fallback)
      /\ configuration = None \/ Readable(configuration)
  BY TsFileWritten, Zenon
<1> HIDE DEF fallback, configuration
<1>3. CsReads(resDictionary, funcDictionary, namespaceFunctions, fallback, configuration)
  BY <1>2, TsListsReadable DEF CsReads, Inv, TsInv, TsTypeOK
<1>4. LoadTypeIndex(TsFile) = LoadedIndex(resDictionary, funcDictionary, namespaceFunctions)
  BY <1>2, <1>3, CsReadBack, Zenon
<1>5. ASSUME NEW name \in DOMAIN resDictionary
      PROVE  \E p \in Places(tsFiles) :
               /\ resDictionary[name] = EntryAt(tsFiles, p).ref
               /\ TypeAt(tsFiles, p).kind = "ResourceType" /\ TypeAt(tsFiles, p).name = name
  BY DEF Inv, TsInv, TsResources, TsListed, Listed
<1>6. ASSUME NEW key \in DOMAIN funcDictionary, NEW ref \in ToSet(funcDictionary[key])
      PROVE  \E p \in Places(tsFiles) :
               /\ ref = EntryAt(tsFiles, p).ref
               /\ TypeAt(tsFiles, p).kind = "ResourceFunctionType"
               /\ LowerName(TypeAt(tsFiles, p).resourceType) = LowerName(key[1])
               /\ LowerName(TypeAt(tsFiles, p).apiVersion) = LowerName(key[2])
  <2>1. /\ funcDictionary[key] \in Seq(Reference)
        /\ Lists(funcDictionary[key], tsFiles, TsGroupPlaces(key))
    BY DEF Inv, TsInv, TsFunctions
  <2>2. PICK p \in TsGroupPlaces(key) : ref = EntryAt(tsFiles, p).ref
    BY <2>1, ListedFromPlaces
  <2>3. /\ p \in Places(tsFiles) /\ TypeAt(tsFiles, p).kind = "ResourceFunctionType"
        /\ key = <<LowerName(TypeAt(tsFiles, p).resourceType),
                   LowerName(TypeAt(tsFiles, p).apiVersion)>>
    BY DEF TsGroupPlaces, Listed, TsGroup, Ts!FunctionGroup, Ts!LowerName, LowerName
  <2>4. TypeAt(tsFiles, p) \in Type
    BY <1>1, <2>3, PlacesArePairs
  <2>5. TypeAt(tsFiles, p).resourceType \in Name /\ TypeAt(tsFiles, p).apiVersion \in Name
    BY <2>3, <2>4 DEF Type, OtherType
  <2>6. QED
    BY <2>2, <2>3, <2>5, LowerTwice
<1>7. ASSUME NEW ref \in ToSet(namespaceFunctions)
      PROVE  \E p \in Places(tsFiles) : /\ ref = EntryAt(tsFiles, p).ref
                                        /\ TypeAt(tsFiles, p).kind = "NamespaceFunctionType"
  BY ListedFromPlaces DEF Inv, TsInv, TsNamespace, Listed
<1>8. NamesWhatItLoads(typeFiles, LoadedIndex(resDictionary, funcDictionary, namespaceFunctions))
  BY <1>1, <1>5, <1>6, <1>7, LoadsWhatIsNamed
<1>9. QED
  BY <1>4, <1>8, LoadedIsIndex DEF CsLoads

(* The names of the TypeScript index are names.                            *)
LEMMA TsNames ==
  ASSUME Inv, Ts!Done
  PROVE  \A name \in DOMAIN resDictionary : name \in Name
<1>1. tsFiles \in Seq(TypeFile)
  BY TsDoneFacts
<1>2. \A p \in TsListed : TypeAt(tsFiles, p).name \in Name
  BY <1>1, ResourceNames DEF TsListed, Listed
<1>3. QED
  BY <1>2 DEF Inv, TsInv, TsResources

(* What C# finds behind the index of either builder.                       *)
LEMMA CsLoadsBoth ==
  ASSUME Inv
  PROVE  CsLoadsIndexes
BY CsLoadsGoIndex, CsLoadsTsIndex DEF CsLoadsIndexes

-----------------------------------------------------------------------------
(* What Go reads of the TypeScript index.                                  *)
LEMMA TsIndexRead ==
  ASSUME Inv, Go!Done, Ts!Done, PlainPaths,
         \A name \in DOMAIN resDictionary : Parts(name) # Failed
  PROVE  \E fallback, configuration :
           /\ UnmarshalJSON(TsFile) =
                ReadIndex(resDictionary, funcDictionary, namespaceFunctions,
                          fallback, configuration)
           /\ OptionalText(fallback) = TsFile.fallbackResourceType
           /\ OptionalText(configuration) = TsFile.configurationType
<1> DEFINE fallback == IF "relativePath" \in DOMAIN idx.FallbackResource
                       THEN idx.FallbackResource ELSE None
           configuration == IF "relativePath" \in DOMAIN idx.ConfigurationType
                            THEN idx.ConfigurationType ELSE None
<1>1. /\ TsFile = Written(resDictionary, funcDictionary, namespaceFunctions,
                          fallback, configuration)
      /\ fallback = None \/ Readable(fallback)
      /\ configuration = None \/ Readable(configuration)
  BY TsFileWritten, Zenon
<1> HIDE DEF fallback, configuration
<1>2. \A name \in DOMAIN resDictionary : FlatKey(Parts(name)) = name
  BY TsNames, FlatKeyOfParts
<1>3. GoReads(resDictionary, funcDictionary, namespaceFunctions, fallback, configuration)
  BY <1>1, <1>2, TsListsReadable DEF GoReads, CrossFile, CrossFileSeq, Inv, TsInv, TsTypeOK
<1>4. UnmarshalJSON(TsFile) =
        ReadIndex(resDictionary, funcDictionary, namespaceFunctions, fallback, configuration)
  BY <1>1, <1>3, ReadBack, Zenon
<1>5. /\ OptionalText(fallback) = TsFile.fallbackResourceType
      /\ OptionalText(configuration) = TsFile.configurationType
  BY <1>1 DEF Written
<1>6. QED
  BY <1>4, <1>5

(* The invariant implies that Go reads every index TypeScript writes       *)
(* whose names all have a version.                                         *)
LEMMA GoReadsTs ==
  ASSUME Inv
  PROVE  GoReadsTsIndex
<1> SUFFICES ASSUME BothDone, PlainPaths, \A name \in DOMAIN resDictionary : Parts(name) # Failed
             PROVE  LET read == UnmarshalJSON(TsFile)
                    IN  /\ read # Failed
                        /\ \A name \in DOMAIN resDictionary :
                             GetResource(read, Parts(name)) = resDictionary[name]
                        /\ \A key \in DOMAIN funcDictionary :
                             GetResourceFunctions(read, key) = funcDictionary[key]
                        /\ read.NamespaceFunctions = namespaceFunctions
                        /\ OptionalText(read.FallbackResource) = TsFile.fallbackResourceType
                        /\ OptionalText(read.ConfigurationType) = TsFile.configurationType
  BY Zenon DEF GoReadsTsIndex
<1> DEFINE read == UnmarshalJSON(TsFile)
<1>1. PICK fallback, configuration :
        /\ read = ReadIndex(resDictionary, funcDictionary, namespaceFunctions,
                            fallback, configuration)
        /\ OptionalText(fallback) = TsFile.fallbackResourceType
        /\ OptionalText(configuration) = TsFile.configurationType
  BY TsIndexRead DEF BothDone
<1> HIDE DEF read
<1> DEFINE keys == {Parts(name) : name \in DOMAIN resDictionary}
<1>2. /\ "Resources" \in DOMAIN read
      /\ read.Resources = [key \in keys |-> resDictionary[FlatKey(key)]]
      /\ read.ResourceFunctions = funcDictionary
      /\ read.NamespaceFunctions = namespaceFunctions
      /\ read.FallbackResource = fallback /\ read.ConfigurationType = configuration
  BY <1>1 DEF ReadIndex
<1>3. read # Failed
  <2>1. DOMAIN Failed = {"failed"}
    BY DEF Failed
  <2>2. QED
    BY <1>2, <2>1
<1>4. ASSUME NEW name \in DOMAIN resDictionary
      PROVE  GetResource(read, Parts(name)) = resDictionary[name]
  <2>1. FlatKey(Parts(name)) = name
    BY TsNames, FlatKeyOfParts DEF BothDone
  <2>2. Parts(name) \in keys
    OBVIOUS
  <2> HIDE DEF keys
  <2>3. QED
    BY <1>2, <2>1, <2>2 DEF GetResource
<1>5. \A key \in DOMAIN funcDictionary : GetResourceFunctions(read, key) = funcDictionary[key]
  BY <1>2 DEF GetResourceFunctions
<1>6. QED
  BY <1>1, <1>2, <1>3, <1>4, <1>5 DEF read

-----------------------------------------------------------------------------
(* Go and TypeScript cut the same version off a name with one At.          *)
LEMMA SameVersion ==
  ASSUME NEW name \in Name, Parts(name) # Failed
  PROVE  GoVersion(name) = TsVersion(name)
<1>1. PICK m \in 1..Len(name) : AtPlaces(name) = {m}
  <2> DEFINE at == {i \in DOMAIN name : name[i] = At}
  <2>1. Cardinality(at) = 1 /\ AtPlaces(name) = at
    BY Zenon DEF Parts, AtPlaces
  <2>2. at \subseteq 1..Len(name) /\ 1 \in Int /\ Len(name) \in Int
    BY DEF Name
  <2>3. IsFiniteSet(at)
    <3>1. IsFiniteSet(1..Len(name))
      BY <2>2, FS_Interval, Zenon
    <3>2. QED
      BY <2>2, <3>1, FS_Subset, Zenon
  <2> HIDE DEF at
  <2>4. \E m \in at : at = {m}
    BY <2>1, <2>3, FS_Singleton
  <2>5. QED
    BY <2>1, <2>2, <2>4
<1>2. FirstAt(name) = m
  <2>1. m \in AtPlaces(name) /\ \A j \in AtPlaces(name) : m <= j
    BY <1>1
  <2>2. (CHOOSE i \in AtPlaces(name) : \A j \in AtPlaces(name) : i <= j) = m
    BY <1>1, <2>1
  <2>3. QED
    BY <2>1, <2>2, Zenon DEF FirstAt
<1> DEFINE rest == SubSeq(name, m + 1, Len(name))
<1>3. Len(name) \in Nat /\ name \in Seq(Char) /\ m \in Nat /\ 1 <= m /\ m <= Len(name)
  BY DEF Name
<1>4. /\ rest \in Seq(Char) /\ Len(rest) = Len(name) - m
      /\ \A i \in 1..(Len(name) - m) : rest[i] = name[i + m]
  BY <1>3
<1> HIDE DEF rest
<1>5. AtPlaces(rest) = {}
  <2>1. \A i \in DOMAIN rest : i \in 1..(Len(name) - m)
    BY <1>3, <1>4
  <2>2. ASSUME NEW i \in 1..(Len(name) - m)
        PROVE  rest[i] # At
    <3>1. i + m \in 1..Len(name) /\ i + m # m
      BY <1>3
    <3>2. i + m \in DOMAIN name /\ i + m \notin AtPlaces(name)
      BY <1>1, <1>3, <3>1
    <3>3. QED
      BY <1>4, <3>2 DEF AtPlaces
  <2>3. QED
    BY <2>1, <2>2 DEF AtPlaces
<1>6. FirstAt(rest) = Len(rest) + 1
  BY <1>5 DEF FirstAt
<1>7. SubSeq(rest, 1, Len(rest)) = rest
  BY <1>4
<1>8. GoVersion(name) = rest
  BY <1>2 DEF GoVersion, rest
<1>9. TsVersion(name) = SubSeq(rest, 1, FirstAt(rest) - 1)
  BY <1>1, <1>2, Zenon DEF TsVersion, rest
<1>10. FirstAt(rest) - 1 = Len(rest)
  BY <1>4, <1>6
<1>11. QED
  BY <1>7, <1>8, <1>9, <1>10

(* The invariant implies that the index pages of the two languages are     *)
(* the same.                                                               *)
LEMMA SamePages ==
  ASSUME Inv
  PROVE  IndexPagesAgree
<1> DEFINE read == UnmarshalJSON(TsFile)
<1> SUFFICES ASSUME BothDone, PlainPaths, DOMAIN resDictionary # {}, read # Failed
             PROVE  GoIndexPage(read, typeFiles) =
                      TsIndexPage(resDictionary, namespaceFunctions, typeFiles)
  BY Zenon DEF IndexPagesAgree
<1>1. \A name \in DOMAIN resDictionary : Parts(name) # Failed
  <2>1. Failed \notin {Parts(name) : name \in DOMAIN TsFile.resources}
    BY Zenon DEF UnmarshalJSON
  <2>2. DOMAIN TsFile.resources = DOMAIN resDictionary
    BY DEF TsFile, MapSeq
  <2>3. QED
    BY <2>1, <2>2
<1>2. PICK fallback, configuration :
        read = ReadIndex(resDictionary, funcDictionary, namespaceFunctions,
                         fallback, configuration)
  BY <1>1, TsIndexRead DEF BothDone
<1> HIDE DEF read
<1> DEFINE keys == {Parts(name) : name \in DOMAIN resDictionary}
<1>3. /\ read.Resources = [key \in keys |-> resDictionary[FlatKey(key)]]
      /\ read.NamespaceFunctions = namespaceFunctions
  BY <1>2 DEF ReadIndex
<1>4. \A name \in DOMAIN resDictionary : /\ FlatKey(Parts(name)) = name
                                         /\ GoVersion(name) = TsVersion(name)
  BY <1>1, TsNames, FlatKeyOfParts, SameVersion DEF BothDone
<1>5. keys # {} /\ DOMAIN read.Resources = keys
  BY <1>3
<1>6. {FlatKey(key) : key \in keys} = DOMAIN resDictionary
  BY <1>4
<1>7. [name \in DOMAIN resDictionary |-> read.Resources[Parts(name)]] = resDictionary
  <2>1. \A name \in DOMAIN resDictionary : read.Resources[Parts(name)] = resDictionary[name]
    BY <1>3, <1>4
  <2>2. QED
    BY <2>1 DEF Inv, TsInv, TsTypeOK, IsMap
<1>8. [name \in DOMAIN resDictionary |-> GoVersion(name)] =
      [name \in DOMAIN resDictionary |-> TsVersion(name)]
  BY <1>4
<1> HIDE DEF keys
<1>9. QED
  BY <1>3, <1>5, <1>6, <1>7, <1>8, Zenon DEF GoIndexPage, TsIndexPage

-----------------------------------------------------------------------------
(***************************************************************************)
(* When BuildIndex (index.go:87) is done, idx.Resources has one entry for  *)
(* each lower-case resource name with a version, the reference of the      *)
(* first resource of that name in the order of the sorted files.           *)
(***************************************************************************)
THEOREM GoListsFirstResources == Spec => []ResourcesIndexed
<1>1. Inv => ResourcesIndexed
  BY GoResourcesDone DEF Inv
<1>2. QED
  BY <1>1, Invariance, PTL

(***************************************************************************)
(* BuildIndex lists the first resource function of each lower-case key     *)
(* under its resource type and version as spelled, in file order.          *)
(***************************************************************************)
THEOREM GoListsResourceFunctions == Spec => []ResourceFunctionsIndexed
<1>1. Inv => ResourceFunctionsIndexed
  BY GoFunctionsDone DEF Inv
<1>2. QED
  BY <1>1, Invariance, PTL

(***************************************************************************)
(* However sort.Slice arranges files of equal path, every resource name    *)
(* with a version is listed, and under one key only.                       *)
(***************************************************************************)
THEOREM GoListsEachResourceOnce == Spec => []EachResourceOnce
<1>1. Inv => EachResourceOnce
  BY GoEachResourceDone DEF Inv
<1>2. QED
  BY <1>1, Invariance, PTL

(***************************************************************************)
(* buildIndex (indexer.ts:6) lists the first resource and the first        *)
(* namespace function of each lower-case name.                             *)
(***************************************************************************)
THEOREM TsListsFirstNames == Spec => []FirstNamesIndexed
<1>1. Inv => FirstNamesIndexed
  BY TsNamesDone
<1>2. QED
  BY <1>1, Invariance, PTL

(***************************************************************************)
(* Under a lower-case resource type and version buildIndex lists the first *)
(* function of each key, each once and in file order.                      *)
(***************************************************************************)
THEOREM TsGroupsAreComplete == Spec => []FunctionGroupsComplete
<1>1. Inv => FunctionGroupsComplete
  BY TsFunctionsDone
<1>2. QED
  BY <1>1, Invariance, PTL

(***************************************************************************)
(* Both builders list the same resources with a version, with the same     *)
(* references, for any files with distinct paths.                          *)
(***************************************************************************)
THEOREM ResourcesAreTheSame == Spec => []ResourcesAgree
<1>1. Inv => ResourcesAgree
  BY SameResources
<1>2. QED
  BY <1>1, Invariance, PTL

(***************************************************************************)
(* The Go groups of resource functions whose keys differ only in case make *)
(* up one TypeScript group, in the same order.                             *)
(***************************************************************************)
THEOREM FunctionsAreTheSame == Spec => []FunctionsAgree
<1>1. Inv => FunctionsAgree
  BY SameFunctions
<1>2. QED
  BY <1>1, Invariance, PTL

(***************************************************************************)
(* An index whose resource types have no At and whose paths are plain is   *)
(* read back from each index.json that MarshalJSON (index.go:224) may      *)
(* write of it as it was.                                                  *)
(***************************************************************************)
THEOREM PlainIndexComesBack == Spec => []PlainIndexRoundTrips
<1>1. Inv => PlainIndexRoundTrips
  BY GoRoundTrip
<1>2. QED
  BY <1>1, Invariance, PTL

(***************************************************************************)
(* UnmarshalJSON (index.go:255) reads the index.json of a TypeScript       *)
(* index whose names have one At and whose paths are plain, and the        *)
(* lookups find in it all that TypeScript listed.                          *)
(***************************************************************************)
THEOREM GoReadsWhatTsWrites == Spec => []GoReadsTsIndex
<1>1. Inv => GoReadsTsIndex
  BY GoReadsTs
<1>2. QED
  BY <1>1, Invariance, PTL

(***************************************************************************)
(* TypeLoader.cs loads behind every reference of either index the type     *)
(* that the index names, when the paths are plain and no two files share   *)
(* one.                                                                    *)
(***************************************************************************)
THEOREM CsLoadsWhatIsIndexed == Spec => []CsLoadsIndexes
<1>1. Inv => CsLoadsIndexes
  BY CsLoadsBoth
<1>2. QED
  BY <1>1, Invariance, PTL

(***************************************************************************)
(* Both Markdown writers make the same page of an index that TypeScript    *)
(* wrote and Go has read, unless it has no resource.                       *)
(***************************************************************************)
THEOREM PagesOfAnIndexAgree == Spec => []IndexPagesAgree
<1>1. Inv => IndexPagesAgree
  BY SamePages
<1>2. QED
  BY <1>1, Invariance, PTL
==============================================================================
