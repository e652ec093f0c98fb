------------------------- MODULE CsTypeFactoryProofs -------------------------
(***************************************************************************)
(* Proofs about CsTypeFactory, for any classes, texts and bounds.          *)
(*                                                                         *)
(* The round trips hold because of what stays true between a write and a   *)
(* read: objects are immutable and factories only grow, so an array that   *)
(* was written would still be written as the same text (WritesStay); and   *)
(* the factory Deserialize made is never handed out, so its types are      *)
(* still the ones that were read, each referring to places of this very    *)
(* factory (ReadsStay).                                                    *)
(***************************************************************************)
EXTENDS CsTypeFactory, SequenceTheorems, WellFoundedInduction, TLAPS

Reference == [factory : Nat, index : Int]

Object == [kind : Kind, refs : Seq(Reference)]

Factory ==
  [types : Seq(1..MaxObjects),
   typeLookup : UNION {[S -> Nat] : S \in SUBSET (1..MaxObjects)}]

(* A text without malformed references and null entries.                   *)
Text == Seq([kind : Kind, refs : Seq(Int)])

TypeOK ==
  /\ heap \in Seq(Object) /\ Len(heap) <= MaxObjects
  /\ factories \in Seq(Factory)
  /\ writes \subseteq [objects : Seq(1..MaxObjects), text : Text]
  /\ reads \subseteq [text : Text, factory : Nat]

(* Nothing refers to an object or a factory that does not exist.           *)
Closed ==
  /\ \A f \in 1..Len(factories) : factories[f].types \in Seq(1..Len(heap))
  /\ \A o \in 1..Len(heap) : \A k \in 1..Len(heap[o].refs) :
       heap[o].refs[k].factory \in 1..Len(factories)
  /\ \A w \in writes : w.objects \in Seq(1..Len(heap))
  /\ \A r \in reads : r.factory \in 1..Len(factories)

WritesStay == \A w \in writes : Writable(w.objects) /\ w.text = TextOf(w.objects)

(* What Deserialize makes of an entry of a text.                           *)
ReadObject(entry, f) ==
  [kind |-> entry.kind,
   refs |-> [k \in 1..Len(entry.refs) |-> TypeReference(f, entry.refs[k])]]

ReadsStay ==
  \A r \in reads :
    LET types == factories[r.factory].types
    IN  /\ Len(types) = Len(r.text)
        /\ \A i \in 1..Len(r.text) : heap[types[i]] = ReadObject(r.text[i], r.factory)

Inv == TypeOK /\ Closed /\ LookupInverse /\ WritesStay /\ ReadsStay

-----------------------------------------------------------------------------
(* Sequences of objects and the factories made of them.                    *)

(* A natural number with some property gives a least one.                  *)
LEMMA LeastNat ==
  ASSUME NEW T, T \subseteq Nat, T # {}
  PROVE  \E n \in T : \A m \in T : n <= m
<1>1. PICK n \in T : \A m \in T : <<m, n>> \notin OpToRel(<, Nat)
  BY WFMin, NatLessThanWellFounded, Zenon
<1>2. \A m \in T : ~(m < n)
  BY <1>1, Zenon DEF OpToRel
<1>3. QED
  BY <1>2

(* A function on 1..n is a sequence.                                       *)
LEMMA FunctionIsSeq ==
  ASSUME NEW S, NEW n \in Nat, NEW s \in [1..n -> S]
  PROVE  s \in Seq(S) /\ Len(s) = n
OBVIOUS

(* In a sequence without duplicates Position finds the one place.          *)
LEMMA PositionUnique ==
  ASSUME NEW S, NEW s \in Seq(S), Distinct(s), NEW i \in 1..Len(s)
  PROVE  Position(s, s[i]) = i
BY DEF Position, Distinct

(* The position of an element of a sequence points at that element.        *)
LEMMA PositionInRange ==
  ASSUME NEW S, NEW s \in Seq(S), NEW o \in Ran(s)
  PROVE  Position(s, o) \in 1..Len(s) /\ s[Position(s, o)] = o
BY DEF Position, Ran

(* A factory is well-formed whatever objects it is made of.                *)
LEMMA FactoryOfType ==
  ASSUME NEW s \in Seq(1..MaxObjects)
  PROVE  /\ FactoryOf(s) \in Factory
         /\ FactoryOf(s).types = s
         /\ DOMAIN FactoryOf(s).typeLookup = Ran(s)
<1>1. Ran(s) \subseteq 1..MaxObjects
  BY ElementOfSeq DEF Ran
<1>2. [o \in Ran(s) |-> Position(s, o) - 1] \in [Ran(s) -> Nat]
  BY PositionInRange
<1>3. FactoryOf(s).typeLookup \in UNION {[S -> Nat] : S \in SUBSET (1..MaxObjects)}
  BY <1>1, <1>2 DEF FactoryOf
<1>4. QED
  BY <1>3 DEF FactoryOf, Factory

(* Adding a type that typeLookup does not hold makes the factory of the    *)
(* longer sequence: the entries already there keep their index.            *)
LEMMA AddTypeIsFactoryOf ==
  ASSUME NEW S, NEW s \in Seq(S), Distinct(s), NEW o \in S, o \notin Ran(s)
  PROVE  /\ AddType(FactoryOf(s), o) = FactoryOf(Append(s, o))
         /\ Distinct(Append(s, o))
         /\ Append(s, o) \in Seq(S)
<1> DEFINE t == Append(s, o)
<1>1. /\ t \in Seq(S) /\ Len(t) = Len(s) + 1 /\ t[Len(s) + 1] = o
      /\ \A i \in 1..Len(s) : t[i] = s[i] /\ t[i] # o
      /\ Len(s) \in Nat
  BY DEF Ran
<1>2. Distinct(t)
  BY <1>1 DEF Distinct
<1>3. Ran(t) = Ran(s) \cup {o}
  <2>1. Ran(t) \subseteq Ran(s) \cup {o}
    BY <1>1 DEF Ran
  <2>2. Ran(s) \subseteq Ran(t)
    BY <1>1 DEF Ran
  <2>3. o \in Ran(t)
    BY <1>1 DEF Ran
  <2>4. QED
    BY <2>1, <2>2, <2>3
<1>4. Position(t, o) - 1 = Len(s)
  <2>1. Len(s) + 1 \in 1..Len(t) /\ t \in Seq(S) /\ Distinct(t)
    BY <1>1, <1>2
  <2>2. Position(t, t[Len(s) + 1]) = Len(s) + 1
    BY <2>1, PositionUnique
  <2>3. QED
    BY <1>1, <2>2
<1>5. ASSUME NEW p \in Ran(s) PROVE Position(t, p) = Position(s, p)
  <2>1. Position(s, p) \in 1..Len(s) /\ s[Position(s, p)] = p
    BY PositionInRange
  <2>2. Position(s, p) \in 1..Len(t) /\ t[Position(s, p)] = p
    BY <1>1, <2>1
  <2>3. QED
    BY <1>1, <1>2, <2>2, PositionUnique
<1>6. [p \in Ran(s) \cup {o} |->
         IF p = o THEN Len(s) ELSE [q \in Ran(s) |-> Position(s, q) - 1][p]]
      = [p \in Ran(t) |-> Position(t, p) - 1]
  BY <1>3, <1>4, <1>5
<1>7. AddType(FactoryOf(s), o) = FactoryOf(t)
  BY <1>6 DEF AddType, FactoryOf
<1>8. QED
  BY <1>1, <1>2, <1>7

(* Hydrate stops before the first duplicate, which there is or is not: the *)
(* number of types it takes is determined.                                 *)
LEMMA UpToDuplicateFacts ==
  ASSUME NEW S, NEW s \in Seq(S)
  PROVE  UpToDuplicate(s) \in Seq(S) /\ Distinct(UpToDuplicate(s))
<1> DEFINE P(n) == /\ Distinct(SubSeq(s, 1, n))
                   /\ n = Len(s) \/ ~Distinct(SubSeq(s, 1, n + 1))
           T == {n \in 0..Len(s) : ~Distinct(SubSeq(s, 1, n))}
<1>1. Len(s) \in Nat /\ T \subseteq Nat
  OBVIOUS
<1>2. Distinct(SubSeq(s, 1, 0))
  BY DEF Distinct
<1>3. \E n \in 0..Len(s) : P(n)
  <2>1. CASE T = {}
    <3>1. Distinct(SubSeq(s, 1, Len(s)))
      BY <1>1, <2>1
    <3>2. QED
      BY <1>1, <3>1
  <2>2. CASE T # {}
    <3>1. PICK m \in T : \A n \in T : m <= n
      BY <1>1, <2>2, LeastNat
    <3>2. m # 0 /\ m \in 0..Len(s) /\ ~Distinct(SubSeq(s, 1, m))
      BY <1>2, <3>1
    <3>3. m - 1 \in 0..Len(s) /\ m - 1 \notin T
      BY <1>1, <3>1, <3>2
    <3>4. P(m - 1)
      BY <3>2, <3>3
    <3>5. QED
      BY <3>3, <3>4
  <2>3. QED
    BY <2>1, <2>2
<1> DEFINE n == CHOOSE n \in 0..Len(s) : P(n)
<1>4. n \in 0..Len(s) /\ P(n)
  BY <1>3
<1>5. UpToDuplicate(s) = SubSeq(s, 1, n)
  BY DEF UpToDuplicate
<1> HIDE DEF n
<1>6. SubSeq(s, 1, n) \in Seq(S)
  <2>1. n \in Int /\ \A i \in 1..n : s[i] \in S
    BY <1>1, <1>4
  <2>2. QED
    BY <2>1, SubSeqProperties
<1>7. QED
  BY <1>4, <1>5, <1>6

-----------------------------------------------------------------------------
(* Objects and factories stay: what every step preserves.                  *)

Grows ==
  /\ Len(heap) <= Len(heap')
  /\ \A o \in 1..Len(heap) : heap'[o] = heap[o]
  /\ Len(factories) <= Len(factories')
  /\ \A f \in 1..Len(factories) :
       /\ Len(factories[f].types) <= Len(factories'[f].types)
       /\ \A i \in 1..Len(factories[f].types) : factories'[f].types[i] = factories[f].types[i]

(* An object holds references to factories that exist.                     *)
LEMMA ObjectFacts ==
  ASSUME TypeOK, Closed, NEW o \in 1..Len(heap)
  PROVE  /\ heap[o].kind \in Kind /\ heap[o].refs \in Seq(Reference)
         /\ \A ref \in Ran(heap[o].refs) :
              ref \in Reference /\ ref.factory \in 1..Len(factories)
<1>1. heap[o] \in Object
  BY DEF TypeOK
<1>2. heap[o].kind \in Kind /\ heap[o].refs \in Seq(Reference)
  BY <1>1 DEF Object
<1>3. ASSUME NEW ref \in Ran(heap[o].refs)
      PROVE  ref \in Reference /\ ref.factory \in 1..Len(factories)
  <2>1. PICK k \in 1..Len(heap[o].refs) : ref = heap[o].refs[k]
    BY DEF Ran
  <2>2. ref.factory \in 1..Len(factories)
    BY <2>1 DEF Closed
  <2>3. QED
    BY <1>2, <2>1, <2>2, ElementOfSeq
<1>4. QED
  BY <1>2, <1>3

(* The types a factory has are objects that exist.                         *)
LEMMA FactoryFacts ==
  ASSUME TypeOK, Closed, NEW f \in 1..Len(factories)
  PROVE  /\ factories[f] \in Factory
         /\ factories[f].types \in Seq(1..Len(heap))
         /\ Len(factories[f].types) \in Nat
<1>1. factories[f] \in Factory
  BY DEF TypeOK
<1>2. QED
  BY <1>1 DEF Closed

(* A reference that resolves goes on resolving, to the same type.          *)
LEMMA RefsKeepTarget ==
  ASSUME TypeOK, Closed, TypeOK', Closed', Grows
  PROVE  \A ref \in Reference : ref.factory \in 1..Len(factories) /\ Resolves(ref)
           => Resolves(ref)' /\ Target(ref)' = Target(ref)
<1> SUFFICES ASSUME NEW ref \in Reference, ref.factory \in 1..Len(factories), Resolves(ref)
             PROVE  Resolves(ref)' /\ Target(ref)' = Target(ref)
  OBVIOUS
<1> DEFINE f == ref.factory
<1>1. /\ Len(factories[f].types) \in Nat /\ Len(factories'[f].types) \in Nat
      /\ Len(factories[f].types) <= Len(factories'[f].types)
  <2>1. Len(factories[f].types) \in Nat /\ Len(factories[f].types) <= Len(factories'[f].types)
    BY FactoryFacts DEF Grows
  <2>2. f \in 1..Len(factories')
    BY DEF Grows, TypeOK
  <2>3. factories'[f] \in Factory
    BY <2>2 DEF TypeOK
  <2>4. QED
    BY <2>1, <2>3 DEF Factory
<1>2. ref.index \in Int /\ ref.index + 1 \in 1..Len(factories[f].types)
  BY <1>1 DEF Resolves, Reference
<1>3. factories'[f].types[ref.index + 1] = factories[f].types[ref.index + 1]
  BY <1>2 DEF Grows
<1>4. QED
  BY <1>1, <1>2, <1>3 DEF Resolves, Target

(* An array that can be written goes on being written as the same text.    *)
LEMMA TextsStay ==
  ASSUME TypeOK, Closed, TypeOK', Closed', Grows,
         NEW objects, objects \in Seq(1..Len(heap)), Writable(objects)
  PROVE  Writable(objects)' /\ TextOf(objects)' = TextOf(objects)
<1>1. ASSUME NEW o \in Ran(objects)
      PROVE  /\ o \in 1..Len(heap) /\ heap'[o] = heap[o]
             /\ \A ref \in Ran(heap[o].refs) :
                  /\ Resolves(ref)' /\ Target(ref)' = Target(ref)
                  /\ Target(ref) \in Ran(objects)
  <2>1. o \in 1..Len(heap)
    BY ElementOfSeq DEF Ran
  <2>2. heap'[o] = heap[o]
    BY <2>1 DEF Grows
  <2>3. ASSUME NEW ref \in Ran(heap[o].refs)
        PROVE  /\ Resolves(ref)' /\ Target(ref)' = Target(ref)
               /\ Target(ref) \in Ran(objects)
    BY <2>1, ObjectFacts, RefsKeepTarget DEF Writable
  <2>4. QED
    BY <2>1, <2>2, <2>3
<1>2. Writable(objects)'
  BY <1>1 DEF Writable
<1>3. ASSUME NEW i \in 1..Len(objects), NEW k \in 1..Len(heap[objects[i]].refs)
      PROVE  /\ heap'[objects[i]] = heap[objects[i]]
             /\ WrittenRef(objects, heap[objects[i]].refs[k])'
                = WrittenRef(objects, heap[objects[i]].refs[k])
  <2>1. objects[i] \in Ran(objects)
    BY DEF Ran
  <2>2. heap'[objects[i]] = heap[objects[i]]
    BY <1>1, <2>1
  <2>3. PICK ref : ref = heap[objects[i]].refs[k]
    OBVIOUS
  <2>4. ref \in Ran(heap[objects[i]].refs)
    BY <2>3 DEF Ran
  <2>5. Target(ref)' = Target(ref)
    BY <1>1, <2>1, <2>4
  <2>6. QED
    BY <2>2, <2>3, <2>5 DEF WrittenRef, Target
<1>4. \A i \in 1..Len(objects) : heap'[objects[i]] = heap[objects[i]]
  BY <1>1 DEF Ran
<1>5. TextOf(objects)' = TextOf(objects)
  BY <1>3, <1>4 DEF TextOf
<1>6. QED
  BY <1>2, <1>5

(* What was written and read stays as it is while the factories it was     *)
(* read with do.                                                           *)
LEMMA HistoryStays ==
  ASSUME Inv, TypeOK', Closed', Grows
  PROVE  /\ \A w \in writes : Writable(w.objects)' /\ w.text = TextOf(w.objects)'
         /\ \A r \in reads : factories'[r.factory] = factories[r.factory] =>
              LET types == factories'[r.factory].types
              IN  /\ Len(types) = Len(r.text)
                  /\ \A i \in 1..Len(r.text) : heap'[types[i]] = ReadObject(r.text[i], r.factory)
<1>1. ASSUME NEW w \in writes
      PROVE  Writable(w.objects)' /\ w.text = TextOf(w.objects)'
  <2>1. PICK objects : objects = w.objects
    OBVIOUS
  <2>2. objects \in Seq(1..Len(heap)) /\ Writable(objects) /\ w.text = TextOf(objects)
    BY <2>1 DEF Inv, Closed, WritesStay
  <2>3. Writable(objects)' /\ TextOf(objects)' = TextOf(objects)
    BY <2>2, TextsStay DEF Inv
  <2>4. QED
    BY <2>1, <2>2, <2>3
<1>2. ASSUME NEW r \in reads, factories'[r.factory] = factories[r.factory]
      PROVE  LET types == factories'[r.factory].types
             IN  /\ Len(types) = Len(r.text)
                 /\ \A i \in 1..Len(r.text) : heap'[types[i]] = ReadObject(r.text[i], r.factory)
  <2> DEFINE types == factories[r.factory].types
  <2>1. /\ Len(types) = Len(r.text)
        /\ \A i \in 1..Len(r.text) : heap[types[i]] = ReadObject(r.text[i], r.factory)
    BY DEF Inv, ReadsStay
  <2>2. types \in Seq(1..Len(heap))
    BY FactoryFacts DEF Inv, Closed
  <2>3. \A i \in 1..Len(types) : heap'[types[i]] = heap[types[i]]
    BY <2>2, ElementOfSeq DEF Grows
  <2>4. QED
    BY <1>2, <2>1, <2>3
<1>3. QED
  BY <1>1, <1>2

-----------------------------------------------------------------------------
(* The steps.                                                              *)

(* new ObjectType(...): the objects that were there are as they were.      *)
LEMMA NewStep ==
  ASSUME Inv, NEW k \in Kind, NEW refs \in RefLists, New(k, refs)
  PROVE  Inv' /\ Grows
<1> USE DEF Inv
<1>1. /\ heap' = Append(heap, [kind |-> k, refs |-> refs]) /\ Len(heap) < MaxNew
      /\ UNCHANGED <<factories, writes, reads>>
      /\ heap \in Seq(Object) /\ Len(heap) \in Nat
  BY DEF New, TypeOK
<1>2. \A ref \in References : ref \in Reference /\ ref.factory \in 1..Len(factories)
  <2>1. ASSUME NEW ref \in [factory : Owned, index : 0..MaxIndex]
        PROVE  ref \in Reference /\ ref.factory \in 1..Len(factories)
    BY BoundsAssumption DEF Owned, Reference
  <2>2. QED
    BY <2>1, ObjectFacts DEF References
<1>3. /\ refs \in Seq(Reference)
      /\ \A i \in 1..Len(refs) : refs[i].factory \in 1..Len(factories)
  <2>1. PICK n \in 0..MaxRefs : refs \in [1..n -> References]
    BY DEF RefLists
  <2>2. n \in Nat /\ \A i \in 1..n : refs[i] \in References
    BY <2>1, BoundsAssumption
  <2>3. refs \in [1..n -> Reference]
    BY <1>2, <2>1, <2>2
  <2>4. refs \in Seq(Reference) /\ Len(refs) = n
    BY <2>2, <2>3
  <2>5. QED
    BY <1>2, <2>2, <2>4
<1>4. /\ heap' \in Seq(Object) /\ Len(heap') = Len(heap) + 1
      /\ \A o \in 1..Len(heap) : heap'[o] = heap[o]
      /\ heap'[Len(heap) + 1].refs = refs
  BY <1>1, <1>3 DEF Object
<1>5. Len(heap') <= MaxObjects /\ 1..Len(heap) \subseteq 1..Len(heap')
  BY <1>1, <1>4, BoundsAssumption
<1>6. TypeOK'
  BY <1>1, <1>4, <1>5 DEF TypeOK
<1>7. Closed'
  <2>1. \A f \in 1..Len(factories) : factories[f].types \in Seq(1..Len(heap'))
    BY <1>5, FactoryFacts, SeqMonotonic
  <2>2. \A w \in writes : w.objects \in Seq(1..Len(heap'))
    BY <1>5, SeqMonotonic DEF Closed
  <2>3. ASSUME NEW o \in 1..Len(heap'), NEW i \in 1..Len(heap'[o].refs)
        PROVE  heap'[o].refs[i].factory \in 1..Len(factories)
    <3>1. CASE o \in 1..Len(heap)
      BY <1>4, <2>3, <3>1 DEF Closed
    <3>2. CASE o = Len(heap) + 1
      BY <1>3, <1>4, <2>3, <3>2
    <3>3. QED
      BY <1>1, <1>4, <3>1, <3>2
  <2>4. QED
    BY <1>1, <2>1, <2>2, <2>3 DEF Closed
<1>8. Grows
  <2>1. \A f \in 1..Len(factories) : Len(factories[f].types) \in Nat
    BY FactoryFacts
  <2>2. Len(factories) \in Nat
    BY DEF TypeOK
  <2>3. QED
    BY <1>1, <1>4, <2>1, <2>2 DEF Grows
<1>9. WritesStay' /\ ReadsStay'
  BY <1>1, <1>6, <1>7, <1>8, HistoryStays DEF WritesStay, ReadsStay
<1>10. LookupInverse'
  BY <1>1 DEF LookupInverse
<1>11. QED
  BY <1>6, <1>7, <1>8, <1>9, <1>10

(* A factory a client owns is given more types.                            *)
LEMMA ExtendStep ==
  ASSUME Inv, NEW f \in Owned, NEW s \in Seq(1..Len(heap)), Distinct(s),
         Len(factories[f].types) <= Len(s),
         \A i \in 1..Len(factories[f].types) : s[i] = factories[f].types[i],
         factories' = [factories EXCEPT ![f] = FactoryOf(s)],
         UNCHANGED <<heap, writes, reads>>
  PROVE  Inv' /\ Grows
<1> USE DEF Inv
<1>1. f \in 1..Len(factories) /\ factories \in Seq(Factory) /\ Len(heap) \in Nat
  BY DEF Owned, TypeOK
<1>2. /\ s \in Seq(1..MaxObjects)
      /\ FactoryOf(s) \in Factory /\ FactoryOf(s).types = s
  <2>1. 1..Len(heap) \subseteq 1..MaxObjects
    BY <1>1, BoundsAssumption DEF TypeOK
  <2>2. QED
    BY <2>1, SeqMonotonic, FactoryOfType
<1>3. /\ factories' \in Seq(Factory) /\ Len(factories') = Len(factories)
      /\ factories'[f] = FactoryOf(s)
      /\ \A g \in 1..Len(factories) : g # f => factories'[g] = factories[g]
  BY <1>1, <1>2
<1>4. TypeOK'
  BY <1>3 DEF TypeOK
<1>5. Closed'
  BY <1>2, <1>3 DEF Closed
<1>6. Grows
  <2>1. ASSUME NEW g \in 1..Len(factories)
        PROVE  /\ Len(factories[g].types) <= Len(factories'[g].types)
               /\ \A i \in 1..Len(factories[g].types) :
                    factories'[g].types[i] = factories[g].types[i]
    <3>1. CASE g = f
      BY <1>2, <1>3, <3>1
    <3>2. CASE g # f
      BY <1>3, <3>2, FactoryFacts
    <3>3. QED
      BY <3>1, <3>2
  <2>2. QED
    BY <1>1, <1>3, <2>1 DEF Grows
<1>7. \A r \in reads : factories'[r.factory] = factories[r.factory]
  BY <1>3 DEF Owned, Closed
<1>8. WritesStay' /\ ReadsStay'
  BY <1>4, <1>5, <1>6, <1>7, HistoryStays DEF WritesStay, ReadsStay
<1>9. LookupInverse'
  BY <1>2, <1>3 DEF LookupInverse
<1>10. QED
  BY <1>4, <1>5, <1>6, <1>8, <1>9

(* The arrays clients make hold objects that exist.                        *)
LEMMA ArraysFacts ==
  ASSUME TypeOK, NEW objects \in Arrays
  PROVE  objects \in Seq(1..Len(heap)) /\ objects \in Seq(1..MaxObjects)
<1>1. PICK n \in 0..MaxArray : objects \in [1..n -> 1..Len(heap)]
  BY DEF Arrays
<1>2. n \in Nat
  BY BoundsAssumption
<1>3. objects \in Seq(1..Len(heap))
  BY <1>1, <1>2
<1>4. 1..Len(heap) \subseteq 1..MaxObjects
  BY BoundsAssumption DEF TypeOK
<1>5. QED
  BY <1>3, <1>4, SeqMonotonic

(* A new factory, of types no two of which are equal, joins the others.    *)
LEMMA NewFactoryStep ==
  ASSUME Inv, NEW objects \in Arrays, NewFactory(objects)
  PROVE  Inv' /\ Grows
<1> USE DEF Inv
<1>1. /\ Distinct(objects) /\ factories' = Append(factories, FactoryOf(objects))
      /\ UNCHANGED <<heap, writes, reads>>
      /\ factories \in Seq(Factory) /\ Len(factories) \in Nat /\ Len(heap) \in Nat
  BY DEF NewFactory, TypeOK
<1>2. /\ objects \in Seq(1..Len(heap))
      /\ FactoryOf(objects) \in Factory /\ FactoryOf(objects).types = objects
  BY ArraysFacts, FactoryOfType
<1>3. /\ factories' \in Seq(Factory) /\ Len(factories') = Len(factories) + 1
      /\ factories'[Len(factories) + 1] = FactoryOf(objects)
      /\ \A g \in 1..Len(factories) : factories'[g] = factories[g]
  BY <1>1, <1>2
<1>4. \A g \in 1..Len(factories') : g \in 1..Len(factories) \/ g = Len(factories) + 1
  BY <1>1, <1>3
<1>5. TypeOK'
  BY <1>1, <1>3 DEF TypeOK
<1>6. Closed'
  <2>1. \A g \in 1..Len(factories') : factories'[g].types \in Seq(1..Len(heap))
    BY <1>2, <1>3, <1>4, FactoryFacts
  <2>2. 1..Len(factories) \subseteq 1..Len(factories')
    BY <1>1, <1>3
  <2>3. QED
    BY <1>1, <2>1, <2>2 DEF Closed
<1>7. Grows
  <2>1. \A g \in 1..Len(factories) : Len(factories[g].types) \in Nat
    BY FactoryFacts
  <2>2. QED
    BY <1>1, <1>3, <2>1 DEF Grows
<1>8. WritesStay' /\ ReadsStay'
  <2>1. \A r \in reads : factories'[r.factory] = factories[r.factory]
    BY <1>3 DEF Closed
  <2>2. QED
    BY <1>1, <1>5, <1>6, <1>7, <2>1, HistoryStays DEF WritesStay, ReadsStay
<1>9. LookupInverse'
  BY <1>1, <1>2, <1>3, <1>4 DEF LookupInverse
<1>10. QED
  BY <1>5, <1>6, <1>7, <1>8, <1>9

(* Create adds one type, unless typeLookup holds it.                       *)
LEMMA CreateStep ==
  ASSUME Inv, NEW f \in Owned, NEW o \in 1..Len(heap), Create(f, o)
  PROVE  Inv' /\ Grows
<1> DEFINE s == factories[f].types
<1>1. /\ o \notin DOMAIN factories[f].typeLookup
      /\ factories' = [factories EXCEPT ![f] = AddType(factories[f], o)]
      /\ UNCHANGED <<heap, writes, reads>>
  BY DEF Create
<1>2. /\ s \in Seq(1..Len(heap)) /\ Distinct(s) /\ factories[f] = FactoryOf(s)
      /\ s \in Seq(1..MaxObjects)
  <2>1. f \in 1..Len(factories)
    BY DEF Owned
  <2>2. factories[f] \in Factory
    BY <2>1, FactoryFacts DEF Inv
  <2>3. QED
    BY <2>1, <2>2, FactoryFacts DEF Inv, LookupInverse, Factory
<1>3. o \notin Ran(s)
  BY <1>1, <1>2, FactoryOfType
<1>4. /\ AddType(factories[f], o) = FactoryOf(Append(s, o))
      /\ Distinct(Append(s, o)) /\ Append(s, o) \in Seq(1..Len(heap))
  BY <1>2, <1>3, AddTypeIsFactoryOf
<1>5. /\ Len(s) <= Len(Append(s, o))
      /\ \A i \in 1..Len(s) : Append(s, o)[i] = s[i]
  BY <1>2
<1> DEFINE t == Append(s, o)
<1>6. /\ t \in Seq(1..Len(heap)) /\ Distinct(t) /\ Len(s) <= Len(t)
      /\ \A i \in 1..Len(s) : t[i] = s[i]
      /\ factories' = [factories EXCEPT ![f] = FactoryOf(t)]
  BY <1>1, <1>4, <1>5
<1> HIDE DEF t
<1>7. QED
  BY <1>1, <1>6, ExtendStep

(* Hydrate fills an empty factory, as far as there is no duplicate.        *)
LEMMA HydrateStep ==
  ASSUME Inv, NEW f \in Owned, NEW objects \in Arrays, Hydrate(f, objects)
  PROVE  Inv' /\ Grows
<1>1. /\ factories[f].types = <<>>
      /\ factories' = [factories EXCEPT ![f] = FactoryOf(UpToDuplicate(objects))]
      /\ UNCHANGED <<heap, writes, reads>>
  BY DEF Hydrate
<1>2. /\ UpToDuplicate(objects) \in Seq(1..Len(heap))
      /\ Distinct(UpToDuplicate(objects))
  BY ArraysFacts, UpToDuplicateFacts DEF Inv
<1>3. /\ Len(factories[f].types) <= Len(UpToDuplicate(objects))
      /\ \A i \in 1..Len(factories[f].types) :
           UpToDuplicate(objects)[i] = factories[f].types[i]
  BY <1>1, <1>2
<1>4. QED
  BY <1>1, <1>2, <1>3, ExtendStep

(* Serialize changes nothing but the history.                              *)
LEMMA SerializeStep ==
  ASSUME Inv, NEW objects \in Arrays, Serialize(objects)
  PROVE  Inv' /\ Grows
<1> USE DEF Inv
<1>1. /\ Writable(objects)
      /\ writes' = writes \cup {[objects |-> objects, text |-> TextOf(objects)]}
      /\ UNCHANGED <<heap, factories, reads>>
      /\ Distinct(objects) /\ objects \in Seq(1..Len(heap)) /\ objects \in Seq(1..MaxObjects)
  BY ArraysFacts DEF Serialize, Writable
<1>2. TextOf(objects) \in Text
  <2>1. ASSUME NEW i \in 1..Len(objects)
        PROVE  TextOf(objects)[i] \in [kind : Kind, refs : Seq(Int)]
    <3> DEFINE object == heap[objects[i]]
               refs == [k \in 1..Len(object.refs) |-> WrittenRef(objects, object.refs[k])]
    <3>1. objects[i] \in 1..Len(heap) /\ objects[i] \in Ran(objects)
      BY <1>1, ElementOfSeq DEF Ran
    <3>2. object.kind \in Kind /\ object.refs \in Seq(Reference)
      BY <3>1, ObjectFacts
    <3>3. ASSUME NEW k \in 1..Len(object.refs)
          PROVE  WrittenRef(objects, object.refs[k]) \in Int
      <4>1. Target(object.refs[k]) \in Ran(objects)
        BY <1>1, <3>1 DEF Writable, Ran
      <4>2. Position(objects, Target(object.refs[k])) \in 1..Len(objects)
        BY <1>1, <4>1, PositionInRange
      <4>3. QED
        BY <4>1, <4>2 DEF WrittenRef, FactoryOf
    <3>4. refs \in Seq(Int)
      BY <3>2, <3>3
    <3>5. TextOf(objects)[i] = [kind |-> object.kind, refs |-> refs]
      BY DEF TextOf
    <3>6. QED
      BY <3>2, <3>4, <3>5
  <2>2. DOMAIN TextOf(objects) = 1..Len(objects) /\ Len(objects) \in Nat
    BY <1>1 DEF TextOf
  <2>3. TextOf(objects) \in [1..Len(objects) -> [kind : Kind, refs : Seq(Int)]]
    BY <2>1, <2>2 DEF TextOf
  <2>4. QED
    BY <2>2, <2>3, FunctionIsSeq DEF Text
<1>3. TypeOK'
  BY <1>1, <1>2 DEF TypeOK
<1>4. Closed'
  BY <1>1 DEF Closed
<1>5. Grows
  <2>1. \A g \in 1..Len(factories) : Len(factories[g].types) \in Nat
    BY FactoryFacts
  <2>2. Len(heap) \in Nat /\ Len(factories) \in Nat
    BY DEF TypeOK
  <2>3. QED
    BY <1>1, <2>1, <2>2 DEF Grows
<1>6. LookupInverse' /\ ReadsStay'
  BY <1>1 DEF LookupInverse, ReadsStay
<1>7. WritesStay'
  <2>1. Writable(objects)' /\ TextOf(objects)' = TextOf(objects)
    BY <1>1, <1>3, <1>4, <1>5, TextsStay
  <2>2. QED
    BY <1>1, <1>3, <1>4, <1>5, <2>1, HistoryStays DEF WritesStay
<1>8. QED
  BY <1>3, <1>4, <1>5, <1>6, <1>7

(* A text that is not refused has classes and integers only.               *)
LEMMA ReadableTexts ==
  ASSUME Inv, NEW text \in InputTexts \cup {w.text : w \in writes}, Readable(text)
  PROVE  text \in Text
<1>1. CASE text \in {w.text : w \in writes}
  BY <1>1 DEF Inv, TypeOK
<1>2. CASE text \in InputTexts
  <2> DEFINE Read == [kind : Kind, refs : Seq(Int \cup {Malformed})]
  <2>1. text \in Seq({NullEntry} \cup Read)
    BY <1>2, TextAssumption
  <2>2. ASSUME NEW i \in 1..Len(text)
        PROVE  text[i] \in [kind : Kind, refs : Seq(Int)]
    <3>1. text[i] \in Read
      BY <2>1, ElementOfSeq DEF Readable
    <3>2. text[i].refs \in Seq(Int \cup {Malformed}) /\ Len(text[i].refs) \in Nat
      BY <3>1
    <3>3. ASSUME NEW k \in 1..Len(text[i].refs) PROVE text[i].refs[k] \in Int
      BY <3>2, ElementOfSeq DEF Readable
    <3>4. text[i].refs \in [1..Len(text[i].refs) -> Int]
      BY <3>2, <3>3
    <3>5. text[i].refs \in Seq(Int)
      BY <3>2, <3>4, FunctionIsSeq
    <3>6. QED
      BY <3>1, <3>5
  <2>3. Len(text) \in Nat /\ text \in [1..Len(text) -> [kind : Kind, refs : Seq(Int)]]
    BY <2>1, <2>2
  <2>4. QED
    BY <2>3, FunctionIsSeq DEF Text
<1>3. QED
  BY <1>1, <1>2

(* An entry of a text as an object: the references are places of f.        *)
LEMMA ReadObjectFacts ==
  ASSUME NEW entry \in [kind : Kind, refs : Seq(Int)], NEW f \in Nat
  PROVE  /\ ReadObject(entry, f) \in Object
         /\ ReadObject(entry, f).kind = entry.kind
         /\ Len(ReadObject(entry, f).refs) = Len(entry.refs)
         /\ \A k \in 1..Len(entry.refs) :
              ReadObject(entry, f).refs[k] = TypeReference(f, entry.refs[k])
<1> DEFINE refs == [k \in 1..Len(entry.refs) |-> TypeReference(f, entry.refs[k])]
<1>1. entry.kind \in Kind /\ entry.refs \in Seq(Int) /\ Len(entry.refs) \in Nat
  OBVIOUS
<1>2. refs \in [1..Len(entry.refs) -> Reference]
  BY <1>1, ElementOfSeq DEF TypeReference, Reference
<1>3. refs \in Seq(Reference) /\ Len(refs) = Len(entry.refs)
  BY <1>1, <1>2, FunctionIsSeq
<1>4. ReadObject(entry, f) = [kind |-> entry.kind, refs |-> refs]
  BY DEF ReadObject
<1>5. \A k \in 1..Len(entry.refs) : refs[k] = TypeReference(f, entry.refs[k])
  OBVIOUS
<1> HIDE DEF refs
<1>6. QED
  BY <1>1, <1>3, <1>4, <1>5 DEF Object

(* Deserialize: the new factory lists the new objects in the order of the  *)
(* text, and their references are places of this factory.                  *)
LEMMA DeserializeStep ==
  ASSUME Inv, NEW text \in InputTexts \cup {w.text : w \in writes}, Deserialize(text)
  PROVE  Inv' /\ Grows
<1> DEFINE base == Len(heap)
           new == Len(factories) + 1
           n == Len(text)
           objects == [i \in 1..n |-> base + i]
           added == [i \in 1..n |-> ReadObject(text[i], new)]
<1> USE DEF Inv
<1>1. /\ base + n <= MaxObjects
      /\ heap' = heap \o added
      /\ factories' = Append(factories, FactoryOf(objects))
      /\ reads' = reads \cup {[text |-> text, factory |-> new]}
      /\ UNCHANGED writes
  BY DEF Deserialize, ReadObject
<1>2. /\ text \in Text /\ n \in Nat /\ base \in Nat /\ Len(factories) \in Nat
      /\ heap \in Seq(Object) /\ factories \in Seq(Factory)
      /\ \A i \in 1..n : text[i] \in [kind : Kind, refs : Seq(Int)]
  <2>1. text \in Text
    BY ReadableTexts DEF Deserialize
  <2>2. n \in Nat /\ \A i \in 1..n : text[i] \in [kind : Kind, refs : Seq(Int)]
    BY <2>1, ElementOfSeq, LenProperties DEF Text
  <2>3. QED
    BY <2>1, <2>2 DEF TypeOK
<1>3. ASSUME NEW i \in 1..n
      PROVE  /\ added[i] = ReadObject(text[i], new)
             /\ added[i] \in Object
             /\ Len(added[i].refs) = Len(text[i].refs)
             /\ \A k \in 1..Len(added[i].refs) : added[i].refs[k].factory = new
  <2>1. new \in Nat /\ text[i] \in [kind : Kind, refs : Seq(Int)]
    BY <1>2
  <2>2. \A k \in 1..Len(text[i].refs) : TypeReference(new, text[i].refs[k]).factory = new
    BY DEF TypeReference
  <2>3. added[i] = ReadObject(text[i], new)
    OBVIOUS
  <2> HIDE DEF added
  <2>4. QED
    BY <2>1, <2>2, <2>3, ReadObjectFacts
<1>4. added \in Seq(Object) /\ Len(added) = n
  <2>1. added \in [1..n -> Object]
    BY <1>3
  <2>2. QED
    BY <1>2, <2>1, FunctionIsSeq
<1>5. /\ heap' \in Seq(Object) /\ Len(heap') = base + n
      /\ \A o \in 1..base : heap'[o] = heap[o]
      /\ \A i \in 1..n : heap'[base + i] = added[i]
  <2>1. /\ heap \o added \in Seq(Object) /\ Len(heap \o added) = base + n
        /\ \A i \in 1..(base + n) :
             (heap \o added)[i] = IF i <= base THEN heap[i] ELSE added[i - base]
    BY <1>2, <1>4, ConcatProperties
  <2> HIDE DEF added
  <2>2. QED
    BY <1>1, <1>2, <2>1
<1>6. /\ objects \in Seq(1..Len(heap')) /\ Len(objects) = n /\ Distinct(objects)
      /\ objects \in Seq(1..MaxObjects)
  <2>1. objects \in [1..n -> 1..Len(heap')] /\ objects \in [1..n -> 1..MaxObjects]
    BY <1>1, <1>2, <1>5, BoundsAssumption
  <2>2. Len(objects) = n
    BY <1>2, <2>1, FunctionIsSeq
  <2>3. Distinct(objects)
    BY <1>2, <2>2 DEF Distinct
  <2>4. QED
    BY <1>2, <2>1, <2>2, <2>3, FunctionIsSeq
<1>7. FactoryOf(objects) \in Factory /\ FactoryOf(objects).types = objects
  BY <1>6, FactoryOfType
<1> HIDE DEF added
<1>8. /\ factories' \in Seq(Factory) /\ Len(factories') = new
      /\ factories'[new] = FactoryOf(objects)
      /\ \A g \in 1..Len(factories) : factories'[g] = factories[g]
      /\ 1..Len(factories) \subseteq 1..Len(factories')
      /\ new \in 1..Len(factories')
      /\ \A g \in 1..Len(factories') : g \in 1..Len(factories) \/ g = new
  BY <1>1, <1>2, <1>7
<1>9. base <= Len(heap') /\ Len(heap') <= MaxObjects /\ 1..base \subseteq 1..Len(heap')
  BY <1>1, <1>2, <1>5
<1>10. TypeOK'
  BY <1>1, <1>2, <1>5, <1>8, <1>9 DEF TypeOK
<1>11. Closed'
  <2>1. ASSUME NEW g \in 1..Len(factories') PROVE factories'[g].types \in Seq(1..Len(heap'))
    <3>1. CASE g \in 1..Len(factories)
      BY <1>8, <1>9, <3>1, FactoryFacts, SeqMonotonic
    <3>2. CASE g = new
      BY <1>6, <1>7, <1>8, <3>2
    <3>3. QED
      BY <1>8, <3>1, <3>2
  <2>2. ASSUME NEW o \in 1..Len(heap'), NEW k \in 1..Len(heap'[o].refs)
        PROVE  heap'[o].refs[k].factory \in 1..Len(factories')
    <3>1. CASE o \in 1..base
      BY <1>5, <1>8, <2>2, <3>1 DEF Closed
    <3>2. CASE o \notin 1..base
      <4>1. PICK i \in 1..n : o = base + i
        <5>1. o - base \in 1..n /\ o = base + (o - base)
          BY <1>2, <1>5, <3>2
        <5>2. QED
          BY <5>1
      <4>2. heap'[o] = added[i]
        BY <1>5, <4>1
      <4>3. QED
        BY <1>3, <1>8, <2>2, <4>2
    <3>3. QED
      BY <3>1, <3>2
  <2>3. \A w \in writes : w.objects \in Seq(1..Len(heap'))
    BY <1>9, SeqMonotonic DEF Closed
  <2>4. \A r \in reads' : r.factory \in 1..Len(factories')
    BY <1>1, <1>8 DEF Closed
  <2>5. QED
    BY <1>1, <2>1, <2>2, <2>3, <2>4 DEF Closed
<1>12. Grows
  <2>1. \A g \in 1..Len(factories) : Len(factories[g].types) \in Nat
    BY FactoryFacts
  <2>2. QED
    BY <1>2, <1>5, <1>8, <1>9, <2>1 DEF Grows
<1>13. LookupInverse'
  BY <1>6, <1>7, <1>8 DEF LookupInverse
<1>14. WritesStay'
  BY <1>1, <1>10, <1>11, <1>12, HistoryStays DEF WritesStay
<1>15. ReadsStay'
  <2> DEFINE Stays(r) == LET types == factories'[r.factory].types
                         IN  /\ Len(types) = Len(r.text)
                             /\ \A i \in 1..Len(r.text) :
                                  heap'[types[i]] = ReadObject(r.text[i], r.factory)
  <2>1. ASSUME NEW r \in reads PROVE Stays(r)
    <3>1. factories'[r.factory] = factories[r.factory]
      BY <1>8 DEF Closed
    <3>2. QED
      BY <1>10, <1>11, <1>12, <3>1, HistoryStays
  <2>2. Stays([text |-> text, factory |-> new])
    <3>1. factories'[new].types = objects
      BY <1>7, <1>8
    <3>2. \A i \in 1..n : heap'[objects[i]] = ReadObject(text[i], new)
      BY <1>3, <1>5
    <3>3. QED
      BY <1>6, <3>1, <3>2
  <2>3. QED
    BY <1>1, <2>1, <2>2 DEF ReadsStay
<1>16. QED
  BY <1>10, <1>11, <1>12, <1>13, <1>14, <1>15

-----------------------------------------------------------------------------
(* At first there is one factory, and nothing in it.                       *)
LEMMA InvInit == Init => Inv
<1> SUFFICES ASSUME Init PROVE Inv
  OBVIOUS
<1>1. <<>> \in Seq(1..MaxObjects) /\ <<>> \in Seq(1..0) /\ Distinct(<<>>)
  BY DEF Distinct
<1>2. FactoryOf(<<>>) \in Factory /\ FactoryOf(<<>>).types = <<>>
  BY <1>1, FactoryOfType
<1>3. /\ heap = <<>> /\ Len(heap) = 0 /\ heap \in Seq(Object)
      /\ factories = <<FactoryOf(<<>>)>> /\ Len(factories) = 1
      /\ \A f \in 1..Len(factories) : factories[f] = FactoryOf(<<>>)
      /\ factories \in Seq(Factory) /\ writes = {} /\ reads = {}
  BY <1>2 DEF Init
<1>4. TypeOK
  BY <1>3, BoundsAssumption DEF TypeOK
<1>c. Closed
  <2>1. \A f \in 1..Len(factories) : factories[f].types \in Seq(1..Len(heap))
    BY <1>1, <1>2, <1>3
  <2>2. QED
    BY <1>3, <2>1 DEF Closed
<1>5. LookupInverse /\ WritesStay /\ ReadsStay
  BY <1>1, <1>2, <1>3 DEF LookupInverse, WritesStay, ReadsStay
<1>6. QED
  BY <1>4, <1>c, <1>5 DEF Inv

(* Every step keeps the invariant, the objects and the factories' types.   *)
LEMMA InvStep == Inv /\ [Next]_vars => Inv' /\ Grows
<1> SUFFICES ASSUME Inv, [Next]_vars PROVE Inv' /\ Grows
  OBVIOUS
<1>1. ASSUME NEW k \in Kind, NEW refs \in RefLists, New(k, refs) PROVE Inv' /\ Grows
  BY <1>1, NewStep
<1>2. ASSUME NEW objects \in Arrays, NewFactory(objects) PROVE Inv' /\ Grows
  BY <1>2, NewFactoryStep
<1>3. ASSUME NEW objects \in Arrays, Serialize(objects) PROVE Inv' /\ Grows
  BY <1>3, SerializeStep
<1>4. ASSUME NEW f \in Owned, NEW o \in 1..Len(heap), Create(f, o) PROVE Inv' /\ Grows
  BY <1>4, CreateStep
<1>5. ASSUME NEW f \in Owned, NEW objects \in Arrays, Hydrate(f, objects)
      PROVE  Inv' /\ Grows
  BY <1>5, HydrateStep
<1>6. ASSUME NEW text \in InputTexts \cup {w.text : w \in writes}, Deserialize(text)
      PROVE  Inv' /\ Grows
  BY <1>6, DeserializeStep
<1>7. CASE UNCHANGED vars
  <2>1. UNCHANGED <<heap, factories, writes, reads>>
    BY <1>7 DEF vars
  <2>2. TypeOK' /\ Closed' /\ LookupInverse' /\ ReadsStay'
    BY <2>1 DEF Inv, TypeOK, Closed, LookupInverse, ReadsStay
  <2>3. /\ \A f \in 1..Len(factories) : Len(factories[f].types) \in Nat
        /\ Len(heap) \in Nat /\ Len(factories) \in Nat
    BY FactoryFacts DEF Inv, TypeOK
  <2>4. Grows
    BY <2>1, <2>3 DEF Grows
  <2>5. WritesStay'
    BY <2>1, <2>2, <2>4, HistoryStays DEF WritesStay
  <2>6. QED
    BY <2>2, <2>4, <2>5 DEF Inv
<1>8. QED
  BY <1>1, <1>2, <1>3, <1>4, <1>5, <1>6, <1>7 DEF Next

(* What is written and read stays what it was, and no reference dangles    *)
(* that did not when it was made.                                          *)
THEOREM Invariance == Spec => []Inv
BY InvInit, InvStep, PTL DEF Spec

(* The list of a C# factory has no duplicates and typeLookup is its        *)
(* inverse, through Create, Hydrate and failures half way.                 *)
THEOREM ListAndLookupAgree == Spec => []LookupInverse
<1>1. Inv => LookupInverse
  BY DEF Inv
<1>2. QED
  BY <1>1, Invariance, PTL

-----------------------------------------------------------------------------
(* Written again, what was read gives the text it was read from.           *)
LEMMA WritesBack ==
  ASSUME Inv, NEW r \in reads, InRange(r.text)
  PROVE  LET objects == factories[r.factory].types
         IN  Writable(objects) /\ TextOf(objects) = r.text
<1> DEFINE f == r.factory
           text == r.text
           objects == factories[f].types
<1>1. /\ f \in 1..Len(factories) /\ f \in Nat /\ text \in Text
      /\ Len(objects) = Len(text)
      /\ \A i \in 1..Len(text) : heap[objects[i]] = ReadObject(text[i], f)
  BY DEF Inv, TypeOK, Closed, ReadsStay
<1>2. /\ objects \in Seq(1..Len(heap)) /\ Distinct(objects)
      /\ FactoryOf(objects).typeLookup = [o \in Ran(objects) |-> Position(objects, o) - 1]
  BY <1>1, FactoryFacts DEF Inv, LookupInverse, FactoryOf
<1>3. Len(text) \in Nat /\ \A i \in 1..Len(text) : text[i] \in [kind : Kind, refs : Seq(Int)]
  BY <1>1, ElementOfSeq, LenProperties DEF Text
<1>4. ASSUME NEW i \in 1..Len(text), NEW k \in 1..Len(text[i].refs)
      PROVE  LET ref == TypeReference(f, text[i].refs[k])
             IN  /\ Resolves(ref) /\ Target(ref) \in Ran(objects)
                 /\ WrittenRef(objects, ref) = text[i].refs[k]
  <2> DEFINE index == text[i].refs[k]
  <2>1. index \in 0..(Len(objects) - 1)
    BY <1>1 DEF InRange
  <2>2. index + 1 \in 1..Len(objects) /\ index \in Int
    BY <1>1, <1>3, <2>1
  <2>3. objects[index + 1] \in Ran(objects) /\ Position(objects, objects[index + 1]) = index + 1
    BY <1>2, <2>2, PositionUnique DEF Ran
  <2> HIDE DEF index
  <2>4. QED
    BY <1>2, <2>1, <2>2, <2>3 DEF TypeReference, Resolves, Target, WrittenRef, index
<1>5. ASSUME NEW i \in 1..Len(text)
      PROVE  /\ heap[objects[i]].kind = text[i].kind
             /\ Len(heap[objects[i]].refs) = Len(text[i].refs)
             /\ \A k \in 1..Len(text[i].refs) :
                  heap[objects[i]].refs[k] = TypeReference(f, text[i].refs[k])
  BY <1>1, <1>3, ReadObjectFacts
<1>6. Writable(objects)
  <2>1. ASSUME NEW o \in Ran(objects), NEW ref \in Ran(heap[o].refs)
        PROVE  Resolves(ref) /\ Target(ref) \in Ran(objects)
    <3>1. PICK i \in 1..Len(text) : o = objects[i]
      BY <1>1 DEF Ran
    <3>2. PICK k \in 1..Len(text[i].refs) : ref = TypeReference(f, text[i].refs[k])
      BY <1>5, <2>1, <3>1 DEF Ran
    <3>3. QED
      BY <1>4, <3>2
  <2>2. QED
    BY <1>2, <2>1 DEF Writable
<1>7. TextOf(objects) = text
  <2> DEFINE refs(i) == [k \in 1..Len(heap[objects[i]].refs) |->
                           WrittenRef(objects, heap[objects[i]].refs[k])]
  <2>1. ASSUME NEW i \in 1..Len(text)
        PROVE  [kind |-> heap[objects[i]].kind, refs |-> refs(i)] = text[i]
    <3>1. \A k \in 1..Len(text[i].refs) :
            WrittenRef(objects, heap[objects[i]].refs[k]) = text[i].refs[k]
      BY <1>4, <1>5
    <3>2. text[i].refs \in Seq(Int) /\ text[i] \in [kind : Kind, refs : Seq(Int)]
      BY <1>3
    <3>3. refs(i) = text[i].refs
      <4>1. PICK s \in Seq(Int) : s = text[i].refs
        BY <3>2
      <4>2. refs(i) = [k \in 1..Len(s) |-> s[k]]
        BY <1>5, <3>1, <4>1
      <4>3. QED
        BY <4>1, <4>2, LenProperties
    <3>4. QED
      BY <1>5, <3>2, <3>3
  <2>2. TextOf(objects) = [i \in 1..Len(text) |->
                             [kind |-> heap[objects[i]].kind, refs |-> refs(i)]]
    BY <1>1 DEF TextOf
  <2>3. DOMAIN text = 1..Len(text) /\ text = [i \in 1..Len(text) |-> text[i]]
    BY <1>1, LenProperties DEF Text
  <2> HIDE DEF text, objects
  <2>4. QED
    BY <2>1, <2>2, <2>3
<1>8. QED
  BY <1>6, <1>7

(* A text whose references are in range survives being read and written,   *)
(* whatever else is read, created and written in between.                  *)
THEOREM TextsRoundTrip == Spec => []WritesWhatWasRead
<1>1. Inv => WritesWhatWasRead
  BY WritesBack DEF WritesWhatWasRead
<1>2. QED
  BY <1>1, Invariance, PTL

-----------------------------------------------------------------------------
(* The types read from a text have the graph of the array it was written   *)
(* from.                                                                   *)
LEMMA ReadsBack ==
  ASSUME Inv, NEW w \in writes, NEW r \in reads, r.text = w.text
  PROVE  SameGraph(w.objects, factories[r.factory].types)
<1> DEFINE f == r.factory
           text == r.text
           objects == w.objects
           others == factories[f].types
<1>1. /\ f \in 1..Len(factories) /\ f \in Nat /\ text \in Text
      /\ Len(others) = Len(text)
      /\ \A i \in 1..Len(text) : heap[others[i]] = ReadObject(text[i], f)
  BY DEF Inv, TypeOK, Closed, ReadsStay
<1>2. /\ objects \in Seq(1..Len(heap)) /\ Writable(objects) /\ text = TextOf(objects)
      /\ Distinct(objects)
  BY DEF Inv, Closed, WritesStay, Writable
<1>3. others \in Seq(1..Len(heap)) /\ Distinct(others)
  BY <1>1, FactoryFacts DEF Inv, LookupInverse
<1>4. Len(text) \in Nat /\ \A i \in 1..Len(text) : text[i] \in [kind : Kind, refs : Seq(Int)]
  BY <1>1, ElementOfSeq, LenProperties DEF Text
<1>5. Len(objects) = Len(text)
  <2>1. DOMAIN text = 1..Len(text)
    BY <1>1, LenProperties DEF Text
  <2>2. DOMAIN text = 1..Len(objects) /\ Len(objects) \in Nat
    BY <1>2 DEF TextOf
  <2>3. QED
    BY <1>4, <2>1, <2>2
<1>6. ASSUME NEW i \in 1..Len(objects)
      PROVE  LET object == heap[objects[i]]
                 other == heap[others[i]]
             IN  /\ object.kind = other.kind
                 /\ Len(object.refs) = Len(other.refs)
                 /\ \A k \in 1..Len(object.refs) :
                      /\ Resolves(object.refs[k]) /\ Target(object.refs[k]) \in Ran(objects)
                      /\ Resolves(other.refs[k]) /\ Target(other.refs[k]) \in Ran(others)
                      /\ Position(objects, Target(object.refs[k]))
                         = Position(others, Target(other.refs[k]))
  <2> DEFINE object == heap[objects[i]]
             other == heap[others[i]]
  <2>1. /\ objects[i] \in Ran(objects) /\ objects[i] \in 1..Len(heap)
        /\ object.refs \in Seq(Reference) /\ Len(object.refs) \in Nat
    <3>1. objects[i] \in Ran(objects) /\ objects[i] \in 1..Len(heap)
      BY <1>2, ElementOfSeq DEF Ran
    <3>2. QED
      BY <3>1, ObjectFacts, LenProperties DEF Inv
  <2>2. text[i] = [kind |-> object.kind,
                   refs |-> [k \in 1..Len(object.refs) |-> WrittenRef(objects, object.refs[k])]]
    BY <1>2 DEF TextOf
  <2>3. /\ other.kind = text[i].kind
        /\ Len(other.refs) = Len(text[i].refs)
        /\ \A k \in 1..Len(text[i].refs) :
             other.refs[k] = TypeReference(f, text[i].refs[k])
    <3>1. other = ReadObject(text[i], f) /\ text[i] \in [kind : Kind, refs : Seq(Int)]
      BY <1>1, <1>4, <1>5
    <3> HIDE DEF other, text
    <3>2. QED
      BY <1>1, <3>1, ReadObjectFacts
  <2>4. Len(text[i].refs) = Len(object.refs)
    <3>1. text[i].refs \in Seq(Int)
      BY <1>4, <1>5
    <3>2. DOMAIN text[i].refs = 1..Len(text[i].refs) /\ Len(text[i].refs) \in Nat
      BY <3>1, LenProperties
    <3>3. DOMAIN text[i].refs = 1..Len(object.refs)
      BY <2>2
    <3>4. QED
      BY <2>1, <3>2, <3>3
  <2>5. ASSUME NEW k \in 1..Len(object.refs)
        PROVE  /\ Resolves(object.refs[k]) /\ Target(object.refs[k]) \in Ran(objects)
               /\ Resolves(other.refs[k]) /\ Target(other.refs[k]) \in Ran(others)
               /\ Position(objects, Target(object.refs[k]))
                  = Position(others, Target(other.refs[k]))
    <3> DEFINE p == Position(objects, Target(object.refs[k]))
    <3>1. Resolves(object.refs[k]) /\ Target(object.refs[k]) \in Ran(objects)
      BY <1>2, <2>1 DEF Writable, Ran
    <3>2. p \in 1..Len(objects)
      BY <1>2, <3>1, PositionInRange
    <3>3. other.refs[k] = TypeReference(f, p - 1)
      <4>1. WrittenRef(objects, object.refs[k]) = p - 1
        BY <3>1 DEF WrittenRef, FactoryOf
      <4>2. text[i].refs[k] = p - 1
        BY <2>2, <4>1
      <4>3. QED
        BY <2>3, <2>4, <4>2
    <3> HIDE DEF p, other, object
    <3>4. /\ Resolves(other.refs[k]) /\ Target(other.refs[k]) = others[p]
          /\ p \in 1..Len(others)
      BY <1>1, <1>4, <1>5, <3>2, <3>3 DEF TypeReference, Resolves, Target
    <3>5. others[p] \in Ran(others) /\ Position(others, others[p]) = p
      BY <1>3, <3>4, PositionUnique DEF Ran
    <3>6. QED
      BY <3>1, <3>4, <3>5 DEF p
  <2>6. object.kind = other.kind /\ Len(object.refs) = Len(other.refs)
    BY <2>2, <2>3, <2>4
  <2>7. QED
    BY <2>5, <2>6
<1>7. QED
  BY <1>1, <1>5, <1>6 DEF SameGraph

(* Reading what Serialize wrote gives the graph that was written, however  *)
(* much later, from whatever factories and in whatever order it was put    *)
(* together.                                                               *)
THEOREM GraphsRoundTrip == Spec => []ReadsWhatWasWritten
<1>1. Inv => ReadsWhatWasWritten
  BY ReadsBack DEF ReadsWhatWasWritten
<1>2. QED
  BY <1>1, Invariance, PTL

-----------------------------------------------------------------------------
(* A step appends to the list of a factory or leaves it alone.             *)
LEMMA TableStep ==
  ASSUME Inv, Inv', Grows, NEW f \in 1..MaxFactories
  PROVE  [Table(f)!Register]_(Types(f))
<1> SUFFICES ASSUME Types(f)' # Types(f) PROVE Table(f)!Register
  OBVIOUS
<1>1. Len(factories) \in Nat /\ Len(factories') \in Nat /\ f \in Nat
  BY BoundsAssumption DEF Inv, TypeOK
<1>2. CASE f <= Len(factories)
  <2>1. f \in 1..Len(factories) /\ f \in 1..Len(factories')
    BY <1>1, <1>2 DEF Grows
  <2>2. Types(f) = factories[f].types /\ Types(f)' = factories'[f].types
    BY <2>1 DEF Types
  <2>3. /\ Types(f) \in Seq(1..MaxObjects) /\ Types(f)' \in Seq(1..MaxObjects)
        /\ Distinct(Types(f)')
    <3>1. factories[f] \in Factory /\ factories'[f] \in Factory
      BY <2>1 DEF Inv, TypeOK
    <3>2. QED
      BY <2>1, <2>2, <3>1 DEF Inv, LookupInverse, Factory
  <2>4. /\ Len(Types(f)) <= Len(Types(f)')
        /\ \A i \in 1..Len(Types(f)) : Types(f)'[i] = Types(f)[i]
    BY <2>1, <2>2 DEF Grows
  <2>5. Len(Types(f)') # Len(Types(f))
    BY <2>3, <2>4, SeqEqual
  <2>6. QED
    BY <2>3, <2>4, <2>5 DEF Table!Register, Table!Distinct, Distinct
<1>3. CASE ~(f <= Len(factories))
  <2>1. Types(f) = <<>>
    BY <1>3 DEF Types
  <2>2. f <= Len(factories') /\ Types(f)' = factories'[f].types
    BY <2>1 DEF Types
  <2>3. Types(f)' \in Seq(1..MaxObjects) /\ Distinct(Types(f)')
    <3>1. f \in 1..Len(factories')
      BY <1>1, <2>2
    <3>2. factories'[f] \in Factory
      BY <3>1 DEF Inv, TypeOK
    <3>3. QED
      BY <2>2, <3>1, <3>2 DEF Inv, LookupInverse, Factory
  <2>4. Len(Types(f)') > Len(Types(f))
    BY <2>1, <2>3
  <2>5. QED
    BY <2>1, <2>3, <2>4 DEF Table!Register, Table!Distinct, Distinct
<1>4. QED
  BY <1>2, <1>3

(* Every C# factory is a TypeTable that only grows, Hydrate included.      *)
THEOREM FactoriesAreTables == Spec => FactoriesGrow
<1>1. Init => \A f \in 1..MaxFactories : Table(f)!Init
  <2> SUFFICES ASSUME Init, NEW f \in 1..MaxFactories PROVE Types(f) = <<>>
    BY DEF Table!Init
  <2>1. f = 1 \/ ~(f <= 1)
    BY BoundsAssumption
  <2>2. QED
    BY <2>1 DEF Init, Types, FactoryOf
<1>2. Inv /\ Inv' /\ [Next]_vars
      => [\A f \in 1..MaxFactories : [Table(f)!Register]_(Types(f))]_factories
  BY InvStep, TableStep
<1>3. QED
  BY <1>1, <1>2, Invariance, PTL DEF Spec, FactoriesGrow
==============================================================================
