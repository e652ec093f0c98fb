---------------------------- MODULE CsTypeFactory ----------------------------
(***************************************************************************)
(* The C# type factory (Bicep.Types/Concrete/TypeFactory.cs) with the      *)
(* serializer that writes and reads types.json through it                  *)
(* (Serialization/TypeSerializer.cs).                                      *)
(*                                                                         *)
(* A reference is a pair of a factory and an index, and is looked up only  *)
(* when it is used: a reference may be made before its type exists, which  *)
(* is how a file with cycles can be read.  Types are immutable classes     *)
(* compared by identity; heap[o] is what object o holds.  When a method    *)
(* throws, what it had changed by then stays changed.                      *)
(***************************************************************************)
EXTENDS Integers, Sequences, FiniteSets

CONSTANTS
  Kind,          \* classes of types
  Malformed,     \* in a text: a value that is no reference "#/i"
  NullEntry,     \* in a text: null where a type should be
  InputTexts,    \* texts of files that some other program wrote
  MaxRefs,       \* bound: references of an object
  MaxNew,        \* bound: objects in the heap when a client makes one
  MaxObjects,    \* bound: objects in the heap
  MaxFactories,  \* bound: factories
  MaxIndex,      \* bound: indexes asked for with GetReference(int)
  MaxArray,      \* bound: length of the arrays of types clients make
  MaxWrites      \* bound: different results of Serialize

ASSUME BoundsAssumption ==
  /\ {MaxRefs, MaxNew, MaxObjects, MaxFactories, MaxIndex, MaxArray, MaxWrites} \subseteq Nat
  /\ MaxNew <= MaxObjects

(* A text is JSON of the right shape: anything else is refused before a    *)
(* type is read.                                                           *)
ASSUME TextAssumption ==
  /\ Malformed \notin Int
  /\ InputTexts \subseteq
       Seq({NullEntry} \cup [kind : Kind, refs : Seq(Int \cup {Malformed})])

VARIABLES
  heap,       \* the objects in the order they were created
  factories,  \* the fields of each factory
  writes,     \* history: the arrays Serialize wrote, with the text
  reads       \* history: the texts Deserialize read, with the factory it used

vars == <<heap, factories, writes, reads>>

Distinct(s) == \A i, j \in 1..Len(s) : s[i] = s[j] => i = j

Ran(s) == {s[i] : i \in 1..Len(s)}

Position(s, o) == CHOOSE i \in 1..Len(s) : s[i] = o

(* A factory with these types; typeLookup maps each back to its index.     *)
FactoryOf(objects) ==
  [types |-> objects,
   typeLookup |-> [o \in Ran(objects) |-> Position(objects, o) - 1]]

(* Adding a type; typeLookup refuses one it holds.                         *)
AddType(factory, o) ==
  [types |-> Append(factory.types, o),
   typeLookup |-> [p \in DOMAIN factory.typeLookup \cup {o} |->
                     IF p = o THEN Len(factory.types) ELSE factory.typeLookup[p]]]

TypeReference(f, index) == [factory |-> f, index |-> index]

Resolves(ref) == ref.index \in 0..(Len(factories[ref.factory].types) - 1)

Target(ref) == factories[ref.factory].types[ref.index + 1]

(* The factory made by Deserialize is never seen by a client.              *)
Owned == (1..Len(factories)) \ {r.factory : r \in reads}

(* What a client can get hold of: GetReference(int) does not check the     *)
(* index, and references of a file that was read are among the objects'.   *)
References ==
  [factory : Owned, index : 0..MaxIndex]
  \cup UNION {Ran(heap[o].refs) : o \in 1..Len(heap)}

RefLists == UNION {[1..n -> References] : n \in 0..MaxRefs}

Arrays == UNION {[1..n -> 1..Len(heap)] : n \in 0..MaxArray}

-----------------------------------------------------------------------------
Init ==
  /\ heap = <<>>
  /\ factories = <<FactoryOf(<<>>)>>
  /\ writes = {}
  /\ reads = {}

(* new ObjectType(...) and the like.                                       *)
New(k, refs) ==
  /\ Len(heap) < MaxNew
  /\ heap' = Append(heap, [kind |-> k, refs |-> refs])
  /\ UNCHANGED <<factories, writes, reads>>

(* new TypeFactory(types): building typeLookup throws for a duplicate, and *)
(* then there is no factory.                                               *)
NewFactory(objects) ==
  /\ Len(factories) < MaxFactories
  /\ Distinct(objects)
  /\ factories' = Append(factories, FactoryOf(objects))
  /\ UNCHANGED <<heap, writes, reads>>

(* Mutant of Create: checks nothing.                                       *)
CreateUnchecked(f, o) ==
  /\ factories' = [factories EXCEPT ![f] = AddType(@, o)]
  /\ UNCHANGED <<heap, writes, reads>>

(* Create(createFunc) adds the object createFunc returns, which need not   *)
(* be a new one; it throws when the factory has it.                        *)
Create(f, o) ==
  /\ o \notin DOMAIN factories[f].typeLookup
  /\ factories' = [factories EXCEPT ![f] = AddType(@, o)]
  /\ UNCHANGED <<heap, writes, reads>>

(* How far Hydrate comes before it meets a type a second time.             *)
UpToDuplicate(objects) ==
  LET n == CHOOSE n \in 0..Len(objects) :
             /\ Distinct(SubSeq(objects, 1, n))
             /\ n = Len(objects) \/ ~Distinct(SubSeq(objects, 1, n + 1))
  IN  SubSeq(objects, 1, n)

(* Mutant of Hydrate: may be called on a factory that has types.           *)
HydrateAgain(f, objects) ==
  /\ objects # <<>>
  /\ factories' = [factories EXCEPT ![f] = FactoryOf(UpToDuplicate(objects))]
  /\ UNCHANGED <<heap, writes, reads>>

(* Hydrate wants an empty factory.  When it throws at a duplicate the      *)
(* types before it stay.                                                   *)
Hydrate(f, objects) ==
  /\ factories[f].types = <<>>
  /\ DOMAIN factories[f].typeLookup = {}
  /\ factories' = [factories EXCEPT ![f] = FactoryOf(UpToDuplicate(objects))]
  /\ UNCHANGED <<heap, writes, reads>>

-----------------------------------------------------------------------------
(* An array can be written when it has no duplicates, so that a factory    *)
(* can be made of it, every reference resolves, and to a type of the array.*)
Writable(objects) ==
  /\ Distinct(objects)
  /\ \A o \in Ran(objects) : \A ref \in Ran(heap[o].refs) :
       Resolves(ref) /\ Target(ref) \in Ran(objects)

(* Mutant of WrittenRef: the index the reference has in its own factory.   *)
WrittenRefOwnIndex(objects, ref) == ref.index

(* References are written as the place their type has in the array, not in *)
(* the factory they were made by.                                          *)
WrittenRef(objects, ref) == FactoryOf(objects).typeLookup[Target(ref)]

TextOf(objects) ==
  [i \in 1..Len(objects) |->
     LET object == heap[objects[i]]
     IN  [kind |-> object.kind,
          refs |-> [k \in 1..Len(object.refs) |-> WrittenRef(objects, object.refs[k])]]]

Serialize(objects) ==
  /\ Cardinality(writes) < MaxWrites
  /\ Writable(objects)
  /\ writes' = writes \cup {[objects |-> objects, text |-> TextOf(objects)]}
  /\ UNCHANGED <<heap, factories, reads>>

(* A text with a malformed reference or a null entry is refused.           *)
Readable(text) ==
  \A i \in 1..Len(text) :
    text[i] # NullEntry /\ \A k \in 1..Len(text[i].refs) : text[i].refs[k] # Malformed

(* Mutant of Deserialize: all readers share the first factory.             *)
DeserializeShared(text) ==
  LET base == Len(heap)
      objects == [i \in 1..Len(text) |-> base + i]
  IN  /\ Readable(text)
      /\ base + Len(text) <= MaxObjects
      /\ Len(factories) < MaxFactories
      /\ heap' = heap \o [i \in 1..Len(text) |->
                   [kind |-> text[i].kind,
                    refs |-> [k \in 1..Len(text[i].refs) |-> TypeReference(1, text[i].refs[k])]]]
      /\ factories' = Append(factories, FactoryOf(objects))
      /\ reads' = reads \cup {[text |-> text, factory |-> Len(factories) + 1]}
      /\ UNCHANGED writes

(* Deserialize gives the references of the text to a new factory while it  *)
(* is empty and then hydrates it with the types it has read.               *)
Deserialize(text) ==
  LET base == Len(heap)
      new == Len(factories) + 1
      objects == [i \in 1..Len(text) |-> base + i]
  IN  /\ Readable(text)
      /\ base + Len(text) <= MaxObjects
      /\ Len(factories) < MaxFactories
      /\ heap' = heap \o [i \in 1..Len(text) |->
                   [kind |-> text[i].kind,
                    refs |-> [k \in 1..Len(text[i].refs) |-> TypeReference(new, text[i].refs[k])]]]
      /\ factories' = Append(factories, FactoryOf(objects))
      /\ reads' = reads \cup {[text |-> text, factory |-> new]}
      /\ UNCHANGED writes

Next ==
  \/ \E k \in Kind, refs \in RefLists : New(k, refs)
  \/ \E objects \in Arrays : NewFactory(objects) \/ Serialize(objects)
  \/ \E f \in Owned : \/ \E o \in 1..Len(heap) : Create(f, o)
                      \/ \E objects \in Arrays : Hydrate(f, objects)
  \/ \E text \in InputTexts \cup {w.text : w \in writes} : Deserialize(text)

Spec == Init /\ [][Next]_vars

-----------------------------------------------------------------------------
(* A factory's list has no duplicates and typeLookup is its inverse, even  *)
(* after a Hydrate that threw half way.                                    *)
LookupInverse ==
  \A f \in 1..Len(factories) :
    /\ Distinct(factories[f].types)
    /\ factories[f] = FactoryOf(factories[f].types)

(* The types that were read look like those that were written: as many, of *)
(* the same classes, each referring to the types at the same places.       *)
SameGraph(objects, others) ==
  /\ Len(objects) = Len(others)
  /\ \A i \in 1..Len(objects) :
       LET object == heap[objects[i]]
           other == heap[others[i]]
       IN  /\ object.kind = other.kind
           /\ Len(object.refs) = Len(other.refs)
           /\ \A k \in 1..Len(object.refs) :
                /\ Resolves(object.refs[k]) /\ Target(object.refs[k]) \in Ran(objects)
                /\ Resolves(other.refs[k]) /\ Target(other.refs[k]) \in Ran(others)
                /\ Position(objects, Target(object.refs[k])) = Position(others, Target(other.refs[k]))

(* Reading what was written gives the same graph of types, whatever order  *)
(* the array had, from however many factories its types came, and whatever *)
(* was created since.                                                      *)
ReadsWhatWasWritten ==
  \A w \in writes, r \in reads :
    r.text = w.text => SameGraph(w.objects, factories[r.factory].types)

(* The types read from a text whose references are in range can be written *)
(* again and give that text, also when other files have been read since.   *)
InRange(text) ==
  \A i \in 1..Len(text) : \A k \in 1..Len(text[i].refs) : text[i].refs[k] \in 0..(Len(text) - 1)

WritesWhatWasRead ==
  \A r \in reads : InRange(r.text) =>
    LET objects == factories[r.factory].types
    IN  Writable(objects) /\ TextOf(objects) = r.text

(* A factory is a table that only grows, so a reference that resolves      *)
(* keeps its type: Table(f)!AppendOnlySpec holds for every f.              *)
Types(f) == IF f <= Len(factories) THEN factories[f].types ELSE <<>>

Table(f) == INSTANCE TypeTable WITH Type <- 1..MaxObjects, table <- Types(f)

FactoriesGrow ==
  /\ \A f \in 1..MaxFactories : Table(f)!Init
  /\ [][\A f \in 1..MaxFactories : [Table(f)!Register]_(Types(f))]_factories
==============================================================================
