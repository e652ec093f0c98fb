---------------------------- MODULE TsTypeFactory ----------------------------
(***************************************************************************)
(* The TypeScript type factory (bicep-types/src/types.ts), the one the     *)
(* emitter uses.  An object is identified by reference, as in Go, but the  *)
(* add... methods create the object themselves, so they never find it; to  *)
(* share equal string and integer types the factory keeps two caches,      *)
(* keyed by a text made of the constraints, and it holds one object each   *)
(* for any, null and boolean.                                              *)
(*                                                                         *)
(* Objects are numbered in the order they are created; heap[o] is what     *)
(* object o says of itself.  Objects 1, 2 and 3 are made with the factory. *)
(***************************************************************************)
EXTENDS Integers, Sequences, FiniteSets

CONSTANTS
  Bound,          \* values of minLength, maxLength, minValue, maxValue
  Pattern,        \* texts given as pattern
  Undefined,      \* an argument left out
  UndefinedText,  \* what a template literal prints for Undefined
  OtherKinds,     \* kinds whose add... method has no cache
  MaxObjects      \* bound: objects in the heap

(* A number or true never prints as the word undefined; a pattern may.     *)
ASSUME TextAssumption ==
  Undefined \notin Bound \cup Pattern \cup {TRUE} /\ UndefinedText \notin Bound \cup {TRUE}

ASSUME MaxObjectsAssumption == MaxObjects \in Nat /\ MaxObjects >= 3

VARIABLES
  heap,                \* the objects created
  types,               \* the objects registered, in order
  typeToTypeReference, \* index of each object, NoRef for those not registered
  stringTypeCache,     \* index remembered for a cache key, NoRef if none
  integerTypeCache,
  answers              \* history: what was asked of the two cached methods,
                       \* and the index they returned

vars == <<heap, types, typeToTypeReference, stringTypeCache, integerTypeCache, answers>>

NoRef == -1

Opt(S) == S \cup {Undefined}

StringType == [type : {"StringType"}, sensitive : Opt({TRUE}), minLength : Opt(Bound),
               maxLength : Opt(Bound), pattern : Opt(Pattern)]

IntegerType == [type : {"IntegerType"}, minValue : Opt(Bound), maxValue : Opt(Bound)]

Plain(k) == [type |-> k]

Singletons == <<Plain("AnyType"), Plain("NullType"), Plain("BooleanType")>>

(* `${v}`: what is left out prints as the word undefined.                  *)
Text(v) == IF v = Undefined THEN UndefinedText ELSE v

(* Mutant of StringKey: the pattern is no part of the key.                 *)
StringKeyNoPattern(t) ==
  <<Text(t.sensitive), Text(t.minLength), Text(t.maxLength), UndefinedText>>

(* The cache keys.  Only pattern is free text and it comes last, so that   *)
(* two keys are equal exactly when the texts of their parts are.           *)
StringKey(t) ==
  <<Text(t.sensitive), Text(t.minLength), Text(t.maxLength), Text(t.pattern)>>

IntegerKey(t) == <<Text(t.minValue), Text(t.maxValue)>>

lookupType(index) == heap[types[index + 1]]

-----------------------------------------------------------------------------
Init ==
  /\ heap = Singletons
  /\ types = <<>>
  /\ typeToTypeReference = [o \in 1..MaxObjects |-> NoRef]
  /\ stringTypeCache = [k \in {StringKey(t) : t \in StringType} |-> NoRef]
  /\ integerTypeCache = [k \in {IntegerKey(t) : t \in IntegerType} |-> NoRef]
  /\ answers = {}

(* Mutant of addType: appends without looking the object up.               *)
addTypeNoLookup(o) ==
  /\ types' = Append(types, o)
  /\ typeToTypeReference' = [typeToTypeReference EXCEPT ![o] = Len(types)]

(* An object is appended unless it is registered already.                  *)
addType(o) ==
  IF typeToTypeReference[o] # NoRef
  THEN UNCHANGED <<types, typeToTypeReference>>
  ELSE /\ types' = Append(types, o)
       /\ typeToTypeReference' = [typeToTypeReference EXCEPT ![o] = Len(types)]

(* An object literal: a new object each time the expression is evaluated.  *)
NewObject(t) ==
  /\ Len(heap) < MaxObjects
  /\ heap' = Append(heap, t)

(* A client makes an object without registering it, ...                    *)
Create(k) ==
  /\ NewObject(Plain(k))
  /\ UNCHANGED <<types, typeToTypeReference, stringTypeCache, integerTypeCache, answers>>

(* ... and registers, once or again, an object it holds; addAnyType,       *)
(* addNullType and addBooleanType register objects 1, 2 and 3.             *)
AddExisting(o) ==
  /\ addType(o)
  /\ UNCHANGED <<heap, stringTypeCache, integerTypeCache, answers>>

(* addObjectType, addUnionType, ...: every call adds an entry.             *)
AddOther(k) ==
  /\ NewObject(Plain(k))
  /\ addType(Len(heap) + 1)
  /\ UNCHANGED <<stringTypeCache, integerTypeCache, answers>>

addStringType(t) ==
  /\ IF stringTypeCache[StringKey(t)] # NoRef
     THEN /\ answers' = answers \cup {[asked |-> t, index |-> stringTypeCache[StringKey(t)]]}
          /\ UNCHANGED <<heap, types, typeToTypeReference, stringTypeCache>>
     ELSE /\ NewObject(t)
          /\ addType(Len(heap) + 1)
          /\ stringTypeCache' = [stringTypeCache EXCEPT ![StringKey(t)] = Len(types)]
          /\ answers' = answers \cup {[asked |-> t, index |-> Len(types)]}
  /\ UNCHANGED integerTypeCache

(* Mutant of addIntegerType: never writes to its cache.                    *)
addIntegerTypeNotCached(t) ==
  /\ NewObject(t)
  /\ addType(Len(heap) + 1)
  /\ answers' = answers \cup {[asked |-> t, index |-> Len(types)]}
  /\ UNCHANGED <<stringTypeCache, integerTypeCache>>

addIntegerType(t) ==
  /\ IF integerTypeCache[IntegerKey(t)] # NoRef
     THEN /\ answers' = answers \cup {[asked |-> t, index |-> integerTypeCache[IntegerKey(t)]]}
          /\ UNCHANGED <<heap, types, typeToTypeReference, integerTypeCache>>
     ELSE /\ NewObject(t)
          /\ addType(Len(heap) + 1)
          /\ integerTypeCache' = [integerTypeCache EXCEPT ![IntegerKey(t)] = Len(types)]
          /\ answers' = answers \cup {[asked |-> t, index |-> Len(types)]}
  /\ UNCHANGED stringTypeCache

Next ==
  \/ \E k \in OtherKinds : Create(k) \/ AddOther(k)
  \/ \E o \in 1..Len(heap) : AddExisting(o)
  \/ \E t \in StringType : addStringType(t)
  \/ \E t \in IntegerType : addIntegerType(t)

Spec == Init /\ [][Next]_vars

-----------------------------------------------------------------------------
(* A reference that addStringType or addIntegerType returned denotes a     *)
(* type with the constraints that were asked for, although it may have     *)
(* been made for another call.  The one exception is built into the key:   *)
(* a pattern that is literally the word undefined shares its entry with a  *)
(* pattern left out.                                                       *)
AmbiguousPattern(t) ==
  t.type = "StringType" /\ Text(t.pattern) = UndefinedText /\ UndefinedText \in Pattern

CachedRefsFaithful ==
  \A a \in answers : AmbiguousPattern(a.asked) \/ lookupType(a.index) = a.asked

(* Asking twice for the same constraints gives the same entry, and asking  *)
(* for different ones different entries, the same exception apart.         *)
EqualTypesShared ==
  \A a, b \in answers : AmbiguousPattern(a.asked) \/ (a.asked = b.asked <=> a.index = b.index)

(* The factory is a table that only grows: it has no Reset.                *)
Table == INSTANCE TypeTable WITH Type <- 1..MaxObjects, table <- types

ImplementsTable == Table!AppendOnlySpec
==============================================================================
