------------------------- MODULE TsTypeFactoryProofs -------------------------
(***************************************************************************)
(* Proofs about TsTypeFactory, for any constraints, patterns and bound on  *)
(* the heap.                                                               *)
(*                                                                         *)
(* What an answer promises rests on three facts the code keeps in separate *)
(* maps: the table and typeToTypeReference are inverse to each other, so a *)
(* new object really goes to the end; a cache entry denotes a type that    *)
(* has the entry's key; and every answer is what the cache holds.  The     *)
(* caches are never cleared and the table only grows, which keeps the      *)
(* entries valid; from the key to the constraints leads KeysTellApart.     *)
(***************************************************************************)
EXTENDS TsTypeFactory, SequenceTheorems, TLAPS

Object ==
  StringType \cup IntegerType
  \cup {Plain(k) : k \in OtherKinds \cup {"AnyType", "NullType", "BooleanType"}}

Answer == [asked : StringType \cup IntegerType, index : Nat]

TypeOK ==
  /\ heap \in Seq(Object) /\ Len(heap) <= MaxObjects
  /\ types \in Seq(1..Len(heap))
  /\ typeToTypeReference \in [1..MaxObjects -> Int]
  /\ stringTypeCache \in [{StringKey(t) : t \in StringType} -> Int]
  /\ integerTypeCache \in [{IntegerKey(t) : t \in IntegerType} -> Int]
  /\ answers \subseteq Answer

(* The position of o in the table is where the map says, if anywhere.      *)
TableMapInverse ==
  /\ \A o \in 1..MaxObjects : typeToTypeReference[o] # NoRef =>
       /\ typeToTypeReference[o] \in 0..(Len(types) - 1)
       /\ types[typeToTypeReference[o] + 1] = o
  /\ \A i \in 1..Len(types) : typeToTypeReference[types[i]] = i - 1

StringEntry(k) ==
  /\ stringTypeCache[k] \in 0..(Len(types) - 1)
  /\ lookupType(stringTypeCache[k]) \in StringType
  /\ StringKey(lookupType(stringTypeCache[k])) = k

IntegerEntry(k) ==
  /\ integerTypeCache[k] \in 0..(Len(types) - 1)
  /\ lookupType(integerTypeCache[k]) \in IntegerType
  /\ IntegerKey(lookupType(integerTypeCache[k])) = k

CachesOK ==
  /\ \A k \in DOMAIN stringTypeCache : stringTypeCache[k] # NoRef => StringEntry(k)
  /\ \A k \in DOMAIN integerTypeCache : integerTypeCache[k] # NoRef => IntegerEntry(k)

AnswersCached ==
  \A a \in answers :
    /\ a.asked \in StringType => stringTypeCache[StringKey(a.asked)] = a.index
    /\ a.asked \in IntegerType => integerTypeCache[IntegerKey(a.asked)] = a.index

Inv == TypeOK /\ TableMapInverse /\ CachesOK /\ AnswersCached

-----------------------------------------------------------------------------
(* The template literal loses nothing but the difference between a pattern *)
(* left out and the pattern that is the word undefined: two sets of        *)
(* constraints with the same key are equal, that one case apart.           *)
LEMMA KeysTellApart ==
  /\ \A s, t \in StringType :
       StringKey(s) = StringKey(t) /\ ~AmbiguousPattern(s) => s = t
  /\ \A s, t \in IntegerType : IntegerKey(s) = IntegerKey(t) => s = t
<1>1. ASSUME NEW S, Undefined \notin S, UndefinedText \notin S,
             NEW v \in Opt(S), NEW w \in Opt(S), Text(v) = Text(w)
      PROVE  v = w
  BY <1>1 DEF Opt, Text
<1>2. /\ Undefined \notin Bound /\ UndefinedText \notin Bound
      /\ Undefined \notin {TRUE} /\ UndefinedText \notin {TRUE}
  BY TextAssumption
<1>3. ASSUME NEW s \in StringType, NEW t \in StringType,
             StringKey(s) = StringKey(t), ~AmbiguousPattern(s)
      PROVE  s = t
  <2>1. /\ Text(s.sensitive) = Text(t.sensitive)
        /\ Text(s.minLength) = Text(t.minLength)
        /\ Text(s.maxLength) = Text(t.maxLength)
        /\ Text(s.pattern) = Text(t.pattern)
    BY <1>3 DEF StringKey
  <2>2. s.pattern = t.pattern
    BY <1>3, <2>1, TextAssumption DEF AmbiguousPattern, StringType, Text, Opt
  <2>3. s.minLength = t.minLength /\ s.maxLength = t.maxLength
    BY <1>1, <1>2, <2>1 DEF StringType
  <2>4. s.sensitive = t.sensitive
    <3>1. s.sensitive \in Opt({TRUE}) /\ t.sensitive \in Opt({TRUE})
      BY DEF StringType
    <3>2. QED
      BY <1>1, <1>2, <2>1, <3>1
  <2>5. QED
    BY <2>2, <2>3, <2>4 DEF StringType
<1>4. ASSUME NEW s \in IntegerType, NEW t \in IntegerType, IntegerKey(s) = IntegerKey(t)
      PROVE  s = t
  <2>1. s.minValue = t.minValue /\ s.maxValue = t.maxValue
    BY <1>1, <1>2, <1>4 DEF IntegerKey, IntegerType
  <2>2. QED
    BY <2>1 DEF IntegerType
<1>5. QED
  BY <1>3, <1>4

(* String and integer types are told apart by their type field.            *)
LEMMA KindsDisjoint == StringType \cap IntegerType = {}
BY DEF StringType, IntegerType

(* addType on a heap that may have grown: the table is extended or left    *)
(* alone, stays the inverse of the map, and every index keeps its type.    *)
LEMMA AddTypeFacts ==
  ASSUME Inv, NEW o \in 1..MaxObjects, addType(o),
         heap' \in Seq(Object), o <= Len(heap'), Len(heap) <= Len(heap'),
         \A i \in 1..Len(heap) : heap'[i] = heap[i]
  PROVE  /\ types' \in Seq(1..Len(heap'))
         /\ typeToTypeReference' \in [1..MaxObjects -> Int]
         /\ TableMapInverse'
         /\ Len(types) <= Len(types')
         /\ \A n \in 0..(Len(types) - 1) : lookupType(n)' = lookupType(n)
<1> USE DEF Inv, TypeOK
<1>n. Len(types) \in Nat /\ Len(heap) \in Nat /\ Len(heap') \in Nat
  OBVIOUS
<1>s. types \in Seq(1..Len(heap'))
  <2>1. 1..Len(heap) \subseteq 1..Len(heap')
    BY <1>n
  <2>2. QED
    BY <2>1
<1>1. CASE typeToTypeReference[o] # NoRef
  <2>1. UNCHANGED <<types, typeToTypeReference>>
    BY <1>1 DEF addType
  <2>2. \A n \in 0..(Len(types) - 1) : types[n + 1] \in 1..Len(heap)
    BY <1>n
  <2>3. QED
    BY <1>n, <1>s, <2>1, <2>2 DEF TableMapInverse, lookupType
<1>2. CASE typeToTypeReference[o] = NoRef
  <2>1. /\ types' = Append(types, o)
        /\ typeToTypeReference' = [typeToTypeReference EXCEPT ![o] = Len(types)]
    BY <1>2 DEF addType
  <2>2. o \in 1..Len(heap')
    BY <1>n
  <2>3. /\ types' \in Seq(1..Len(heap')) /\ Len(types') = Len(types) + 1
        /\ \A i \in 1..Len(types) : types'[i] = types[i]
        /\ types'[Len(types) + 1] = o
    BY <1>s, <2>1, <2>2
  <2>4. \A i \in 1..Len(types) : types[i] # o /\ types[i] \in 1..MaxObjects
    <3>1. ASSUME NEW i \in 1..Len(types) PROVE types[i] # o /\ types[i] \in 1..MaxObjects
      <4>1. typeToTypeReference[types[i]] = i - 1 /\ i - 1 # NoRef
        BY <1>n DEF TableMapInverse, NoRef
      <4>2. types[i] \in 1..Len(heap) /\ 1..Len(heap) \subseteq 1..MaxObjects
        BY <1>n, MaxObjectsAssumption
      <4>3. QED
        BY <1>2, <4>1, <4>2
    <3>2. QED
      BY <3>1
  <2>5. TableMapInverse'
    <3>1. ASSUME NEW q \in 1..MaxObjects, typeToTypeReference'[q] # NoRef
          PROVE  /\ typeToTypeReference'[q] \in 0..(Len(types') - 1)
                 /\ types'[typeToTypeReference'[q] + 1] = q
      <4>1. CASE q = o
        BY <1>n, <2>1, <2>3, <4>1
      <4>2. CASE q # o
        <5>1. typeToTypeReference'[q] = typeToTypeReference[q]
          BY <2>1, <4>2
        <5>2. /\ typeToTypeReference[q] \in 0..(Len(types) - 1)
              /\ types[typeToTypeReference[q] + 1] = q
          BY <3>1, <5>1 DEF TableMapInverse
        <5>3. typeToTypeReference[q] + 1 \in 1..Len(types)
          BY <1>n, <5>2
        <5>4. QED
          BY <1>n, <2>3, <5>1, <5>2, <5>3
      <4>3. QED
        BY <4>1, <4>2
    <3>2. ASSUME NEW i \in 1..Len(types')
          PROVE  typeToTypeReference'[types'[i]] = i - 1
      <4>1. CASE i = Len(types) + 1
        BY <1>n, <2>1, <2>3, <4>1
      <4>2. CASE i \in 1..Len(types)
        <5>1. types'[i] = types[i] /\ types[i] # o /\ types[i] \in 1..MaxObjects
          BY <2>3, <2>4, <4>2
        <5>2. typeToTypeReference'[types[i]] = typeToTypeReference[types[i]]
          BY <2>1, <5>1
        <5>3. QED
          BY <4>2, <5>1, <5>2 DEF TableMapInverse
      <4>3. QED
        BY <1>n, <2>3, <4>1, <4>2
    <3>3. QED
      BY <3>1, <3>2 DEF TableMapInverse
  <2>6. ASSUME NEW n \in 0..(Len(types) - 1) PROVE lookupType(n)' = lookupType(n)
    <3>1. n + 1 \in 1..Len(types) /\ types[n + 1] \in 1..Len(heap)
      BY <1>n
    <3>2. QED
      BY <2>3, <3>1 DEF lookupType
  <2>7. QED
    BY <1>n, <2>1, <2>3, <2>5, <2>6
<1>3. QED
  BY <1>1, <1>2

(* An object literal given to addType: it goes to the end of the table.    *)
LEMMA NewEntryFacts ==
  ASSUME Inv, NEW t \in Object, NewObject(t), addType(Len(heap) + 1)
  PROVE  /\ heap' \in Seq(Object) /\ Len(heap') <= MaxObjects
         /\ types' \in Seq(1..Len(heap'))
         /\ typeToTypeReference' \in [1..MaxObjects -> Int]
         /\ TableMapInverse'
         /\ Len(types') = Len(types) + 1
         /\ \A n \in 0..(Len(types) - 1) : lookupType(n)' = lookupType(n)
         /\ heap'[types'[Len(types) + 1]] = t
<1> DEFINE o == Len(heap) + 1
<1> USE DEF Inv, TypeOK
<1>1. /\ heap' = Append(heap, t) /\ Len(heap) < MaxObjects
      /\ Len(heap) \in Nat /\ Len(types) \in Nat
  BY DEF NewObject
<1>2. /\ heap' \in Seq(Object) /\ Len(heap') = o /\ heap'[o] = t
      /\ \A i \in 1..Len(heap) : heap'[i] = heap[i]
  BY <1>1
<1>3. o \in 1..MaxObjects /\ o <= Len(heap') /\ Len(heap) <= Len(heap') /\ Len(heap') <= MaxObjects
  BY <1>1, <1>2, MaxObjectsAssumption
<1>4. typeToTypeReference[o] = NoRef
  <2>1. ASSUME typeToTypeReference[o] # NoRef PROVE FALSE
    <3>1. /\ typeToTypeReference[o] \in 0..(Len(types) - 1)
          /\ types[typeToTypeReference[o] + 1] = o
      BY <1>3, <2>1 DEF TableMapInverse
    <3>2. typeToTypeReference[o] + 1 \in 1..Len(types)
      BY <1>1, <3>1
    <3>3. o \in 1..Len(heap)
      BY <3>1, <3>2
    <3>4. QED
      BY <1>1, <3>3
  <2>2. QED
    BY <2>1
<1>5. types' = Append(types, o)
  BY <1>4 DEF addType
<1>6. Len(types') = Len(types) + 1 /\ types'[Len(types) + 1] = o
  BY <1>5
<1>7. heap'[types'[Len(types) + 1]] = t
  BY <1>2, <1>6
<1>8. QED
  BY <1>2, <1>3, <1>6, <1>7, AddTypeFacts

(* Cache entries of a table that is extended or left alone stay good.      *)
LEMMA EntriesKept ==
  ASSUME Inv, types' \in Seq(1..Len(heap')), Len(types) <= Len(types'),
         \A n \in 0..(Len(types) - 1) : lookupType(n)' = lookupType(n)
  PROVE  /\ \A k \in DOMAIN stringTypeCache :
              stringTypeCache'[k] = stringTypeCache[k] /\ stringTypeCache[k] # NoRef
              => StringEntry(k)'
         /\ \A k \in DOMAIN integerTypeCache :
              integerTypeCache'[k] = integerTypeCache[k] /\ integerTypeCache[k] # NoRef
              => IntegerEntry(k)'
<1>1. /\ Len(types) \in Nat /\ Len(types') \in Nat
      /\ 0..(Len(types) - 1) \subseteq 0..(Len(types') - 1)
  BY DEF Inv, TypeOK
<1>2. ASSUME NEW k \in DOMAIN stringTypeCache,
             stringTypeCache'[k] = stringTypeCache[k], stringTypeCache[k] # NoRef
      PROVE  StringEntry(k)'
  <2>1. StringEntry(k)
    BY <1>2 DEF Inv, CachesOK
  <2>2. lookupType(stringTypeCache[k])' = lookupType(stringTypeCache[k])
    BY <1>2, <2>1 DEF StringEntry, lookupType
  <2>3. QED
    BY <1>1, <1>2, <2>1, <2>2 DEF StringEntry
<1>3. ASSUME NEW k \in DOMAIN integerTypeCache,
             integerTypeCache'[k] = integerTypeCache[k], integerTypeCache[k] # NoRef
      PROVE  IntegerEntry(k)'
  <2>1. IntegerEntry(k)
    BY <1>3 DEF Inv, CachesOK
  <2>2. lookupType(integerTypeCache[k])' = lookupType(integerTypeCache[k])
    BY <1>3, <2>1 DEF IntegerEntry, lookupType
  <2>3. QED
    BY <1>1, <1>3, <2>1, <2>2 DEF IntegerEntry
<1>4. QED
  BY <1>2, <1>3

-----------------------------------------------------------------------------
(* One lemma per action.                                                   *)

(* A step that leaves the caches alone, and every type under the number    *)
(* it had, keeps the invariant.                                            *)
LEMMA CachesUntouched ==
  ASSUME Inv, TableMapInverse', UNCHANGED <<stringTypeCache, integerTypeCache, answers>>,
         heap' \in Seq(Object), Len(heap') <= MaxObjects, types' \in Seq(1..Len(heap')),
         typeToTypeReference' \in [1..MaxObjects -> Int], Len(types) <= Len(types'),
         \A n \in 0..(Len(types) - 1) : lookupType(n)' = lookupType(n)
  PROVE  Inv'
<1>1. TypeOK' /\ AnswersCached'
  BY DEF Inv, TypeOK, AnswersCached
<1>2. CachesOK'
  BY EntriesKept DEF CachesOK
<1>3. QED
  BY <1>1, <1>2 DEF Inv

(* Adding an object again, or one made before, keeps the invariant.        *)
LEMMA AddExistingStep ==
  ASSUME Inv, NEW o \in 1..Len(heap), AddExisting(o)
  PROVE  Inv'
<1>1. /\ addType(o) /\ UNCHANGED <<heap, stringTypeCache, integerTypeCache, answers>>
      /\ heap \in Seq(Object) /\ Len(heap) <= MaxObjects
  BY DEF AddExisting, Inv, TypeOK
<1>2. o \in 1..MaxObjects /\ o <= Len(heap) /\ Len(heap) <= Len(heap)
  BY <1>1, MaxObjectsAssumption
<1>3. QED
  BY <1>1, <1>2, AddTypeFacts, CachesUntouched

(* Making an object keeps the invariant.                                   *)
LEMMA CreateStep ==
  ASSUME Inv, NEW k \in OtherKinds, Create(k)
  PROVE  Inv'
<1> USE DEF Inv, TypeOK
<1>1. /\ heap' = Append(heap, Plain(k)) /\ Len(heap) < MaxObjects /\ Len(heap) \in Nat
      /\ UNCHANGED <<types, typeToTypeReference, stringTypeCache, integerTypeCache, answers>>
      /\ Plain(k) \in Object
  BY DEF Create, NewObject, Object
<1>2. /\ heap' \in Seq(Object) /\ Len(heap') = Len(heap) + 1
      /\ \A i \in 1..Len(heap) : heap'[i] = heap[i]
  BY <1>1
<1>3. Len(heap') <= MaxObjects /\ types' \in Seq(1..Len(heap'))
  <2>1. 1..Len(heap) \subseteq 1..Len(heap')
    BY <1>1, <1>2
  <2>2. QED
    BY <1>1, <1>2, <2>1, MaxObjectsAssumption
<1>4. ASSUME NEW n \in 0..(Len(types) - 1) PROVE lookupType(n)' = lookupType(n)
  <2>1. types[n + 1] \in 1..Len(heap)
    OBVIOUS
  <2>2. QED
    BY <1>1, <1>2, <2>1 DEF lookupType
<1>5. TableMapInverse' /\ Len(types) <= Len(types')
  BY <1>1 DEF TableMapInverse
<1>6. QED
  BY <1>1, <1>2, <1>3, <1>4, <1>5, CachesUntouched

(* The add methods that make an object on each call keep the invariant.    *)
LEMMA AddOtherStep ==
  ASSUME Inv, NEW k \in OtherKinds, AddOther(k)
  PROVE  Inv'
<1>1. /\ Plain(k) \in Object /\ NewObject(Plain(k)) /\ addType(Len(heap) + 1)
      /\ UNCHANGED <<stringTypeCache, integerTypeCache, answers>>
  BY DEF AddOther, Object
<1>2. Len(types) \in Nat
  BY DEF Inv, TypeOK
<1>3. QED
  BY <1>1, <1>2, NewEntryFacts, CachesUntouched

(* addStringType keeps the invariant, on a hit of its cache and on a       *)
(* miss.                                                                   *)
LEMMA addStringTypeStep ==
  ASSUME Inv, NEW t \in StringType, addStringType(t)
  PROVE  Inv'
<1> DEFINE key == StringKey(t)
<1> USE DEF Inv
<1>1. /\ key \in DOMAIN stringTypeCache /\ Len(types) \in Nat
      /\ t \notin IntegerType /\ t \in Object
      /\ DOMAIN stringTypeCache = {StringKey(s) : s \in StringType}
  BY KindsDisjoint DEF TypeOK, Object
<1>2. CASE stringTypeCache[key] # NoRef
  <2>1. /\ answers' = answers \cup {[asked |-> t, index |-> stringTypeCache[key]]}
        /\ UNCHANGED <<heap, types, typeToTypeReference, stringTypeCache, integerTypeCache>>
    BY <1>2 DEF addStringType
  <2>2. stringTypeCache[key] \in Nat
    BY <1>1, <1>2 DEF CachesOK, StringEntry
  <2>3. TypeOK'
    BY <2>1, <2>2 DEF TypeOK, Answer
  <2>4. TableMapInverse' /\ CachesOK'
    BY <2>1 DEF TableMapInverse, CachesOK, StringEntry, IntegerEntry, lookupType
  <2>5. AnswersCached'
    BY <1>1, <2>1 DEF AnswersCached
  <2>6. QED
    BY <2>3, <2>4, <2>5
<1>3. CASE stringTypeCache[key] = NoRef
  <2>1. /\ NewObject(t) /\ addType(Len(heap) + 1)
        /\ stringTypeCache' = [stringTypeCache EXCEPT ![key] = Len(types)]
        /\ answers' = answers \cup {[asked |-> t, index |-> Len(types)]}
        /\ UNCHANGED integerTypeCache
    BY <1>3 DEF addStringType
  <2>2. /\ heap' \in Seq(Object) /\ Len(heap') <= MaxObjects
        /\ types' \in Seq(1..Len(heap'))
        /\ typeToTypeReference' \in [1..MaxObjects -> Int]
        /\ TableMapInverse'
        /\ Len(types') = Len(types) + 1
        /\ \A n \in 0..(Len(types) - 1) : lookupType(n)' = lookupType(n)
        /\ heap'[types'[Len(types) + 1]] = t
    BY <1>1, <2>1, NewEntryFacts
  <2>3. TypeOK'
    <3>1. stringTypeCache' \in [{StringKey(s) : s \in StringType} -> Int]
      BY <1>1, <2>1 DEF TypeOK
    <3>2. answers' \subseteq Answer
      BY <1>1, <2>1 DEF TypeOK, Answer
    <3>3. QED
      BY <2>1, <2>2, <3>1, <3>2 DEF TypeOK
  <2>4. CachesOK'
    <3>1. ASSUME NEW k \in DOMAIN stringTypeCache', stringTypeCache'[k] # NoRef
          PROVE  StringEntry(k)'
      <4>1. k \in DOMAIN stringTypeCache
        BY <2>1
      <4>2. CASE k # key
        BY <1>1, <2>1, <2>2, <3>1, <4>1, <4>2, EntriesKept
      <4>3. CASE k = key
        <5>1. stringTypeCache'[k] = Len(types)
          BY <1>1, <2>1, <4>3
        <5>2. heap'[types'[stringTypeCache'[k] + 1]] = t
          BY <2>2, <5>1
        <5>3. QED
          BY <1>1, <2>2, <4>3, <5>1, <5>2 DEF StringEntry, lookupType
      <4>4. QED
        BY <4>2, <4>3
    <3>2. ASSUME NEW k \in DOMAIN integerTypeCache', integerTypeCache'[k] # NoRef
          PROVE  IntegerEntry(k)'
      BY <1>1, <2>1, <2>2, <3>2, EntriesKept
    <3>3. QED
      BY <3>1, <3>2 DEF CachesOK
  <2>5. AnswersCached'
    <3>1. ASSUME NEW a \in answers, a.asked \in StringType
          PROVE  stringTypeCache'[StringKey(a.asked)] = a.index
      <4>1. stringTypeCache[StringKey(a.asked)] = a.index /\ a.index \in Nat
        BY <3>1 DEF AnswersCached, TypeOK, Answer
      <4>2. StringKey(a.asked) # key
        BY <1>3, <4>1 DEF NoRef
      <4>3. QED
        BY <2>1, <4>1, <4>2
    <3>2. stringTypeCache'[key] = Len(types)
      BY <1>1, <2>1
    <3>3. QED
      BY <1>1, <2>1, <3>1, <3>2 DEF AnswersCached
  <2>6. QED
    BY <2>2, <2>3, <2>4, <2>5
<1>4. QED
  BY <1>2, <1>3

(* addIntegerType keeps the invariant, on a hit of its cache and on a      *)
(* miss.                                                                   *)
LEMMA addIntegerTypeStep ==
  ASSUME Inv, NEW t \in IntegerType, addIntegerType(t)
  PROVE  Inv'
<1> DEFINE key == IntegerKey(t)
<1> USE DEF Inv
<1>1. /\ key \in DOMAIN integerTypeCache /\ Len(types) \in Nat
      /\ t \notin StringType /\ t \in Object
      /\ DOMAIN integerTypeCache = {IntegerKey(s) : s \in IntegerType}
  BY KindsDisjoint DEF TypeOK, Object
<1>2. CASE integerTypeCache[key] # NoRef
  <2>1. /\ answers' = answers \cup {[asked |-> t, index |-> integerTypeCache[key]]}
        /\ UNCHANGED <<heap, types, typeToTypeReference, integerTypeCache, stringTypeCache>>
    BY <1>2 DEF addIntegerType
  <2>2. integerTypeCache[key] \in Nat
    BY <1>1, <1>2 DEF CachesOK, IntegerEntry
  <2>3. TypeOK'
    BY <2>1, <2>2 DEF TypeOK, Answer
  <2>4. TableMapInverse' /\ CachesOK'
    BY <2>1 DEF TableMapInverse, CachesOK, IntegerEntry, StringEntry, lookupType
  <2>5. AnswersCached'
    BY <1>1, <2>1 DEF AnswersCached
  <2>6. QED
    BY <2>3, <2>4, <2>5
<1>3. CASE integerTypeCache[key] = NoRef
  <2>1. /\ NewObject(t) /\ addType(Len(heap) + 1)
        /\ integerTypeCache' = [integerTypeCache EXCEPT ![key] = Len(types)]
        /\ answers' = answers \cup {[asked |-> t, index |-> Len(types)]}
        /\ UNCHANGED stringTypeCache
    BY <1>3 DEF addIntegerType
  <2>2. /\ heap' \in Seq(Object) /\ Len(heap') <= MaxObjects
        /\ types' \in Seq(1..Len(heap'))
        /\ typeToTypeReference' \in [1..MaxObjects -> Int]
        /\ TableMapInverse'
        /\ Len(types') = Len(types) + 1
        /\ \A n \in 0..(Len(types) - 1) : lookupType(n)' = lookupType(n)
        /\ heap'[types'[Len(types) + 1]] = t
    BY <1>1, <2>1, NewEntryFacts
  <2>3. TypeOK'
    <3>1. integerTypeCache' \in [{IntegerKey(s) : s \in IntegerType} -> Int]
      BY <1>1, <2>1 DEF TypeOK
    <3>2. answers' \subseteq Answer
      BY <1>1, <2>1 DEF TypeOK, Answer
    <3>3. QED
      BY <2>1, <2>2, <3>1, <3>2 DEF TypeOK
  <2>4. CachesOK'
    <3>1. ASSUME NEW k \in DOMAIN integerTypeCache', integerTypeCache'[k] # NoRef
          PROVE  IntegerEntry(k)'
      <4>1. k \in DOMAIN integerTypeCache
        BY <2>1
      <4>2. CASE k # key
        BY <1>1, <2>1, <2>2, <3>1, <4>1, <4>2, EntriesKept
      <4>3. CASE k = key
        <5>1. integerTypeCache'[k] = Len(types)
          BY <1>1, <2>1, <4>3
        <5>2. heap'[types'[integerTypeCache'[k] + 1]] = t
          BY <2>2, <5>1
        <5>3. QED
          BY <1>1, <2>2, <4>3, <5>1, <5>2 DEF IntegerEntry, lookupType
      <4>4. QED
        BY <4>2, <4>3
    <3>2. ASSUME NEW k \in DOMAIN stringTypeCache', stringTypeCache'[k] # NoRef
          PROVE  StringEntry(k)'
      BY <1>1, <2>1, <2>2, <3>2, EntriesKept
    <3>3. QED
      BY <3>1, <3>2 DEF CachesOK
  <2>5. AnswersCached'
    <3>1. ASSUME NEW a \in answers, a.asked \in IntegerType
          PROVE  integerTypeCache'[IntegerKey(a.asked)] = a.index
      <4>1. integerTypeCache[IntegerKey(a.asked)] = a.index /\ a.index \in Nat
        BY <3>1 DEF AnswersCached, TypeOK, Answer
      <4>2. IntegerKey(a.asked) # key
        BY <1>3, <4>1 DEF NoRef
      <4>3. QED
        BY <2>1, <4>1, <4>2
    <3>2. integerTypeCache'[key] = Len(types)
      BY <1>1, <2>1
    <3>3. QED
      BY <1>1, <2>1, <3>1, <3>2 DEF AnswersCached
  <2>6. QED
    BY <2>2, <2>3, <2>4, <2>5
<1>4. QED
  BY <1>2, <1>3

(* A new factory satisfies the invariant.                                  *)
LEMMA InvInit == Init => Inv
<1> SUFFICES ASSUME Init PROVE Inv
  OBVIOUS
<1>1. heap \in Seq(Object) /\ Len(heap) <= MaxObjects
  <2>1. Singletons \in Seq(Object) /\ Len(Singletons) = 3
    BY DEF Singletons, Object
  <2>2. QED
    BY <2>1, MaxObjectsAssumption DEF Init
<1>2. TypeOK
  BY <1>1 DEF Init, TypeOK, NoRef
<1>3. TableMapInverse /\ CachesOK /\ AnswersCached
  BY DEF Init, TableMapInverse, CachesOK, AnswersCached
<1>4. QED
  BY <1>2, <1>3 DEF Inv

(* Every call of a method of the factory keeps the invariant.              *)
LEMMA InvStep == Inv /\ [Next]_vars => Inv'
<1> SUFFICES ASSUME Inv, [Next]_vars PROVE Inv'
  OBVIOUS
<1>1. ASSUME NEW k \in OtherKinds, Create(k) PROVE Inv'
  BY <1>1, CreateStep
<1>2. ASSUME NEW k \in OtherKinds, AddOther(k) PROVE Inv'
  BY <1>2, AddOtherStep
<1>3. ASSUME NEW o \in 1..Len(heap), AddExisting(o) PROVE Inv'
  BY <1>3, AddExistingStep
<1>4. ASSUME NEW t \in StringType, addStringType(t) PROVE Inv'
  BY <1>4, addStringTypeStep
<1>5. ASSUME NEW t \in IntegerType, addIntegerType(t) PROVE Inv'
  BY <1>5, addIntegerTypeStep
<1>6. CASE UNCHANGED vars
  BY <1>6 DEF vars, Inv, TypeOK, TableMapInverse, CachesOK, StringEntry, IntegerEntry,
              lookupType, AnswersCached
<1>7. QED
  BY <1>1, <1>2, <1>3, <1>4, <1>5, <1>6 DEF Next

(* The table and the map of the TypeScript factory are inverse to each     *)
(* other, every cache entry denotes a type with the entry's key, and every *)
(* answer is still in the cache.                                           *)
THEOREM Invariance == Spec => []Inv
BY InvInit, InvStep, PTL DEF Spec

-----------------------------------------------------------------------------
(* What addStringType or addIntegerType answered has the key asked for.    *)
LEMMA AnswerHasKey ==
  ASSUME Inv, NEW a \in answers
  PROVE  \/ /\ a.asked \in StringType /\ lookupType(a.index) \in StringType
            /\ StringKey(lookupType(a.index)) = StringKey(a.asked)
            /\ a.index = stringTypeCache[StringKey(a.asked)]
         \/ /\ a.asked \in IntegerType /\ lookupType(a.index) = a.asked
            /\ a.index = integerTypeCache[IntegerKey(a.asked)]
<1>1. a.asked \in StringType \cup IntegerType /\ a.index \in Nat
  BY DEF Inv, TypeOK, Answer
<1>2. CASE a.asked \in StringType
  <2>1. stringTypeCache[StringKey(a.asked)] = a.index /\ a.index # NoRef
    BY <1>1, <1>2 DEF Inv, AnswersCached, NoRef
  <2>2. StringEntry(StringKey(a.asked))
    BY <1>2, <2>1 DEF Inv, TypeOK, CachesOK
  <2>3. QED
    BY <1>2, <2>1, <2>2 DEF StringEntry
<1>3. CASE a.asked \in IntegerType
  <2>1. integerTypeCache[IntegerKey(a.asked)] = a.index /\ a.index # NoRef
    BY <1>1, <1>3 DEF Inv, AnswersCached, NoRef
  <2>2. IntegerEntry(IntegerKey(a.asked))
    BY <1>3, <2>1 DEF Inv, TypeOK, CachesOK
  <2>3. lookupType(a.index) = a.asked
    BY <1>3, <2>1, <2>2, KeysTellApart DEF IntegerEntry
  <2>4. QED
    BY <1>3, <2>1, <2>3
<1>4. QED
  BY <1>1, <1>2, <1>3

(* A type that was asked for without an ambiguous pattern is what its      *)
(* answer denotes.                                                         *)
LEMMA AnswerFaithful ==
  ASSUME Inv, NEW a \in answers, ~AmbiguousPattern(a.asked)
  PROVE  lookupType(a.index) = a.asked
BY AnswerHasKey, KeysTellApart

(* A reference addStringType or addIntegerType returned denotes the        *)
(* constraints asked for, for ever, however many calls share the entry.    *)
THEOREM CachesFaithful == Spec => []CachedRefsFaithful
<1>1. Inv => CachedRefsFaithful
  BY AnswerFaithful DEF CachedRefsFaithful
<1>2. QED
  BY <1>1, Invariance, PTL

(* Equal constraints share one entry and different ones never do, the      *)
(* pattern that is the word undefined apart.                               *)
THEOREM EqualShared == Spec => []EqualTypesShared
<1>1. ASSUME Inv, NEW a \in answers, NEW b \in answers, ~AmbiguousPattern(a.asked)
      PROVE  a.asked = b.asked <=> a.index = b.index
  <2>1. lookupType(a.index) = a.asked
    BY <1>1, AnswerFaithful
  <2>2. ASSUME a.asked = b.asked PROVE a.index = b.index
    BY <1>1, <2>2, AnswerHasKey, KindsDisjoint
  <2>3. ASSUME a.index = b.index PROVE a.asked = b.asked
    <3>1. CASE b.asked \in IntegerType
      BY <1>1, <2>1, <2>3, <3>1, AnswerHasKey, KindsDisjoint
    <3>2. CASE b.asked \in StringType
      <4>1. a.asked \in StringType /\ StringKey(a.asked) = StringKey(b.asked)
        BY <1>1, <2>1, <2>3, <3>2, AnswerHasKey, KindsDisjoint
      <4>2. QED
        BY <1>1, <3>2, <4>1, KeysTellApart
    <3>3. QED
      BY <1>1, <3>1, <3>2, AnswerHasKey
  <2>4. QED
    BY <2>2, <2>3
<1>2. Inv => EqualTypesShared
  BY <1>1 DEF EqualTypesShared
<1>3. QED
  BY <1>2, Invariance, PTL

(* The table is only ever appended to.                                     *)
LEMMA TableGrows ==
  ASSUME Inv, [Next]_vars
  PROVE  types' = types \/ \E o \in 1..MaxObjects : types' = Append(types, o)
<1>1. ASSUME NEW o \in 1..MaxObjects, addType(o)
      PROVE  types' = types \/ types' = Append(types, o)
  BY <1>1 DEF addType
<1>2. /\ Len(heap) \in Nat /\ Len(heap) <= MaxObjects
      /\ 1..Len(heap) \subseteq 1..MaxObjects
      /\ Len(heap) < MaxObjects => Len(heap) + 1 \in 1..MaxObjects
  BY MaxObjectsAssumption DEF Inv, TypeOK
<1>3. QED
  BY <1>1, <1>2 DEF Next, vars, Create, AddOther, AddExisting, addStringType,
                    addIntegerType, NewObject

(* The TypeScript factory is a TypeTable that nobody clears: a written     *)
(* reference keeps its meaning.                                            *)
THEOREM ImplementsTypeTable == Spec => ImplementsTable
<1>1. Init => Table!Init
  BY DEF Init, Table!Init
<1>2. ASSUME Inv, Inv', [Next]_vars PROVE [Table!Register]_types
  <2>1. SUFFICES ASSUME NEW o \in 1..MaxObjects, types' = Append(types, o)
                 PROVE  Table!Register
    BY <1>2, TableGrows
  <2>2. types \in Seq(1..MaxObjects)
    <3>1. types \in Seq(1..Len(heap)) /\ Len(heap) \in Nat /\ Len(heap) <= MaxObjects
      BY <1>2 DEF Inv, TypeOK
    <3>2. 1..Len(heap) \subseteq 1..MaxObjects
      BY <3>1, MaxObjectsAssumption
    <3>3. QED
      BY <3>1, <3>2, SeqMonotonic
  <2>3. /\ types' \in Seq(1..MaxObjects) /\ Len(types') > Len(types)
        /\ \A i \in 1..Len(types) : types'[i] = types[i]
    BY <2>1, <2>2
  <2>4. \A i, j \in 1..Len(types') : types'[i] = types'[j] => i = j
    <3>1. \A i \in 1..Len(types') : i \in Nat /\ typeToTypeReference'[types'[i]] = i - 1
      BY <1>2 DEF Inv, TableMapInverse
    <3>2. QED
      BY <3>1
  <2>5. QED
    BY <2>3, <2>4 DEF Table!Register, Table!Distinct
<1>3. QED
  BY <1>1, <1>2, Invariance, PTL DEF Spec, ImplementsTable, Table!AppendOnlySpec
==============================================================================
