---------------------------- MODULE GoTypeFactory ----------------------------
(***************************************************************************)
(* The Go type factory (bicep-types-go/factory/factory.go), several of     *)
(* them in one program, with the types a client builds on top of the       *)
(* references they hand out.                                               *)
(*                                                                         *)
(* A Go type is an object on the heap, and factories identify it by its    *)
(* pointer: typeMap is keyed by (dynamic type, pointer).  The pointers are *)
(* the members of Ptr.  A reference is the bare number types.TypeReference *)
(* carries; which factory issued it, after how many calls of Reset, and    *)
(* for which type, is not in the Go value and is recorded here as history. *)
(***************************************************************************)
EXTENDS Integers, Sequences, FiniteSets

CONSTANTS
  Factory,     \* the factories of the program
  Ptr,         \* pointers to type objects
  Sealed,      \* those of objects no client changes once they are created
  ZeroSize,    \* kinds with no field: AnyType, NullType, BooleanType
  Sized,       \* stands for the kinds that have fields
  Free,        \* no object: what a pointer not yet allocated points to
  MaxRefs,     \* bound: references held by one object
  MaxResets,   \* bound: calls of Reset on one factory
  MaxLiterals, \* bound: values given to CreateStringUnionType
  MaxSnapshots \* bound: different results of GetTypes kept by clients

ASSUME KindAssumption == Sized \notin ZeroSize
ASSUME FreeAssumption == Free \notin Ptr \cup ZeroSize \cup {Sized}
ASSUME SealedAssumption == Sealed \subseteq Ptr
ASSUME BoundAssumption == {MaxRefs, MaxResets, MaxLiterals, MaxSnapshots} \subseteq Nat

VARIABLES
  typeList,    \* typeList[f]: the registered pointers, in order
  typeMap,     \* typeMap[f][p]: index of p in f, NoIndex when the map lacks p
  kind,        \* kind[p]: kind of the object at p, or Free
  refs,        \* refs[p]: the references stored in the fields of p
  epoch,       \* history: epoch[f] counts the calls of Reset on f
  issued,      \* history: every reference a factory has returned
  snapshots    \* the slices GetTypes has returned

vars == <<typeList, typeMap, kind, refs, epoch, issued, snapshots>>

NoIndex == -1

Handle == [fac : Factory, epoch : Nat, index : Nat, target : Ptr]

Snapshot == [fac : Factory, epoch : Nat, types : Seq(Ptr)]

Kind == ZeroSize \cup {Sized}

(* The references that f has issued since its last Reset.                  *)
Current(f) == {h \in issued : h.fac = f /\ h.epoch = epoch[f]}

HandleOf(f, i, p) == [fac |-> f, epoch |-> epoch[f], index |-> i, target |-> p]

-----------------------------------------------------------------------------
(* Queries.                                                                *)

GetTypeIndex(f, p) == typeMap[f][p]

HasType(f, p) == typeMap[f][p] # NoIndex

Count(f) == Len(typeList[f])

(* GetTypeByIndex returns an error, here Free, outside 0..Count(f)-1.      *)
GetTypeByIndex(f, i) ==
  IF i < 0 \/ i >= Count(f) THEN Free ELSE typeList[f][i + 1]

-----------------------------------------------------------------------------
Init ==
  /\ typeList = [f \in Factory |-> <<>>]
  /\ typeMap = [f \in Factory |-> [p \in Ptr |-> NoIndex]]
  /\ kind = [p \in Ptr |-> Free]
  /\ refs = [p \in Ptr |-> {}]
  /\ epoch = [f \in Factory |-> 0]
  /\ issued = {}
  /\ snapshots = {}

(* Mutant of GetReference: appends without looking the pointer up.         *)
GetReferenceNoLookup(f, p) ==
  /\ kind[p] # Free
  /\ typeList' = [typeList EXCEPT ![f] = Append(@, p)]
  /\ typeMap' = [typeMap EXCEPT ![f][p] = Count(f)]
  /\ issued' = issued \cup {HandleOf(f, Count(f), p)}
  /\ UNCHANGED <<kind, refs, epoch, snapshots>>

(* GetReference and its alias GetOrCreateType: the index under which p is  *)
(* known, or the next one.                                                 *)
GetReference(f, p) ==
  /\ kind[p] # Free
  /\ IF HasType(f, p)
     THEN /\ issued' = issued \cup {HandleOf(f, typeMap[f][p], p)}
          /\ UNCHANGED <<typeList, typeMap>>
     ELSE /\ typeList' = [typeList EXCEPT ![f] = Append(@, p)]
          /\ typeMap' = [typeMap EXCEPT ![f][p] = Count(f)]
          /\ issued' = issued \cup {HandleOf(f, Count(f), p)}
  /\ UNCHANGED <<kind, refs, epoch, snapshots>>

(* The Create... methods of the kinds with fields: an object of its own,   *)
(* registered nowhere, that holds references the caller already has, of    *)
(* whatever factory and age.                                               *)
CreateSized(p, hs) ==
  /\ kind[p] = Free
  /\ hs \subseteq issued
  /\ kind' = [kind EXCEPT ![p] = Sized]
  /\ refs' = [refs EXCEPT ![p] = hs]
  /\ UNCHANGED <<typeList, typeMap, epoch, issued, snapshots>>

(* CreateAnyType, CreateNullType, CreateBooleanType: pointers to distinct  *)
(* zero-size variables may or may not be equal, so the result is a new     *)
(* pointer or that of an earlier object of the same kind.                  *)
CreateZeroSize(p, k) ==
  /\ kind[p] \in {Free, k}
  /\ kind' = [kind EXCEPT ![p] = k]
  /\ UNCHANGED <<typeList, typeMap, refs, epoch, issued, snapshots>>

(* Registering a sequence s of objects the caller has just allocated.  Not *)
(* one of them is in the map yet, so each is appended in turn.             *)
FreshSeqs(n) ==
  {s \in [1..n -> {p \in Ptr : kind[p] = Free}] :
     \A i, j \in 1..n : s[i] = s[j] => i = j}

(* Mutants of NewHandles: the index read off the length before, or after,  *)
(* where the code reads it in between.                                     *)
NewHandlesEarly(f, s) == {HandleOf(f, Count(f) + i - 2, s[i]) : i \in 1..Len(s)}

NewHandlesLate(f, s) == {HandleOf(f, Count(f) + i, s[i]) : i \in 1..Len(s)}

NewHandles(f, s) == {HandleOf(f, Count(f) + i - 1, s[i]) : i \in 1..Len(s)}

MapAfter(f, s) ==
  [p \in Ptr |-> IF \E i \in 1..Len(s) : s[i] = p
                 THEN Count(f) + (CHOOSE i \in 1..Len(s) : s[i] = p) - 1
                 ELSE typeMap[f][p]]

(* Mutant of RegisterFresh: new types go to the front.                     *)
RegisterFreshFirst(f, s) ==
  /\ typeList' = [typeList EXCEPT ![f] = s \o @]
  /\ typeMap' = [typeMap EXCEPT ![f] = MapAfter(f, s)]
  /\ issued' = issued \cup NewHandles(f, s)
  /\ UNCHANGED <<epoch, snapshots>>

RegisterFresh(f, s) ==
  /\ typeList' = [typeList EXCEPT ![f] = @ \o s]
  /\ typeMap' = [typeMap EXCEPT ![f] = MapAfter(f, s)]
  /\ issued' = issued \cup NewHandles(f, s)
  /\ UNCHANGED <<epoch, snapshots>>

(* CreateRequiredStringProperty, CreateOptionalStringProperty: each call   *)
(* registers one more StringType.                                          *)
CreateStringProperty(f, s) ==
  /\ s \in FreshSeqs(1)
  /\ RegisterFresh(f, s)
  /\ kind' = [kind EXCEPT ![s[1]] = Sized]
  /\ UNCHANGED refs

(* Mutant of CreateStringContainer: registers the container too, and       *)
(* before its elements.                                                    *)
CreateStringContainerFirst(f, s, q) ==
  /\ \E n \in 0..MaxLiterals : s \in FreshSeqs(n)
  /\ kind[q] = Free /\ \A i \in 1..Len(s) : s[i] # q
  /\ RegisterFresh(f, <<q>> \o s)
  /\ kind' = [p \in Ptr |-> IF p = q \/ \E i \in 1..Len(s) : s[i] = p
                            THEN Sized ELSE kind[p]]
  /\ refs' = [refs EXCEPT ![q] = {HandleOf(f, Count(f) + i, s[i]) : i \in 1..Len(s)}]

(* CreateStringUnionType, and CreateStringArrayType, which does the same   *)
(* with one string: the elements are registered, the object q that refers  *)
(* to them is returned unregistered.                                       *)
CreateStringContainer(f, s, q) ==
  /\ \E n \in 0..MaxLiterals : s \in FreshSeqs(n)
  /\ kind[q] = Free /\ \A i \in 1..Len(s) : s[i] # q
  /\ RegisterFresh(f, s)
  /\ kind' = [p \in Ptr |-> IF p = q \/ \E i \in 1..Len(s) : s[i] = p
                            THEN Sized ELSE kind[p]]
  /\ refs' = [refs EXCEPT ![q] = NewHandles(f, s)]

(* A client stores a reference in an exported field of an object it        *)
(* already made: the only way to build a recursive type.                   *)
SetField(p, h) ==
  /\ kind[p] = Sized /\ p \notin Sealed
  /\ h \in issued
  /\ Cardinality(refs[p]) < MaxRefs
  /\ refs' = [refs EXCEPT ![p] = @ \cup {h}]
  /\ UNCHANGED <<typeList, typeMap, kind, epoch, issued, snapshots>>

GetTypes(f) ==
  /\ Cardinality(snapshots) < MaxSnapshots
  /\ snapshots' = snapshots \cup
       {[fac |-> f, epoch |-> epoch[f], types |-> typeList[f]]}
  /\ UNCHANGED <<typeList, typeMap, kind, refs, epoch, issued>>

(* Mutant of Reset: forgets the map.                                       *)
ResetKeepsMap(f) ==
  /\ epoch[f] < MaxResets
  /\ typeList' = [typeList EXCEPT ![f] = <<>>]
  /\ epoch' = [epoch EXCEPT ![f] = @ + 1]
  /\ UNCHANGED <<typeMap, kind, refs, issued, snapshots>>

Reset(f) ==
  /\ epoch[f] < MaxResets
  /\ typeList' = [typeList EXCEPT ![f] = <<>>]
  /\ typeMap' = [typeMap EXCEPT ![f] = [p \in Ptr |-> NoIndex]]
  /\ epoch' = [epoch EXCEPT ![f] = @ + 1]
  /\ UNCHANGED <<kind, refs, issued, snapshots>>

-----------------------------------------------------------------------------
Next ==
  \/ \E f \in Factory :
       \/ GetTypes(f)
       \/ Reset(f)
       \/ \E p \in Ptr : GetReference(f, p)
       \/ \E s \in FreshSeqs(1) : CreateStringProperty(f, s)
       \/ \E n \in 0..MaxLiterals : \E s \in FreshSeqs(n), q \in Ptr :
            CreateStringContainer(f, s, q)
  \/ \E p \in Ptr :
       \/ \E k \in ZeroSize : CreateZeroSize(p, k)
       \/ \E hs \in {hs \in SUBSET issued : Cardinality(hs) <= MaxRefs} :
            CreateSized(p, hs)
       \/ \E h \in issued : SetField(p, h)

Spec == Init /\ [][Next]_vars

-----------------------------------------------------------------------------
TypeOK ==
  /\ typeList \in [Factory -> Seq(Ptr)]
  /\ typeMap \in [Factory -> [Ptr -> Nat \cup {NoIndex}]]
  /\ kind \in [Ptr -> Kind \cup {Free}]
  /\ refs \in [Ptr -> SUBSET Handle]
  /\ epoch \in [Factory -> Nat]
  /\ issued \subseteq Handle
  /\ snapshots \subseteq Snapshot

(* The list and the map of a factory are inverse to each other: what       *)
(* GetTypeIndex says of a registered type is where GetTypeByIndex finds    *)
(* it, and every listed type is known under its position, so no type is    *)
(* listed twice.  Every way of registering (GetReference, the string       *)
(* helpers) and Reset must keep the two in step.                           *)
ListMapInverse ==
  \A f \in Factory :
    /\ \A p \in Ptr : HasType(f, p) => GetTypeByIndex(f, GetTypeIndex(f, p)) = p
    /\ \A i \in 1..Len(typeList[f]) : GetTypeIndex(f, typeList[f][i]) = i - 1

(* A reference keeps denoting the type it was issued for in the factory    *)
(* that issued it, however many types are registered afterwards and        *)
(* whatever happens to the other factories, until that factory is Reset.   *)
IssuedRefsResolve ==
  \A f \in Factory : \A h \in Current(f) : GetTypeByIndex(f, h.index) = h.target

(* A slice GetTypes returned is a prefix of the list until the next Reset: *)
(* an index read in the slice is an index of the factory.                  *)
SnapshotsArePrefixes ==
  \A s \in snapshots : s.epoch = epoch[s.fac] =>
    /\ Len(s.types) <= Count(s.fac)
    /\ \A i \in 1..Len(s.types) : s.types[i] = typeList[s.fac][i]

(* An object that nobody changes after creating it points backwards: once  *)
(* registered it refers, within the factory, to types registered before    *)
(* it, whatever is done to the others.  So a client that changes no object *)
(* builds tables without a cycle for the Markdown walk to fall into, and   *)
(* every slice GetTypes returns is closed under references.                *)
RefsPointBackwards ==
  \A f \in Factory, p \in Sealed : HasType(f, p) =>
    \A h \in refs[p] \cap Current(f) : h.index < GetTypeIndex(f, p)

Table(f) == INSTANCE TypeTable WITH Type <- Ptr, table <- typeList[f]

(* Each factory implements TypeTable: Table(f)!Spec holds for every f.     *)
EachFactoryIsATable ==
  /\ \A f \in Factory : Table(f)!Init
  /\ [][\A f \in Factory : [Table(f)!Next]_(typeList[f])]_typeList
==============================================================================
