------------------------- MODULE ResourceScopesProofs -------------------------
(***************************************************************************)
(* Proofs about ResourceScopes, for any set of scopes.                     *)
(*                                                                         *)
(* What a resource is stays the same because it can always be had again    *)
(* from the text: as long as the text is the original, by the constructor; *)
(* once C# has written it, because the text then is the present form of    *)
(* exactly this resource (TextTellsResource).                              *)
(***************************************************************************)
EXTENDS ResourceScopes, TLAPS

Made == {Scopes(r, w) : r \in SUBSET Scope, w \in SUBSET Scope}

TypeOK ==
  /\ text \in Text
  /\ resource \in {NoResource, Refused} \cup Made
  /\ modern \in BOOLEAN

TextTellsResource ==
  /\ resource.state # "none" => resource = ResourceType(text)
  /\ modern => /\ resource.state = "made"
               /\ text = ModernText(resource.ReadableScopes, resource.WritableScopes)

Inv == TypeOK /\ TextTellsResource

-----------------------------------------------------------------------------
(* The constructor fails or makes a resource with sets of scopes, whatever *)
(* the form of the text.                                                   *)
LEMMA ResourceTypeType ==
  ASSUME NEW t \in Text
  PROVE  ResourceType(t) \in {Refused} \cup Made
<1>1. /\ t.scopeType \in Optional(SUBSET Scope) /\ t.readOnlyScopes \in Optional(SUBSET Scope)
      /\ t.readableScopes \in Optional(SUBSET Scope)
      /\ t.writableScopes \in Optional(SUBSET Scope)
  BY DEF Text
<1>2. OrNone(t.scopeType) \in SUBSET Scope /\ OrNone(t.readOnlyScopes) \in SUBSET Scope
  BY <1>1 DEF Optional, OrNone, None
<1>3. EffectiveScopeType(t) \in SUBSET Scope
  BY <1>2 DEF EffectiveScopeType, All
<1>4. LegacyReadable(t) \in SUBSET Scope /\ LegacyWritable(t) \in SUBSET Scope
  BY <1>2, <1>3 DEF LegacyReadable, LegacyWritable, None
<1>5. CASE HasModern(t) /\ Absent \notin {t.readableScopes, t.writableScopes}
  BY <1>1, <1>5 DEF Optional, ResourceType, Made
<1>6. QED
  BY <1>4, <1>5 DEF ResourceType, Made

(* The present form of a resource is read as this resource, also when it   *)
(* has no scope at all: the fields are there, and empty.                   *)
LEMMA ModernTextRead ==
  ASSUME NEW r \in SUBSET Scope, NEW w \in SUBSET Scope
  PROVE  /\ ModernText(r, w) \in Text
         /\ ResourceType(ModernText(r, w)) = Scopes(r, w)
<1>1. r # Absent /\ w # Absent
  BY AbsentAssumption
<1>2. ModernText(r, w) \in Text
  BY DEF ModernText, Text, Optional
<1>3. ~HasLegacy(ModernText(r, w)) /\ HasModern(ModernText(r, w))
  BY <1>1 DEF ModernText, HasLegacy, HasModern
<1>4. ResourceType(ModernText(r, w)) = Scopes(r, w)
  BY <1>1, <1>3 DEF ResourceType, ModernText
<1>5. QED
  BY <1>2, <1>4

(* A made resource is known by its two sets of scopes.                     *)
LEMMA MadeFacts ==
  ASSUME TypeOK, resource.state = "made"
  PROVE  /\ resource.ReadableScopes \in SUBSET Scope
         /\ resource.WritableScopes \in SUBSET Scope
         /\ resource = Scopes(resource.ReadableScopes, resource.WritableScopes)
<1>1. resource \in Made
  BY DEF TypeOK, NoResource, Refused
<1>2. QED
  BY <1>1 DEF Made, Scopes

(* Reading again makes the same resource.                                  *)
LEMMA CsReadStep ==
  ASSUME Inv, CsRead
  PROVE  Inv' /\ (resource.state # "none" => resource' = resource)
<1>1. resource' = ResourceType(text) /\ UNCHANGED <<text, modern>>
  BY DEF CsRead
<1>2. resource' \in {Refused} \cup Made
  BY <1>1, ResourceTypeType DEF Inv, TypeOK
<1>3. resource.state # "none" => resource' = resource
  BY <1>1 DEF Inv, TextTellsResource
<1>4. modern => resource' = resource
  BY <1>3 DEF Inv, TextTellsResource
<1>5. QED
  BY <1>1, <1>2, <1>3, <1>4 DEF Inv, TypeOK, TextTellsResource

(* Writing puts the resource into the present form.                        *)
LEMMA CsWriteStep ==
  ASSUME Inv, CsWrite
  PROVE  Inv' /\ resource' = resource
<1>1. /\ resource.state = "made" /\ resource' = resource /\ modern' = TRUE
      /\ text' = ModernText(resource.ReadableScopes, resource.WritableScopes)
  BY DEF CsWrite
<1>2. text' \in Text /\ resource = ResourceType(text')
  BY <1>1, MadeFacts, ModernTextRead DEF Inv
<1>3. QED
  BY <1>1, <1>2 DEF Inv, TypeOK, TextTellsResource

(* Go copies the two fields it knows, which are all there are.             *)
LEMMA GoReadWriteStep ==
  ASSUME Inv, modern, GoReadWrite
  PROVE  Inv' /\ resource' = resource
<1>1. /\ resource.state = "made"
      /\ text = ModernText(resource.ReadableScopes, resource.WritableScopes)
  BY DEF Inv, TextTellsResource
<1>2. resource.ReadableScopes # Absent /\ resource.WritableScopes # Absent
  BY <1>1, MadeFacts, AbsentAssumption DEF Inv
<1>3. text' = text /\ UNCHANGED <<resource, modern>>
  BY <1>1, <1>2 DEF GoReadWrite, ModernText, OrNone
<1>4. QED
  BY <1>3 DEF Inv, TypeOK, TextTellsResource

(* Every step keeps the invariant, and none changes a resource that        *)
(* exists.                                                                 *)
LEMMA InvStep ==
  Inv /\ [Next]_vars => Inv' /\ (resource.state # "none" => resource' = resource)
<1> SUFFICES ASSUME Inv, [Next]_vars
             PROVE  Inv' /\ (resource.state # "none" => resource' = resource)
  OBVIOUS
<1>1. CASE UNCHANGED vars
  BY <1>1 DEF vars, Inv, TypeOK, TextTellsResource
<1>2. QED
  BY <1>1, CsReadStep, CsWriteStep, GoReadWriteStep DEF Next

(* The text always tells what resource it is of.                           *)
THEOREM Invariance == Spec => []Inv
<1>1. Init => Inv
  <2> SUFFICES ASSUME Init PROVE Inv
    OBVIOUS
  <2>1. text \in Text /\ resource = NoResource /\ modern = FALSE /\ resource.state = "none"
    BY DEF Init, NoResource
  <2>2. QED
    BY <2>1 DEF Inv, TypeOK, TextTellsResource
<1>2. QED
  BY <1>1, InvStep, PTL DEF Spec

(* However often C# and Go pass the resource on, it keeps its scopes.      *)
THEOREM ScopesKept == Spec => ScopesStable
<1>1. Inv /\ [Next]_vars
      => [resource.state = "made" => resource' = resource]_resource
  BY InvStep
<1>2. QED
  BY <1>1, Invariance, PTL DEF Spec, ScopesStable

(* In the old form no scope is writable that is not readable.              *)
THEOREM LegacyWritableReadable == Spec => []LegacyWritableIsReadable
<1>1. ASSUME Inv, resource.state = "made", ~HasModern(text)
      PROVE  resource.WritableScopes \subseteq resource.ReadableScopes
  <2>1. resource = Scopes(LegacyReadable(text), LegacyWritable(text))
    BY <1>1 DEF Inv, TextTellsResource, ResourceType
  <2>2. LegacyWritable(text) \subseteq LegacyReadable(text)
    BY DEF LegacyWritable, LegacyReadable, None
  <2>3. QED
    BY <2>1, <2>2 DEF Scopes
<1>2. Inv => LegacyWritableIsReadable
  BY <1>1 DEF LegacyWritableIsReadable
<1>3. QED
  BY <1>2, Invariance, PTL
==============================================================================
