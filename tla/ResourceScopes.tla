---------------------------- MODULE ResourceScopes ----------------------------
(***************************************************************************)
(* The scopes of a resource type, which types.json has in two forms: an    *)
(* old one (scopeType, readOnlyScopes, flags) and the present one          *)
(* (readableScopes, writableScopes).  The C# constructor, which also reads *)
(* the file, turns the old form into the present one                       *)
(* (Bicep.Types/Concrete/ResourceType.cs); Go knows the present one only.  *)
(*                                                                         *)
(* One resource goes through a chain of programs, each reading the text    *)
(* the one before wrote.  A set of scopes is a bit mask in the code.       *)
(***************************************************************************)
EXTENDS FiniteSets

CONSTANTS
  Scope,     \* Tenant, ManagementGroup, Subscription, ResourceGroup, Extension
  Absent,    \* a field left out, or null
  ReadOnly   \* the only resource flag

ASSUME AbsentAssumption == \A S \in (SUBSET Scope) \cup (SUBSET {ReadOnly}) : Absent # S

VARIABLES
  text,     \* the scope fields of the resource in the file
  resource, \* the resource C# made of it last, or none, or an error
  modern    \* history: the file has been written by C#

vars == <<text, resource, modern>>

None == {}

All == Scope

Optional(S) == S \cup {Absent}

Text == [scopeType : Optional(SUBSET Scope), readOnlyScopes : Optional(SUBSET Scope),
         flags : Optional(SUBSET {ReadOnly}),
         readableScopes : Optional(SUBSET Scope), writableScopes : Optional(SUBSET Scope)]

NoResource == [state |-> "none"]

Refused == [state |-> "refused"]

Scopes(readable, writable) ==
  [state |-> "made", ReadableScopes |-> readable, WritableScopes |-> writable]

ModernText(readable, writable) ==
  [scopeType |-> Absent, readOnlyScopes |-> Absent, flags |-> Absent,
   readableScopes |-> readable, writableScopes |-> writable]

(* The flag field counts as old only when a flag is set.                   *)
HasLegacy(t) ==
  t.scopeType # Absent \/ t.readOnlyScopes # Absent \/ t.flags \notin {Absent, None}

HasModern(t) == t.writableScopes # Absent \/ t.readableScopes # Absent

OrNone(field) == IF field = Absent THEN None ELSE field

(* An explicit scopeType 0 used to say: any scope.                         *)
EffectiveScopeType(t) == IF t.scopeType = None THEN All ELSE OrNone(t.scopeType)

LegacyWritable(t) ==
  IF ReadOnly \in OrNone(t.flags) THEN None ELSE EffectiveScopeType(t)

(* Mutant of LegacyReadable: readOnlyScopes stands for scopeType.           *)
LegacyReadableReplaced(t) ==
  IF t.readOnlyScopes = Absent THEN EffectiveScopeType(t) ELSE t.readOnlyScopes

LegacyReadable(t) == EffectiveScopeType(t) \cup OrNone(t.readOnlyScopes)

(* The constructor: the forms must not be mixed, the new one is all or     *)
(* nothing.                                                                *)
ResourceType(t) ==
  IF HasLegacy(t) /\ HasModern(t) THEN Refused
  ELSE IF HasModern(t)
       THEN IF Absent \in {t.readableScopes, t.writableScopes} THEN Refused
            ELSE Scopes(t.readableScopes, t.writableScopes)
       ELSE Scopes(LegacyReadable(t), LegacyWritable(t))

-----------------------------------------------------------------------------
Init ==
  /\ text \in Text
  /\ resource = NoResource
  /\ modern = FALSE

(* TypeSerializer.Deserialize, or a client calling the constructor.        *)
CsRead ==
  /\ resource.state # "refused"
  /\ resource' = ResourceType(text)
  /\ UNCHANGED <<text, modern>>

(* Mutant of CsWrite: a mask of 0 is left out as if it were null.          *)
CsWriteNonZero ==
  /\ resource.state = "made"
  /\ text' = LET OrAbsent(scopes) == IF scopes = None THEN Absent ELSE scopes
             IN  ModernText(OrAbsent(resource.ReadableScopes), OrAbsent(resource.WritableScopes))
  /\ modern' = TRUE
  /\ UNCHANGED resource

(* The old properties always give null and are left out.                   *)
CsWrite ==
  /\ resource.state = "made"
  /\ text' = ModernText(resource.ReadableScopes, resource.WritableScopes)
  /\ modern' = TRUE
  /\ UNCHANGED resource

(* Go reads the two fields it knows, 0 for one that is absent, and writes  *)
(* both.                                                                   *)
GoReadWrite ==
  /\ text' = ModernText(OrNone(text.readableScopes), OrNone(text.writableScopes))
  /\ UNCHANGED <<resource, modern>>

Next == CsRead \/ CsWrite \/ (modern /\ GoReadWrite)

Spec == Init /\ [][Next]_vars

-----------------------------------------------------------------------------
(* However often the resource is written and read, by C# or by Go once C#  *)
(* has written it, its scopes are what C# made of the text at first; in    *)
(* particular a resource with no scope at all does not turn into an old    *)
(* one with every scope.                                                   *)
ScopesStable ==
  [][resource.state = "made" => resource' = resource]_resource

(* In the old form everything that can be written can be read.             *)
LegacyWritableIsReadable ==
  resource.state = "made" /\ ~modern /\ ~HasModern(text) =>
    resource.WritableScopes \subseteq resource.ReadableScopes
==============================================================================
