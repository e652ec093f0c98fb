-------------------------------- MODULE GoIndex --------------------------------
(***************************************************************************)
(* TypeIndex of bicep-types-go/index/index.go: the methods that fill it,   *)
(* and how it is written to and read from index.json.                      *)
(*                                                                         *)
(* The nested maps are functions on pairs <<resource type, version>>: the  *)
(* methods never leave an inner map empty.  Of the settings only the       *)
(* reference they hold is kept.                                            *)
(***************************************************************************)
EXTENDS IndexInput

None == [none |-> TRUE]      \* a nil reference, written by leaving it out
Failed == [failed |-> TRUE]  \* an error returned to the caller

NewTypeIndex ==
  [Resources |-> <<>>, ResourceFunctions |-> <<>>, NamespaceFunctions |-> <<>>,
   FallbackResource |-> None, ConfigurationType |-> None]

AddResource(idx, key, ref) == [idx EXCEPT !.Resources = Put(@, key, ref)]

(* Mutant of AddResourceFunction: keeps only the last function.            *)
AddResourceFunctionLast(idx, key, ref) ==
  [idx EXCEPT !.ResourceFunctions = Put(@, key, <<ref>>)]

AddResourceFunction(idx, key, ref) ==
  LET known == IF key \in DOMAIN idx.ResourceFunctions
               THEN idx.ResourceFunctions[key] ELSE <<>>
  IN  [idx EXCEPT !.ResourceFunctions = Put(@, key, Append(known, ref))]

AddNamespaceFunction(idx, ref) == [idx EXCEPT !.NamespaceFunctions = Append(@, ref)]

-----------------------------------------------------------------------------
(* A reference is written as the text path#/i, with an empty path for a    *)
(* reference within the file.                                              *)
RefText(r) ==
  [prefix |-> IF "relativePath" \in DOMAIN r THEN r.relativePath ELSE <<"">>,
   index |-> r.ref]

(* Mutant of unmarshalTypeReference: drops the path.                       *)
unmarshalTypeReferenceLocal(text) == TypeReference(text.index)

(* It is read back by counting the pieces between the texts "#/": two of   *)
(* which the first is not empty make a cross-file reference, otherwise the *)
(* text must be #/i.                                                       *)
unmarshalTypeReference(text) ==
  IF Len(text.prefix) = 1 /\ text.prefix # <<"">>
  THEN CrossFileTypeReference(text.prefix, text.index)
  ELSE IF text.prefix = <<"">> THEN TypeReference(text.index) ELSE Failed

OptionalText(r) == IF r = None THEN None ELSE RefText(r)

OptionalRef(text) == IF text = None THEN None ELSE unmarshalTypeReference(text)

MapSeq(s, F(_)) == [i \in DOMAIN s |-> F(s[i])]

(* MarshalJSON: resources go by the text type@version.  When two pairs     *)
(* make the same text the one the map iteration meets last is written.     *)
FlatKey(key) == key[1] \o <<At>> \o key[2]

Flattened(resources) ==
  {flat \in [{FlatKey(key) : key \in DOMAIN resources} -> Range(resources)] :
     \A name \in DOMAIN flat : \E key \in DOMAIN resources :
       FlatKey(key) = name /\ resources[key] = flat[name]}

MarshalJSON(idx) ==
  {[resources |-> MapSeq(flat, RefText),
    resourceFunctions |->
      [key \in DOMAIN idx.ResourceFunctions |-> MapSeq(idx.ResourceFunctions[key], RefText)],
    namespaceFunctions |-> MapSeq(idx.NamespaceFunctions, RefText),
    fallbackResourceType |-> OptionalText(idx.FallbackResource),
    configurationType |-> OptionalText(idx.ConfigurationType)] :
     flat \in Flattened(idx.Resources)}

(* UnmarshalJSON: a resource key must fall into exactly two parts at At,   *)
(* and one part or reference that cannot be read fails the whole index.    *)
Parts(name) ==
  LET at == {i \in DOMAIN name : name[i] = At}
  IN  IF Cardinality(at) # 1 THEN Failed
      ELSE LET i == CHOOSE i \in at : TRUE
           IN  <<SubSeq(name, 1, i - 1), SubSeq(name, i + 1, Len(name))>>

UnmarshalJSON(file) ==
  LET keys == {Parts(name) : name \in DOMAIN file.resources}
      idx == [Resources |-> [key \in keys |->
                unmarshalTypeReference(file.resources[FlatKey(key)])],
              ResourceFunctions |-> [key \in DOMAIN file.resourceFunctions |->
                MapSeq(file.resourceFunctions[key], unmarshalTypeReference)],
              NamespaceFunctions |-> MapSeq(file.namespaceFunctions, unmarshalTypeReference),
              FallbackResource |-> OptionalRef(file.fallbackResourceType),
              ConfigurationType |-> OptionalRef(file.configurationType)]
      refs == Range(idx.Resources) \cup (UNION {ToSet(s) : s \in Range(idx.ResourceFunctions)})
              \cup ToSet(idx.NamespaceFunctions)
              \cup {idx.FallbackResource, idx.ConfigurationType}
  IN  IF Failed \in keys THEN Failed ELSE IF Failed \in refs THEN Failed ELSE idx

(* GetResource and GetResourceFunctions, None for the answer "not found".  *)
GetResource(idx, key) ==
  IF key \in DOMAIN idx.Resources THEN idx.Resources[key] ELSE None

GetResourceFunctions(idx, key) ==
  IF key \in DOMAIN idx.ResourceFunctions THEN idx.ResourceFunctions[key] ELSE <<>>
==============================================================================
