----------------------------- MODULE CsTypeLoader -----------------------------
(***************************************************************************)
(* How C# follows an index into the type files (Bicep.Types/TypeLoader.cs, *)
(* Serialization/CrossFileTypeReferenceConverter.cs).  The loader keeps    *)
(* nothing: each call opens a file and reads it, so these are functions of *)
(* the texts.  Texts are those of GoIndex; Failed is an exception.         *)
(***************************************************************************)
EXTENDS GoIndex

(* A reference is cut at its first "#/" and the rest must be a number.     *)
ReadReference(text) ==
  IF Len(text.prefix) = 1 THEN CrossFileTypeReference(text.prefix, text.index) ELSE Failed

ReferenceTexts(file) ==
  (Range(file.resources) \cup (UNION {ToSet(s) : s \in Range(file.resourceFunctions)})
   \cup ToSet(file.namespaceFunctions)
   \cup {file.fallbackResourceType, file.configurationType}) \ {None}

(* One bad reference fails the whole index.                                *)
LoadTypeIndex(file) ==
  IF \E text \in ReferenceTexts(file) : ReadReference(text) = Failed THEN Failed
  ELSE [Resources |-> MapSeq(file.resources, ReadReference),
        ResourceFunctions |-> [key \in DOMAIN file.resourceFunctions |->
                                 MapSeq(file.resourceFunctions[key], ReadReference)],
        NamespaceFunctions |-> MapSeq(file.namespaceFunctions, ReadReference)]

(* The stream at the path, and the type at the index; an exception if      *)
(* there is no such file or type.                                          *)
LoadType(typeFiles, ref) ==
  LET found == {f \in ToSet(typeFiles) : f.path = ref.relativePath}
  IN  IF found = {} THEN Failed
      ELSE LET types == (CHOOSE f \in found : TRUE).types
           IN  IF ref.ref < Len(types) THEN types[ref.ref + 1] ELSE Failed

LoadOfKind(typeFiles, ref, kind) ==
  LET type == LoadType(typeFiles, ref)
  IN  IF type = Failed THEN Failed ELSE IF type.kind = kind THEN type ELSE Failed

LoadResourceType(typeFiles, ref) == LoadOfKind(typeFiles, ref, "ResourceType")

LoadResourceFunctionType(typeFiles, ref) == LoadOfKind(typeFiles, ref, "ResourceFunctionType")

LoadNamespaceFunctionType(typeFiles, ref) == LoadOfKind(typeFiles, ref, "NamespaceFunctionType")

-----------------------------------------------------------------------------
(* Everything an index names can be loaded, and is what it is named for:   *)
(* the resource of that name and version, functions of a resource of that  *)
(* type and version up to case, namespace functions.                       *)
NamesWhatItLoads(typeFiles, index) ==
  /\ \A name \in DOMAIN index.Resources :
       LET type == LoadResourceType(typeFiles, index.Resources[name])
       IN  type # Failed /\ type.name = name
  /\ \A key \in DOMAIN index.ResourceFunctions : \A ref \in ToSet(index.ResourceFunctions[key]) :
       LET type == LoadResourceFunctionType(typeFiles, ref)
       IN  /\ type # Failed
           /\ LowerName(type.resourceType) = LowerName(key[1])
           /\ LowerName(type.apiVersion) = LowerName(key[2])
  /\ \A ref \in ToSet(index.NamespaceFunctions) :
       LoadNamespaceFunctionType(typeFiles, ref) # Failed
==============================================================================
