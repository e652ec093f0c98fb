---------------------------- MODULE GoIndexBuilder ----------------------------
(***************************************************************************)
(* BuildIndex of bicep-types-go/index/index.go: sort the type files by     *)
(* lower-case path, go through their types once, list each resource and    *)
(* resource function the first time its lower-case key is met, and every   *)
(* namespace function.                                                     *)
(***************************************************************************)
EXTENDS GoIndex

CONSTANT Inputs  \* the arguments: type files, fallback and configuration reference

VARIABLES
  typeFiles,     \* the input
  files,         \* its copy, which is sorted and gone through
  fileIndex,     \* the file being gone through, 0 before the sort
  typeIndex,     \* the type of it that is next
  resourceSeen,  \* lower-case resource names met
  functionSeen,  \* lower-case function keys met
  idx            \* the index under construction

vars == <<typeFiles, files, fileIndex, typeIndex, resourceSeen, functionSeen, idx>>

Init ==
  /\ \E in \in Inputs :
       /\ typeFiles = in.typeFiles
       /\ idx = [NewTypeIndex EXCEPT !.FallbackResource = in.fallback,
                                     !.ConfigurationType = in.configuration]
  /\ files = typeFiles /\ fileIndex = 0 /\ typeIndex = 0
  /\ resourceSeen = {} /\ functionSeen = {}

(* Mutant of Sort: leaves the files in the order given.                    *)
SortNothing ==
  /\ fileIndex = 0 /\ fileIndex' = 1 /\ typeIndex' = 1
  /\ UNCHANGED <<typeFiles, files, resourceSeen, functionSeen, idx>>

(* sort.Slice promises nothing about files whose lower-case paths are the  *)
(* same.                                                                   *)
Sort ==
  /\ fileIndex = 0 /\ fileIndex' = 1 /\ typeIndex' = 1
  /\ files' \in Orders(files)
  /\ UNCHANGED <<typeFiles, resourceSeen, functionSeen, idx>>

Done == fileIndex > Len(files)

(* splitResourceName: at the last At, with something on either side of it. *)
AtPos(n) == Max({0} \cup {i \in DOMAIN n : n[i] = At})

Splits(n) == AtPos(n) > 1 /\ AtPos(n) < Len(n)

splitResourceName(n) ==
  <<SubSeq(n, 1, AtPos(n) - 1), SubSeq(n, AtPos(n) + 1, Len(n))>>

(* Mutants of IndexResource: it takes note of the name before it is lower  *)
(* case, or only of the part before the version.                           *)
IndexResourceBySpelling(t, ref) ==
  /\ idx' = IF t.name \in resourceSeen \/ ~Splits(t.name) THEN idx
            ELSE AddResource(idx, splitResourceName(t.name), ref)
  /\ resourceSeen' = resourceSeen \cup {t.name}
  /\ UNCHANGED functionSeen

IndexResourceWithoutVersion(t, ref) ==
  /\ idx' = IF ~Splits(t.name) \/ LowerName(splitResourceName(t.name)[1]) \in resourceSeen
            THEN idx ELSE AddResource(idx, splitResourceName(t.name), ref)
  /\ resourceSeen' = resourceSeen \cup
       {LowerName(IF Splits(t.name) THEN splitResourceName(t.name)[1] ELSE t.name)}
  /\ UNCHANGED functionSeen

IndexResource(t, ref) ==
  /\ idx' = IF ResourceKey(t) \in resourceSeen \/ ~Splits(t.name) THEN idx
            ELSE AddResource(idx, splitResourceName(t.name), ref)
  /\ resourceSeen' = resourceSeen \cup {ResourceKey(t)}
  /\ UNCHANGED functionSeen

FunctionGroup(t) == <<t.resourceType, t.apiVersion>>

IndexResourceFunction(t, ref) ==
  /\ idx' = IF FunctionKey(t) \in functionSeen THEN idx
            ELSE AddResourceFunction(idx, FunctionGroup(t), ref)
  /\ functionSeen' = functionSeen \cup {FunctionKey(t)}
  /\ UNCHANGED resourceSeen

IndexNamespaceFunction(ref) ==
  /\ idx' = AddNamespaceFunction(idx, ref)
  /\ UNCHANGED <<resourceSeen, functionSeen>>

(* One round of the inner loop.                                            *)
VisitType ==
  /\ fileIndex \in 1..Len(files) /\ typeIndex <= Len(files[fileIndex].types)
  /\ LET t == EntryOf(files[fileIndex], typeIndex).type
         ref == EntryOf(files[fileIndex], typeIndex).ref
     IN  \/ t.kind = "ResourceType" /\ IndexResource(t, ref)
         \/ t.kind = "ResourceFunctionType" /\ IndexResourceFunction(t, ref)
         \/ t.kind = "NamespaceFunctionType" /\ IndexNamespaceFunction(ref)
         \/ t.kind = "ObjectType" /\ UNCHANGED <<resourceSeen, functionSeen, idx>>
  /\ typeIndex' = typeIndex + 1
  /\ UNCHANGED <<typeFiles, files, fileIndex>>

(* And of the outer loop.                                                  *)
NextFile ==
  /\ fileIndex \in 1..Len(files) /\ typeIndex > Len(files[fileIndex].types)
  /\ fileIndex' = fileIndex + 1 /\ typeIndex' = 1
  /\ UNCHANGED <<typeFiles, files, resourceSeen, functionSeen, idx>>

Next == Sort \/ VisitType \/ NextFile

Spec == Init /\ [][Next]_vars

-----------------------------------------------------------------------------
(* The finished index lists exactly the first type of each lower-case      *)
(* name, under its own spelling; the order in which the files were given   *)
(* does not matter as long as their lower-case paths differ.               *)
ResourcesIndexed ==
  Done /\ DistinctPaths(typeFiles) =>
    LET listed == {e \in FirstOfKey(EntrySet(typeFiles, "ResourceType"), ResourceKey) :
                     Splits(e.type.name)}
    IN  /\ DOMAIN idx.Resources = {splitResourceName(e.type.name) : e \in listed}
        /\ \A e \in listed : GetResource(idx, splitResourceName(e.type.name)) = e.ref

(* Resource functions likewise, the functions of a resource version being  *)
(* listed in the order of the sorted files.                                *)
ResourceFunctionsIndexed ==
  Done /\ DistinctPaths(typeFiles) =>
    LET listed == FirstOfKey(EntrySet(typeFiles, "ResourceFunctionType"), FunctionKey)
    IN  /\ DOMAIN idx.ResourceFunctions = {FunctionGroup(e.type) : e \in listed}
        /\ \A group \in DOMAIN idx.ResourceFunctions :
             ListsInOrder(GetResourceFunctions(idx, group),
                          {e \in listed : FunctionGroup(e.type) = group})

(* Whatever the paths, and whichever way the sort leaves files of equal    *)
(* lower-case path, no resource is lost and none is listed twice.          *)
EachResourceOnce ==
  Done => \A e \in EntrySet(typeFiles, "ResourceType") : Splits(e.type.name) =>
    Cardinality({key \in DOMAIN idx.Resources :
                   LowerName(FlatKey(key)) = ResourceKey(e.type)}) = 1

(* A finished index that is written to index.json and read again is the    *)
(* same index.                                                             *)
IndexRoundTrips == Done => \A file \in MarshalJSON(idx) : UnmarshalJSON(file) = idx

(* It is when no resource type contains the separator At, no path contains *)
(* "#/" and none is empty.                                                 *)
Plain(path) == Len(path) = 1 /\ path # <<"">>

PlainPaths ==
  /\ \A k \in 1..Len(typeFiles) : Plain(typeFiles[k].path)
  /\ \A r \in {idx.FallbackResource, idx.ConfigurationType} :
       "relativePath" \in DOMAIN r => Plain(r.relativePath)

PlainIndexRoundTrips ==
  PlainPaths /\ (\A key \in DOMAIN idx.Resources : ~Contains(key[1], At)) => IndexRoundTrips
==============================================================================
