---------------------------- MODULE TsIndexBuilder ----------------------------
(***************************************************************************)
(* buildIndex of bicep-types/src/indexer.ts.  Against the Go builder: a    *)
(* resource is listed under its whole name, whether it has a version or    *)
(* not; resource functions are grouped by lower-case type and version; and *)
(* a namespace function is listed the first time its name is met.          *)
(***************************************************************************)
EXTENDS IndexInput

CONSTANT Inputs  \* the sequences of type files the builder may be given

VARIABLES
  typeFiles,
  files, fileIndex, typeIndex,  \* the sorted files, the one being gone through, and
                                \* the type of it that is next; 0 before the sort
  resourceTypes, resourceFunctions, namespaceFunctionNames, \* keys met
  resDictionary,      \* name to reference
  funcDictionary,     \* <<lower-case type, lower-case version>> to references
  namespaceFunctions

vars == <<typeFiles, files, fileIndex, typeIndex, resourceTypes, resourceFunctions,
          namespaceFunctionNames, resDictionary, funcDictionary, namespaceFunctions>>

Start ==
  /\ files = <<>> /\ fileIndex = 0 /\ typeIndex = 0
  /\ resourceTypes = {} /\ resourceFunctions = {} /\ namespaceFunctionNames = {}
  /\ resDictionary = <<>> /\ funcDictionary = <<>> /\ namespaceFunctions = <<>>

Init == typeFiles \in Inputs /\ Start

(* The comparator of orderBy (utils.ts) never answers "equal": of two      *)
(* equal keys it puts the one it is handed first second.  The merge sort   *)
(* of V8 only moves an element ahead of another on a negative answer, so   *)
(* equal keys stay in the order of the input.                              *)
Before(input, i, j) ==
  LET iRank == PathRank[input[i].path]
      jRank == PathRank[input[j].path]
  IN  iRank < jRank \/ (iRank = jRank /\ i < j)

(* Mutant of OrderBy: leaves the files in the order given.                 *)
OrderByNothing(input) == {input}

OrderBy(input) ==
  {[k \in 1..Len(input) |-> input[perm[k]]] :
     perm \in {p \in Bijection(1..Len(input), 1..Len(input)) :
                 \A i, j \in 1..Len(input) : i < j => Before(input, p[i], p[j])}}

Sort ==
  /\ fileIndex = 0 /\ fileIndex' = 1 /\ typeIndex' = 1
  /\ files' \in OrderBy(typeFiles)
  /\ UNCHANGED <<typeFiles, resourceTypes, resourceFunctions, namespaceFunctionNames,
                 resDictionary, funcDictionary, namespaceFunctions>>

Done == fileIndex > Len(files)

FunctionGroup(t) == <<LowerName(t.resourceType), LowerName(t.apiVersion)>>

(* Mutants of IndexResource: it takes note of the name as it is spelled,   *)
(* or lists it in lower case.                                              *)
IndexResourceBySpelling(t, ref) ==
  /\ resDictionary' = IF t.name \in resourceTypes THEN resDictionary
                      ELSE Put(resDictionary, t.name, ref)
  /\ resourceTypes' = resourceTypes \cup {t.name}
  /\ UNCHANGED <<resourceFunctions, namespaceFunctionNames, funcDictionary,
                 namespaceFunctions>>

IndexResourceInLowerCase(t, ref) ==
  /\ resDictionary' = IF ResourceKey(t) \in resourceTypes THEN resDictionary
                      ELSE Put(resDictionary, LowerName(t.name), ref)
  /\ resourceTypes' = resourceTypes \cup {ResourceKey(t)}
  /\ UNCHANGED <<resourceFunctions, namespaceFunctionNames, funcDictionary,
                 namespaceFunctions>>

IndexResource(t, ref) ==
  /\ resDictionary' = IF ResourceKey(t) \in resourceTypes THEN resDictionary
                      ELSE Put(resDictionary, t.name, ref)
  /\ resourceTypes' = resourceTypes \cup {ResourceKey(t)}
  /\ UNCHANGED <<resourceFunctions, namespaceFunctionNames, funcDictionary,
                 namespaceFunctions>>

IndexResourceFunction(t, ref) ==
  LET group == FunctionGroup(t)
      known == IF group \in DOMAIN funcDictionary THEN funcDictionary[group] ELSE <<>>
  IN  /\ funcDictionary' = IF FunctionKey(t) \in resourceFunctions THEN funcDictionary
                           ELSE Put(funcDictionary, group, Append(known, ref))
      /\ resourceFunctions' = resourceFunctions \cup {FunctionKey(t)}
      /\ UNCHANGED <<resourceTypes, namespaceFunctionNames, resDictionary,
                     namespaceFunctions>>

(* Mutant of IndexNamespaceFunction: lists every one, as Go does.          *)
IndexEveryNamespaceFunction(t, ref) ==
  /\ namespaceFunctions' = Append(namespaceFunctions, ref)
  /\ UNCHANGED <<resourceTypes, resourceFunctions, namespaceFunctionNames,
                 resDictionary, funcDictionary>>

IndexNamespaceFunction(t, ref) ==
  /\ namespaceFunctions' = IF ResourceKey(t) \in namespaceFunctionNames
                           THEN namespaceFunctions ELSE Append(namespaceFunctions, ref)
  /\ namespaceFunctionNames' = namespaceFunctionNames \cup {ResourceKey(t)}
  /\ UNCHANGED <<resourceTypes, resourceFunctions, resDictionary, funcDictionary>>

VisitType ==
  /\ fileIndex \in 1..Len(files) /\ typeIndex <= Len(files[fileIndex].types)
  /\ LET t == EntryOf(files[fileIndex], typeIndex).type
         ref == EntryOf(files[fileIndex], typeIndex).ref
     IN  \/ t.kind = "ResourceType" /\ IndexResource(t, ref)
         \/ t.kind = "ResourceFunctionType" /\ IndexResourceFunction(t, ref)
         \/ t.kind = "NamespaceFunctionType" /\ IndexNamespaceFunction(t, ref)
         \/ /\ t.kind = "ObjectType"
            /\ UNCHANGED <<resourceTypes, resourceFunctions, namespaceFunctionNames,
                           resDictionary, funcDictionary, namespaceFunctions>>
  /\ typeIndex' = typeIndex + 1
  /\ UNCHANGED <<typeFiles, files, fileIndex>>

NextFile ==
  /\ fileIndex \in 1..Len(files) /\ typeIndex > Len(files[fileIndex].types)
  /\ fileIndex' = fileIndex + 1 /\ typeIndex' = 1
  /\ UNCHANGED <<typeFiles, files, resourceTypes, resourceFunctions, namespaceFunctionNames,
                 resDictionary, funcDictionary, namespaceFunctions>>

Next == Sort \/ VisitType \/ NextFile

Spec == Init /\ [][Next]_vars

-----------------------------------------------------------------------------
(* The finished index lists the first resource and the first namespace     *)
(* function of each lower-case name, whatever order the files came in, as  *)
(* long as their lower-case paths differ.                                  *)
FirstNamesIndexed ==
  Done /\ DistinctPaths(typeFiles) =>
    LET listed == FirstOfKey(EntrySet(typeFiles, "ResourceType"), ResourceKey)
    IN  /\ DOMAIN resDictionary = {e.type.name : e \in listed}
        /\ \A e \in listed : resDictionary[e.type.name] = e.ref
        /\ ListsInOrder(namespaceFunctions,
                        FirstOfKey(EntrySet(typeFiles, "NamespaceFunctionType"), ResourceKey))

(* A lookup that lower-cases a resource type and version finds every       *)
(* function declared for any spelling of them, each once, in file order.   *)
FunctionGroupsComplete ==
  Done /\ DistinctPaths(typeFiles) =>
    LET listed == FirstOfKey(EntrySet(typeFiles, "ResourceFunctionType"), FunctionKey)
    IN  /\ DOMAIN funcDictionary = {FunctionGroup(e.type) : e \in listed}
        /\ \A group \in DOMAIN funcDictionary :
             ListsInOrder(funcDictionary[group],
                          {e \in listed : FunctionGroup(e.type) = group})
==============================================================================
