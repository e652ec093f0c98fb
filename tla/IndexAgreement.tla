---------------------------- MODULE IndexAgreement ----------------------------
(***************************************************************************)
(* Both index builders on the same type files.  BuildIndex (index.go:87)   *)
(* says of itself that it replicates "the ordering and duplicate detection *)
(* semantics of the TypeScript implementation"; this module says how far   *)
(* the two indexes agree, whether Go can read what TypeScript writes,      *)
(* whether C# can load what either of them lists, and whether the Markdown *)
(* pages of an index agree.                                                *)
(*                                                                         *)
(* The builders share nothing but their input, so running one after the    *)
(* other shows every pair of results.                                      *)
(***************************************************************************)
EXTENDS CsTypeLoader, IndexPages

CONSTANT Inputs  \* the arguments given to both

Reference == [ref : Nat] \cup [relativePath : Path, ref : Nat]

ASSUME InputAssumption ==
  \A in \in Inputs :
    /\ in.typeFiles \in Seq(TypeFile)
    /\ {in.fallback, in.configuration} \subseteq {None} \cup Reference

VARIABLES
  typeFiles,
  goFiles, goFile, goType, resourceSeen, functionSeen, idx,
  tsFiles, tsFile, tsType, resourceTypes, resourceFunctions, namespaceFunctionNames,
  resDictionary, funcDictionary, namespaceFunctions

goVars == <<goFiles, goFile, goType, resourceSeen, functionSeen, idx>>

tsVars == <<tsFiles, tsFile, tsType, resourceTypes, resourceFunctions, namespaceFunctionNames,
            resDictionary, funcDictionary, namespaceFunctions>>

Go == INSTANCE GoIndexBuilder WITH files <- goFiles, fileIndex <- goFile, typeIndex <- goType

Ts == INSTANCE TsIndexBuilder WITH files <- tsFiles, fileIndex <- tsFile, typeIndex <- tsType

Init == Go!Init /\ Ts!Start

Next ==
  \/ Go!Sort /\ UNCHANGED tsVars
  \/ Go!VisitType /\ UNCHANGED tsVars
  \/ Go!NextFile /\ UNCHANGED tsVars
  \/ Go!Done /\ Ts!Sort /\ UNCHANGED goVars
  \/ Go!Done /\ Ts!VisitType /\ UNCHANGED goVars
  \/ Go!Done /\ Ts!NextFile /\ UNCHANGED goVars

Spec == Init /\ [][Next]_<<typeFiles, goVars, tsVars>>

BothDone == Go!Done /\ Ts!Done /\ DistinctPaths(typeFiles)

(* Ordinary paths: not empty and without "#/".                             *)
PlainPaths == Go!PlainPaths

(* The type files lie on a disk.                                           *)
OneFilePerPath ==
  \A i, j \in 1..Len(typeFiles) : typeFiles[i].path = typeFiles[j].path => i = j

-----------------------------------------------------------------------------
(* Of the Go index alone (GoIndexBuilder): it lists the first resource and *)
(* the first resource function of each lower-case name, ...                *)
ResourcesIndexed == Go!ResourcesIndexed

ResourceFunctionsIndexed == Go!ResourceFunctionsIndexed

(* ... each resource exactly once even when sort.Slice may leave files in  *)
(* either order, ...                                                       *)
EachResourceOnce == Go!EachResourceOnce

(* ... and comes back unchanged from index.json, whatever fallback and     *)
(* configuration reference it has, when names and paths are plain.         *)
PlainIndexRoundTrips == Go!PlainIndexRoundTrips

(* Of the TypeScript index alone: it lists the first resource and the      *)
(* first namespace function of each lower-case name (TsIndexBuilder).      *)
FirstNamesIndexed == Ts!FirstNamesIndexed

(* And under a lower-case resource type and version every function         *)
(* declared for any spelling of them, each once, in file order.            *)
FunctionGroupsComplete == Ts!FunctionGroupsComplete

(* The two indexes list the same resources with a version, under the same  *)
(* text and with the same reference, whatever spellings and orders the     *)
(* input has; TypeScript lists the names without a version besides.        *)
ResourcesAgree ==
  BothDone =>
    /\ {FlatKey(key) : key \in DOMAIN idx.Resources} =
         {name \in DOMAIN resDictionary : Go!Splits(name)}
    /\ \A key \in DOMAIN idx.Resources : idx.Resources[key] = resDictionary[FlatKey(key)]

(* TypeScript groups resource functions by lower-case type and version, Go *)
(* by their spelling.  Neither loses a function the other has: the Go      *)
(* groups whose keys differ only in case make up one TypeScript group, in  *)
(* the same order.                                                         *)
LowerGroup(group) == <<LowerName(group[1]), LowerName(group[2])>>

FunctionsAgree ==
  BothDone =>
    /\ DOMAIN funcDictionary = {LowerGroup(group) : group \in DOMAIN idx.ResourceFunctions}
    /\ \A lower \in DOMAIN funcDictionary :
         ToSet(funcDictionary[lower]) =
           UNION {ToSet(idx.ResourceFunctions[group]) :
                    group \in {g \in DOMAIN idx.ResourceFunctions : LowerGroup(g) = lower}}
    /\ \A group \in DOMAIN idx.ResourceFunctions :
         LET goRefs == GetResourceFunctions(idx, group)
             tsRefs == funcDictionary[LowerGroup(group)]
         IN  \A i, j \in 1..Len(goRefs) : \A k, l \in 1..Len(tsRefs) :
               goRefs[i] = tsRefs[k] /\ goRefs[j] = tsRefs[l] => (i < j <=> k < l)

(* What TypeScript writes to index.json for the index it has built.  Its   *)
(* fallback and configuration references can only be cross-file ones.      *)
CrossFileText(ref) == IF "relativePath" \in DOMAIN ref THEN RefText(ref) ELSE None

TsFile ==
  [resources |-> MapSeq(resDictionary, RefText),
   resourceFunctions |-> [key \in DOMAIN funcDictionary |-> MapSeq(funcDictionary[key], RefText)],
   namespaceFunctions |-> MapSeq(namespaceFunctions, RefText),
   fallbackResourceType |-> CrossFileText(idx.FallbackResource),
   configurationType |-> CrossFileText(idx.ConfigurationType)]

(* Go reads the index.json of a TypeScript index whose names all have one  *)
(* At, and then GetResource finds under the two parts of a name what       *)
(* TypeScript listed, and GetResourceFunctions under a lower-case key all  *)
(* the functions of the group.                                             *)
GoReadsTsIndex ==
  BothDone /\ PlainPaths /\ (\A name \in DOMAIN resDictionary : Parts(name) # Failed) =>
    LET read == UnmarshalJSON(TsFile)
    IN  /\ read # Failed
        /\ \A name \in DOMAIN resDictionary :
             GetResource(read, Parts(name)) = resDictionary[name]
        /\ \A key \in DOMAIN funcDictionary :
             GetResourceFunctions(read, key) = funcDictionary[key]
        /\ read.NamespaceFunctions = namespaceFunctions
        /\ OptionalText(read.FallbackResource) = TsFile.fallbackResourceType
        /\ OptionalText(read.ConfigurationType) = TsFile.configurationType

(* Of the index that TypeScript built and Go has read, both write the same *)
(* page: every resource with the same heading, link and version, and the   *)
(* namespace functions by their names - unless there is no resource, when  *)
(* Go leaves the page empty.                                               *)
IndexPagesAgree ==
  LET read == UnmarshalJSON(TsFile)
  IN  BothDone /\ PlainPaths /\ DOMAIN resDictionary # {} /\ read # Failed =>
        GoIndexPage(read, typeFiles) = TsIndexPage(resDictionary, namespaceFunctions, typeFiles)

CsLoads(file) ==
  LET index == LoadTypeIndex(file)
  IN  index # Failed /\ NamesWhatItLoads(typeFiles, index)

(* C# reads the index of either builder if the paths of the files are      *)
(* plain, and all that it names can be loaded from the files it was built  *)
(* from, and is what it is named for.                                      *)
CsLoadsIndexes ==
  Go!Done /\ PlainPaths /\ OneFilePerPath =>
    /\ \A file \in MarshalJSON(idx) : CsLoads(file)
    /\ Ts!Done => CsLoads(TsFile)

(* "Replicating the ordering and duplicate detection semantics of the      *)
(* TypeScript implementation" (index.go:87), for namespace functions.      *)
NamespaceFunctionsAgree == BothDone => idx.NamespaceFunctions = namespaceFunctions
==============================================================================
