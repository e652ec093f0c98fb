------------------------------ MODULE BicepEmitter ------------------------------
(***************************************************************************)
(* The TypeSpec emitter (bicep-typespec-emitter/src: emitter.ts,           *)
(* fallback.ts, decorators.ts, validate.ts).  The compiler first has the   *)
(* library validate the program, which generates everything and forgets    *)
(* it, and if no error was reported has it emit: everything is generated   *)
(* again and written to the output directory, the index first.             *)
(*                                                                         *)
(* A program has namespaces (a simple name, the one above, versions if it  *)
(* is @versioned, the name given by @bicepResourceNamespace) and models;   *)
(* namespaces and decorated models are listed in the order the compiler    *)
(* visits them.  A program is edited between compilations; the output      *)
(* directory stays.                                                        *)
(***************************************************************************)
EXTENDS TypeSpecTransform, IndexInput

CONSTANTS
  Programs,        \* the programs that may be compiled
  MaxCompilations  \* bound of the model

VARIABLES
  program,       \* what is compiled
  pass,          \* "validate" or "emit"
  pc,
  root,          \* the types of no namespace: their table and who they are for
  todo,          \* the decorated namespaces that are left to generate
  typeFiles,
  index,
  said,          \* severities of what was reported
  pending,       \* the files that are left to write
  directory,     \* the output directory
  result,        \* how the last compilation ended
  emitted,       \* history: the program all files are from; None in between
  compilations

vars == <<program, pass, pc, root, todo, typeFiles, index, said, pending, directory, result, emitted, compilations>>

-----------------------------------------------------------------------------
(* The decorations of a program, and the versioning library.               *)
Namespaces(p) == DOMAIN p.namespaces

Marked(p, mark) == SelectSeq(p.order, LAMBDA name : mark \in p.models[name].marks)

RECURSIVE findVersionedNamespace(_, _)
findVersionedNamespace(p, ns) ==
  CASE ns = None -> None
    [] ns # None /\ p.namespaces[ns].versions # None -> ns
    [] OTHER -> findVersionedNamespace(p, p.namespaces[ns].parent)

(* The models as they are in a version.                                    *)
Snapshot(models, version) ==
  [name \in {name \in DOMAIN models : version \in models[name].versions} |->
     [models[name] EXCEPT !.properties = SelectSeq(@, LAMBDA q : version \in q.versions)]]

(* The models a type mentions.                                             *)
RECURSIVE Mentioned(_)
Mentioned(type) ==
  CASE type.kind = "Model" -> {type.name}
    [] type.kind = "Array" -> Mentioned(type.item)
    [] type.kind \in {"Enum", "Union"} -> UNION {Mentioned(t) : t \in ToSet(type.members)}
    [] type.kind = "DiscriminatedUnion" /\ type.variants # Ambiguous ->
         UNION {Mentioned(v.type) : v \in ToSet(type.variants)}
    [] OTHER -> {}

MentionedInEach(list) == UNION {Mentioned(q.type) : q \in ToSet(list)}

MentionedInIndexer(model) == IF model.indexer = None THEN {} ELSE Mentioned(model.indexer.type)

RECURSIVE Reached(_, _)
Reached(next, names) ==
  LET more == names \cup UNION {next[name] : name \in names}
  IN  IF more = names THEN names ELSE Reached(next, more)

(* The models the compiler visits for a namespace: those in it and those   *)
(* below, and from there the models that properties and indexers mention,  *)
(* bases and derived models, whatever namespace they are in.               *)
VisitedNext(models) ==
  [name \in DOMAIN models |->
     MentionedInEach(models[name].properties) \cup MentionedInIndexer(models[name])
       \cup ({models[name].base} \ {None}) \cup {other \in DOMAIN models : models[other].base = name}]

ModelsIn(p, ns, version) ==
  LET models == Snapshot(p.models, version)
      inside == {name \in DOMAIN models : findVersionedNamespace(p, models[name].namespace) = ns}
      visited == Reached(VisitedNext(models), inside)
  IN  SelectSeq(p.order, LAMBDA name : name \in visited)

(* A fallback or configuration type is reported if there are several or if *)
(* it is versioned; one that is alone is used in any case.                 *)
SingletonErrors(p, mark) ==
  LET found == Marked(p, mark)
  IN  Len(found) > 1 \/ \E name \in ToSet(found) : findVersionedNamespace(p, p.models[name].namespace) # None

getSingletonDecoratedModel(p, mark) ==
  IF Len(Marked(p, mark)) = 1 THEN Marked(p, mark)[1] ELSE None

-----------------------------------------------------------------------------
Model(name) == [kind |-> "Model", name |-> name]

ResourceType(name, readable, writable, body) ==
  [kind |-> "ResourceType", name |-> name, says |-> {<<"readable", readable>>, <<"writable", writable>>},
   parts |-> <<"body", "type">> :> body]

Fallback == <<"FallbackResourceType">>

ResourceName(p, name, version) ==
  <<p.namespaces[p.models[name].namespace].extension, "/", p.models[name].resource, At, version>>

addUnscopedResourceType(p, m, body, name, version) ==
  IF ~Going(body) THEN body
  ELSE AddNew(body, Len(m.refs),
         ResourceType(ResourceName(p, name, version), "readable" \in p.models[name].marks,
                      "writable" \in p.models[name].marks, body.refs[Len(body.refs)]))

generateTypeForVersionedModel(p, models, m, name, version) ==
  IF models[name].resource = None THEN m
  ELSE IF p.namespaces[models[name].namespace].extension = None THEN Fail(m)
  ELSE addUnscopedResourceType(p, m, generateType(models, m, Model(name), {}), name, version)

(* Every model is tried, also after one that failed.                       *)
Tried(m, after) ==
  IF m.outcome = "overflow" THEN m
  ELSE IF Going(after) THEN [after EXCEPT !.outcome = m.outcome] ELSE after

generateTypesForMutatedNamespace(p, ns, version) ==
  LET Try(m, name) ==
        Tried(m, generateTypeForVersionedModel(p, Snapshot(p.models, version), [m EXCEPT !.outcome = "going"], name, version))
  IN  FoldLeft(Try, Start(<<>>), ModelsIn(p, ns, version))

(* The files of the namespace that is versioned, which may be above; all   *)
(* of them are dropped if one fails, and the versions after it not tried.  *)
WithFile(all, path, made) ==
  IF ~Going(all) THEN all
  ELSE [files |-> IF Going(made) THEN Append(all.files, [path |-> path, types |-> made.table]) ELSE <<>>,
        said |-> all.said \cup made.said, outcome |-> made.outcome]

generateTypesForNamespace(p, ns) ==
  LET versioned == findVersionedNamespace(p, ns)
      Try(all, version) == WithFile(all, <<p.namespaces[versioned].name, version>>,
                                    generateTypesForMutatedNamespace(p, versioned, version))
  IN  IF versioned = None \/ p.namespaces[versioned].versions = <<>>
      THEN [files |-> <<>>, said |-> {"error"}, outcome |-> "failed"]
      ELSE FoldLeft(Try, [files |-> <<>>, said |-> {}, outcome |-> "going"], p.namespaces[versioned].versions)

(* buildIndex, on files without functions: TsIndexBuilder in one step.     *)
InOrder(files) ==
  LET Before(i, j) == LET iRank == PathRank[files[i].path]
                          jRank == PathRank[files[j].path]
                      IN  iRank < jRank \/ (iRank = jRank /\ i < j)
      order == SortSeq([i \in DOMAIN files |-> i], Before)
  IN  [k \in DOMAIN files |-> files[order[k]]]

buildIndex(files) ==
  LET found == SelectSeq(Entries(InOrder(files)), LAMBDA e : e.type.kind = "ResourceType")
      First(i) == \A j \in 1..(i - 1) : ResourceKey(found[j].type) # ResourceKey(found[i].type)
  IN  {[name |-> found[i].type.name, ref |-> found[i].ref] : i \in {i \in DOMAIN found : First(i)}}

-----------------------------------------------------------------------------
RootFile == <<"types">>  \* types.json, the file of the types of no namespace

NoRoot == [table |-> <<>>, fallback |-> None, configuration |-> None, functions |-> <<>>]

NoIndex == [resources |-> {}, fallback |-> None, configuration |-> None, functions |-> <<>>]

Init ==
  /\ program = None
  /\ pass = "validate" /\ pc = "idle" /\ result = "none"
  /\ root = NoRoot /\ index = NoIndex
  /\ todo = <<>> /\ typeFiles = <<>> /\ pending = <<>>
  /\ said = {}
  /\ directory = [index |-> NoIndex, files |-> <<>>]
  /\ emitted = None
  /\ compilations = 0

GenerateRoot ==
  /\ root' = NoRoot
  /\ typeFiles' = <<>>
  /\ pc' = "fallback"

Compile(p) ==
  /\ pc = "idle"
  /\ compilations < MaxCompilations
  /\ compilations' = compilations + 1
  /\ program' = p
  /\ pass' = "validate"
  /\ said' = {}
  /\ GenerateRoot
  /\ UNCHANGED <<todo, index, pending, directory, result, emitted>>

(* A call of generateType from the root: made with the root's table.  The  *)
(* stack overflow is an exception nobody catches, and ends the compiler.   *)
Generated(made, reported, next, changed) ==
  /\ said' = said \cup made.said \cup reported
  /\ IF made.outcome = "overflow"
     THEN /\ pc' = "idle" /\ result' = "overflow"
          /\ UNCHANGED root
     ELSE /\ pc' = next
          /\ root' = [changed EXCEPT !.table = made.table]
          /\ UNCHANGED result
  /\ UNCHANGED <<program, pass, todo, typeFiles, index, pending, directory, emitted, compilations>>

LastRef(made) == made.refs[Len(made.refs)]

(* The model that is decorated, if there is one, generated into the table. *)
GeneratedFor(mark) ==
  IF getSingletonDecoratedModel(program, mark) = None THEN Start(root.table)
  ELSE generateType(program.models, Start(root.table), Model(getSingletonDecoratedModel(program, mark)), {})

Reported(mark) == IF SingletonErrors(program, mark) THEN {"error"} ELSE {}

(* generateFallbackType.                                                   *)
GenerateFallback ==
  /\ pc = "fallback"
  /\ \E body \in {GeneratedFor("fallback")} :
       LET made == AddNew(body, 0, ResourceType(Fallback, FALSE, TRUE, LastRef(body)))
       IN  IF Going(body) /\ body.refs # <<>>
           THEN Generated(made, Reported("fallback"), "configuration", [root EXCEPT !.fallback = LastRef(made)])
           ELSE Generated(body, Reported("fallback"), "configuration", root)

(* generateConfigurationType.                                              *)
GenerateConfiguration ==
  /\ pc = "configuration"
  /\ \E made \in {GeneratedFor("configuration")} :
       Generated(made, Reported("configuration"), "functions",
                 IF Going(made) /\ made.refs # <<>> THEN [root EXCEPT !.configuration = LastRef(made)] ELSE root)

(* generateNamespaceFunctions: those that fail are left out.               *)
WithFunction(m, after) ==
  IF m.outcome = "overflow" THEN m
  ELSE IF after.outcome = "failed" THEN [after EXCEPT !.refs = m.refs, !.outcome = "going"] ELSE after

GenerateFunctions ==
  /\ pc = "functions"
  /\ LET Try(m, name) == WithFunction(m, generateNamespaceFunctionType(program.models, m, name))
     IN  \E made \in {FoldLeft(Try, Start(root.table), Marked(program, "function"))} :
           Generated(made, {}, "collect", [root EXCEPT !.functions = made.refs])

(* generateTypesForAllVersions collects the decorated namespaces, ...      *)
CollectNamespaces ==
  /\ pc = "collect"
  /\ todo' = SelectSeq(program.namespaceOrder, LAMBDA ns : program.namespaces[ns].extension # None)
  /\ pc' = "namespaces"
  /\ UNCHANGED <<program, pass, root, typeFiles, index, said, pending, directory, result, emitted, compilations>>

(* ... and generates their files.                                          *)
GenerateNamespace ==
  /\ pc = "namespaces"
  /\ todo # <<>>
  /\ \E made \in {generateTypesForNamespace(program, Head(todo))} :
       /\ said' = said \cup made.said
       /\ typeFiles' = typeFiles \o made.files
       /\ todo' = Tail(todo)
       /\ IF made.outcome = "overflow" THEN pc' = "idle" /\ result' = "overflow" ELSE UNCHANGED <<pc, result>>
  /\ UNCHANGED <<program, pass, root, index, pending, directory, emitted, compilations>>

(* The index is built without types.json; its references are added.        *)
BuildIndex ==
  /\ pc = "namespaces"
  /\ todo = <<>>
  /\ index' = [resources |-> buildIndex(typeFiles), fallback |-> root.fallback,
               configuration |-> root.configuration, functions |-> root.functions]
  /\ pc' = "generated"
  /\ UNCHANGED <<program, pass, root, todo, typeFiles, said, pending, directory, result, emitted, compilations>>

(* The compiler does not emit after an error.                              *)
EndValidation ==
  /\ pc = "generated" /\ pass = "validate"
  /\ IF "error" \in said
     THEN /\ pc' = "idle" /\ result' = "errors"
          /\ UNCHANGED <<pass, root, typeFiles>>
     ELSE /\ pass' = "emit"
          /\ GenerateRoot
          /\ UNCHANGED result
  /\ UNCHANGED <<program, todo, index, said, pending, directory, emitted, compilations>>

(* $onEmit.                                                                *)
WriteIndex ==
  /\ pc = "generated" /\ pass = "emit"
  /\ directory' = [directory EXCEPT !.index = index]
  /\ pending' = typeFiles \o (IF root.table = <<>> THEN <<>> ELSE <<[path |-> RootFile, types |-> root.table]>>)
  /\ emitted' = None
  /\ pc' = "writing"
  /\ UNCHANGED <<program, pass, root, todo, typeFiles, index, said, result, compilations>>

(* Mutant of WriteFile: a file that is there is kept.                      *)
WriteFileOnce ==
  /\ pc = "writing"
  /\ pending # <<>>
  /\ directory' = [directory EXCEPT !.files = @ @@ (Head(pending).path :> Head(pending).types)]
  /\ pending' = Tail(pending)
  /\ UNCHANGED <<program, pass, pc, root, todo, typeFiles, index, said, result, emitted, compilations>>

WriteFile ==
  /\ pc = "writing"
  /\ pending # <<>>
  /\ directory' = [directory EXCEPT !.files = (Head(pending).path :> Head(pending).types) @@ @]
  /\ pending' = Tail(pending)
  /\ UNCHANGED <<program, pass, pc, root, todo, typeFiles, index, said, result, emitted, compilations>>

EndEmission ==
  /\ pc = "writing"
  /\ pending = <<>>
  /\ emitted' = program
  /\ pc' = "idle" /\ result' = "emitted"
  /\ UNCHANGED <<program, pass, root, todo, typeFiles, index, said, pending, directory, compilations>>

Killed ==
  /\ pc = "writing"
  /\ pc' = "idle" /\ result' = "killed"
  /\ pending' = <<>>
  /\ UNCHANGED <<program, pass, root, todo, typeFiles, index, said, directory, emitted, compilations>>

Next ==
  \/ \E p \in Programs : Compile(p)
  \/ GenerateFallback
  \/ GenerateConfiguration
  \/ GenerateFunctions
  \/ CollectNamespaces
  \/ GenerateNamespace
  \/ BuildIndex
  \/ EndValidation
  \/ WriteIndex
  \/ WriteFile
  \/ EndEmission
  \/ Killed

Spec == Init /\ [][Next]_vars

-----------------------------------------------------------------------------
(* What is in a table refers to what is before it, so that a reader can    *)
(* resolve the types of a file one after the other, and none contains      *)
(* itself.                                                                 *)
PointsBackwards(table) ==
  \A i \in DOMAIN table : \A label \in DOMAIN table[i].parts : table[i].parts[label] \in 0..(i - 2)

TablesPointBackwards ==
  /\ PointsBackwards(root.table)
  /\ \A i \in DOMAIN typeFiles : PointsBackwards(typeFiles[i].types)

Emitted == emitted # None /\ pc # "writing"

(* Two versioned namespaces of one simple name, with a version in common,  *)
(* have the same file.                                                     *)
PathsCollide(p) ==
  \E ns, other \in Namespaces(p) :
    /\ ns # other /\ p.namespaces[ns].name = p.namespaces[other].name
    /\ None \notin {p.namespaces[ns].versions, p.namespaces[other].versions}
    /\ ToSet(p.namespaces[ns].versions) \cap ToSet(p.namespaces[other].versions) # {}

Resolves(path, ref) == path \in DOMAIN directory.files /\ ref + 1 \in DOMAIN directory.files[path]

EntryAt(path, ref) == directory.files[path][ref + 1]

Means(path, ref, models, name) == Unfold(directory.files[path], ref) = Tree(models, Model(name))

(* The versions of the resource models.                                    *)
Resources(p) ==
  {<<name, v>> \in (DOMAIN p.models) \X Token :
     /\ p.models[name].resource # None
     /\ v \in p.models[name].versions
     /\ LET ns == findVersionedNamespace(p, p.models[name].namespace)
        IN  ns # None /\ v \in ToSet(p.namespaces[ns].versions)}

(* The files in the directory are those of the program that was emitted    *)
(* last, whatever was there before from other programs or killed           *)
(* compilations: an entry of the index leads to the resource type of its   *)
(* name, and that says of its properties what the model says in that       *)
(* version.                                                                *)
IndexedAsWritten ==
  Emitted /\ ~PathsCollide(emitted) =>
    \A entry \in directory.index.resources :
      /\ Resolves(entry.ref.relativePath, entry.ref.ref)
      /\ LET type == EntryAt(entry.ref.relativePath, entry.ref.ref)
         IN  /\ type.kind = "ResourceType" /\ type.name = entry.name
             /\ \E <<name, v>> \in Resources(emitted) :
                  /\ emitted.namespaces[emitted.models[name].namespace].extension # None
                  /\ ResourceName(emitted, name, v) = entry.name
                  /\ Means(entry.ref.relativePath, type.parts[<<"body", "type">>], Snapshot(emitted.models, v), name)

(* Resource models of a versioned namespace without a decorated one are    *)
(* not looked for.                                                         *)
DecoratedIn(p, ns) ==
  \E other \in Namespaces(p) :
    p.namespaces[other].extension # None /\ findVersionedNamespace(p, other) = ns

(* The decorator of a function is content with properties the model        *)
(* inherits; generation looks at its own.                                  *)
InheritsOutput(models, name) == Named(models[name].properties, "outputType") = <<>>

InheritsParameters(models, name) == ParametersOf(models, name) # AllParametersOf(models, name)

(* A compilation without errors has left nothing out: each resource model  *)
(* is in the index in each of its versions; the types of no namespace are  *)
(* referred to and in types.json, the functions in the order of the        *)
(* program and with the parameters and the output it says.  Not so, and    *)
(* without a word from the compiler: resource models of a versioned        *)
(* namespace without a decorated one (DecoratedIn), functions that inherit *)
(* their output, which are left out (InheritsOutput), and parameters that  *)
(* are inherited (InheritsParameters).                                     *)
NothingLost ==
  Emitted /\ ~PathsCollide(emitted) =>
    LET p == emitted
        functions == SelectSeq(Marked(p, "function"), LAMBDA name : ~InheritsOutput(p.models, name))
        Root(ref, kind) == Resolves(RootFile, ref) /\ EntryAt(RootFile, ref).kind = kind
    IN  /\ \A <<name, v>> \in Resources(p) :
             DecoratedIn(p, findVersionedNamespace(p, p.models[name].namespace)) =>
               \E entry \in directory.index.resources :
                 LowerName(entry.name) = LowerName(ResourceName(p, name, v))
        /\ \A name \in ToSet(Marked(p, "fallback")) :
             /\ Root(directory.index.fallback, "ResourceType")
             /\ Means(RootFile, EntryAt(RootFile, directory.index.fallback).parts[<<"body", "type">>], p.models, name)
        /\ \A name \in ToSet(Marked(p, "configuration")) :
             Means(RootFile, directory.index.configuration, p.models, name)
        /\ Len(directory.index.functions) = Len(functions)
        /\ \A i \in DOMAIN functions :
             /\ Root(directory.index.functions[i], "NamespaceFunctionType")
             /\ <<"name", functions[i]>> \in EntryAt(RootFile, directory.index.functions[i]).says
             /\ ~InheritsParameters(p.models, functions[i]) =>
                  Unfold(directory.files[RootFile], directory.index.functions[i]) = FunctionTree(p.models, functions[i])

(* The models a model is made of, and what they are made of.               *)
MadeOf(models) ==
  [name \in DOMAIN models |->
     LET model == models[name]
     IN  MentionedInEach(walkPropertiesInherited(models, name)) \cup MentionedInIndexer(model)
           \cup (IF model.variants \in {None, Ambiguous} THEN {} ELSE MentionedInEach(model.variants))]

ContainedIn(models, name) == Reached(MadeOf(models), MadeOf(models)[name])

(* The compiler overflows its stack only on a program with a model that    *)
(* contains itself, be it in one version, and never emits a resource with  *)
(* such a model in it.                                                     *)
OverflowsOnCycles ==
  /\ result = "overflow" /\ pc = "idle" =>
       \E models \in {program.models} \cup {Snapshot(program.models, v) : v \in Token} :
         \E name \in DOMAIN models : name \in ContainedIn(models, name)
  /\ Emitted =>
       \A <<name, v>> \in Resources(emitted) :
         LET models == Snapshot(emitted.models, v)
         IN  DecoratedIn(emitted, findVersionedNamespace(emitted, emitted.models[name].namespace)) =>
               \A other \in {name} \cup ContainedIn(models, name) : other \notin ContainedIn(models, other)
==============================================================================
