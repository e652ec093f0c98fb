# bicep-types: a TLA+ model

The repository holds one data format in three languages. A *type factory* keeps
a table of types; a type refers to another by its place in the table (`#/3`), an
*index* refers to types of several tables by path and place
(`./ns/v1/types.json#/3`). The tables and the index are written as JSON, with
Markdown pages beside them, and read by the Bicep compiler. TypeScript and Go
libraries build and write them, a TypeSpec emitter drives the TypeScript
library, and a C# library reads (and can write) them.

A number on its own says nothing about the type it stands for. Everything that
can go wrong is of that kind: a number used with another table or at another
time than the one it was issued for, two builders that do not agree on which
type a name stands for, a text that is not read back as it was written, a walk
over a graph of numbers that does not end.

Source paths below are relative to `src/src/`.

## 1. Inventory

| Component | State | Operations | Correct when |
|---|---|---|---|
| **Go type factory** `bicep-types-go/factory/factory.go` | `typeList` (a slice), `typeMap` from (type, pointer) to index | `GetReference`, 40 `Create...` methods, four helpers that register strings as they go, `GetTypes` (returns the slice itself), `Reset` | list and map are inverse; a reference denotes the type it was issued for until `Reset`; a returned slice stays valid |
| **Small Go factory** `bicep-types-go/types/types.go:92` | the same | `GetReference`, `GetTypes` | as above |
| **Go index** `bicep-types-go/index/index.go` | `TypeIndex`: resources and resource functions by type and version, namespace functions, fallback and configuration references | `BuildIndex`, `AddResource` ..., `MarshalJSON`, `UnmarshalJSON` | the index depends on the set of files, not on their order; first of each name wins; read after write is the identity |
| **Go types and codec** `bicep-types-go/types` | none | `MarshalJSON`, `UnmarshalJSON`, `UnmarshalType` for 15 kinds and two kinds of reference | read after write is the identity |
| **Go writers** `bicep-types-go/writers` | none | JSON formatting, Markdown walk over the type graph | every type a page links to is on it; the walk ends |
| **Go command line** `bicep-types-go/cmd` | the files | loads types, creates the output, writes it; validates and generates for printing | a file converted any number of times says the same; nothing is lost |
| **TypeScript factory** `bicep-types/src/types.ts:278` | `types`, `typeToTypeReference`, `stringTypeCache`, `integerTypeCache`, three fixed objects | `addType` and 15 `add...` methods | as the Go factory; a cached answer has the constraints asked for |
| **TypeScript index** `bicep-types/src/indexer.ts` | three sets of names met, two dictionaries, one list | `buildIndex` | as the Go index |
| **TypeScript writers** `bicep-types/src/writers` | none | JSON writers and readers, Markdown walk | as the Go writers |
| **C# factory, serializer, loader** `Bicep.Types` | `types`, `typeLookup`; references that resolve when used | `Create`, `Hydrate`, `GetReference`, `Serialize`, `Deserialize`, `Load...` | references are bound to their factory; write after read is the identity |
| **C# resource scopes** `Bicep.Types/Concrete/ResourceType.cs` | immutable | normalization of legacy scope fields | old and new fields give the same scopes, mixing is refused |
| **TypeSpec emitter** `bicep-typespec-emitter/src` | state maps of the decorators, one TypeScript factory per version and one for the root file | `generateRoot`, `generateType` and the rest of `transform.ts`, `$onEmit` | every reference of the index resolves in an emitted file; nothing is left out without an error, but for the cases in section 5 |

How they interact: the emitter calls the TypeScript factory once for each use of a type, then
`buildIndex` on the factories' lists, then the writers; Go clients do the same by
hand; the C# loader reads `index.json`, follows a reference to a file, and
resolves the references inside that file lazily. Nothing is shared between
threads and there are no messages or timeouts; the hard behaviours are long
sequences of legal calls and of programs run on the same files, programs killed
while they write, aliasing (of slices, of objects, of references held
across a `Reset`), orders that a sort or a map iteration leaves open, one bad
entry failing a whole file, and unbounded recursion.

Fairness is assumed in one place: a Markdown writer is a function that runs until
it returns, so it takes its next step as long as it has one (`WF_vars(Next)` of
`MarkdownAgreement`, where one writer runs after the other).
Everything else is safety.

## 2. Modules

| Module | Models | Status |
|---|---|---|
| `TypeTable` | abstract: an append-only table without duplicates, with or without `Clear` | done |
| `GoTypeFactory` | several Go factories, their clients, the heap | done, proved (`GoTypeFactoryProofs`) |
| `GoTypeSlice` | one Go factory with the backing arrays of its slice | done, proved (`GoTypeSliceProofs`) |
| `TsTypeFactory` | the TypeScript factory with its caches | done, proved (`TsTypeFactoryProofs`) |
| `IndexInput` | the type files index builders read, and the order-free reference index | done, lemmas in `IndexAgreementProofs` |
| `GoIndex` | `TypeIndex` of Go with its JSON form | done |
| `GoIndexBuilder` | Go `BuildIndex` | done, proved (`IndexAgreementProofs`) |
| `TsIndexBuilder` | TypeScript `buildIndex` | done, proved (`IndexAgreementProofs`) |
| `CsTypeFactory` | C# factories, the serializer and reader, the heap | done, proved (`CsTypeFactoryProofs`) |
| `CsTypeLoader` | how C# reads an index and loads what it names | done |
| `ResourceScopes` | old and new scope fields through C# and Go | done, proved (`ResourceScopesProofs`) |
| `IndexPages` | the Markdown page of an index, in Go and TypeScript | done |
| `IndexAgreement` | composes the Go and TypeScript builders, the readers and the pages on one input | done, proved (`IndexAgreementProofs`) |
| `TypeGraph` | the table as a graph, and what a cycle in it is | done |
| `MarkdownPage`, `MarkdownWriter` | what both Markdown writers have in common: order of walking, parts of a section; the recursion | done |
| `GoMarkdown`, `TsMarkdown` | the writers' own rules | done, proved (`MarkdownProofs`) |
| `MarkdownAgreement` | composes the two writers on one table | done, proved (`MarkdownProofs`) |
| `GoTypeCodec` | the JSON form of every kind of type in Go | done, proved (`TypesFileProofs`) |
| `TsTypeCodec` | reader and writer of the same in TypeScript | done, proved (`TypesFileProofs`) |
| `TypesFile` | a `types.json` file between programs of both languages and the Go command line | done, proved (`TypesFileProofs`) |
| `TypeSpecTransform` | how the TypeSpec emitter turns a type into Bicep types | done |
| `BicepEmitter` | a compilation: validation, generation, the index, the files written | done |

`MC...` modules only give constants their values; `...Proofs` modules hold
theorems. Definitions whose comment starts with "Mutant of" are not part of the
model: each is a plausible bug that, put in the place of the definition it is
named after, some run must detect.

### 2.1 The Go factory

`GoTypeFactory` has any set of factories and pointers. `typeList` and `typeMap`
are the fields of the struct; the map's key (reflected type, pointer) is the
pointer, because two kinds of object share a pointer only if both are of size
zero, and those are kept apart by kind. `kind` and `refs` are the heap: what a
pointer points to and which references its fields hold. A reference in Go is a
number; the model's record also says who issued it, when and for what, which no
action reads and the properties are about.

Each method of the API is an action. `CreateSized` stands for all methods that
allocate an object with fields: it may be given any references the client holds,
of any factory and any age, since nothing in Go stops that. `CreateZeroSize`
stands for the three kinds without fields, whose pointers Go may or may not make
equal: the choice is left open. The string helpers register fresh objects one
after the other; no other goroutine can come between, the factory is not
concurrent. `SetField` is a client writing to an exported field, the only way to
a forward or cyclic reference; clients never do it to the pointers in `Sealed`
(any set), and what a sealed object refers to is registered before it.

`GoTypeSlice` looks one level down: Go's `append` writes to spare capacity in
place, and `GetTypes` returns the slice without copying. The module shows that
the value semantics `GoTypeFactory` uses for snapshots is what a reading client
sees, because `Reset` makes a new slice where cutting the old one to length 0
would overwrite what clients hold (that is the mutant).

### 2.2 The TypeScript factory

`TsTypeFactory` numbers objects in order of creation. The cache key is modelled
as the tuple of the texts of its parts, which is faithful because only the last
part is free text. The one ambiguity, a pattern that is the word `undefined`, is
in the model and excluded by name in the two properties.

### 2.3 The indexes

Names are sequences of tokens with `At` and `Colon` apart, so that splitting,
joining and lower-casing are what they are in the code; a path is a sequence of
pieces between the texts `#/`. `GoIndexBuilder` and `TsIndexBuilder` sort first
(`Sort`) and then run the two loops of the code: `fileIndex` and `typeIndex` are
its loop variables, `VisitType` is a round of the inner loop, `NextFile` one of the
outer. `sort.Slice` may leave files with equal keys in
any order (`Orders`); the comparator of `orderBy` never answers "equal", and
under V8's stable merge sort that keeps the order of the input (`OrderBy`).
`IndexInput` states the same index without order or steps (`FirstOfKey`, and
`ListsInOrder` for the functions of a group), and the invariants compare the two. `GoIndex` holds the JSON form: references as text,
resource keys flattened and split again, failures as a value.

`IndexAgreement` lets both builders run on the same files. Its properties then
use pure functions of the results: `UnmarshalJSON` of Go on the file TypeScript
writes (`TsFile`), the loader of C# (`CsTypeLoader`) on the file of either, and
the index pages of both languages (`IndexPages`), whose links are kept and whose
layout is not. Two preconditions say which inputs are meant: `PlainPaths`, no path
of a file or of a fallback or configuration reference is empty or contains `#/`;
and for the loader `OneFilePerPath`, because the type files it loads from lie on a
disk, where a path leads to one file, while `BuildIndex` would take two.

### 2.4 The C# factory and serializer

A C# reference is a factory and an index and is looked up when it is used, so a
file with cycles can be read: `Deserialize` hands the references to an empty
factory and hydrates it at the end. `heap` holds the objects, which never change;
`factories` the two fields of each factory. `Create` may be given any object,
since `createFunc` is the client's. A method that throws is an action with the
changes it made before (`Hydrate`, whose types before a duplicate stay) or no
action where it made none. `writes` and `reads` are history: the properties relate
what was written to what was read. A client cannot get at the factory inside
`Deserialize` (`Owned`), only at references to it.

### 2.5 Scopes

`ResourceScopes` follows one resource through programs that read and write its
file. The constructor is an expression on the five fields; a mask is the set of
its bits. Go only takes part once C# has written the file: Go ignores the old
fields, and an old file read by Go loses its scopes, which no document rules out.

### 2.6 Markdown

`generateTypesMarkdown` (Go) and `writeMarkdown` (TypeScript) first collect types
by a recursive walk and then write sections, which is recursive again (elements
of a discriminated object, names of arrays and unions). The recursion is a stack
of lists of what each active call has left to do, and one step treats the next
item; calls deeper than `MaxDepth` are the overflow. Tables are graphs
(`TypeGraph`); a name is a pair of places in the order of names, up to `@` and
after it. The languages differ in where a walk stops (Go remembers a set for each
walk, TypeScript stops at listed types), in sorting, and in what a dangling
reference does, and those parts are in `GoMarkdown` and `TsMarkdown`. What both
share is in `MarkdownPage`: the steps of a walk from a type (`Steps`) and from the
roots (`StepsOfRoots`), and the parts of a section (`Parts`). A sort is the set of
the orderings it may answer with, which the code's comparators leave one of
(`SortedRefs`, `SortedFirsts`, `Orderings`). The
comparator of the TypeScript sort answers 0 where it should answer 1
(`markdown.ts:340`); V8 only asks for negative answers, and the model does the
same.

Two properties of the page. `PagesAreClosed`: every link has its heading and every
object with a heading is linked to. Both languages name types in unions and in
functions of a resource with a link without walking to them, so such a link may
lead nowhere; and the elements of a discriminated object and the bodies of
resources have sections without a link to them, together with what they consist of
when they are arrays or unions (`Mentioned`). `Closed` states that these are the
only ways. `SamePages`: the page is the same, section by section and link by link,
in both languages, which is only so if no two objects have one name (`NamesDiffer`,
hence `PagesAgree`; section 5).

### 2.7 JSON texts and the files they are in

`GoTypeCodec` is a table, `Fields`: for each kind of type its fields, whether they
may be left out, and what reading makes of one that is absent or null. Writing and
reading apply that table field by field (`MarshalJSON`, `UnmarshalType`), with the
rules of `encoding/json` for pointers, slices and `omitempty` as external definitions.
References keep their three texts and the way they are told apart
(`unmarshalTypeReference`). `marshalTypeWithDiscriminator` decodes what it has
encoded, so every number passes through a float64: `Spacing` gives the numbers of
`Width` bits of which one with `Mantissa` bits holds the nearest. `TsTypeCodec` has the
replacer and the reviver, which visit every value whatever its kind. Neither codec is
recursive: a type has four levels (its fields, the items in a field, the fields of an
item, the object that a reference is written as), and there is an operator for each.
Deeper texts, which no program of the two languages writes, are left out.

What the constants may be is said by one predicate for each kind of author, and no
more than the declarations say: `GoType`, what the structs of Go can hold, nil
pointers, slices and references included; `TsType`, what the declarations of
`types.ts` allow; `JsonType`, what a person may write for a type, fields and
references of any form, but an object that says its type. `PathText` leaves out paths
that begin with `#/`, which no program gives a file.

`TypesFile` is what happens to a file: some program writes it, the Go command line
converts it into another or itself, a TypeScript program rewrites it. `main` loads
the input, then creates the output, which empties it, then writes: `Convert` and
`Finish`, with `Killed` in between.

### 2.8 The TypeSpec emitter

`TypeSpecTransform` is `transform.ts`, function by function: each takes what
generation has come to (the table, the references of the types generated so far,
the severities reported) and returns it. A type is a record, a model a name, so that
models can contain themselves. The code does not notice when they do; the model
keeps the names whose generation is under way and calls a second meeting the stack
overflow it ends in. A model has its own properties and a base: objects have the
inherited ones too (`walkPropertiesInherited`, a library function; own ones first, as
in `test/snapshots/polymorphism`, and overridden ones left out), while the
discriminator of a variant, the `parameters` and the `outputType` of a function and
the properties of the parameters are looked up among own properties only
(`HasDiscriminator`, `ParametersOf`). `Tree` says what a TypeSpec type means in Bicep without a table
and `Unfold` reads the tree of a reference from a table. `Tree` shares with the
generation the Bicep type of a scalar and the flags of a property, which are data;
tables, references, order and failures it does not have. `FunctionTree` is the same
for a function, with what it inherits.

`BicepEmitter` is a compilation. The compiler calls `$onValidate`, which generates
everything, and if no error was reported `$onEmit`, which generates everything again
and writes, the index first; the phases of `generateRoot` are actions. The versioning
library is external: `Snapshot` is the program in one version. So is the visit of a
namespace (`ModelsIn`): the models in it and below and those reached from them,
wherever they are, listed in the order of the program rather than in that of the
walk, which decides only where an entry is in a table and which of two resources
with one name is indexed. Actions of the world
around: `Compile` with a program edited in between, and `Killed` while files are
written. The output directory stays from one compilation to the next. The index is
built in one step, as `TsIndexBuilder` is shown to do in many.

## 3. Runs

All runs are exhaustive over their bounds. `violation` runs show a disagreement
between code and documentation (section 5).

| Run | Shows | Bounds and why they are enough |
|---|---|---|
| `go_factories` | type invariant, list and map inverse, references and slices valid within their epoch, refinement of `TypeTable`, references of sealed objects point backwards | 2 factories, 2 pointers of which one is sealed, 1 reference per object, 1 reset per factory, 2 slices: two factories are needed for a foreign reference, two pointers for an order, two slices for one on each side of a reset |
| `go_type_slice` | slices never change, refinement of `TypeTable` | 4 pointers: the array grows 1, 2, 4 and is appended to in place; 1 reset, 2 slices |
| `ts_factory` | caches, refinement of `TypeTable` | 5 objects, 3 of them fixed: two created ones suffice for a wrong hit and a missed one |
| `index_agreement` | both indexes equal their order-free definition, read after write is the identity for plain names, resources and resource functions of both builders agree, Go reads the TypeScript index, C# loads what either lists, the index pages agree | two files of up to three types together, out of eleven, in either order and with paths that differ in case only; one file of up to three types, with an unusual path or not; a fallback and a configuration reference of each form, one with `#/` in its path included, or none; 359,191 states: all that a first-wins rule and a sort can mix up is pairwise |
| `cs_factory` | list and lookup inverse, refinement of `TypeTable`, read after write and write after read | 2 objects made by a client and up to 4 with those read, 3 factories, 1 reference each, arrays of 2: a duplicate, cycles, references to another factory, texts with a dangling, malformed or null entry |
| `resource_scopes` | scopes never change once read | 3 scopes, all 10000 or so combinations of the five fields: enough for two scopes to differ and one to be missing |
| `markdown` | both writers end, links and headings match, the pages agree | all tables of a resource or function with 2 or 3 types of every composed kind, references out of range among them, and of two resources or functions of every kind in every order of names with two objects that refer to each other; a discriminated object with an element of every kind; two objects of one name; 518,902 states. `MaxDepth` 12: tables without a cycle never get that deep, or `WritersTerminate` would fail |
| `types_file` | both languages read from any file what was written, through any conversions; conversion preserves what a file says and writes one text; nothing is lost in place | 2 files, tables of a type of any kind with every combination of its fields filled in, empty or left out, tables of two types, texts no program wrote; numbers of 4 bits with 2 exact ones: one field is treated independently of the others, so one type at a time shows everything, and two show that one failure fails all |
| `emitter` | tables point backwards, an index that was completely written leads to what the program says in each version, nothing lost without an error, overflow on cycles only | about 150 programs, 456,929 states: a resource with a property of every kind of type, nested, derived and in both versions; two resources in one table; one that refers to a model outside of the namespace; fallback, configuration and function types, single, double, failing; functions that inherit output, parameters or both, from one base; namespaces decorated and versioned at every level or not. 2 compilations: files of one earlier program suffice to be in the way |
| `go_index_round_trip`, `namespace_agreement`, `types_round_trip` | violations | as `index_agreement` and `types_file` |

`CHECK_DEADLOCK FALSE` is set where the modelled function returns or the bound on
compilations is reached.

## 4. Proofs

The theorems hold for every value of the constants that satisfies the named
assumptions; the runs above evaluate the same assumptions on their instances. Each
component has an inductive invariant (`Inv`, theorem `Invariance`) with one lemma
per action, and the properties follow from it. The lemmas about sequences and sets
that several leaves need come first in each module.

### 4.1 The Go factory

`GoTypeFactoryProofs`, for every set of factories, pointers and kinds and every
bound, from `KindAssumption`, `FreeAssumption` and `BoundAssumption`:

* `TypeCorrect`, `ListAndMapAgree`, `ReferencesResolve`, `SnapshotsStayPrefixes`:
  the invariants of the runs;
* `FactoriesAreTables`: every factory implements `TypeTable`;
* `SealedPointBackwards`: references of objects no client writes to afterwards
  point backwards.

The inductive invariant adds `HistoryOK` to the four invariants: no
reference and no slice is of a later epoch than its factory has reached (without
it a `Reset` could make a recorded reference current), and only allocated
pointers are registered or referred to (without it a helper could register a
"fresh" object twice). All ways of registering are instances of one step,
appending a sequence of new pointers; `ExtensionStep` proves that this step
preserves the invariant and `GetReferenceStep`, `HelperStep` reduce to it. The
backwards theorem needs one fact more, that objects only hold references which
have been issued, so that a reference is always older than the registration of
the object that holds it.

`GoTypeSliceProofs`: `SlicesNeverChange` and `ImplementsTypeTable`. The invariant
says that every slice on record is a window of an array that exists, and that of
two on one array the factory's is the longer: an append in place therefore writes
behind every slice handed out. It is what fails if `Reset` cut the slice instead of
making a new one.

### 4.2 The TypeScript factory

`TsTypeFactoryProofs`, from `TextAssumption` (a constraint left out is no
constraint, and its text `undefined` is the text of no bound) and
`MaxObjectsAssumption` (room for the three
fixed objects): `CachesFaithful`, `EqualShared`, `ImplementsTypeTable`. The
invariant: table and map are inverse; a cache entry denotes a type whose key is
the entry's; every answer given is still in the cache under the key of what was
asked. The last part is what carries an answer over later calls.

### 4.3 The C# factory and serializer

`CsTypeFactoryProofs`, from `BoundsAssumption` and `TextAssumption` (a malformed
reference is no number, and the texts a client hands in are lists of types whose
references are numbers or malformed): `ListAndLookupAgree`, `TextsRoundTrip`,
`GraphsRoundTrip`, `FactoriesAreTables`. The invariant ties the history to the
factories: the objects a text was written from, and those that were made of it,
are still where they were, a reference that was read belongs to the factory it
was read into, and factories only grow, so that reading and writing can be
compared at any later time. `Hydrate` that fails half way is among the steps.

### 4.4 Scopes

`ResourceScopesProofs`, from `AbsentAssumption` (an absent field is no set of scopes):
`ScopesKept`, that no program which reads and writes the file changes the scopes,
and `LegacyWritableReadable`. The invariant says that the text on disk, in
whichever form it is, tells what the resource has (`TextTellsResource`).

### 4.5 The indexes

`IndexAgreementProofs`, for all sets of tokens, all type files, names and paths, from `LowerAssumption` (lower-casing
twice is lower-casing once), `SeparatorAssumption`, `RankAssumption` and
`InputAssumption` (the inputs have their types). All properties the run
`index_agreement` checks are proved:

* of the builders: `GoListsFirstResources`, `GoListsResourceFunctions`,
  `GoListsEachResourceOnce`, `TsListsFirstNames`, `TsGroupsAreComplete`;
* of the two together: `ResourcesAreTheSame`, `FunctionsAreTheSame`;
* of the texts: `PlainIndexComesBack`, `GoReadsWhatTsWrites`,
  `CsLoadsWhatIsIndexed`, `PagesOfAnIndexAgree`.

A *place* is a file of the sorted sequence and a type in it, and a builder has
gone through the places before its own. `GoInv` and `TsInv` say that the keys met
are those of the types at these places, and that what is listed are exactly the
references of the first of each key among them, the functions of a group in the
order of their places. Sorting is not part of the induction: `OrderFacts` says
that sorting neither loses nor adds an entry and that distinct paths come out in
ascending order, so that "first place" becomes "lowest path, then lowest index"
(`FirstOfKey`), which mentions no builder. That both builders agree then follows
from their two results alone. Of the texts the argument is that a name is cut where
it was joined (`PartsOfFlatKey`, `FlatKeyOfParts`) and that a plain reference is
read back (`PlainReferences`).

The attempt to prove `CsLoadsIndexes`, `GoReadsTsIndex` and `IndexPagesAgree` showed
what the runs had not: they are false if the path of a fallback or configuration
reference contains `#/`, which no input of the run had, and the first also if two
files share a path, where the loader finds the wrong one. `PlainPaths` and
`OneFilePerPath` say so now, and the run has such a reference.

### 4.6 Markdown

`MarkdownProofs`: `PagesClosed`, that `PagesAreClosed` holds for tables of any size
and shape, with cycles and references out of range, and for every `MaxDepth`. The
only assumption is `InputAssumption`, that the inputs are tables.

The two writers stop their walks by different rules, so the invariant is made of
sets that both have. What a run has still to do is the set of tasks on its stack,
in whichever frame (`Pending`). Collecting, there is a set V of types walked from
and the set W of those listed, and every step from a type of V, or from a root, is
met (what it leads to is in V, and in W if it should be listed) or pending
(`Collected`). For TypeScript V is more than what its stack or its list show, since
a type that is walked from and not listed is remembered nowhere; hence the
existential. The converse, that nothing is listed which will not be named on the
page, is said without the page: for every pair of sets N and K closed under the
rules by which the page names types and gives them sections, W is in N, and so is
what pending tasks will list (`WillBeNamed`). Writing, a set D of tasks is done,
what each of them leaves to be done is in D or pending, and their headings and
links are on the page (`Written`); when nothing is pending, the types named in D
and those with a section are such N and K, and the page is closed
(`NothingLeft`). That the writers start from the same roots whatever order they
sort them into is `RootFacts`, `CombinedFacts`; that they share the rest of their
definitions is `SameDefinitions`. `FlattenSeq` is a recursive function of the
community modules, and what it returns (`FlattenFacts`) is shown by the least
index at which it would fail, since the induction theorems are not available.
(`Justified`, in the lemmas, is `WillBeNamed` with `Needed`, which the second theorem
uses.)

`PagesAreTheSame`: `PagesAgree` for tables of any size and shape. It also needs
`DepthAssumption`, that the stack has room for a call for each type of the table and
one more. Go makes that many calls at most while it collects, because its walk does
not enter a type twice (`Shallow`), but it may make more than TypeScript, which stops
at every type it has listed; with less room TypeScript could finish a page at which Go
overflows, and the claim would be false. The argument (`Together`) goes in five steps.

1. Both list the same types, in whatever order. The invariant bounds what is listed
   from below (`Collected`) and, by `Needed`, from above: it is part of every set that
   is closed under the steps of a walk. When nothing is pending both bounds meet
   (`Settled`), and two lists that are settled are the same set (`SameList`).
2. `OrderedAlike` and `NamesDiffer` (as statements about the table, `Alike`) leave one
   order for what comes first on a page: resources, resource functions, namespace
   functions and the objects listed (`Leading`, `OneLeading`), whichever comparator
   sorts them (`GoStartsAlike`, `TsStartsAlike`). `DataOnly` is needed here: TypeScript
   would sort a function that is listed between the objects, Go after them.
3. Other types listed may follow in any order, but a section of such a type says
   nothing, calls nothing with a task in it and cannot fail (`Plain`, `PlainSteps`).
4. Writing is a function of the stack, the headings and the links (`After`), the same
   in both languages as long as no task fails (`Doable`). `Leads` says that a run of
   this function comes from one state to another, as a statement about the sets
   closed under it. TypeScript follows the run that begins with the front
   (`Follows`); its stack differs by plain tasks at the bottom only (`Extends`,
   `Behind`).
5. Once TypeScript is done, that run is known to come to its end, with no task that
   fails and no stack that is too deep; it is what remains for Go (`Remains`), which
   therefore neither fails nor overflows (`CanGoOn`) and ends with the same page.

The attempt showed two things no run had. `Closed`, as it was first stated, is false
for a discriminated object one of whose elements is an array of an object nothing
else refers to: the element's section is named by what it consists of and nothing
links to the object; `Mentioned` and `MCElementTables` came of that. And the claim
that both writers make the same page is false if two objects have one name, where
the different rules of stopping show (section 5).

### 4.7 Files

`TypesFileProofs`, for all lists of types of Go and of TypeScript, all texts of a
person, all sets of paths, any number of conversions and kills and all sizes of a
number. Assumptions: `FirstAssumption`, `GoTypesAssumption`, `TsTypesAssumption` and
`TextsAssumption` (the constants are what section 2.7 says), `WidthAssumption` (a number
has a bit), `GarbledAssumption` (a text that is no number is none). All properties of
the run `types_file` are proved: `GoReads`, `TsReads`, `OneText`, `NothingIsLost`,
`ConversionsPreserve`.

The invariant compares whole files and not types. Of what a program wrote there are
only two arrays in the world, the one that was written (`FirstArray`) and the one that
the tool makes of it (`ToolArray`): every file has one of the two, and what the tool
holds while it runs is what reading one of them gives (`Copies`). That a conversion
by either language keeps this comes down to two facts about texts, whatever their
numbers: what Go writes of what it has read, it writes again when it has read that
(`TypeStable`), and TypeScript gives back the text it was given (`MadeTypeKept`). With
texts of a person there is no such set of arrays, and the invariant only says that the
tool holds types as reading makes them (`SettledType`), which is enough for
`ConversionPreserves`. `FirstKept` is what `NeverLost` needs: only a run that is under
way may have emptied the first file.

Each fact about texts is shown level by level, in the order of the codec: numbers,
references, leaves, items, fields, types.

* Rounding twice is rounding once (`RoundedOnce`), and a number rounds to one of as
  many bits, so that the second text is the first. This is where the bit that a
  rounding up may add counts (`MaxBits`).
* What Go writes it reads back, filled in (`TypeBack`), and so what TypeScript writes
  (`TsTypeBack`).
* What TypeScript reads of a text is the type up to fields that say nothing, in the
  text that Go writes and in the one TypeScript writes (`GoTypeReadByTs`,
  `TsTypeReadByTs`), also if Go has filled the type in between (`TypeFilledSays`).

The attempt changed the model. The codecs were recursive and the constants were
described by what the run happens to use; the proofs need to know what a type is, and
saying it brought the typing predicates.

### 4.8 What is only model-checked

* Liveness: `WritersTerminate` (`MarkdownAgreement`).
* `BicepEmitter`: the transformation is recursive (`TypeSpecTransform`), as deep as the
  program, and what a recursive operator computes for every input is out of the
  prover's reach.

## 5. Disagreements found

* **Two `@` in a name** (`go_index_round_trip`). `BuildIndex` cuts a name at its
  last `@` (`bicep-types-go/index/index.go:154`), `UnmarshalJSON` wants exactly
  two parts (`:278`) and rejects the index `MarshalJSON` wrote. The integration
  test states the round trip (`test/integration/types_test.go:301`).
* **Duplicate namespace functions** (`namespace_agreement`). The comment of
  `BuildIndex` (`index.go:88`) promises the duplicate detection of the TypeScript
  builder, which drops a namespace function met before (`indexer.ts:56`); Go
  lists it again (`index.go:143`).
* **Numbers beyond 2^53** (`types_round_trip`). A Go integer type's limits pass
  through a float64 when they are written (`types/types.go:228`): one that a
  float64 does not hold comes back changed, and the largest int64 not at all. The
  integration test states the round trip (`test/integration/types_test.go:285`);
  its numbers are small.

Seen while modelling the emitter, and stated by no test: a resource model in an
undecorated namespace, below a versioned one with a decorated namespace elsewhere,
does reach the diagnostic whose comment says "this should never happen"
(`bicep-typespec-emitter/src/emitter.ts:213`); without a decorated namespace
anywhere below the versioned one it disappears without any (`DecoratedIn`); two
versioned namespaces of one simple name and a common version write the same file
(`PathsCollide`); of two resources whose names differ in case only, the second is
generated, not indexed, and only logged (`emitter.ts:77`); a model that contains
itself overflows the compiler's stack (`OverflowsOnCycles`).

A function is lost in silence, too. `@bicepNamespaceFunctionType` takes any model
with the properties of `BicepNamespaceFunction` (`lib/main.tsp:37`), and inherited
properties count; `generateNamespaceFunctionType` reads own properties only. A model
that inherits its `outputType`, such as an empty one that extends
`BicepNamespaceFunction`, compiles without an error, but the function returns
`undefined` with no diagnostic (`transform.ts:513`), its caller passes over it
(`emitter.ts:245`), and it is missing from the index, while the types of its own
parameters are already in `types.json`. Inherited `parameters`, and parameters that
the parameters model inherits, are dropped in the same way (`transform.ts:479`,
`:484`). `MCBicepEmitter` has such programs (`OfInherited`) and the compiler does emit
them; `NothingLost` excepts them by `InheritsOutput` and `InheritsParameters`, and
without the first exception it is violated. The same rule makes a variant
that inherits its discriminator an error (`transform.ts:158`), though the object
generated for it has the property.

Seen while modelling in the Markdown writers, both of which should write "the
TypeScript formatting" (`writers/markdown.go:29`, `:40`), and kept out of the
properties by their preconditions: Go leaves namespace functions in table order
(`:152`) where TypeScript sorts them (`writers/markdown.ts:301`), and sorts
resources that differ in version only, which TypeScript does not (`OrderedAlike`);
Go returns before the namespace functions of an index page when there are no
resources (`:191`), TypeScript lists them (`markdown.ts:380`) (`IndexPagesAgree`).
Sections of objects of one name may come in different orders (`NamesDiffer`): a Go
walk stops where it has been (`:694`), a TypeScript walk only at types it has listed
(`markdown.ts:123`); from a body, which is walked from and not listed, TypeScript
walks again when something refers back to it, and so may list two objects of equal
name in the other order, and the sort by name is stable. `MCEqualNames` is such a
table: on it `SamePages` is violated.

Seen while modelling, and stated by no document: Go leaves out an empty
`resources` or `namespaceFunctions` (`index.go:236`), which the C# `TypeIndex`
then holds as null although it is declared otherwise; a reference `a#/b#/3` is
refused by Go and C# and becomes a `NaN` index in TypeScript; a table in which an
array or a union contains itself overflows the stack of both Markdown writers
(`Endless`).

Known and covered by no property: a reference issued by one Go factory can be
stored in an object of another and is then written as an index into the wrong
table; the integration test's own `configFactory` does so
(`test/integration/types_test.go:146`), and nothing in the code could exclude it.

## 6. Not modelled, and why

Indentation and layout of JSON and Markdown, diagnostics' wording, label helpers,
what the Go command line prints, the C# data classes, build files and samples: no
control or state. Of `writers/markdown.go` that is the third that spells out flags,
limits and scopes. The emitter's Markdown files are those of the writers and are
left out of `BicepEmitter`. Programs in which one versioned namespace is inside
another are left out too: how the versioning library maps their versions to each
other is not to be seen from this code. `model.namespace === undefined`
(`emitter.ts:206`, `decorators.ts:118`) is not reached by a model that can be
decorated, which is in the global namespace at least. A version whose mutated
namespace the compiler does not deliver is passed over without a diagnostic
(`emitter.ts:143`); whether it ever happens is up to the compiler ("this shouldn't
really happen" says the comment), and the model leaves it out. References from one
versioned namespace to another, whose versions the versioning library would have to
map, are left out as nested ones are. The TypeSpec compiler, the JSON libraries and
Go's runtime are external and appear as what the code assumes of them.

## 7. Plan

What exists was built in this order: factories (they are what every number
depends on), index builders and their agreement, C#, scopes, Markdown, JSON texts
and files, the emitter; then the proofs, in the order of section 4. What is left is
what section 4.8 lists.
