------------------------------- MODULE TypesFile -------------------------------
(***************************************************************************)
(* The life of a types.json file: a program of either language or a person *)
(* writes it, the Go tool (cmd/bicep-types) and TypeScript programs        *)
(* convert it, into another file or in place, any number of times.         *)
(*                                                                         *)
(* The tool loads its input, then creates its output, then writes: it may  *)
(* be killed in between, and finds out only then that it does not know the *)
(* format asked for.  Its commands validate and generate only print.       *)
(***************************************************************************)
EXTENDS TsTypeCodec

CONSTANTS
  Path, First,  \* the files; the one that is written first
  GoTypes,      \* lists of types a Go program may write
  TsTypes,      \* lists of types a TypeScript program may write
  Texts         \* JSON arrays a person may write

ASSUME FirstAssumption == First \in Path
ASSUME GoTypesAssumption == \A types \in GoTypes : \A t \in RangeOf(types) : GoType(t)
ASSUME TsTypesAssumption == \A types \in TsTypes : \A t \in RangeOf(types) : TsType(t)
ASSUME TextsAssumption == \A text \in Texts : \A json \in RangeOf(text) : JsonType(json)

VARIABLES
  files,   \* files[p]: what is in the file
  tool,    \* the run of the tool that is under way
  origin,  \* history: what was written first, and by whom
  spoiled  \* history: whether a run was killed or asked for something else than JSON

vars == <<files, tool, origin, spoiled>>

Absent == [absent |-> TRUE]
Empty == [empty |-> TRUE]  \* created and not written
Page == [page |-> TRUE]    \* Markdown, or any text that is not JSON
Document(array, by) == [array |-> array, by |-> by]

Idle == [idle |-> TRUE]

Formats == {"json", "markdown", "jsn"}

(* Of an array: a file that holds none has no types.                       *)
Elements(content) == IF "array" \in DOMAIN content THEN content.array ELSE <<>>

(* loadTypesFromFile: one type that cannot be read fails the file.         *)
loadTypesFromFile(content) ==
  [i \in DOMAIN Elements(content) |-> UnmarshalType(Elements(content)[i])]

Loads(content) == "array" \in DOMAIN content /\ Failed \notin RangeOf(loadTypesFromFile(content))

(* WriteTypes of writers/json.go.                                          *)
WriteTypes(types) == [i \in DOMAIN types |-> MarshalJSON(types[i])]

TsWriteTypes(types) == [i \in DOMAIN types |-> writeTypesJson(types[i])]

TsReadTypes(content) == [i \in DOMAIN Elements(content) |-> readTypesJson(Elements(content)[i])]

TsLoads(content) == "array" \in DOMAIN content /\ Failed \notin RangeOf(TsReadTypes(content))

-----------------------------------------------------------------------------
Init ==
  /\ files = [p \in Path |-> Absent]
  /\ tool = Idle
  /\ origin = [by |-> "nobody"]
  /\ spoiled = FALSE

Write(by, what, array) ==
  /\ origin = [by |-> "nobody"]
  /\ origin' = [by |-> by, what |-> what]
  /\ files' = [files EXCEPT ![First] = Document(array, by)]
  /\ UNCHANGED <<tool, spoiled>>

(* Mutant of Convert: creates the output before it loads the input.        *)
ConvertCreatingFirst(input, output, format) ==
  /\ tool = Idle
  /\ files' = [files EXCEPT ![output] = Empty]
  /\ tool' = IF Loads(files'[input])
             THEN [types |-> loadTypesFromFile(files'[input]), output |-> output, format |-> format]
             ELSE Idle
  /\ UNCHANGED <<origin, spoiled>>

(* main, up to os.Create, which empties the file if there is one.  An      *)
(* input that cannot be loaded ends the run before that.                   *)
Convert(input, output, format) ==
  /\ tool = Idle
  /\ Loads(files[input])
  /\ tool' = [types |-> loadTypesFromFile(files[input]), output |-> output, format |-> format]
  /\ files' = [files EXCEPT ![output] = Empty]
  /\ UNCHANGED <<origin, spoiled>>

(* The rest of main; the text is encoded before any of it is written.      *)
Finish ==
  /\ tool # Idle
  /\ files' = [files EXCEPT ![tool.output] =
                 CASE tool.format = "json" -> Document(WriteTypes(tool.types), "tool")
                   [] tool.format = "markdown" -> Page
                   [] OTHER -> @]
  /\ spoiled' = (spoiled \/ tool.format # "json")
  /\ tool' = Idle
  /\ UNCHANGED origin

Killed ==
  /\ tool # Idle
  /\ tool' = Idle
  /\ spoiled' = TRUE
  /\ UNCHANGED <<files, origin>>

(* A TypeScript program that reads a file and writes what it has read.     *)
TsConvert(input, output) ==
  /\ tool = Idle
  /\ TsLoads(files[input])
  /\ files' = [files EXCEPT ![output] = Document(TsWriteTypes(TsReadTypes(files[input])), "ts")]
  /\ UNCHANGED <<tool, origin, spoiled>>

Next ==
  \/ \E types \in GoTypes : Write("go", types, WriteTypes(types))
  \/ \E types \in TsTypes : Write("ts", types, TsWriteTypes(types))
  \/ \E text \in Texts : Write("person", text, text)
  \/ \E input, output \in Path : \/ \E format \in Formats : Convert(input, output, format)
                                 \/ TsConvert(input, output)
  \/ Finish
  \/ Killed

Spec == Init /\ [][Next]_vars

-----------------------------------------------------------------------------
Documents == {files[p] : p \in {q \in Path : "array" \in DOMAIN files[q]}}

(* The values inside a type: its fields, what they hold and what that has. *)
Values(t) ==
  LET items == UNION {RangeOf(Inside(v)) : v \in RangeOf(t.fields)}
  IN  RangeOf(t.fields) \cup items \cup UNION {RangeOf(Inside(w)) : w \in items}

PartsOf(types) == UNION {Values(t) : t \in RangeOf(types)}

(* A float64 holds every number exactly.                                   *)
Exact(values) == \A v \in values : "number" \in DOMAIN v => Float64(v.number) = v.number

(* No cross-file reference has an empty path or one with "#/".             *)
PlainPaths(values) ==
  \A v \in values : "relativePath" \in DOMAIN v => Len(v.relativePath) = 1 /\ v.relativePath # <<"">>

(* Every reference that must be there is.                                  *)
HasReferences(types) ==
  \A t \in RangeOf(types) :
    /\ \A name \in DOMAIN t.fields :
         LET field == Fields[t.kind][name]
             v == t.fields[name]
         IN  /\ field.holds = "reference" /\ ~field.omitempty => v # Null
             /\ field.holds \in {"array", "object"} /\ v # Null =>
                  \A w \in RangeOf(v[field.holds]) :
                    w # Null /\ ("object" \in DOMAIN w => w.object.type # Null)

WellFormed(types) == HasReferences(types) /\ PlainPaths(PartsOf(types))

(* What Go makes of nil slices and maps, of an empty map left out, and of  *)
(* the undefined fields of TypeScript.                                     *)
Fill(field, v) ==
  IF field.absent # Failed /\ (v = Null \/ (field.omitempty /\ IsEmpty(field, v)))
  THEN field.absent ELSE v

FilledItem(items, w) ==
  IF items = Reference THEN w
  ELSE Object([name \in DOMAIN items |-> Fill(items[name], w.object[name])])

FilledField(field, v) ==
  LET full == Fill(field, v)
  IN  CASE "array" \in DOMAIN full -> Array([x \in DOMAIN full.array |-> FilledItem(field.items, full.array[x])])
        [] "object" \in DOMAIN full -> Object([x \in DOMAIN full.object |-> FilledItem(field.items, full.object[x])])
        [] OTHER -> full

FilledType(t) ==
  [kind |-> t.kind,
   fields |-> [name \in DOMAIN Fields[t.kind] |-> FilledField(Fields[t.kind][name], t.fields[name])]]

Filled(types) == [i \in DOMAIN types |-> FilledType(types[i])]

LoadsTo(content, types) ==
  Loads(content) /\ Filled(loadTypesFromFile(content)) = Filled(types)

(* The types a program wrote can be read by Go: references are there,      *)
(* numbers fit, and the kind of a built-in type is not a TypeScript number.*)
Sound ==
  /\ origin.by \in {"go", "ts"}
  /\ WellFormed(origin.what) /\ Exact(PartsOf(origin.what))
  /\ origin.by = "ts" =>
       /\ \A t \in RangeOf(origin.what) : t.kind # "BuiltInType"
       /\ \A v \in PartsOf(origin.what) : "number" \in DOMAIN v => v.number \in Int64

(* Then Go reads these types, every field of them, from any file there is, *)
(* whichever programs the file went through on its way.                    *)
GoReadsWhatWasWritten ==
  Sound => \A d \in Documents : LoadsTo(d, origin.what)

(* A value, of whose content inner was made, without the fields that say   *)
(* nothing: undefined, "", false, no entries.                              *)
SaysNothing(v) ==
  v \in {Null, String(""), Boolean(FALSE)} \/ ("object" \in DOMAIN v /\ DOMAIN v.object = {})

Trim(v, inner) ==
  CASE "relativePath" \in DOMAIN v -> ReferenceJson(v)
    [] "object" \in DOMAIN v ->
         Object([name \in {n \in DOMAIN v.object : ~SaysNothing(v.object[n])} |-> inner[name]])
    [] "array" \in DOMAIN v -> Array(inner)
    [] OTHER -> v

TrimmedRef(v) == Trim(v, Inside(v))
TrimmedItem(v) == Trim(v, Each(v, TrimmedRef))
TrimmedField(v) == Trim(v, Each(v, TrimmedItem))

TrimmedType(t) ==
  [kind |-> t.kind,
   fields |-> [name \in {n \in DOMAIN t.fields : ~SaysNothing(t.fields[n])} |-> TrimmedField(t.fields[name])]]

TrimmedTypes(types) == [i \in DOMAIN types |-> TrimmedType(types[i])]

(* So does TypeScript, if a Go program that wrote the file left no slice   *)
(* or map nil; references to other files it leaves as text.                *)
Allocated(types) ==
  \A t \in RangeOf(types) : \A name \in DOMAIN t.fields :
    Fields[t.kind][name].holds \in {"array", "object"} /\ ~Fields[t.kind][name].omitempty =>
      t.fields[name] # Null

TsReadsWhatWasWritten ==
  Sound /\ (origin.by = "go" => Allocated(origin.what)) =>
    \A d \in Documents :
      /\ TsLoads(d)
      /\ TrimmedTypes(TsReadTypes(d)) = TrimmedTypes(origin.what)

(* A conversion writes a file that loads to the types it had loaded, also  *)
(* in the file it replaces and with texts nobody's program wrote, if they  *)
(* have all references and no number loses precision.                      *)
ConversionPreserves ==
  [][tool # Idle /\ spoiled' = FALSE /\ WellFormed(tool.types) /\ Exact(PartsOf(tool.types))
       => LoadsTo(files'[tool.output], tool.types)]_vars

(* The tool writes one and the same text for what a program wrote, however *)
(* often it is converted: nothing drifts, not even rounded numbers.        *)
ToolFilesCanonical ==
  origin.by \in {"go", "ts"} =>
    \A d, e \in Documents : d.by = "tool" /\ e.by = "tool" => d = e

(* Conversions in place lose nothing: between two runs the first file can  *)
(* be loaded, unless a run was killed or asked for something else than     *)
(* JSON.                                                                   *)
NeverLost ==
  Sound /\ tool = Idle /\ ~spoiled => Loads(files[First])

(* "types JSON round-trip" (types_test.go:285), whatever the numbers.      *)
TypesRoundTrip ==
  origin.by = "go" =>
    (WellFormed(origin.what) =>
       \A d \in Documents : LoadsTo(d, origin.what))
==============================================================================
