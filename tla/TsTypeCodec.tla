------------------------------ MODULE TsTypeCodec ------------------------------
(***************************************************************************)
(* How bicep-types/src/writers/json.ts writes and reads a type.  There are *)
(* no declarations to go by: every field that is not undefined, here Null, *)
(* is written, and read back as it is.  Values are those of GoTypeCodec;   *)
(* the kind is the field type.                                             *)
(*                                                                         *)
(* JSON.stringify and JSON.parse go through a value level by level.  A     *)
(* type has four: fields, which may hold items, which may have fields of   *)
(* their own, which may be the objects that references are written as.     *)
(***************************************************************************)
EXTENDS GoTypeCodec

Each(v, F(_)) == [x \in DOMAIN Inside(v) |-> F(Inside(v)[x])]

(* writeTypesJsonReplacer of a value, of whose content inner was made.     *)
Replacer(v, inner) ==
  CASE "ref" \in DOMAIN v -> ReferenceJson(v)
    [] "object" \in DOMAIN v ->
         Object([name \in {n \in DOMAIN v.object : v.object[n] # Null} |-> inner[name]])
    [] "array" \in DOMAIN v -> Array(inner)
    [] OTHER -> v

ReplacedRef(v) == Replacer(v, Inside(v))
ReplacedItem(v) == Replacer(v, Each(v, ReplacedRef))
ReplacedField(v) == Replacer(v, Each(v, ReplacedItem))

writeTypesJson(t) ==
  Object([name \in {n \in DOMAIN t.fields : t.fields[n] # Null} \cup {"$type"} |->
            IF name = "$type" THEN String(t.kind) ELSE ReplacedField(t.fields[name])])

(* readTypesJsonReviver of a value, of whose content inner was made.  Of   *)
(* null, which is an object to typeof, it asks for a field, and throws.  A *)
(* text of another file stays what it is.                                  *)
Reviver(json, inner) ==
  IF json = Null \/ Failed \in RangeOf(inner) THEN Failed
  ELSE CASE "object" \in DOMAIN json ->
              LET text == Lookup(inner, "$ref")
              IN  IF "prefix" \in DOMAIN text /\ text.prefix = <<"">>
                  THEN TypeReference(text.index) ELSE Object(inner)
         [] "array" \in DOMAIN json -> Array(inner)
         [] "number" \in DOMAIN json -> Number(Float64(json.number))
         [] OTHER -> json

RevivedLeaf(json) == Reviver(json, <<>>)
RevivedRef(json) == Reviver(json, Each(json, RevivedLeaf))
RevivedItem(json) == Reviver(json, Each(json, RevivedRef))
RevivedField(json) == Reviver(json, Each(json, RevivedItem))

readTypesJson(json) ==
  LET v == Reviver(json, Each(json, RevivedField))
  IN  IF v = Failed THEN Failed
      ELSE [kind |-> v.object["$type"].string,
            fields |-> [name \in DOMAIN v.object \ {"$type"} |-> v.object[name]]]
-----------------------------------------------------------------------------
(* What a TypeScript program can write, as its declarations in types.ts    *)
(* have it: numbers are floats, only what may be undefined is Null, and    *)
(* the kind of a built-in type is a number.                                *)
TsFields == [Fields EXCEPT !.BuiltInType = [kind |-> IntField]]

TsLeaf(field, v) ==
  \/ v = Null /\ field.omitempty
  \/ field.holds = "reference" /\ IsReference(v) /\ v = TypeReference(v.ref) /\ v.ref \in Int
  \/ /\ field.holds # "reference" /\ Holds(v, field.holds)
     /\ field.holds = "number" => v.number \in Int /\ Float64(v.number) = v.number

TsItem(items, v) ==
  IF items = Reference THEN TsLeaf(Reference, v)
  ELSE /\ Holds(v, "object") /\ FieldsOf(v.object, items)
       /\ \A name \in DOMAIN items : TsLeaf(items[name], v.object[name])

TsField(field, v) ==
  IF field.holds \notin {"array", "object"} THEN TsLeaf(field, v)
  ELSE \/ v = Null /\ field.omitempty
       \/ /\ Holds(v, field.holds) /\ FieldsOf(v[field.holds], v[field.holds])
          /\ \A x \in DOMAIN v[field.holds] : TsItem(field.items, v[field.holds][x])

TsType(t) ==
  /\ t = [kind |-> t.kind, fields |-> t.fields] /\ t.kind \in DOMAIN TsFields
  /\ FieldsOf(t.fields, TsFields[t.kind])
  /\ \A name \in DOMAIN t.fields : TsField(TsFields[t.kind][name], t.fields[name])
==============================================================================
