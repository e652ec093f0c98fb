------------------------------ MODULE GoTypeCodec ------------------------------
(***************************************************************************)
(* How the types of bicep-types-go/types are written as JSON and read back *)
(* (types.go, primitives.go, objects.go).                                  *)
(*                                                                         *)
(* Values in Go memory and JSON values are written alike: a record whose   *)
(* only field says what the value is.  Null is JSON's null and Go's nil;   *)
(* Object is a struct, a map or a JSON object, a function on field names.  *)
(* The text of a reference is the sequence of its pieces that end in "#/", *)
(* none for a bare number, and the number that follows.                    *)
(***************************************************************************)
EXTENDS Integers, Sequences

CONSTANTS
  Mantissa,  \* bits of precision of a float64 (53)
  Width,     \* bits of an int64
  Garbled    \* in a reference: a text that is no number

ASSUME WidthAssumption == Mantissa \in Nat \ {0} /\ Width \in Nat \ {0}
ASSUME GarbledAssumption == Garbled \notin Int

Null == [null |-> TRUE]
String(s) == [string |-> s]
Number(n) == [number |-> n]
Boolean(b) == [boolean |-> b]
Object(f) == [object |-> f]
Array(s) == [array |-> s]
RefText(prefix, index) == [prefix |-> prefix, index |-> index]

Missing == [missing |-> TRUE]  \* an object has no such field
Failed == [failed |-> TRUE]    \* an error

Only(name, v) == [n \in {name} |-> v]  \* the fields of an object that has one

Lookup(f, name) == IF name \in DOMAIN f THEN f[name] ELSE Missing

RangeOf(f) == {f[x] : x \in DOMAIN f}

(* What an object or an array holds, by name or by place.                  *)
Inside(v) ==
  IF "object" \in DOMAIN v THEN v.object ELSE IF "array" \in DOMAIN v THEN v.array ELSE <<>>

-----------------------------------------------------------------------------
(* Numbers pass through a generic map on their way out, where they are     *)
(* float64: rounded to Mantissa bits, ties to even.  MaxBits bounds the    *)
(* numbers in use.                                                         *)
MaxBits == Width + 1

Abs(n) == IF n < 0 THEN -n ELSE n

PowerOfTwo[k \in 0..(Mantissa + MaxBits)] == IF k = 0 THEN 1 ELSE 2 * PowerOfTwo[k - 1]

Spacing(n) ==
  LET k == CHOOSE k \in 0..MaxBits : /\ Abs(n) < PowerOfTwo[Mantissa + k]
                                     /\ k = 0 \/ Abs(n) >= PowerOfTwo[Mantissa + k - 1]
  IN  PowerOfTwo[k]

Float64(n) ==
  LET unit == Spacing(n)
      low == (n \div unit) * unit
      rest == n - low
      up == 2 * rest > unit \/ (2 * rest = unit /\ (n \div unit) % 2 = 1)
  IN  IF up THEN low + unit ELSE low

Int64 == -PowerOfTwo[Width - 1]..(PowerOfTwo[Width - 1] - 1)

-----------------------------------------------------------------------------
TypeReference(i) == [ref |-> i]

CrossFileTypeReference(path, i) == [relativePath |-> path, ref |-> i]

IsReference(v) == "ref" \in DOMAIN v

(* Mutant of ReferenceJson: a bare number, which Go reads all the same.    *)
ReferenceJsonBare(r) ==
  Object(Only("$ref", RefText(IF "relativePath" \in DOMAIN r THEN r.relativePath ELSE <<>>, r.ref)))

(* MarshalJSON of both: {"$ref": "#/i"} or {"$ref": "path#/i"}.            *)
ReferenceJson(r) ==
  Object(Only("$ref", RefText(IF "relativePath" \in DOMAIN r THEN r.relativePath ELSE <<"">>, r.ref)))

(* CrossFileTypeReference.UnmarshalJSON, for an object with the field      *)
(* relativePath: it wins over a path in the text.                          *)
UnmarshalCrossFile(given, text) ==
  IF Len(text.prefix) > 1 THEN Failed
  ELSE IF given = <<"">> /\ Len(text.prefix) = 1
       THEN CrossFileTypeReference(text.prefix, text.index)
       ELSE CrossFileTypeReference(given, text.index)

(* TypeReference.UnmarshalJSON: a number, after "#/" or alone.             *)
UnmarshalLocal(text) ==
  IF text.prefix \in {<<>>, <<"">>} THEN TypeReference(text.index) ELSE Failed

(* Mutant of unmarshalTypeReference: references count from one.            *)
unmarshalTypeReferenceFromOne(json) ==
  LET fields == IF "object" \in DOMAIN json THEN json.object ELSE <<>>
      text == Lookup(fields, "$ref")
  IN  IF "prefix" \in DOMAIN text /\ text.index # Garbled
      THEN IF text.prefix = <<"">> THEN TypeReference(text.index + 1)
           ELSE CrossFileTypeReference(text.prefix, text.index)
      ELSE Failed

(* A reference that is missing or null has the text "", which is no number.*)
unmarshalTypeReference(json) ==
  LET fields == IF "object" \in DOMAIN json THEN json.object ELSE <<>>
      text == Lookup(fields, "$ref")
      path == Lookup(fields, "relativePath")
  IN  IF "prefix" \notin DOMAIN text THEN Failed
      ELSE IF text.index = Garbled THEN Failed
      ELSE IF path = Null THEN UnmarshalCrossFile(<<"">>, text)
      ELSE IF "string" \in DOMAIN path THEN UnmarshalCrossFile(path.string, text)
      ELSE IF path # Missing THEN Failed
      ELSE IF Len(text.prefix) = 1 /\ text.prefix # <<"">>
           THEN CrossFileTypeReference(text.prefix, text.index)
           ELSE UnmarshalLocal(text)

-----------------------------------------------------------------------------
(* A field of a struct: the type of its values, what it holds when it is   *)
(* nil or zero, what a reader puts there when the JSON has no such field   *)
(* or null, and whether it is left out when it is empty.                   *)
Field(holds, zero) == [holds |-> holds, zero |-> zero, absent |-> zero, omitempty |-> FALSE]

StringField == Field("string", String(""))
IntField == Field("number", Number(0))
BoolField == Field("boolean", Boolean(FALSE))
Pointer(field) == [field EXCEPT !.zero = Null, !.absent = Null]
OmitEmpty(field) == [field EXCEPT !.omitempty = TRUE]

(* A reference must be there to be read, unless the reader looks first.    *)
Reference == [Field("reference", Null) EXCEPT !.absent = Failed]
OptionalReference == Field("reference", Null)

(* Slices and maps of references or of structs.  Most readers allocate     *)
(* them whether the JSON has the field or not.                             *)
Collection(holds, items, absent) ==
  [holds |-> holds, items |-> items, zero |-> Null, absent |-> absent, omitempty |-> FALSE]

SliceOf(items) == Collection("array", items, Array(<<>>))
MapOf(items) == Collection("object", items, Object(<<>>))
LeftNil(field) == [field EXCEPT !.absent = Null]

IntegerTypeFields == [minValue |-> OmitEmpty(Pointer(IntField)),
                      maxValue |-> OmitEmpty(Pointer(IntField))]

StringTypeFields == [minLength |-> OmitEmpty(Pointer(IntField)),
                     maxLength |-> OmitEmpty(Pointer(IntField)),
                     pattern |-> OmitEmpty(StringField), sensitive |-> OmitEmpty(BoolField)]

StringLiteralTypeFields == [value |-> StringField, sensitive |-> OmitEmpty(BoolField)]

BuiltInTypeFields == [kind |-> StringField]

ArrayTypeFields == [itemType |-> Reference, minLength |-> OmitEmpty(Pointer(IntField)),
                    maxLength |-> OmitEmpty(Pointer(IntField))]

UnionTypeFields == [elements |-> SliceOf(Reference)]

ObjectTypeProperty == [type |-> Reference, flags |-> IntField, description |-> OmitEmpty(StringField)]

ObjectTypeFields == [name |-> OmitEmpty(StringField), properties |-> MapOf(ObjectTypeProperty),
                     additionalProperties |-> OmitEmpty(OptionalReference),
                     sensitive |-> OmitEmpty(Pointer(BoolField))]

DiscriminatedObjectTypeFields ==
  [name |-> OmitEmpty(StringField), discriminator |-> StringField,
   baseProperties |-> LeftNil(MapOf(ObjectTypeProperty)), elements |-> MapOf(Reference)]

ResourceTypeFunction == [type |-> Reference, description |-> OmitEmpty(StringField)]

ResourceTypeFields ==
  [name |-> StringField, body |-> Reference,
   functions |-> OmitEmpty(LeftNil(MapOf(ResourceTypeFunction))),
   readableScopes |-> IntField, writableScopes |-> IntField]

FunctionParameter == [name |-> StringField, type |-> Reference, description |-> OmitEmpty(StringField)]

FunctionTypeFields == [parameters |-> SliceOf(FunctionParameter), output |-> Reference]

ResourceFunctionTypeFields ==
  [name |-> StringField, resourceType |-> StringField, apiVersion |-> StringField,
   output |-> OptionalReference, input |-> OmitEmpty(OptionalReference)]

NamespaceFunctionParameter ==
  [name |-> StringField, type |-> Reference, description |-> OmitEmpty(StringField),
   flags |-> IntField]

NamespaceFunctionTypeFields ==
  [name |-> StringField, description |-> OmitEmpty(StringField),
   evaluatedLanguageExpression |-> OmitEmpty(StringField),
   parameters |-> SliceOf(NamespaceFunctionParameter), outputType |-> Reference,
   visibleInFileKind |-> OmitEmpty(Pointer(IntField))]

(* The structs by discriminator.                                           *)
Fields ==
  [AnyType |-> <<>>, NullType |-> <<>>, BooleanType |-> <<>>,
   IntegerType |-> IntegerTypeFields, StringType |-> StringTypeFields,
   StringLiteralType |-> StringLiteralTypeFields, BuiltInType |-> BuiltInTypeFields,
   ArrayType |-> ArrayTypeFields, UnionType |-> UnionTypeFields,
   ObjectType |-> ObjectTypeFields, DiscriminatedObjectType |-> DiscriminatedObjectTypeFields,
   ResourceType |-> ResourceTypeFields, FunctionType |-> FunctionTypeFields,
   ResourceFunctionType |-> ResourceFunctionTypeFields,
   NamespaceFunctionType |-> NamespaceFunctionTypeFields]

-----------------------------------------------------------------------------
(* Writing.  IsEmpty is what omitempty goes by.                            *)
IsEmpty(field, v) == v = field.zero \/ ("object" \in DOMAIN v /\ DOMAIN v.object = {})

WriteLeaf(v) ==
  IF IsReference(v) THEN ReferenceJson(v)
  ELSE IF "number" \in DOMAIN v THEN Number(Float64(v.number)) ELSE v

Written(fields, v) == {name \in DOMAIN fields : ~(fields[name].omitempty /\ IsEmpty(fields[name], v[name]))}

WriteItem(items, v) ==
  IF items = Reference THEN WriteLeaf(v)
  ELSE Object([name \in Written(items, v.object) |-> WriteLeaf(v.object[name])])

WriteField(field, v) ==
  IF v = Null THEN Null
  ELSE CASE field.holds = "array" ->
              Array([i \in DOMAIN v.array |-> WriteItem(field.items, v.array[i])])
         [] field.holds = "object" ->
              Object([key \in DOMAIN v.object |-> WriteItem(field.items, v.object[key])])
         [] OTHER -> WriteLeaf(v)

MarshalJSON(t) ==
  LET fields == Fields[t.kind]
  IN  Object([name \in Written(fields, t.fields) \cup {"$type"} |->
                IF name = "$type" THEN String(t.kind) ELSE WriteField(fields[name], t.fields[name])])

-----------------------------------------------------------------------------
(* Mutant of ReadLeaf: no reference may be missing.                        *)
ReadLeafStrict(field, json) ==
  IF field.holds = "reference" THEN unmarshalTypeReference(json)
  ELSE IF json \in {Missing, Null} THEN field.absent
  ELSE IF field.holds \notin DOMAIN json THEN Failed
  ELSE IF field.holds = "number" /\ json.number \notin Int64 THEN Failed ELSE json

(* Reading: null leaves a field of a struct alone, a value of another type *)
(* is an error, and one error fails the whole type.                        *)
ReadLeaf(field, json) ==
  IF field.holds = "reference"
  THEN IF json = Missing THEN field.absent ELSE unmarshalTypeReference(json)
  ELSE IF json \in {Missing, Null} THEN field.absent
  ELSE IF field.holds \notin DOMAIN json THEN Failed
  ELSE IF field.holds = "number" /\ json.number \notin Int64 THEN Failed ELSE json

ReadItem(items, json) ==
  IF items = Reference THEN unmarshalTypeReference(json)
  ELSE IF json # Null /\ "object" \notin DOMAIN json THEN Failed
  ELSE LET given == IF json = Null THEN <<>> ELSE json.object
           v == [name \in DOMAIN items |-> ReadLeaf(items[name], Lookup(given, name))]
       IN  IF Failed \in RangeOf(v) THEN Failed ELSE Object(v)

ReadField(field, json) ==
  IF field.holds \notin {"array", "object"} THEN ReadLeaf(field, json)
  ELSE IF json \in {Missing, Null} THEN field.absent
  ELSE IF field.holds \notin DOMAIN json THEN Failed
  ELSE LET given == json[field.holds]
           v == [x \in DOMAIN given |-> ReadItem(field.items, given[x])]
       IN  IF Failed \in RangeOf(v) THEN Failed
           ELSE IF field.holds = "array" THEN Array(v) ELSE Object(v)

UnmarshalType(json) ==
  LET given == IF "object" \in DOMAIN json THEN json.object ELSE <<>>
      discriminator == Lookup(given, "$type")
  IN  IF discriminator \notin {String(k) : k \in DOMAIN Fields} THEN Failed
      ELSE LET fields == Fields[discriminator.string]
               v == [name \in DOMAIN fields |-> ReadField(fields[name], Lookup(given, name))]
           IN  IF Failed \in RangeOf(v) THEN Failed
               ELSE [kind |-> discriminator.string, fields |-> v]
-----------------------------------------------------------------------------
(* What a Go program can hold: pointers, slices, maps and references may   *)
(* be nil.  No path begins with "#/".                                      *)
Holds(v, what) == DOMAIN v = {what} /\ v = Only(what, v[what])

FieldsOf(f, table) == DOMAIN f = DOMAIN table /\ f = [name \in DOMAIN table |-> f[name]]

PathText(p) == p # <<>> /\ (Len(p) > 1 => p[1] # "")

GoReference(v) ==
  /\ IsReference(v) /\ v.ref \in Int
  /\ IF "relativePath" \in DOMAIN v
     THEN v = CrossFileTypeReference(v.relativePath, v.ref) /\ PathText(v.relativePath)
     ELSE v = TypeReference(v.ref)

GoLeaf(field, v) ==
  \/ v = Null /\ field.zero = Null
  \/ field.holds = "reference" /\ GoReference(v)
  \/ /\ field.holds # "reference" /\ Holds(v, field.holds)
     /\ field.holds = "number" => v.number \in Int64

GoItem(items, v) ==
  IF items = Reference THEN GoLeaf(Reference, v)
  ELSE /\ Holds(v, "object") /\ FieldsOf(v.object, items)
       /\ \A name \in DOMAIN items : GoLeaf(items[name], v.object[name])

GoField(field, v) ==
  IF field.holds \notin {"array", "object"} THEN GoLeaf(field, v)
  ELSE \/ v = Null
       \/ /\ Holds(v, field.holds) /\ FieldsOf(v[field.holds], v[field.holds])
          /\ \A x \in DOMAIN v[field.holds] : GoItem(field.items, v[field.holds][x])

GoType(t) ==
  /\ t = [kind |-> t.kind, fields |-> t.fields] /\ t.kind \in DOMAIN Fields
  /\ FieldsOf(t.fields, Fields[t.kind])
  /\ \A name \in DOMAIN t.fields : GoField(Fields[t.kind][name], t.fields[name])

(* What a person may write for a type: an object that says its type and is *)
(* no reference, with fields of items of fields, all of which may be one.  *)
JsonLeaf(j) ==
  \/ j = Null
  \/ \E what \in {"string", "boolean", "number"} : Holds(j, what)
  \/ /\ DOMAIN j = {"prefix", "index"} /\ j = RefText(j.prefix, j.index)
     /\ j.prefix = <<>> \/ PathText(j.prefix)
     /\ j.index \in Int \cup {Garbled}

Container(j) ==
  /\ Holds(j, "object") \/ Holds(j, "array")
  /\ FieldsOf(Inside(j), Inside(j))
  /\ "object" \in DOMAIN j =>
       LET path == Lookup(j.object, "relativePath")
       IN  "string" \in DOMAIN path => PathText(path.string)

JsonRef(j) == JsonLeaf(j) \/ (Container(j) /\ \A v \in RangeOf(Inside(j)) : JsonLeaf(v))
JsonItem(j) == JsonLeaf(j) \/ (Container(j) /\ \A v \in RangeOf(Inside(j)) : JsonRef(v))
JsonField(j) == JsonLeaf(j) \/ (Container(j) /\ \A v \in RangeOf(Inside(j)) : JsonItem(v))

JsonType(j) ==
  \/ j = Null
  \/ /\ Container(j) /\ "object" \in DOMAIN j
     /\ "$type" \in DOMAIN j.object /\ Holds(j.object["$type"], "string")
     /\ "$ref" \notin DOMAIN j.object
     /\ \A v \in RangeOf(j.object) : JsonField(v)
==============================================================================
