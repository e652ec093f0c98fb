--------------------------- MODULE TypeSpecTransform ---------------------------
(***************************************************************************)
(* How the TypeSpec emitter turns a TypeSpec type into Bicep types         *)
(* (bicep-typespec-emitter/src/transform.ts): the types it is made of are  *)
(* generated first, into the table of a type factory, then the type.       *)
(*                                                                         *)
(* A TypeSpec type is a record with its kind; a model is known by its name *)
(* and looked up in models, so that it may contain itself.  A model has    *)
(* the properties it declares itself and a base, or None, whose properties *)
(* it inherits.  A Bicep type is a record too: its kind, what its fields   *)
(* say as pairs of texts, and its references by the place they have in the *)
(* type.                                                                   *)
(***************************************************************************)
EXTENDS Integers, Sequences, FiniteSets, SequencesExt, TLC

CONSTANTS
  None,       \* undefined
  Ambiguous   \* variants the compiler itself has diagnostics about

Entry(kind, says, parts) == [kind |-> kind, says |-> says, parts |-> parts]

Leaf(kind) == Entry(kind, {}, <<>>)

StringLiteral(s) == Entry("StringLiteralType", {<<"value", s>>}, <<>>)

Integer(range) == Entry("IntegerType", {<<"range", range>>}, <<>>)

UnionOf(refs) == Entry("UnionType", {}, [e \in {<<"element", ToString(i)>> : i \in DOMAIN refs} |->
                                          refs[CHOOSE i \in DOMAIN refs : e[2] = ToString(i)]])

IntrinsicTypes == [null |-> Leaf("NullType"), unknown |-> Leaf("AnyType")]

(* The scalars with a Bicep equivalent, and those it only resembles.       *)
IntrinsicScalars ==
  [boolean |-> Leaf("BooleanType"), string |-> Leaf("StringType"), url |-> Leaf("StringType"),
   int64 |-> Integer("int64"), int32 |-> Integer("int32"), numeric |-> Integer("int64"),
   uint64 |-> Integer("uint64")]

Inexact == {"url", "numeric", "uint64"}

Unsupported == {"float", "bytes"}

-----------------------------------------------------------------------------
(* What generation has come to: the table, the references of the types     *)
(* generated so far, what was reported, and whether it goes on.  A failure *)
(* leaves in the table what was added before.                              *)
Start(table) == [table |-> table, refs |-> <<>>, said |-> {}, outcome |-> "going"]

Going(m) == m.outcome = "going"

Report(m, severity) == [m EXCEPT !.said = @ \cup {severity}]

(* undefined, and nothing is reported.                                     *)
LeaveOut(m) == [m EXCEPT !.outcome = "failed"]

(* Mutant of Fail: leaves out without a word.                              *)
FailSilently(m) == LeaveOut(m)

Fail(m) == [Report(m, "error") EXCEPT !.outcome = "failed"]

(* The add methods that make a new entry each time.  The type made of the  *)
(* last references takes their place.                                      *)
AddNew(m, n, entry) ==
  [m EXCEPT !.table = Append(@, entry), !.refs = Append(SubSeq(@, 1, n), Len(m.table))]

(* Mutant of AddShared: the reference of the entry before.                 *)
AddSharedBefore(m, entry) ==
  LET known == {i \in 1..Len(m.table) : m.table[i] = entry}
  IN  IF known = {} THEN AddNew(m, Len(m.refs), entry)
      ELSE [m EXCEPT !.refs = Append(@, (CHOOSE i \in known : TRUE) - 2)]

(* Those that answer with the entry there is.                              *)
AddShared(m, entry) ==
  LET known == {i \in 1..Len(m.table) : m.table[i] = entry}
  IN  IF known = {} THEN AddNew(m, Len(m.refs), entry)
      ELSE [m EXCEPT !.refs = Append(@, (CHOOSE i \in known : TRUE) - 1)]

(* The references of what was generated from m to made.                    *)
Gained(m, made) == SubSeq(made.refs, Len(m.refs) + 1, Len(made.refs))

(* The properties of a model, its own before those of its base, which it   *)
(* may override.                                                           *)
RECURSIVE walkPropertiesInherited(_, _)
walkPropertiesInherited(models, name) ==
  LET own == models[name].properties
      Overridden(q) == \E i \in DOMAIN own : own[i].name = q.name
  IN  IF models[name].base = None THEN own
      ELSE own \o SelectSeq(walkPropertiesInherited(models, models[name].base), LAMBDA q : ~Overridden(q))

(* The property of a name in a list, if it is there: a list of one or none.*)
Named(list, name) == SelectSeq(list, LAMBDA q : q.name = name)

(* What the decorators of a property set: the flags that a property of an  *)
(* object has, and those of a parameter.                                   *)
FlagsAmong(property, flags) ==
  {<<property.name, flag>> : flag \in (IF property.optional THEN {} ELSE {"Required"}) \cup (property.flags \cap flags)}

Flags(property) == FlagsAmong(property, {"Identifier"})

ParameterFlags(property) == FlagsAmong(property, {"CompileTimeConstant", "DeployTimeConstant"})

Labelled(label, names, refs) ==
  [l \in {<<label, names[i]>> : i \in DOMAIN names} |->
     refs[CHOOSE i \in DOMAIN names : names[i] = l[2]]]

Names(list) == [i \in DOMAIN list |-> list[i].name]

Types(list) == [i \in DOMAIN list |-> list[i].type]

generateTypeForScalar(m, scalar) ==
  LET name == IF scalar.name \in DOMAIN IntrinsicScalars \cup Unsupported THEN scalar.name ELSE scalar.base
  IN  IF name \notin DOMAIN IntrinsicScalars THEN Fail(m)
      ELSE AddShared(IF name \in Inexact THEN Report(m, "warning") ELSE m, IntrinsicScalars[name])

-----------------------------------------------------------------------------
RECURSIVE generateType(_, _, _, _)

(* One after the other, up to the first that fails.                        *)
GenerateEach(models, m, types, within) ==
  FoldLeft(LAMBDA made, t : IF Going(made) THEN generateType(models, made, t, within) ELSE made, m, types)

generateTypeForModel(models, m, name, within) ==
  LET model == models[name]
      list == walkPropertiesInherited(models, name)
      made == GenerateEach(models, m, Types(list), within)
      all == IF ~Going(made) \/ model.indexer = None THEN made
             ELSE IF model.indexer.key # "string" THEN Fail(made)
             ELSE generateType(models, made, model.indexer.type, within)
      refs == Gained(m, all)
      parts == Labelled("property", Names(list), refs)
  IN  IF ~Going(all) THEN all
      ELSE AddNew(all, Len(m.refs),
             Entry("ObjectType", {<<"name", name>>} \cup UNION {Flags(p) : p \in ToSet(list)},
                   IF model.indexer = None THEN parts
                   ELSE parts @@ (<<"additional", "properties">> :> refs[Len(refs)])))

(* Mutant of generateTypeForDiscriminatedModel: forgets its properties.    *)
generateTypeForDiscriminatedModelNoBase(models, m, name, within) ==
  LET keys == models[name].variants
      made == GenerateEach(models, m, Types(keys), within)
  IN  IF keys \in {Ambiguous, <<>>} THEN Fail(m)
      ELSE IF ~Going(made) THEN made
      ELSE AddNew(made, Len(m.refs),
             Entry("DiscriminatedObjectType", {<<"name", name>>, <<"discriminator", models[name].discriminator>>},
                   Labelled("element", Names(keys), Gained(m, made))))

(* A polymorphic model: its variants, then its properties.                 *)
generateTypeForDiscriminatedModel(models, m, name, within) ==
  LET model == models[name]
      keys == model.variants
      list == walkPropertiesInherited(models, name)
      made == GenerateEach(models, m, Types(keys) \o Types(list), within)
      refs == Gained(m, made)
  IN  IF keys \in {Ambiguous, <<>>} THEN Fail(m)
      ELSE IF ~Going(made) THEN made
      ELSE AddNew(made, Len(m.refs),
             Entry("DiscriminatedObjectType",
                   {<<"name", name>>, <<"discriminator", model.discriminator>>}
                     \cup UNION {Flags(p) : p \in ToSet(list)},
                   Labelled("element", Names(keys), refs)
                     @@ Labelled("base", Names(list), SubSeq(refs, Len(keys) + 1, Len(refs)))))

(* A variant of a discriminated union: an object that has the property, or *)
(* is put in an envelope that has it.  One that inherits it is refused.    *)
Envelope(union, key, literal, body) ==
  Entry("ObjectType", {<<"name", "envelope">>, <<union.property, "Required">>, <<"value", "Required">>},
        (<<"property", union.property>> :> literal) @@ (<<"property", "value">> :> body))

HasDiscriminator(models, union, variant) ==
  \E p \in ToSet(models[variant.type.name].properties) :
    p.name = union.property /\ p.type.kind \in {"String", "EnumMember"}

generateVariant(models, m, union, variant, within) ==
  IF variant.type.kind # "Model" THEN Fail(m)
  ELSE IF union.envelope = "none" /\ ~HasDiscriminator(models, union, variant) THEN Fail(m)
  ELSE LET made == generateType(models, m, variant.type, within)
           literal == AddNew(made, Len(made.refs), StringLiteral(variant.name))
           refs == Gained(m, literal)
       IN  IF ~Going(made) \/ union.envelope = "none" THEN made
           ELSE AddNew(literal, Len(m.refs), Envelope(union, variant.name, refs[2], refs[1]))

(* With a single variant the union is that variant.                        *)
generateTypeForDiscriminatedUnion(models, m, union, within) ==
  LET keys == union.variants
      made == FoldLeft(LAMBDA a, v : IF Going(a) THEN generateVariant(models, a, union, v, within) ELSE a, m, keys)
      elements == Gained(m, made)
      literals == FoldLeft(LAMBDA a, v : AddNew(a, Len(a.refs), StringLiteral(v.name)), made, keys)
      base == AddNew(literals, Len(made.refs), UnionOf(Gained(made, literals)))
  IN  IF keys \in {Ambiguous, <<>>} THEN Fail(m)
      ELSE IF ~Going(made) THEN made
      ELSE IF Len(keys) = 1 THEN [literals EXCEPT !.refs = made.refs]
      ELSE AddNew(base, Len(m.refs),
             Entry("DiscriminatedObjectType",
                   {<<"name", "anonymous union">>, <<"discriminator", union.property>>, <<union.property, "Required">>},
                   Labelled("element", Names(keys), elements)
                     @@ (<<"base", union.property>> :> base.refs[Len(base.refs)])))

(* within: the models whose generation is under way.  Nothing in the code  *)
(* keeps track of them; one that is met again is generated again, and so   *)
(* on until the stack overflows.                                           *)
generateType(models, m, type, within) ==
  CASE type.kind = "Intrinsic" /\ type.name \in DOMAIN IntrinsicTypes -> AddShared(m, IntrinsicTypes[type.name])
    [] type.kind = "Scalar" -> generateTypeForScalar(m, type)
    [] type.kind \in {"String", "EnumMember"} -> AddNew(m, Len(m.refs), StringLiteral(type.value))
    [] type.kind = "Number" -> AddShared(m, Integer("int64"))
    [] type.kind \in {"Enum", "Union"} ->
         LET made == GenerateEach(models, m, type.members, within)
         IN  IF Going(made) THEN AddNew(made, Len(m.refs), UnionOf(Gained(m, made))) ELSE made
    [] type.kind = "Array" ->
         LET made == generateType(models, m, type.item, within)
         IN  IF Going(made)
             THEN AddNew(made, Len(m.refs), Entry("ArrayType", {}, <<"item", "type">> :> Gained(m, made)[1]))
             ELSE made
    [] type.kind = "Model" /\ type.name \in within -> [m EXCEPT !.outcome = "overflow"]
    [] type.kind = "Model" /\ type.name \notin within ->
         IF models[type.name].variants = None
         THEN generateTypeForModel(models, m, type.name, within \cup {type.name})
         ELSE generateTypeForDiscriminatedModel(models, m, type.name, within \cup {type.name})
    [] type.kind = "DiscriminatedUnion" -> generateTypeForDiscriminatedUnion(models, m, type, within)
    [] OTHER -> Fail(m)  \* a number in an enum, true and false, any other kind

(* A model that stands for a function.  Its parameters are the properties  *)
(* of the model its property parameters has as its type.  What the model,  *)
(* or the one of the parameters, inherits is not looked at: a function     *)
(* without an outputType of its own is left out, after its parameters have *)
(* been added to the table.                                                *)
ParametersOf(models, name) ==
  LET found == Named(models[name].properties, "parameters")
  IN  IF found = <<>> \/ found[1].type.kind # "Model" THEN <<>> ELSE models[found[1].type.name].properties

generateNamespaceFunctionType(models, m, name) ==
  LET list == ParametersOf(models, name)
      output == Named(models[name].properties, "outputType")
      made == GenerateEach(models, m, Types(list), {})
      all == IF Going(made) THEN GenerateEach(models, made, Types(output), {}) ELSE made
      refs == Gained(m, all)
  IN  IF ~Going(all) THEN all
      ELSE IF output = <<>> THEN LeaveOut(all)
      ELSE AddNew(all, Len(m.refs),
             Entry("NamespaceFunctionType", {<<"name", name>>} \cup UNION {ParameterFlags(p) : p \in ToSet(list)},
                   Labelled("parameter", Names(list), refs) @@ (<<"output", "type">> :> refs[Len(refs)])))

-----------------------------------------------------------------------------
(* What a TypeSpec type means in Bicep, said without a table: the tree of  *)
(* its types.  Unfold makes the tree of a reference in a table.            *)
RECURSIVE Tree(_, _)
Tree(models, type) ==
  LET Each(types) == [i \in DOMAIN types |-> Tree(models, types[i])]
  IN  CASE type.kind = "Intrinsic" -> IntrinsicTypes[type.name]
        [] type.kind = "Scalar" ->
             IntrinsicScalars[IF type.name \in DOMAIN IntrinsicScalars THEN type.name ELSE type.base]
        [] type.kind \in {"String", "EnumMember"} -> StringLiteral(type.value)
        [] type.kind = "Number" -> Integer("int64")
        [] type.kind \in {"Enum", "Union"} -> UnionOf(Each(type.members))
        [] type.kind = "Array" -> Entry("ArrayType", {}, <<"item", "type">> :> Tree(models, type.item))
        [] type.kind = "Model" ->
             LET model == models[type.name]
                 list == walkPropertiesInherited(models, type.name)
                 flags == UNION {Flags(p) : p \in ToSet(list)}
                 own == Labelled(IF model.variants = None THEN "property" ELSE "base", Names(list), Each(Types(list)))
             IN  IF model.variants = None
                 THEN Entry("ObjectType", {<<"name", type.name>>} \cup flags,
                        own @@ IF model.indexer = None THEN <<>>
                               ELSE <<"additional", "properties">> :> Tree(models, model.indexer.type))
                 ELSE Entry("DiscriminatedObjectType",
                        {<<"name", type.name>>, <<"discriminator", model.discriminator>>} \cup flags,
                        own @@ Labelled("element", Names(model.variants), Each(Types(model.variants))))
        [] type.kind = "DiscriminatedUnion" ->
             LET keys == type.variants
                 Case(v) == IF type.envelope = "none" THEN Tree(models, v.type)
                            ELSE Envelope(type, v.name, StringLiteral(v.name), Tree(models, v.type))
             IN  IF Len(keys) = 1 THEN Case(keys[1])
                 ELSE Entry("DiscriminatedObjectType",
                        {<<"name", "anonymous union">>, <<"discriminator", type.property>>, <<type.property, "Required">>},
                        Labelled("element", Names(keys), [i \in DOMAIN keys |-> Case(keys[i])])
                          @@ (<<"base", type.property>> :> UnionOf([i \in DOMAIN keys |-> StringLiteral(keys[i].name)])))

(* What a model that stands for a function means, with all it inherits.    *)
AllParametersOf(models, name) ==
  LET found == Named(walkPropertiesInherited(models, name), "parameters")
  IN  IF found = <<>> \/ found[1].type.kind # "Model" THEN <<>>
      ELSE walkPropertiesInherited(models, found[1].type.name)

FunctionTree(models, name) ==
  LET list == AllParametersOf(models, name)
      output == Named(walkPropertiesInherited(models, name), "outputType")[1]
  IN  Entry("NamespaceFunctionType", {<<"name", name>>} \cup UNION {ParameterFlags(p) : p \in ToSet(list)},
            Labelled("parameter", Names(list), [i \in DOMAIN list |-> Tree(models, list[i].type)])
              @@ (<<"output", "type">> :> Tree(models, output.type)))

RECURSIVE Unfold(_, _)
Unfold(table, ref) ==
  LET entry == table[ref + 1]
  IN  [entry EXCEPT !.parts = [label \in DOMAIN @ |-> Unfold(table, @[label])]]
==============================================================================
