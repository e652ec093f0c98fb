------------------------------ MODULE MCTypesFile ------------------------------
(* Types of every kind with their fields filled in, left out or empty;     *)
(* numbers of 4 bits, of which a float64 holds 2 exactly.                  *)
EXTENDS TypesFile, TLC

Type(kind, fields) == [kind |-> kind, fields |-> fields]

Names == {String(""), String("n")}
Ints == {Number(0), Number(3)}
Limits == {Null, Number(3), Number(-8), Number(5), Number(7)}
Flag == {Null, Boolean(TRUE), Boolean(FALSE)}
Local == {TypeReference(0), TypeReference(1)}
Cross == {CrossFileTypeReference(<<"a">>, 1)}
OddRefs == {Null, CrossFileTypeReference(<<"">>, 0), CrossFileTypeReference(<<"a", "b">>, 0)}
Refs == Local \cup Cross

SomeOf(S, empty) == {Null, empty} \cup S

Property(refs) == {Object([type |-> r, flags |-> n, description |-> d]) : r \in refs, n \in Ints, d \in Names}

Properties(refs) == {Object("p" :> p) : p \in Property(refs)}

Numbered(limits) == {Type("IntegerType", [minValue |-> a, maxValue |-> b]) : a, b \in limits}

Plain(kinds) == {Type(k, <<>>) : k \in kinds}

Common(refs, limits) ==
  Plain({"AnyType", "NullType", "BooleanType"})
  \cup Numbered(limits)
  \cup {Type("ArrayType", [itemType |-> r, minLength |-> n, maxLength |-> Null]) : r \in refs, n \in {Null, Number(3)}}
  \cup {Type("UnionType", [elements |-> e]) : e \in SomeOf({Array(<<r, q>>) : r, q \in refs}, Array(<<>>))}
  \cup {Type("ObjectType", [name |-> String("n"), properties |-> p, additionalProperties |-> r, sensitive |-> b]) :
           p \in SomeOf(Properties(Refs), Object(<<>>)), r \in {Null} \cup Cross \cup {TypeReference(0)}, b \in Flag}
  \cup {Type("DiscriminatedObjectType",
             [name |-> String("n"), discriminator |-> String("d"), baseProperties |-> p, elements |-> e]) :
           p \in SomeOf(Properties(Local), Object(<<>>)), e \in SomeOf({Object("p" :> r) : r \in refs}, Object(<<>>))}
  \cup {Type("ResourceType", [name |-> String("n"), body |-> r, functions |-> f, readableScopes |-> n,
                              writableScopes |-> Number(0)]) :
           r \in refs, n \in Ints,
           f \in SomeOf({Object("f" :> Object([type |-> TypeReference(1), description |-> d])) : d \in Names}, Object(<<>>))}
  \cup {Type("FunctionType", [parameters |-> p, output |-> r]) : r \in refs,
           p \in SomeOf({Array(<<Object([name |-> String("n"), type |-> q, description |-> d])>>) :
                           q \in Refs, d \in Names}, Array(<<>>))}
  \cup {Type("ResourceFunctionType", [name |-> String("n"), resourceType |-> String("n"), apiVersion |-> String("n"),
                                      output |-> r, input |-> q]) : r \in refs, q \in {Null} \cup Refs}
  \cup {Type("NamespaceFunctionType", [name |-> String("n"), description |-> d, evaluatedLanguageExpression |-> String(""),
                                       parameters |-> p, outputType |-> r, visibleInFileKind |-> k]) :
           d \in Names, r \in refs, k \in {Null, Number(1)},
           p \in SomeOf({Array(<<Object([name |-> String("n"), type |-> q, description |-> d2, flags |-> Number(2)])>>) :
                           q \in Local, d2 \in Names}, Array(<<>>))}

GoOnly ==
  {Type("StringType", [minLength |-> m, maxLength |-> Null, pattern |-> p, sensitive |-> Boolean(b)]) :
     m \in {Null, Number(3)}, p \in Names, b \in BOOLEAN}
  \cup {Type("StringLiteralType", [value |-> v, sensitive |-> Boolean(b)]) : v \in Names, b \in BOOLEAN}
  \cup {Type("BuiltInType", [kind |-> String("n")])}

(* In TypeScript description and pattern may be undefined, the containers  *)
(* may not, references are local, and a built-in type has a number.        *)
TsOnly ==
  {Type("StringType", [minLength |-> m, maxLength |-> Null, pattern |-> p, sensitive |-> b]) :
     m \in {Null, Number(3)}, p \in {Null, String("n")}, b \in {Null, Boolean(TRUE)}}
  \cup {Type("StringLiteralType", [value |-> v, sensitive |-> Null]) : v \in Names}
  \cup {Type("BuiltInType", [kind |-> Number(1)])}
  \cup {Type("FunctionType", [parameters |-> Array(<<Object([name |-> String("n"), type |-> q, description |-> Null])>>),
                              output |-> r]) : q, r \in Local}

Lists(S) == {<<t>> : t \in S}

Pairs(S) == {<<t, u>> : t, u \in S}

Mixed == {Type("AnyType", <<>>), Type("UnionType", [elements |-> Null]),
          Type("BuiltInType", [kind |-> String("n")]),
          Type("IntegerType", [minValue |-> Number(3), maxValue |-> Null])}

MCGoTypes == Lists(Common(Refs \cup OddRefs, Limits) \cup GoOnly) \cup Pairs(Mixed) \cup {<<>>}

MCTsTypes ==
  {ts \in Lists(Common(Local, {Null, Number(3), Number(-8), Number(8)}) \cup TsOnly) :
     /\ Allocated(ts)
     /\ \A v \in PartsOf(ts) : "relativePath" \notin DOMAIN v}

(* Texts no program writes: other forms of references, null, and fields    *)
(* missing or of another type.                                             *)
RefJson == {Object("$ref" :> RefText(<<>>, 1)), Object("$ref" :> RefText(<<"">>, 1)),
            Object("$ref" :> RefText(<<"a">>, 1)), Object("$ref" :> RefText(<<"a", "b">>, 1)),
            Object("$ref" :> RefText(<<"">>, Garbled)), Object(<<>>), Null, Missing}
           \cup {Object(("$ref" :> RefText(p, 1)) @@ ("relativePath" :> String(q))) :
                   p \in {<<>>, <<"">>, <<"a">>, <<"a", "b">>}, q \in {<<"">>, <<"b">>}}

Given(kind, fields) ==
  Object(("$type" :> String(kind)) @@ [n \in {m \in DOMAIN fields : fields[m] # Missing} |-> fields[n]])

MCTexts ==
  {<<Given("ArrayType", [itemType |-> r, minLength |-> n])>> : r \in RefJson, n \in {Missing, Null, Number(5), Number(3)}}
  \cup {<<Given("ObjectType", [properties |-> p, additionalProperties |-> r])>> :
           p \in {Missing, Null, Array(<<>>), Object("p" :> Null), Object("p" :> Object(<<>>))}
                 \cup {Object("p" :> Object("type" :> q)) : q \in RefJson \ {Missing}},
           r \in RefJson}
  \cup {<<Given("ResourceFunctionType", [output |-> q, input |-> r])>> : q, r \in RefJson}
  \cup {<<Given("DiscriminatedObjectType", [baseProperties |-> b])>> : b \in {Missing, Null, Object(<<>>)}}
  \cup {<<Given("IntegerType", [minValue |-> n])>> : n \in {Number(8), Number(5), String("n"), Null}}
  \cup {<<Given("OtherType", <<>>)>>, <<Null>>, <<Given("AnyType", <<>>), Given("OtherType", <<>>)>>}
==============================================================================
