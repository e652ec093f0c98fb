---------------------------- MODULE MCBicepEmitter ----------------------------
(* Programs of a few models: a resource of every kind of type, by itself   *)
(* and inside others; the types of no namespace; layouts of namespaces.    *)
EXTENDS BicepEmitter

Tokens == {"v1", "v2", "ext", "Ext", "r", "R", "s", "/", "FallbackResourceType"}

MCLower == [t \in Tokens |-> CASE t = "R" -> "r" [] t = "Ext" -> "ext" [] OTHER -> t]

MCPaths == {"A", "B"} \X {"v1", "v2"}
MCRank == [path \in MCPaths |-> CASE path = <<"A", "v1">> -> 1 [] path = <<"A", "v2">> -> 2
                                  [] path = <<"B", "v1">> -> 3 [] OTHER -> 4]

Versions == {"v1", "v2"}

(* Types, and the models they are made of.                                 *)
Scalar(name) == [kind |-> "Scalar", name |-> name, base |-> "none"]
Derived(base) == [kind |-> "Scalar", name |-> "own", base |-> base]
Str(s) == [kind |-> "String", value |-> s]
Enum(kind, members) == [kind |-> kind, members |-> members]
ArrayOf(t) == [kind |-> "Array", item |-> t]
Variant(name, t) == [name |-> name, type |-> t]
Discriminated(envelope, variants) ==
  [kind |-> "DiscriminatedUnion", property |-> "kind", envelope |-> envelope, variants |-> variants]

Property(name, t) == [name |-> name, type |-> t, optional |-> FALSE, flags |-> {}, versions |-> Versions]
Option(name, t) == [Property(name, t) EXCEPT !.optional = TRUE]
Key(name, t) == [Property(name, t) EXCEPT !.flags = {"Identifier"}]
Since(v, q) == [q EXCEPT !.versions = {v}]

Shape(properties) ==
  [properties |-> properties, indexer |-> None, variants |-> None, discriminator |-> "kind",
   base |-> None, namespace |-> "a", versions |-> Versions, resource |-> None,
   marks |-> {"readable", "writable"}]

Indexed(key, t) == [Shape(<<Property("a", Scalar("string"))>>) EXCEPT !.indexer = [key |-> key, type |-> t]]
Polymorphic(variants, properties) == [Shape(properties) EXCEPT !.variants = variants]
Extends(base, properties) == [Shape(properties) EXCEPT !.base = base]

Library ==
  [Leafy |-> Shape(<<Property("a", Scalar("string")), Option("b", Scalar("int32")), Key("c", Scalar("string"))>>),
   Marked |-> Shape(<<Property("kind", Str("x")), Property("a", Scalar("string"))>>),
   Changing |-> Shape(<<Property("a", Scalar("string")), Since("v1", Property("b", Scalar("boolean"))),
                        Since("v2", Option("c", Scalar("int64")))>>),
   Nested |-> Shape(<<Property("a", Model("Leafy")), Property("b", Model("Leafy"))>>),
   Extra |-> Indexed("string", Model("Leafy")),
   ByNumber |-> Indexed("integer", Scalar("string")),
   Heir |-> Extends("Marked", <<Property("b", Scalar("boolean"))>>),
   Pet |-> Polymorphic(<<Variant("x", Model("Cat")), Variant("y", Model("Dog"))>>,
                       <<Property("kind", Scalar("string")), Property("a", Scalar("string"))>>),
   Cat |-> Extends("Pet", <<Property("kind", Str("x")), Option("c", Scalar("boolean"))>>),
   Dog |-> Extends("Pet", <<Property("kind", Str("y"))>>),
   Lonely |-> Polymorphic(<<>>, <<>>),
   Unclear |-> Polymorphic(Ambiguous, <<>>),
   Friend |-> Polymorphic(<<Variant("x", Model("Buddy"))>>, <<Option("c", Model("Friend"))>>),
   Buddy |-> Extends("Friend", <<Property("kind", Str("x")), Option("c", Model("Marked"))>>),
   Loop |-> Shape(<<Option("c", ArrayOf(Model("Loop")))>>),
   Ping |-> Shape(<<Option("a", Model("Pong"))>>),
   Pong |-> Shape(<<Since("v2", Option("a", Model("Ping")))>>)]

Bodies ==
  {Scalar(s) : s \in {"string", "int64", "url", "uint64", "bytes", "none"}}
  \cup {Derived("int32"), Derived("float"), [kind |-> "Number"], [kind |-> "Boolean"],
        [kind |-> "Intrinsic", name |-> "null"], [kind |-> "Intrinsic", name |-> "never"],
        Enum("Enum", <<[kind |-> "EnumMember", value |-> "x"], [kind |-> "EnumMember", value |-> "x"]>>),
        Enum("Enum", <<[kind |-> "NumericMember"]>>), Enum("Union", <<>>),
        Enum("Union", <<Scalar("string"), ArrayOf(Scalar("string")), [kind |-> "Intrinsic", name |-> "unknown"]>>),
        ArrayOf(Derived("int32")), ArrayOf(Scalar("float"))}
  \cup {Discriminated(e, <<Variant("x", Model("Marked")), Variant("y", Model(n))>>) :
          e \in {"none", "object"}, n \in {"Cat", "Leafy", "Heir"}}
  \cup {Discriminated(e, <<Variant("x", t)>>) : e \in {"none", "object"}, t \in {Model("Marked"), ArrayOf(Scalar("string"))}}
  \cup {Discriminated("object", keys) : keys \in {<<>>, Ambiguous}}
  \cup {Model(n) : n \in DOMAIN Library}

-----------------------------------------------------------------------------
Decorated(name, m) == [m EXCEPT !.resource = name]
In(ns, m) == [m EXCEPT !.namespace = ns]
Only(marks, m) == [m EXCEPT !.marks = marks]

Namespace(name, parent, versions, extension) ==
  [name |-> name, parent |-> parent, versions |-> versions, extension |-> extension]

Both == <<"v1", "v2">>
Plain == [a |-> Namespace("A", None, Both, "ext"), g |-> Namespace("global", None, None, None)]

Program(namespaces, namespaceOrder, models, order) ==
  [namespaces |-> namespaces, namespaceOrder |-> namespaceOrder, models |-> models @@ Library,
   order |-> order]

In1(models, order) == Program(Plain, <<"g", "a">>, models, order)

OfOneType == {In1("r" :> Decorated("r", Shape(<<Property("a", t)>>)), <<"r">>) : t \in Bodies}

Just(v, m) == [m EXCEPT !.versions = {v}]

(* Two resources in one table, of one name up to case or not; one of the   *)
(* versions only; a polymorphic one and one of its variants.                *)
OfTwo ==
  {In1([r |-> Decorated("r", Shape(<<Property("a", t)>>)), s |-> Decorated(name, Only(marks, Library.Changing))], <<"r", "s">>) :
     t \in {Scalar("string"), Scalar("bytes"), Model("Loop")}, name \in {"s", "R"}, marks \in {{"readable"}, {"writable"}}}
  \cup {In1([Pet |-> Decorated("r", Just(v, Library.Pet)), Cat |-> Decorated("s", Just(v, Library.Cat)),
              Dog |-> Just(v, Library.Dog)], <<"Pet", "Cat">>) : v \in Versions}

(* A resource that refers to one of an undecorated namespace.              *)
OfElsewhere ==
  {In1([r |-> Decorated("r", Shape(<<Property("a", Model("s"))>>)), s |-> In("g", m)], <<"r", "s">>) :
     m \in {Library.Leafy, Decorated("s", Library.Leafy)}}

(* Fallback types, configuration types and functions.                      *)
Parameters(t) == Property("parameters", t)
Output(t) == Property("outputType", t)
Constant(q) == [q EXCEPT !.flags = {"CompileTimeConstant"}]
Taking(properties) == In("g", Shape(properties))
Function(properties) == Only({"function"}, In("g", Shape(properties)))

Marks(mark, t) == In("g", Only({mark}, Shape(<<Property("a", t)>>)))

OfNone ==
  {In1([r |-> Decorated("r", Library.Leafy), f |-> In(ns, Only({"fallback"}, Library.Leafy)),
        c |-> Marks("configuration", t), n |-> Taking(<<Constant(Property("p", u)), Option("q", t)>>),
        h |-> Function(<<Parameters(Model("n")), Output(u)>>)],
       <<"r", "f", "c", "h">>) :
     ns \in {"a", "g"}, t \in {Scalar("string"), Model("Leafy"), Scalar("float")}, u \in {Scalar("int32"), Model("Nested")}}
  \cup {In1([c |-> Marks(mark, Scalar("string")), d |-> Marks(other, t)], <<"c", "d">>) :
          mark, other \in {"fallback", "configuration"}, t \in {Scalar("string"), Model("Loop")}}
  \cup {In1([n |-> Taking(<<>>), o |-> Taking(<<Property("p", t)>>),
             h |-> Function(<<Parameters(Model("n")), Output(Scalar("string"))>>),
             k |-> Function(<<Parameters(Model("o")), Output(Scalar("url"))>>)], <<"k", "h">>) :
          t \in {Scalar("string"), Scalar("bytes"), Model("Friend")}}

(* A function that inherits what it does not declare, from a base with any *)
(* parameters or from one that says what they are, before one that         *)
(* declares everything, its parameters a model with a base or a union.     *)
Inheriting(base, own, t) ==
  In1([e |-> Taking(<<>>), d |-> Taking(<<Property("p", Scalar("bytes"))>>),
       o |-> [Taking(<<Property("p", Scalar("int32"))>>) EXCEPT !.base = "Leafy"],
       n |-> base, h |-> [Function(own) EXCEPT !.base = "n"],
       k |-> Function(<<Parameters(t), Output(Model("Heir"))>>)], <<"h", "k">>)

AnyFunction == Taking(<<Parameters(Model("e")), Output([kind |-> "Intrinsic", name |-> "unknown"])>>)

OfInherited ==
  {Inheriting(Taking(<<Parameters(Model("Leafy")), Output(Scalar("string"))>>), own, t) :
     own \in {<<>>, <<Output(Str("x"))>>, <<Parameters(Model("o"))>>, <<Output(Str("x")), Parameters(Model("o"))>>},
     t \in {Model("o"), Enum("Union", <<Model("o"), Model("Leafy")>>)}}
  \cup {Inheriting(AnyFunction, own, Model("Nested")) :
          own \in {<<>>, <<Parameters(Model("Nested"))>>, <<Parameters(Model("d"))>>, <<Output(Model("Cat"))>>,
                   <<Parameters(Model("Pet")), Output(Scalar("boolean"))>>,
                   <<Parameters(Model("ByNumber")), Output(Scalar("bytes"))>>}}

(* Layouts: resources in x and y, versioned above or not, decorated or not.*)
Layout(a, x, b, y) ==
  Program([a |-> a, x |-> x, b |-> b, y |-> y, g |-> Plain.g], <<"g", "a", "x", "b", "y">>,
          [r |-> In("x", Decorated("r", Library.Leafy)), s |-> In("y", Decorated("s", Library.Changing))], <<"r", "s">>)

Layouts ==
  {Layout(Namespace("A", None, Both, e), Namespace("X", "a", None, f), Namespace("B", None, versions, None),
          Namespace("Y", parent, None, h)) :
     e, f, h \in {None, "ext"}, versions \in {None, <<>>, <<"v2">>}, parent \in {"a", "b"}}
  \cup {Layout(Namespace("A", None, None, None), Namespace("B", "a", Both, e), Namespace("B", None, None, None),
               Namespace("B", "b", <<"v2">>, "Ext")) : e \in {None, "ext", "Ext"}}

MCPrograms == OfOneType \cup OfTwo \cup OfElsewhere \cup OfNone \cup OfInherited \cup Layouts
==============================================================================
