------------------------------ MODULE TsMarkdown ------------------------------
(***************************************************************************)
(* writeMarkdown of bicep-types/src/writers/markdown.ts.  A reference out  *)
(* of range is undefined, and reading a field of it throws.                *)
(***************************************************************************)
EXTENDS MarkdownWriter

vars == runVars

(* Resources and resource functions are sorted by name up to "@" only,     *)
(* namespace functions by name.                                            *)
ByBaseName(table, kind) ==
  SortedRefs(RefsOfKind(table, kind),
             LAMBDA m, n : BaseLess(At(table, m).name, At(table, n).name))

ByName(table, kind) ==
  SortedRefs(RefsOfKind(table, kind),
             LAMBDA m, n : NameLess(At(table, m).name, At(table, n).name))

ResourceTypes(table) == ByBaseName(table, "ResourceType")

FunctionTypes(table) ==
  {rfs \o nfs : rfs \in ByBaseName(table, "ResourceFunctionType"),
                nfs \in ByName(table, "NamespaceFunctionType")}

Roots(table) ==
  {StepsOfRoots(table, resources, functions) :
     resources \in ResourceTypes(table), functions \in FunctionTypes(table)}

Begin == Start(Roots(types))

Init == types \in Inputs /\ Begin

-----------------------------------------------------------------------------
(* A root is listed without looking whether it is, and then walked from.   *)
StartRoot ==
  /\ Running("collect") /\ stack = <<>> /\ roots # <<>>
  /\ LET root == Head(roots)
     IN  /\ InRange(types, root.ref)
         /\ typesToWrite' = IF root.listed THEN Append(typesToWrite, root.ref)
                            ELSE typesToWrite
         /\ stack' = <<Steps(types, root.ref)>>
  /\ roots' = Tail(roots)
  /\ UNCHANGED <<types, page, phase>>

(* Mutant of Visit: walks on from types that are listed.                   *)
VisitAgain ==
  /\ Running("collect") /\ HasNext /\ InRange(types, Next1.ref)
  /\ stack' = Call(Steps(types, Next1.ref))
  /\ typesToWrite' = IF Next1.listed /\ Next1.ref \notin ToSet(typesToWrite)
                     THEN Append(typesToWrite, Next1.ref) ELSE typesToWrite
  /\ UNCHANGED <<types, roots, page, phase>>

(* processTypeLinks: a type that is listed has been walked from, or is     *)
(* being walked from; the elements of a discriminated object are not       *)
(* listed, and walked from each time.                                      *)
Visit ==
  /\ Running("collect") /\ HasNext
  /\ IF Next1.ref \in ToSet(typesToWrite)
     THEN stack' = Continue /\ UNCHANGED typesToWrite
     ELSE /\ InRange(types, Next1.ref)
          /\ typesToWrite' = IF Next1.listed THEN Append(typesToWrite, Next1.ref)
                             ELSE typesToWrite
          /\ stack' = Call(Steps(types, Next1.ref))
  /\ UNCHANGED <<types, roots, page, phase>>

-----------------------------------------------------------------------------
(* Every type with a field "name" comes before those without, by name: the *)
(* comparator answers 0 for a larger name, but the sort of V8 only asks    *)
(* whether the answer is negative.                                         *)
TypeNameLess(m, n) ==
  LET HasName(ref) == At(types, ref).kind \in Linkable \cup Functions \cup {"ResourceType"}
  IN  HasName(m) /\ (~HasName(n) \/ NameLess(At(types, m).name, At(types, n).name))

Combined ==
  {resources \o functions \o others :
     resources \in ResourceTypes(types), functions \in FunctionTypes(types),
     others \in SortedFirsts(typesToWrite, TypeNameLess)}

WriteSection ==
  /\ Writing("section") /\ InRange(types, Next1.ref)
  /\ LET left == Call(Parts(types, Next1.ref))
     IN  IF HasHeading(types, Next1) THEN WriteHeading(Next1.ref, left) ELSE WriteOther(left)

(* Anything else has no output or no parameters to read.                   *)
WriteFunction ==
  /\ Writing("function") /\ InRange(types, Next1.ref)
  /\ At(types, Next1.ref).kind = "FunctionType"
  /\ WriteOther(Call(Names(At(types, Next1.ref).refs)))

Nameable(ref) ==
  InRange(types, ref) /\ At(types, ref).kind \notin {"NamespaceFunctionType", "FunctionType"}

WriteName ==
  /\ Writing("name") /\ Nameable(Next1.ref)
  /\ LET node == At(types, Next1.ref)
     IN  IF node.kind \in Linkable THEN WriteLink(Next1.ref, Continue)
         ELSE IF node.kind \in Composed THEN WriteOther(Call(Names(node.refs)))
         ELSE WriteOther(Continue)

Throw ==
  Give(\/ Running("collect") /\ stack = <<>> /\ roots # <<>> /\ ~InRange(types, Head(roots).ref)
       \/ Running("collect") /\ HasNext /\ ~InRange(types, Next1.ref)
       \/ Writing("section") /\ ~InRange(types, Next1.ref)
       \/ Writing("name") /\ ~Nameable(Next1.ref)
       \/ Writing("function") /\ (\/ ~InRange(types, Next1.ref)
                                  \/ At(types, Next1.ref).kind # "FunctionType"))

StartPage == StartWriting(Combined)

WritePart == WriteSection \/ WriteFunction \/ WriteName

End == Return \/ Finish \/ Throw \/ Overflow

Next == StartRoot \/ Visit \/ StartPage \/ WritePart \/ End

Spec == Init /\ [][Next]_vars
==============================================================================
