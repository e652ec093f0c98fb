------------------------------ MODULE GoMarkdown ------------------------------
(***************************************************************************)
(* generateTypesMarkdown of bicep-types-go/writers/markdown.go.            *)
(***************************************************************************)
EXTENDS MarkdownWriter

VARIABLE visited  \* references the current walk has been at

vars == <<runVars, visited>>

(* In the order of the table (a mutant of ByName, too).                    *)
AsListed(table, S) == SortedRefs(S, LAMBDA m, n : FALSE)

(* Resources and resource functions are sorted by name up to "@" and then  *)
(* by the whole of it, namespace functions not at all.                     *)
ByName(table, S) ==
  SortedRefs(S, LAMBDA m, n : NameLess(At(table, m).name, At(table, n).name))

ResourceTypes(table) == ByName(table, RefsOfKind(table, "ResourceType"))

FunctionTypes(table) ==
  {rfs \o nfs : rfs \in ByName(table, RefsOfKind(table, "ResourceFunctionType")),
                nfs \in AsListed(table, RefsOfKind(table, "NamespaceFunctionType"))}

Roots(table) ==
  {StepsOfRoots(table, resources, functions) :
     resources \in ResourceTypes(table), functions \in FunctionTypes(table)}

Begin == Start(Roots(types)) /\ visited = {}

Init == types \in Inputs /\ Begin

-----------------------------------------------------------------------------
(* A root is listed without looking whether it is, and then walked from;   *)
(* one out of range is passed over.                                        *)
StartRoot ==
  /\ Running("collect") /\ stack = <<>> /\ roots # <<>>
  /\ LET root == Head(roots)
     IN  IF InRange(types, root.ref)
         THEN /\ typesToWrite' = IF root.listed THEN Append(typesToWrite, root.ref)
                                 ELSE typesToWrite
              /\ visited' = {root.ref}
              /\ stack' = <<Steps(types, root.ref)>>
         ELSE UNCHANGED <<stack, visited, typesToWrite>>
  /\ roots' = Tail(roots)
  /\ UNCHANGED <<types, page, phase>>

(* Mutant of Visit: does not remember where it has been.                   *)
VisitAgain ==
  /\ Running("collect") /\ HasNext
  /\ IF ~InRange(types, Next1.ref)
     THEN stack' = Continue /\ UNCHANGED typesToWrite
     ELSE /\ typesToWrite' = IF Next1.listed /\ Next1.ref \notin ToSet(typesToWrite)
                             THEN Append(typesToWrite, Next1.ref) ELSE typesToWrite
          /\ stack' = Call(Steps(types, Next1.ref))
  /\ UNCHANGED <<types, roots, visited, page, phase>>

(* process: list the type unless it is listed, walk on unless the walk has *)
(* been there; a reference out of range is passed over.                    *)
Visit ==
  /\ Running("collect") /\ HasNext
  /\ IF ~InRange(types, Next1.ref)
     THEN stack' = Continue /\ UNCHANGED <<visited, typesToWrite>>
     ELSE /\ typesToWrite' = IF Next1.listed /\ Next1.ref \notin ToSet(typesToWrite)
                             THEN Append(typesToWrite, Next1.ref) ELSE typesToWrite
          /\ visited' = visited \cup {Next1.ref}
          /\ stack' = IF Next1.ref \in visited THEN Continue
                      ELSE Call(Steps(types, Next1.ref))
  /\ UNCHANGED <<types, roots, page, phase>>

-----------------------------------------------------------------------------
(* sortTypesByName: the two kinds of object come first, by name.           *)
TypeNameLess(m, n) ==
  LET HasName(ref) == At(types, ref).kind \in Linkable
  IN  HasName(m) /\ (~HasName(n) \/ NameLess(At(types, m).name, At(types, n).name))

Combined ==
  {resources \o functions \o others :
     resources \in ResourceTypes(types), functions \in FunctionTypes(types),
     others \in SortedFirsts(typesToWrite, TypeNameLess)}

(* A section that cannot be resolved is left out, ...                      *)
WriteSection ==
  /\ Writing("section")
  /\ IF ~InRange(types, Next1.ref) THEN WriteOther(Continue)
     ELSE IF HasHeading(types, Next1) THEN WriteHeading(Next1.ref, Call(Parts(types, Next1.ref)))
     ELSE WriteOther(Call(Parts(types, Next1.ref)))

(* ... so is a function that is none, ...                                  *)
WriteFunction ==
  /\ Writing("function")
  /\ IF InRange(types, Next1.ref) /\ At(types, Next1.ref).kind = "FunctionType"
     THEN WriteOther(Call(Names(At(types, Next1.ref).refs)))
     ELSE WriteOther(Continue)

(* ... but a type that is to be named fails the page if it cannot be       *)
(* resolved, or is a namespace function.                                   *)
Nameable(ref) ==
  InRange(types, ref) /\ At(types, ref).kind # "NamespaceFunctionType"

WriteName ==
  /\ Writing("name") /\ Nameable(Next1.ref)
  /\ LET node == At(types, Next1.ref)
     IN  IF node.kind \in Linkable THEN WriteLink(Next1.ref, Continue)
         ELSE IF node.kind \in Composed THEN WriteOther(Call(Names(node.refs)))
         ELSE WriteOther(Continue)

Fail == Give(Writing("name") /\ ~Nameable(Next1.ref))

StartPage == StartWriting(Combined) /\ UNCHANGED visited

WritePart == (WriteSection \/ WriteFunction \/ WriteName) /\ UNCHANGED visited

End == (Return \/ Finish \/ Fail \/ Overflow) /\ UNCHANGED visited

Next == StartRoot \/ Visit \/ StartPage \/ WritePart \/ End

Spec == Init /\ [][Next]_vars
==============================================================================
