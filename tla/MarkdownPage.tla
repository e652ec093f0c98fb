----------------------------- MODULE MarkdownPage -----------------------------
(***************************************************************************)
(* What the Markdown writers of both languages have in common: the order   *)
(* in which a type's references are walked, and what a section of the page *)
(* consists of.  Of a page only its headings and links are kept.           *)
(***************************************************************************)
EXTENDS TypeGraph

(* A reference to walk from, and whether its type gets a section.          *)
Step(ref, listed) == [ref |-> ref, listed |-> listed]

AllSteps(refs, listed) == [i \in 1..Len(refs) |-> Step(refs[i], listed)]

StepsOf(types, refs, listed) ==
  FlattenSeq([i \in 1..Len(refs) |-> AllSteps(At(types, refs[i]).refs, listed)])

(* A resource's body is walked from but not listed, as it is shown with    *)
(* the resource; what a function refers to is listed.                      *)
StepsOfRoots(types, resources, functions) ==
  StepsOf(types, resources, FALSE) \o StepsOf(types, functions, TRUE)

(* Mutant of Steps: forgets the items of arrays.                           *)
StepsNoItems(types, ref) ==
  LET node == At(types, ref)
  IN  IF node.kind \in Linkable
      THEN AllSteps(node.refs, TRUE) \o AllSteps(node.elements, FALSE) ELSE <<>>

(* Elements of a discriminated object are shown with it: they are walked   *)
(* from but not listed.                                                    *)
Steps(types, ref) ==
  LET node == At(types, ref)
  IN  IF node.kind \in Linkable \cup {"ArrayType"}
      THEN AllSteps(node.refs, TRUE) \o AllSteps(node.elements, FALSE) ELSE <<>>

(* What is left to write: a section, with a heading of its own or not, the *)
(* signature of a resource's function, or a name.                          *)
Section(ref, header) == [write |-> "section", ref |-> ref, header |-> header]

Sections(refs, header) == [i \in 1..Len(refs) |-> Section(refs[i], header)]

Signature(ref) == [write |-> "function", ref |-> ref, header |-> FALSE]

Name(ref) == [write |-> "name", ref |-> ref, header |-> FALSE]

Names(refs) == [i \in 1..Len(refs) |-> Name(refs[i])]

(* writeComplexType: only objects, resources and functions are written.    *)
Functions == {"ResourceFunctionType", "NamespaceFunctionType"}

HasHeading(types, task) ==
  LET kind == At(types, task.ref).kind
  IN  kind \in Functions \cup {"ResourceType"} \/ (kind \in Linkable /\ task.header)

Parts(types, ref) ==
  LET node == At(types, ref)
  IN  CASE node.kind = "ResourceType" ->
             Sections(node.refs, FALSE)
             \o [i \in 1..Len(node.functions) |-> Signature(node.functions[i])]
        [] node.kind \in Functions \cup Linkable ->
             Names(node.refs) \o Sections(node.elements, TRUE)
        [] OTHER -> <<>>

-----------------------------------------------------------------------------
(* Every type the page has a link to has a heading on it, unless it is     *)
(* mentioned in a union or a function of a resource, which are not walked; *)
(* and every object with a heading is linked to, or an element, or the     *)
(* item of a body or an element that is an array.                          *)
Closed(types, headings, links) ==
  /\ links \subseteq ToSet(headings) \cup NotWalked(types)
  /\ \A ref \in ToSet(headings) : At(types, ref).kind \in Linkable =>
       ref \in links \cup Mentioned(types, Elements(types) \cup Bodies(types))

(* The table has a cycle that a name or a section would have to contain:   *)
(* of arrays and unions, or of elements of discriminated objects and       *)
(* bodies of resources.                                                    *)
Endless(types) ==
  Cyclic(NameLinks(types)) \/ Cyclic(ElementLinks(types) \cup BodyLinks(types))
==============================================================================
