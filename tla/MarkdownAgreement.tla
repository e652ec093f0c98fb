-------------------------- MODULE MarkdownAgreement --------------------------
(***************************************************************************)
(* The Markdown writers of both languages on the same table.  They share   *)
(* nothing, so that their steps may be taken in any order; here            *)
(* TypeScript writes its page first.                                       *)
(***************************************************************************)
EXTENDS MarkdownPage

CONSTANTS Inputs, MaxDepth

ASSUME InputAssumption == Inputs \subseteq Table

(* The stack has room for a call for each type of a table.                 *)
ASSUME DepthAssumption == MaxDepth \in Nat /\ \A table \in Inputs : Len(table) < MaxDepth

VARIABLES
  types,
  goRoots, goStack, goVisited, goTypesToWrite, goHeadings, goLinks, goPhase,
  tsRoots, tsStack, tsTypesToWrite, tsHeadings, tsLinks, tsPhase

goVars == <<goRoots, goStack, goVisited, goTypesToWrite, goHeadings, goLinks, goPhase>>

tsVars == <<tsRoots, tsStack, tsTypesToWrite, tsHeadings, tsLinks, tsPhase>>

Go == INSTANCE GoMarkdown WITH
        roots <- goRoots, stack <- goStack, visited <- goVisited,
        typesToWrite <- goTypesToWrite, headings <- goHeadings, links <- goLinks,
        phase <- goPhase

Ts == INSTANCE TsMarkdown WITH
        roots <- tsRoots, stack <- tsStack, typesToWrite <- tsTypesToWrite,
        headings <- tsHeadings, links <- tsLinks, phase <- tsPhase

Init == types \in Inputs /\ Go!Begin /\ Ts!Begin

TsEnded == tsPhase \notin {"collect", "write"}

GoEnded == goPhase \notin {"collect", "write"}

Next ==
  \/ Ts!StartRoot /\ UNCHANGED goVars
  \/ Ts!Visit /\ UNCHANGED goVars
  \/ Ts!StartPage /\ UNCHANGED goVars
  \/ Ts!WritePart /\ UNCHANGED goVars
  \/ Ts!End /\ UNCHANGED goVars
  \/ TsEnded /\ Go!StartRoot /\ UNCHANGED tsVars
  \/ TsEnded /\ Go!Visit /\ UNCHANGED tsVars
  \/ TsEnded /\ Go!StartPage /\ UNCHANGED tsVars
  \/ TsEnded /\ Go!WritePart /\ UNCHANGED tsVars
  \/ TsEnded /\ Go!End /\ UNCHANGED tsVars

vars == <<types, goVars, tsVars>>

(* A writer is a function that runs until it returns.                      *)
Spec == Init /\ [][Next]_vars /\ WF_vars(Next)

-----------------------------------------------------------------------------
(* Of a table in which no name and no section has to contain itself, both  *)
(* writers come to an end without a stack overflow: types that refer to    *)
(* themselves through properties are harmless.                             *)
WritersTerminate == ~Endless(types) => <>(Ts!Ended /\ Go!Ended)

(* When both have, links and headings of either page belong together.      *)
PagesAreClosed == TsEnded /\ GoEnded => Ts!PageIsClosed /\ Go!PageIsClosed

(* Whether the two languages order the table alike: it lists resources     *)
(* that differ after "@" only, and namespace functions, in the order of    *)
(* their names, and no object, array or function refers to a resource or a *)
(* function as if it were data.                                            *)
InOrder(kinds, Less(_, _)) ==
  \A r, s \in Refs(types) :
    r < s /\ At(types, r).kind = At(types, s).kind /\ At(types, r).kind \in kinds =>
      ~Less(At(types, s).name, At(types, r).name)

VersionLess(m, n) == m[1] = n[1] /\ m[2] < n[2]

DataOnly ==
  \A r \in Refs(types) : \A target \in ToSet(At(types, r).refs) :
    InRange(types, target) =>
      At(types, target).kind \notin Functions \cup {"ResourceType"}

OrderedAlike ==
  /\ InOrder({"ResourceType", "ResourceFunctionType"}, VersionLess)
  /\ InOrder({"NamespaceFunctionType"}, NameLess)
  /\ DataOnly

(* "The same markdown format" (markdown.go:18): the writer of Go writes    *)
(* the page of TypeScript, with the same sections in the same order and    *)
(* the same links, of every table that both order alike.                   *)
SamePages ==
  tsPhase = "done" /\ GoEnded /\ OrderedAlike =>
    goPhase = "done" /\ goHeadings = tsHeadings /\ goLinks = tsLinks

(* It does when no two objects have the same name.  As the two walk with   *)
(* different rules of where to stop, they may list objects in different    *)
(* orders, and sorting by name does not always undo that.                  *)
NamesDiffer ==
  \A r, s \in Refs(types) :
    {At(types, r).kind, At(types, s).kind} \subseteq Linkable
      /\ At(types, r).name = At(types, s).name => r = s

PagesAgree == NamesDiffer => SamePages
==============================================================================
