---------------------------- MODULE MarkdownWriter ----------------------------
(***************************************************************************)
(* The part of a Markdown writer's run that is the same in both languages: *)
(* the recursion, and what a run should lead to.  The types the resources  *)
(* and functions refer to, directly or not, are collected first; then a    *)
(* section is written for each.  Both are recursive, and a recursion is a  *)
(* stack of what each active call has still to do.                         *)
(***************************************************************************)
EXTENDS MarkdownPage

CONSTANTS
  Inputs,   \* the tables that may be given
  MaxDepth  \* bound: calls on the stack before it overflows

VARIABLES
  types,         \* the table
  roots,         \* references still to be collected from
  stack,         \* the active calls, the innermost first
  typesToWrite,  \* the types collected, with repetitions
  headings,      \* types that have a heading on the page, in order
  links,         \* types the page has a link to
  phase          \* "collect", "write", "done", "failed" or "overflow"

page == <<headings, links>>

runVars == <<types, roots, stack, typesToWrite, page, phase>>

(* The roots in an order that is in allRoots.                              *)
Start(allRoots) ==
  /\ roots \in allRoots
  /\ stack = <<>> /\ typesToWrite = <<>>
  /\ headings = <<>> /\ links = {} /\ phase = "collect"

Running(p) == phase = p /\ Len(stack) <= MaxDepth

HasNext == stack # <<>> /\ Head(stack) # <<>>

Next1 == Head(Head(stack))

Continue == <<Tail(Head(stack))>> \o Tail(stack)

Call(frame) == <<frame>> \o Continue

Return ==
  /\ Running("collect") \/ Running("write")
  /\ stack # <<>> /\ Head(stack) = <<>>
  /\ stack' = Tail(stack)
  /\ UNCHANGED <<types, roots, typesToWrite, page, phase>>

Overflow ==
  /\ phase \in {"collect", "write"} /\ Len(stack) > MaxDepth
  /\ phase' = "overflow"
  /\ UNCHANGED <<types, roots, stack, typesToWrite, page>>

Give(up) ==
  /\ up
  /\ phase' = "failed"
  /\ UNCHANGED <<types, roots, stack, typesToWrite, page>>

(* All roots have been walked from: write a section for each type, in an   *)
(* order that is in combined.                                              *)
StartWriting(combined) ==
  /\ Running("collect") /\ stack = <<>> /\ roots = <<>>
  /\ phase' = "write"
  /\ \E refs \in combined : stack' = <<Sections(refs, TRUE)>>
  /\ UNCHANGED <<types, roots, typesToWrite, page>>

Finish ==
  /\ Running("write") /\ stack = <<>>
  /\ phase' = "done"
  /\ UNCHANGED <<types, roots, stack, typesToWrite, page>>

Writing(task) == Running("write") /\ HasNext /\ Next1.write = task

(* One part of the page is written, and left is what remains to be.        *)
Write(newHeadings, newLinks, left) ==
  /\ headings' = newHeadings /\ links' = newLinks /\ stack' = left
  /\ UNCHANGED <<types, roots, typesToWrite, phase>>

WriteHeading(ref, left) == Write(Append(headings, ref), links, left)

WriteLink(ref, left) == Write(headings, links \cup {ref}, left)

WriteOther(left) == Write(headings, links, left)

-----------------------------------------------------------------------------
(* The writer has come to an end without a stack overflow.                 *)
Ended == phase \in {"done", "failed"}

(* Links and headings of a finished page belong together.                  *)
PageIsClosed == phase = "done" => Closed(types, headings, links)
==============================================================================
