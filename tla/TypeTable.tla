------------------------------ MODULE TypeTable ------------------------------
(***************************************************************************)
(* What a type factory promises, whichever language it is written in: a    *)
(* table of types in which a registered type keeps its position, new types *)
(* only go to the end, and no type is listed twice.  A reference "#/i"     *)
(* written into a types.json file is a position of this table, so those    *)
(* three facts are what makes a written reference mean anything.           *)
(*                                                                         *)
(* One operation of a factory may register several types (the Go helper    *)
(* CreateStringUnionType registers one literal per value).                 *)
(***************************************************************************)
EXTENDS Naturals, Sequences

CONSTANT Type

VARIABLE table

Distinct(s) == \A i, j \in 1..Len(s) : s[i] = s[j] => i = j

Init == table = <<>>

(* Some types, none of them listed yet, are added after those listed.      *)
Register ==
  /\ table' \in Seq(Type)
  /\ Len(table') > Len(table)
  /\ \A i \in 1..Len(table) : table'[i] = table[i]
  /\ Distinct(table')

Clear == table' = <<>>

(* A table that is never cleared (TypeScript and C#) ...                   *)
AppendOnlySpec == Init /\ [][Register]_table

(* ... and one with a Reset method (Go).                                   *)
Next == Register \/ Clear

Spec == Init /\ [][Next]_table
==============================================================================
