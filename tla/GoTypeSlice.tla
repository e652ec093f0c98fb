----------------------------- MODULE GoTypeSlice -----------------------------
(***************************************************************************)
(* One Go type factory, one level further down: typeList is a slice, a     *)
(* window on a backing array, and GetTypes returns that very slice         *)
(* (factory.go:39), so a client's slice and the factory share memory.      *)
(* GoTypeFactory keeps what GetTypes returned as a value.  This module     *)
(* shows that a client that only reads cannot tell the difference: the     *)
(* factory never writes to an array cell that a returned slice covers.     *)
(***************************************************************************)
EXTENDS Naturals, Sequences, FiniteSets

CONSTANTS
  Ptr,          \* pointers to type objects
  Nil,          \* content of a cell no append has filled
  MaxResets,    \* bound: calls of Reset
  MaxSnapshots  \* bound: different results of GetTypes kept by clients

ASSUME NilAssumption == Nil \notin Ptr

VARIABLES
  arrays,    \* the backing arrays allocated so far
  slice,     \* typeList: the number of its array and its length
  snapshots, \* slices GetTypes returned, with what they showed at the time
  resets     \* calls of Reset so far

vars == <<arrays, slice, snapshots, resets>>

(* What the slice sl shows.                                                *)
View(sl) == [i \in 1..sl.len |-> arrays[sl.array][i]]

(* Go's append: in place while the array has room, else into a new array   *)
(* twice as long that starts with a copy.                                  *)
GrownCap(cap) == IF cap = 0 THEN 1 ELSE 2 * cap

AppendInPlace(p) ==
  /\ slice.len < Len(arrays[slice.array])
  /\ arrays' = [arrays EXCEPT ![slice.array][slice.len + 1] = p]
  /\ slice' = [slice EXCEPT !.len = @ + 1]

AppendToCopy(p) ==
  /\ slice.len = Len(arrays[slice.array])
  /\ arrays' = Append(arrays, [i \in 1..GrownCap(slice.len) |->
                                 IF i <= slice.len THEN arrays[slice.array][i]
                                 ELSE IF i = slice.len + 1 THEN p ELSE Nil])
  /\ slice' = [array |-> Len(arrays) + 1, len |-> slice.len + 1]

-----------------------------------------------------------------------------
Init ==
  /\ arrays = << <<>> >>
  /\ slice = [array |-> 1, len |-> 0]
  /\ snapshots = {}
  /\ resets = 0

(* Mutant of GetReference: appends without looking the pointer up.         *)
GetReferenceNoLookup(p) ==
  /\ AppendInPlace(p) \/ AppendToCopy(p)
  /\ UNCHANGED <<snapshots, resets>>

(* GetReference appends a type unless it is registered already.            *)
GetReference(p) ==
  /\ IF \E i \in 1..slice.len : View(slice)[i] = p
     THEN UNCHANGED <<arrays, slice>>
     ELSE AppendInPlace(p) \/ AppendToCopy(p)
  /\ UNCHANGED <<snapshots, resets>>

GetTypes ==
  /\ Cardinality(snapshots) < MaxSnapshots
  /\ snapshots' = snapshots \cup {[slice |-> slice, seen |-> View(slice)]}
  /\ UNCHANGED <<arrays, slice, resets>>

(* Mutant of Reset: cuts the slice back to length 0.                       *)
ResetCuts ==
  /\ resets < MaxResets
  /\ resets' = resets + 1
  /\ slice' = [slice EXCEPT !.len = 0]
  /\ UNCHANGED <<arrays, snapshots>>

(* Reset makes a new slice; it does not cut the old one back to length 0.  *)
Reset ==
  /\ resets < MaxResets
  /\ resets' = resets + 1
  /\ arrays' = Append(arrays, <<>>)
  /\ slice' = [array |-> Len(arrays) + 1, len |-> 0]
  /\ UNCHANGED snapshots

Next == GetTypes \/ Reset \/ \E p \in Ptr : GetReference(p)

Spec == Init /\ [][Next]_vars

-----------------------------------------------------------------------------
(* Every slice a client was given still shows what it showed when GetTypes *)
(* returned it, though the factory went on appending to the same array and *)
(* was reset: a types.json can be written from it at any later time.       *)
SnapshotsNeverChange == \A s \in snapshots : View(s.slice) = s.seen

(* What the slice shows is a TypeTable.                                    *)
Table == INSTANCE TypeTable WITH Type <- Ptr, table <- View(slice)

ImplementsTable == Table!Spec
==============================================================================
