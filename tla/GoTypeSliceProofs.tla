-------------------------- MODULE GoTypeSliceProofs --------------------------
(***************************************************************************)
(* Proofs about GoTypeSlice, for any pointers and bounds.                  *)
(*                                                                         *)
(* A slice a client holds is safe because append writes just behind the    *)
(* factory's slice, and no client's slice of the same array is longer than *)
(* that (CoveredBySlice); after Reset or a move to a larger array nobody   *)
(* but the factory has a slice of the new array.                           *)
(***************************************************************************)
EXTENDS GoTypeSlice, SequenceTheorems, TLAPS

Cell == Ptr \cup {Nil}

Slice == [array : Nat, len : Nat]

TypeOK ==
  /\ arrays \in Seq(Seq(Cell))
  /\ slice \in Slice
  /\ snapshots \subseteq [slice : Slice, seen : Seq(Ptr)]

(* A slice is a window on an array there is.                               *)
Valid(sl) == sl.array \in 1..Len(arrays) /\ sl.len <= Len(arrays[sl.array])

AllValid == Valid(slice) /\ \A s \in snapshots : Valid(s.slice)

CoveredBySlice ==
  \A s \in snapshots : s.slice.array = slice.array => s.slice.len <= slice.len

(* The factory's slice shows pointers only, each of them once.             *)
SliceFilled ==
  /\ \A i \in 1..slice.len : arrays[slice.array][i] \in Ptr
  /\ \A i, j \in 1..slice.len :
       arrays[slice.array][i] = arrays[slice.array][j] => i = j

Inv == TypeOK /\ AllValid /\ CoveredBySlice /\ SliceFilled /\ SnapshotsNeverChange

-----------------------------------------------------------------------------
(* What the types say about one array and about a client's slice.          *)
LEMMA ArrayFacts ==
  ASSUME TypeOK, AllValid
  PROVE  /\ \A a \in 1..Len(arrays) : arrays[a] \in Seq(Cell) /\ Len(arrays[a]) \in Nat
         /\ slice.array \in 1..Len(arrays) /\ slice.array \in Nat
         /\ slice.len \in Nat /\ slice.len <= Len(arrays[slice.array])
         /\ \A s \in snapshots : /\ s.slice.array \in 1..Len(arrays)
                                 /\ s.slice.len \in Nat
                                 /\ s.slice.len <= Len(arrays[s.slice.array])
                                 /\ s.slice \in Slice
<1>1. \A a \in 1..Len(arrays) : arrays[a] \in Seq(Cell)
  BY ElementOfSeq DEF TypeOK
<1>2. slice.array \in Nat /\ slice.len \in Nat
  BY DEF TypeOK, Slice
<1>3. \A s \in snapshots : s.slice \in Slice /\ s.slice.len \in Nat
  BY DEF TypeOK, Slice
<1>4. QED
  BY <1>1, <1>2, <1>3 DEF AllValid, Valid

(* A client's slice shows the same as long as the cells it covers do.      *)
LEMMA SeenStays ==
  ASSUME SnapshotsNeverChange, UNCHANGED snapshots,
         \A s \in snapshots : \A i \in 1..s.slice.len :
           arrays'[s.slice.array][i] = arrays[s.slice.array][i]
  PROVE  SnapshotsNeverChange'
<1>1. ASSUME NEW s \in snapshots PROVE View(s.slice)' = s.seen
  <2>1. View(s.slice) = s.seen
    BY DEF SnapshotsNeverChange
  <2>2. [i \in 1..s.slice.len |-> arrays'[s.slice.array][i]]
        = [i \in 1..s.slice.len |-> arrays[s.slice.array][i]]
    OBVIOUS
  <2>3. QED
    BY <2>1, <2>2 DEF View
<1>2. QED
  BY <1>1 DEF SnapshotsNeverChange

(* Writing behind the slice disturbs no client.                            *)
LEMMA InPlaceStep ==
  ASSUME Inv, NEW p \in Ptr, AppendInPlace(p), UNCHANGED snapshots,
         ~\E i \in 1..slice.len : View(slice)[i] = p
  PROVE  Inv'
<1> DEFINE a == slice.array
           n == slice.len
<1> USE DEF Inv
<1>1. /\ a \in 1..Len(arrays) /\ n \in Nat /\ n + 1 \in 1..Len(arrays[a])
      /\ arrays[a] \in Seq(Cell) /\ Len(arrays[a]) \in Nat
      /\ arrays \in Seq(Seq(Cell))
      /\ arrays' = [arrays EXCEPT ![a] = [arrays[a] EXCEPT ![n + 1] = p]]
      /\ slice' = [slice EXCEPT !.len = n + 1]
  BY ArrayFacts DEF AppendInPlace, TypeOK
<1>2. PICK row : row = [arrays[a] EXCEPT ![n + 1] = p]
  OBVIOUS
<1>3. /\ row \in Seq(Cell) /\ Len(row) = Len(arrays[a])
      /\ \A i \in 1..Len(arrays[a]) : row[i] = IF i = n + 1 THEN p ELSE arrays[a][i]
  <2>1. p \in Cell
    BY DEF Cell
  <2>2. QED
    BY <1>1, <1>2, <2>1, ExceptSeq
<1>r. /\ arrays' \in Seq(Seq(Cell)) /\ Len(arrays') = Len(arrays)
      /\ \A b \in 1..Len(arrays) : b # a => arrays'[b] = arrays[b]
      /\ arrays'[a] = row
  <2>1. arrays' = [arrays EXCEPT ![a] = row]
    BY <1>1, <1>2
  <2>2. arrays \in Seq(Seq(Cell)) /\ a \in 1..Len(arrays) /\ row \in Seq(Cell)
    BY <1>1, <1>3
  <2>3. /\ [arrays EXCEPT ![a] = row] \in Seq(Seq(Cell))
        /\ Len([arrays EXCEPT ![a] = row]) = Len(arrays)
        /\ \A b \in 1..Len(arrays) :
             [arrays EXCEPT ![a] = row][b] = IF b = a THEN row ELSE arrays[b]
    BY <2>2, ExceptSeq
  <2>4. QED
    BY <2>1, <2>2, <2>3
<1>4. /\ Len(arrays'[a]) = Len(arrays[a]) /\ arrays'[a][n + 1] = p
      /\ \A i \in 1..n : arrays'[a][i] = arrays[a][i]
  BY <1>1, <1>3, <1>r
<1>5. slice'.array = a /\ slice'.len = n + 1 /\ slice' \in Slice
  <2>1. slice \in [array : Nat, len : Nat] /\ n + 1 \in Nat
    BY <1>1 DEF TypeOK, Slice
  <2>2. slice' = [array |-> slice.array, len |-> slice.len + 1]
    BY <1>1, <2>1
  <2>3. QED
    BY <2>1, <2>2 DEF Slice
<1>6. TypeOK'
  BY <1>r, <1>5 DEF TypeOK
<1>7. AllValid'
  <2>1. \A b \in 1..Len(arrays) : Len(arrays'[b]) = Len(arrays[b])
    BY <1>r, <1>4
  <2>2. QED
    BY <1>1, <1>r, <1>4, <1>5, <2>1 DEF AllValid, Valid
<1>8. CoveredBySlice'
  BY <1>1, <1>5, ArrayFacts DEF CoveredBySlice
<1>9. SliceFilled'
  <2>1. \A i \in 1..n : arrays[a][i] # p
    BY DEF View
  <2>2. \A i \in 1..(n + 1) : i \in 1..n \/ i = n + 1
    BY <1>1
  <2>3. QED
    BY <1>1, <1>4, <1>5, <2>1, <2>2 DEF SliceFilled
<1>10. SnapshotsNeverChange'
  <2>1. ASSUME NEW s \in snapshots, NEW i \in 1..s.slice.len
        PROVE  arrays'[s.slice.array][i] = arrays[s.slice.array][i]
    <3>1. CASE s.slice.array = a
      <4>1. i \in 1..n
        BY <1>1, <3>1, ArrayFacts DEF CoveredBySlice
      <4>2. QED
        BY <1>4, <3>1, <4>1
    <3>2. CASE s.slice.array # a
      BY <1>r, <3>2, ArrayFacts
    <3>3. QED
      BY <3>1, <3>2
  <2>2. QED
    BY <2>1, SeenStays
<1>11. QED
  BY <1>6, <1>7, <1>8, <1>9, <1>10

(* A slice of an array that is new: nobody else has one.                   *)
LEMMA NewArrayStep ==
  ASSUME Inv, NEW cells \in Seq(Cell), NEW n \in Nat, n <= Len(cells),
         \A i \in 1..n : cells[i] \in Ptr,
         \A i, j \in 1..n : cells[i] = cells[j] => i = j,
         arrays' = Append(arrays, cells),
         slice' = [array |-> Len(arrays) + 1, len |-> n],
         UNCHANGED snapshots
  PROVE  Inv'
<1> USE DEF Inv
<1>1. /\ arrays \in Seq(Seq(Cell)) /\ Len(arrays) \in Nat
      /\ arrays' \in Seq(Seq(Cell)) /\ Len(arrays') = Len(arrays) + 1
      /\ arrays'[Len(arrays) + 1] = cells
      /\ \A b \in 1..Len(arrays) : arrays'[b] = arrays[b]
      /\ slice'.array = Len(arrays) + 1 /\ slice'.len = n /\ slice' \in Slice
  BY DEF TypeOK, Slice
<1>2. TypeOK'
  BY <1>1 DEF TypeOK
<1>3. AllValid'
  BY <1>1, ArrayFacts DEF AllValid, Valid
<1>4. CoveredBySlice'
  BY <1>1, ArrayFacts DEF CoveredBySlice
<1>5. SliceFilled'
  BY <1>1 DEF SliceFilled
<1>6. SnapshotsNeverChange'
  BY <1>1, ArrayFacts, SeenStays
<1>7. QED
  BY <1>2, <1>3, <1>4, <1>5, <1>6

(* A full array is left as it is; its copy has room for one more.          *)
LEMMA ToCopyStep ==
  ASSUME Inv, NEW p \in Ptr, AppendToCopy(p), UNCHANGED snapshots,
         ~\E i \in 1..slice.len : View(slice)[i] = p
  PROVE  Inv'
<1> DEFINE a == slice.array
           n == slice.len
           cells == [i \in 1..GrownCap(n) |-> IF i <= n THEN arrays[a][i]
                                              ELSE IF i = n + 1 THEN p ELSE Nil]
<1> USE DEF Inv
<1>1. /\ a \in 1..Len(arrays) /\ n \in Nat /\ n = Len(arrays[a])
      /\ arrays[a] \in Seq(Cell)
      /\ arrays' = Append(arrays, cells)
      /\ slice' = [array |-> Len(arrays) + 1, len |-> n + 1]
  BY ArrayFacts DEF AppendToCopy
<1>2. GrownCap(n) \in Nat /\ n + 1 <= GrownCap(n)
  BY <1>1 DEF GrownCap
<1>3. cells \in Seq(Cell) /\ Len(cells) = GrownCap(n)
  <2>1. \A i \in 1..n : arrays[a][i] \in Cell
    BY <1>1, ElementOfSeq
  <2>2. cells \in [1..GrownCap(n) -> Cell]
    BY <1>1, <1>2, <2>1 DEF Cell
  <2>3. QED
    BY <1>2, <2>2
<1>4. ASSUME NEW i \in 1..(n + 1)
      PROVE  cells[i] = IF i = n + 1 THEN p ELSE arrays[a][i]
  <2>1. i \in 1..GrownCap(n) /\ (i <= n \/ i = n + 1) /\ ~(n + 1 <= n)
    BY <1>1, <1>2
  <2>2. QED
    BY <2>1
<1>5. \A i \in 1..n : arrays[a][i] \in Ptr /\ arrays[a][i] # p
  BY DEF SliceFilled, View
<1>6. \A i \in 1..(n + 1) : i \in 1..n \/ i = n + 1
  BY <1>1
<1> HIDE DEF cells
<1>7. /\ \A i \in 1..(n + 1) : cells[i] \in Ptr
      /\ \A i, j \in 1..(n + 1) : cells[i] = cells[j] => i = j
  BY <1>4, <1>5, <1>6 DEF SliceFilled
<1>8. n + 1 \in Nat /\ n + 1 <= Len(cells)
  BY <1>1, <1>2, <1>3
<1>9. QED
  BY <1>1, <1>3, <1>7, <1>8, NewArrayStep

-----------------------------------------------------------------------------
(* At first the slice is empty and nobody else has one.                    *)
LEMMA InvInit == Init => Inv
<1> SUFFICES ASSUME Init PROVE Inv
  OBVIOUS
<1>1. /\ arrays = << <<>> >> /\ arrays \in Seq(Seq(Cell)) /\ Len(arrays) = 1
      /\ slice = [array |-> 1, len |-> 0] /\ slice \in Slice /\ snapshots = {}
      /\ arrays[1] = <<>>
  BY DEF Init, Slice
<1>2. TypeOK
  BY <1>1 DEF TypeOK
<1>3. AllValid
  BY <1>1 DEF AllValid, Valid
<1>4. CoveredBySlice /\ SliceFilled /\ SnapshotsNeverChange
  BY <1>1 DEF CoveredBySlice, SliceFilled, SnapshotsNeverChange
<1>5. QED
  BY <1>2, <1>3, <1>4 DEF Inv

(* A client is given the factory's slice as it is.                         *)
LEMMA GetTypesStep ==
  ASSUME Inv, GetTypes
  PROVE  Inv'
<1> USE DEF Inv
<1>1. /\ snapshots' = snapshots \cup {[slice |-> slice, seen |-> View(slice)]}
      /\ UNCHANGED <<arrays, slice>>
  BY DEF GetTypes
<1>2. slice \in Slice /\ View(slice) \in Seq(Ptr)
  <2>1. slice \in Slice /\ slice.len \in Nat /\ View(slice) \in [1..slice.len -> Ptr]
    BY ArrayFacts DEF TypeOK, SliceFilled, View
  <2>2. QED
    BY <2>1
<1>3. TypeOK'
  BY <1>1, <1>2 DEF TypeOK
<1>4. AllValid' /\ SliceFilled'
  BY <1>1 DEF AllValid, Valid, SliceFilled
<1>5. CoveredBySlice'
  BY <1>1, ArrayFacts DEF CoveredBySlice
<1>6. SnapshotsNeverChange'
  <2>1. \A s \in snapshots : [i \in 1..s.slice.len |-> arrays[s.slice.array][i]] = s.seen
    BY DEF SnapshotsNeverChange, View
  <2>2. ASSUME NEW s \in snapshots'
        PROVE  [i \in 1..s.slice.len |-> arrays[s.slice.array][i]] = s.seen
    <3>1. CASE s \in snapshots
      BY <2>1, <3>1
    <3>2. CASE s = [slice |-> slice, seen |-> View(slice)]
      <4>1. s.slice = slice /\ s.seen = View(slice)
        BY <3>2
      <4>2. QED
        BY <4>1 DEF View
    <3>3. QED
      BY <1>1, <3>1, <3>2
  <2>3. QED
    BY <1>1, <2>2 DEF SnapshotsNeverChange, View
<1>7. QED
  BY <1>3, <1>4, <1>5, <1>6

(* Reset gives the factory an array of its own.                            *)
LEMMA ResetStep ==
  ASSUME Inv, Reset
  PROVE  Inv'
<1>1. /\ arrays' = Append(arrays, <<>>)
      /\ slice' = [array |-> Len(arrays) + 1, len |-> 0]
      /\ UNCHANGED snapshots
  BY DEF Reset
<1> DEFINE cells == <<>>
           n == 0
<1>2. /\ cells \in Seq(Cell) /\ n \in Nat /\ n <= Len(cells)
      /\ \A i \in 1..n : cells[i] \in Ptr
      /\ \A i, j \in 1..n : cells[i] = cells[j] => i = j
      /\ arrays' = Append(arrays, cells)
      /\ slice' = [array |-> Len(arrays) + 1, len |-> n]
  BY <1>1
<1> HIDE DEF cells, n
<1>3. QED
  BY <1>1, <1>2, NewArrayStep

(* GetReference: nothing, or one append.                                   *)
LEMMA GetReferenceStep ==
  ASSUME Inv, NEW p \in Ptr, GetReference(p)
  PROVE  Inv'
<1>1. CASE \E i \in 1..slice.len : View(slice)[i] = p
  <2>1. UNCHANGED <<arrays, slice, snapshots>>
    BY <1>1 DEF GetReference
  <2>2. QED
    BY <2>1 DEF Inv, TypeOK, AllValid, Valid, CoveredBySlice, SliceFilled,
                SnapshotsNeverChange, View
<1>2. CASE ~\E i \in 1..slice.len : View(slice)[i] = p
  BY <1>2, InPlaceStep, ToCopyStep DEF GetReference
<1>3. QED
  BY <1>1, <1>2

(* Every append, within capacity or with a new backing array, every Reset  *)
(* and every GetTypes keeps the invariant.                                 *)
LEMMA InvStep == Inv /\ [Next]_vars => Inv'
<1> SUFFICES ASSUME Inv, [Next]_vars PROVE Inv'
  OBVIOUS
<1>1. CASE UNCHANGED vars
  BY <1>1 DEF vars, Inv, TypeOK, AllValid, Valid, CoveredBySlice, SliceFilled,
              SnapshotsNeverChange, View
<1>2. QED
  BY <1>1, GetTypesStep, ResetStep, GetReferenceStep DEF Next

(* Every slice on record is a window of an array there is, none longer     *)
(* than the factory's on the same array.                                   *)
THEOREM Invariance == Spec => []Inv
BY InvInit, InvStep, PTL DEF Spec

(* A client that keeps the slice GetTypes returned never sees it change,   *)
(* though it shares memory with a factory that goes on appending and is    *)
(* reset.                                                                  *)
THEOREM SlicesNeverChange == Spec => []SnapshotsNeverChange
<1>1. Inv => SnapshotsNeverChange
  BY DEF Inv
<1>2. QED
  BY <1>1, Invariance, PTL

-----------------------------------------------------------------------------
(* What the slice shows is, after a step, the same, or one longer, or      *)
(* empty.                                                                  *)
LEMMA ViewStep ==
  ASSUME Inv, Inv', [Next]_vars
  PROVE  \/ View(slice)' = View(slice)
         \/ View(slice)' = <<>>
         \/ /\ slice'.len = slice.len + 1
            /\ \A i \in 1..slice.len : View(slice)'[i] = View(slice)[i]
<1>1. CASE UNCHANGED <<arrays, slice>>
  BY <1>1 DEF View
<1>2. CASE Reset
  <2>1. slice'.len = 0
    BY <1>2 DEF Reset
  <2>2. QED
    BY <2>1 DEF View
<1>3. ASSUME NEW p \in Ptr, AppendInPlace(p)
      PROVE  /\ slice'.len = slice.len + 1
             /\ \A i \in 1..slice.len : View(slice)'[i] = View(slice)[i]
  <2>1. /\ slice \in [array : Nat, len : Nat]
        /\ slice.array \in 1..Len(arrays) /\ slice.len \in Nat
        /\ slice.len + 1 \in 1..Len(arrays[slice.array])
        /\ arrays[slice.array] \in Seq(Cell) /\ arrays \in Seq(Seq(Cell))
    BY <1>3, ArrayFacts DEF Inv, TypeOK, AppendInPlace, Slice
  <2>2. slice' = [array |-> slice.array, len |-> slice.len + 1]
    BY <1>3, <2>1 DEF AppendInPlace
  <2>3. \A i \in 1..slice.len : arrays'[slice.array][i] = arrays[slice.array][i]
    BY <1>3, <2>1 DEF AppendInPlace
  <2>4. QED
    BY <2>1, <2>2, <2>3 DEF View
<1>4. ASSUME NEW p \in Ptr, AppendToCopy(p)
      PROVE  /\ slice'.len = slice.len + 1
             /\ \A i \in 1..slice.len : View(slice)'[i] = View(slice)[i]
  <2> DEFINE cells == [i \in 1..GrownCap(slice.len) |->
                         IF i <= slice.len THEN arrays[slice.array][i]
                         ELSE IF i = slice.len + 1 THEN p ELSE Nil]
  <2>1. /\ slice.len \in Nat /\ arrays \in Seq(Seq(Cell)) /\ Len(arrays) \in Nat
        /\ slice.len + 1 <= GrownCap(slice.len) /\ GrownCap(slice.len) \in Nat
    BY ArrayFacts DEF Inv, TypeOK, GrownCap
  <2>2. /\ slice' = [array |-> Len(arrays) + 1, len |-> slice.len + 1]
        /\ arrays' = Append(arrays, cells)
    BY <1>4 DEF AppendToCopy
  <2>3. \A i \in 1..slice.len : cells[i] = arrays[slice.array][i]
    BY <2>1
  <2> HIDE DEF cells
  <2>4. arrays'[Len(arrays) + 1] = cells
    BY <2>1, <2>2
  <2>5. \A i \in 1..slice.len : i \in 1..(slice.len + 1)
    BY <2>1
  <2>6. QED
    BY <2>2, <2>3, <2>4, <2>5 DEF View
<1>5. QED
  BY <1>1, <1>2, <1>3, <1>4 DEF Next, vars, GetTypes, GetReference

(* The window on shared memory implements the table of types that          *)
(* GoTypeFactory keeps as a value.                                         *)
THEOREM ImplementsTypeTable == Spec => ImplementsTable
<1>1. Init => Table!Init
  BY DEF Init, Table!Init, View
<1>2. ASSUME Inv, Inv', [Next]_vars PROVE [Table!Next]_(View(slice))
  <2>1. /\ View(slice)' \in Seq(Ptr) /\ Len(View(slice)') = slice'.len
        /\ \A i, j \in 1..slice'.len : View(slice)'[i] = View(slice)'[j] => i = j
    <3>1. slice'.len \in Nat
      BY <1>2 DEF Inv, TypeOK, Slice
    <3>2. View(slice)' \in [1..slice'.len -> Ptr]
      BY <1>2 DEF Inv, SliceFilled, View
    <3>3. QED
      BY <1>2, <3>1, <3>2 DEF Inv, SliceFilled, View
  <2>2. Len(View(slice)) = slice.len /\ slice.len \in Nat
    <3>1. slice.len \in Nat /\ View(slice) \in [1..slice.len -> Ptr]
      BY <1>2 DEF Inv, TypeOK, Slice, SliceFilled, View
    <3>2. QED
      BY <3>1
  <2>3. CASE View(slice)' = <<>>
    BY <2>3 DEF Table!Next, Table!Clear
  <2>4. CASE /\ slice'.len = slice.len + 1
             /\ \A i \in 1..slice.len : View(slice)'[i] = View(slice)[i]
    <3>1. Len(View(slice)') > Len(View(slice))
      BY <2>1, <2>2, <2>4
    <3>2. QED
      BY <2>1, <2>2, <2>4, <3>1 DEF Table!Next, Table!Register, Table!Distinct
  <2>5. QED
    BY <1>2, <2>3, <2>4, ViewStep
<1>3. QED
  BY <1>1, <1>2, Invariance, PTL DEF Spec, ImplementsTable, Table!Spec
==============================================================================
