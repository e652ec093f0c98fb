------------------------- MODULE GoTypeFactoryProofs -------------------------
(***************************************************************************)
(* Proofs about GoTypeFactory, for any factories, pointers and bounds.     *)
(*                                                                         *)
(* ListMapInverse, IssuedRefsResolve and SnapshotsArePrefixes are not      *)
(* inductive by themselves.  What they lack is HistoryOK: nothing on       *)
(* record carries an epoch that has not begun, so that Reset, which starts *)
(* one, leaves nothing to be checked against the empty list; and only      *)
(* allocated objects are registered, so that a helper's fresh objects are  *)
(* not in the map.                                                         *)
(***************************************************************************)
EXTENDS GoTypeFactory, TLAPS

HistoryOK ==
  /\ \A h \in issued : h.epoch <= epoch[h.fac]
  /\ \A s \in snapshots : s.epoch <= epoch[s.fac]
  /\ \A f \in Factory, p \in Ptr : HasType(f, p) => kind[p] # Free

Inv ==
  /\ TypeOK
  /\ ListMapInverse
  /\ IssuedRefsResolve
  /\ SnapshotsArePrefixes
  /\ HistoryOK

-----------------------------------------------------------------------------
(* Registering fresh objects is the step common to the string helpers.     *)

(* A sequence of fresh objects: it has no duplicate and is not registered. *)
LEMMA FreshSeqsFacts ==
  ASSUME TypeOK, NEW n \in Nat, NEW s \in FreshSeqs(n)
  PROVE  /\ s \in Seq(Ptr) /\ Len(s) = n
         /\ \A i \in 1..Len(s) : kind[s[i]] = Free
         /\ \A i, j \in 1..Len(s) : s[i] = s[j] => i = j
<1>1. s \in [1..n -> Ptr]
  BY DEF FreshSeqs
<1>2. s \in Seq(Ptr) /\ Len(s) = n
  BY <1>1
<1>3. QED
  BY <1>1, <1>2 DEF FreshSeqs

(* Type correctness is kept by every step.                                 *)
LEMMA TypeStep == TypeOK /\ [Next]_vars => TypeOK'
<1> SUFFICES ASSUME TypeOK, [Next]_vars PROVE TypeOK'
  OBVIOUS
<1> USE DEF TypeOK
<1>h. ASSUME NEW f \in Factory, NEW i \in Nat, NEW p \in Ptr
      PROVE  HandleOf(f, i, p) \in Handle
  BY DEF HandleOf, Handle
<1>c. \A f \in Factory : Count(f) \in Nat
  BY DEF Count
<1>r. ASSUME NEW f \in Factory, NEW n \in Nat, NEW s \in FreshSeqs(n),
             RegisterFresh(f, s)
      PROVE  /\ typeList' \in [Factory -> Seq(Ptr)]
             /\ typeMap' \in [Factory -> [Ptr -> Nat \cup {NoIndex}]]
             /\ issued' \subseteq Handle
             /\ NewHandles(f, s) \subseteq Handle
  <2>1. s \in Seq(Ptr) /\ \A i \in 1..Len(s) : s[i] \in Ptr
    BY FreshSeqsFacts
  <2>2. typeList' \in [Factory -> Seq(Ptr)]
    BY <1>r, <2>1 DEF RegisterFresh
  <2>3. MapAfter(f, s) \in [Ptr -> Nat \cup {NoIndex}]
    <3>1. ASSUME NEW p \in Ptr, \E i \in 1..Len(s) : s[i] = p
          PROVE  Count(f) + (CHOOSE i \in 1..Len(s) : s[i] = p) - 1 \in Nat
      BY <3>1, <1>c, <2>1
    <3>2. QED
      BY <3>1 DEF MapAfter
  <2>4. NewHandles(f, s) \subseteq Handle
    <3>1. ASSUME NEW i \in 1..Len(s)
          PROVE  HandleOf(f, Count(f) + i - 1, s[i]) \in Handle
      <4>1. Count(f) + i - 1 \in Nat
        BY <1>c, <2>1
      <4>2. QED
        BY <1>h, <2>1, <4>1
    <3>2. QED
      BY <3>1 DEF NewHandles
  <2>5. QED
    BY <1>r, <2>2, <2>3, <2>4 DEF RegisterFresh
<1>1. ASSUME NEW f \in Factory, GetTypes(f) PROVE TypeOK'
  BY <1>1 DEF GetTypes, Snapshot
<1>2. ASSUME NEW f \in Factory, Reset(f) PROVE TypeOK'
  BY <1>2 DEF Reset
<1>3. ASSUME NEW f \in Factory, NEW p \in Ptr, GetReference(f, p) PROVE TypeOK'
  <2>1. CASE HasType(f, p)
    <3>1. typeMap[f][p] \in Nat
      BY <2>1 DEF HasType
    <3>2. QED
      BY <1>3, <2>1, <3>1, <1>h DEF GetReference
  <2>2. CASE ~HasType(f, p)
    <3>1. typeList' \in [Factory -> Seq(Ptr)]
      <4>1. typeList' = [typeList EXCEPT ![f] = Append(typeList[f], p)]
        BY <1>3, <2>2 DEF GetReference
      <4>2. Append(typeList[f], p) \in Seq(Ptr)
        OBVIOUS
      <4>3. QED
        BY <4>1, <4>2
    <3>2. typeMap' \in [Factory -> [Ptr -> Nat \cup {NoIndex}]]
      <4>1. typeMap' = [typeMap EXCEPT ![f] = [typeMap[f] EXCEPT ![p] = Count(f)]]
        BY <1>3, <2>2 DEF GetReference
      <4>2. [typeMap[f] EXCEPT ![p] = Count(f)] \in [Ptr -> Nat \cup {NoIndex}]
        BY <1>c
      <4>3. QED
        BY <4>1, <4>2
    <3>3. issued' \subseteq Handle
      BY <1>3, <2>2, <1>h, <1>c DEF GetReference
    <3>4. QED
      BY <1>3, <3>1, <3>2, <3>3 DEF GetReference
  <2>3. QED
    BY <2>1, <2>2
<1>4. ASSUME NEW f \in Factory, NEW s \in FreshSeqs(1), CreateStringProperty(f, s)
      PROVE  TypeOK'
  <2>1. RegisterFresh(f, s)
    BY <1>4 DEF CreateStringProperty
  <2>2. QED
    BY <1>4, <1>r, <2>1 DEF CreateStringProperty, RegisterFresh, Kind
<1>5. ASSUME NEW f \in Factory, NEW n \in 0..MaxLiterals, NEW s \in FreshSeqs(n),
             NEW q \in Ptr, CreateStringContainer(f, s, q)
      PROVE  TypeOK'
  <2>1. n \in Nat /\ RegisterFresh(f, s)
    BY <1>5, BoundAssumption DEF CreateStringContainer
  <2>2. QED
    BY <1>5, <1>r, <2>1 DEF CreateStringContainer, RegisterFresh, Kind
<1>6. ASSUME NEW p \in Ptr, NEW k \in ZeroSize, CreateZeroSize(p, k) PROVE TypeOK'
  BY <1>6 DEF CreateZeroSize, Kind
<1>7. ASSUME NEW p \in Ptr, NEW hs, CreateSized(p, hs) PROVE TypeOK'
  BY <1>7 DEF CreateSized, Kind
<1>8. ASSUME NEW p \in Ptr, NEW h \in issued, SetField(p, h) PROVE TypeOK'
  BY <1>8 DEF SetField
<1>9. CASE UNCHANGED vars
  BY <1>9 DEF vars
<1>10. QED
  BY <1>1, <1>2, <1>3, <1>4, <1>5, <1>6, <1>7, <1>8, <1>9 DEF Next

(* In every behaviour of any clients and factories the variables keep the  *)
(* shapes of the Go structures they stand for.                             *)
THEOREM TypeCorrect == Spec => []TypeOK
<1>1. Init => TypeOK
  BY DEF Init, TypeOK
<1>2. QED
  BY <1>1, TypeStep, PTL DEF Spec

-----------------------------------------------------------------------------
(* What ListMapInverse says without the error value of GetTypeByIndex.     *)
LEMMA RegisteredInRange ==
  ASSUME TypeOK, ListMapInverse, NEW f \in Factory, NEW p \in Ptr, HasType(f, p)
  PROVE  /\ typeMap[f][p] \in 0..(Len(typeList[f]) - 1)
         /\ typeList[f][typeMap[f][p] + 1] = p
<1>1. typeMap[f][p] \in Nat /\ Len(typeList[f]) \in Nat
  BY DEF TypeOK, HasType
<1>2. GetTypeByIndex(f, typeMap[f][p]) = p /\ p # Free
  BY FreeAssumption DEF ListMapInverse, GetTypeIndex
<1>3. QED
  BY <1>1, <1>2 DEF GetTypeByIndex, Count

(* A reference that is still current lies inside the list of its factory,  *)
(* at the place of the object it was issued for.                           *)
LEMMA ResolvedInRange ==
  ASSUME TypeOK, IssuedRefsResolve, NEW f \in Factory, NEW h \in Current(f)
  PROVE  /\ h.index \in 0..(Len(typeList[f]) - 1)
         /\ typeList[f][h.index + 1] = h.target
<1>1. h \in Handle /\ Len(typeList[f]) \in Nat
  BY DEF TypeOK, Current
<1>2. h.index \in Nat /\ h.target \in Ptr
  BY <1>1 DEF Handle
<1>3. GetTypeByIndex(f, h.index) = h.target /\ h.target # Free
  BY <1>2, FreeAssumption DEF IssuedRefsResolve
<1>4. QED
  BY <1>1, <1>2, <1>3 DEF GetTypeByIndex, Count

(* How registering unregistered objects changes the list and the map.      *)
LEMMA ExtensionFacts ==
  ASSUME TypeOK, NEW f \in Factory, NEW s \in Seq(Ptr),
         \A i, j \in 1..Len(s) : s[i] = s[j] => i = j,
         RegisterFresh(f, s)
  PROVE  /\ typeList'[f] = typeList[f] \o s
         /\ typeList'[f] \in Seq(Ptr)
         /\ Len(typeList'[f]) = Len(typeList[f]) + Len(s)
         /\ \A i \in 1..Len(typeList[f]) : typeList'[f][i] = typeList[f][i]
         /\ \A i \in 1..Len(s) : typeList'[f][Len(typeList[f]) + i] = s[i]
         /\ \A i \in 1..Len(s) : typeMap'[f][s[i]] = Len(typeList[f]) + i - 1
         /\ \A p \in Ptr : (\A i \in 1..Len(s) : s[i] # p)
                            => typeMap'[f][p] = typeMap[f][p]
         /\ \A g \in Factory \ {f} : /\ typeList'[g] = typeList[g]
                                     /\ typeMap'[g] = typeMap[g]
<1>1. typeList[f] \in Seq(Ptr) /\ typeList'[f] = typeList[f] \o s
  BY DEF TypeOK, RegisterFresh
<1>2. typeMap'[f] = MapAfter(f, s)
  BY DEF TypeOK, RegisterFresh
<1>3. ASSUME NEW i \in 1..Len(s)
      PROVE  typeMap'[f][s[i]] = Len(typeList[f]) + i - 1
  <2>1. s[i] \in Ptr /\ (CHOOSE j \in 1..Len(s) : s[j] = s[i]) = i
    OBVIOUS
  <2>2. QED
    BY <1>2, <2>1 DEF MapAfter, Count
<1>4. \A p \in Ptr : (\A i \in 1..Len(s) : s[i] # p)
                     => typeMap'[f][p] = typeMap[f][p]
  BY <1>2 DEF MapAfter
<1>5. \A g \in Factory \ {f} : typeList'[g] = typeList[g] /\ typeMap'[g] = typeMap[g]
  BY DEF TypeOK, RegisterFresh
<1>6. /\ Len(typeList'[f]) = Len(typeList[f]) + Len(s)
      /\ \A i \in 1..Len(typeList[f]) : typeList'[f][i] = typeList[f][i]
      /\ \A i \in 1..Len(s) : typeList'[f][Len(typeList[f]) + i] = s[i]
      /\ typeList'[f] \in Seq(Ptr)
  BY <1>1
<1>7. QED
  BY <1>1, <1>3, <1>4, <1>5, <1>6

(* Registering objects that are not registered keeps every part of the     *)
(* invariant that concerns lists, maps, references and snapshots.          *)
LEMMA ExtensionStep ==
  ASSUME Inv, TypeOK', NEW f \in Factory, NEW s \in Seq(Ptr),
         \A i, j \in 1..Len(s) : s[i] = s[j] => i = j,
         \A i \in 1..Len(s) : ~HasType(f, s[i]) /\ kind'[s[i]] # Free,
         \A p \in Ptr : kind[p] # Free => kind'[p] # Free,
         RegisterFresh(f, s)
  PROVE  Inv'
<1> USE DEF Inv
<1> DEFINE L == typeList[f]
           n == Len(L)
<1>1. L \in Seq(Ptr) /\ n \in Nat /\ Len(s) \in Nat
  BY DEF TypeOK
<1>g. ASSUME NEW g \in Factory
      PROVE  /\ Len(typeList[g]) \in Nat /\ Len(typeList'[g]) \in Nat
             /\ Len(typeList'[g]) >= Len(typeList[g])
             /\ \A i \in 1..Len(typeList[g]) : typeList'[g][i] = typeList[g][i]
  <2>1. typeList[g] \in Seq(Ptr) /\ typeList'[g] \in Seq(Ptr)
    BY DEF TypeOK
  <2>2. CASE g = f
    BY <1>1, <2>1, <2>2, ExtensionFacts
  <2>3. CASE g # f
    BY <2>1, <2>3, ExtensionFacts
  <2>4. QED
    BY <2>2, <2>3
<1>2. ListMapInverse'
  <2>1. ASSUME NEW g \in Factory, NEW p \in Ptr, typeMap'[g][p] # NoIndex
        PROVE  GetTypeByIndex(g, GetTypeIndex(g, p))' = p
    <3>1. CASE g = f /\ \E i \in 1..Len(s) : s[i] = p
      <4>1. PICK i \in 1..Len(s) : s[i] = p
        BY <3>1
      <4>2. typeMap'[f][p] = n + i - 1 /\ typeList'[f][n + i] = p
        BY <4>1, ExtensionFacts
      <4>3. Len(typeList'[f]) = n + Len(s)
        BY ExtensionFacts
      <4>4. QED
        BY <1>1, <3>1, <4>1, <4>2, <4>3 DEF GetTypeByIndex, GetTypeIndex, Count
    <3>2. CASE g = f /\ \A i \in 1..Len(s) : s[i] # p
      <4>1. typeMap'[f][p] = typeMap[f][p] /\ HasType(f, p)
        BY <2>1, <3>2, ExtensionFacts DEF HasType
      <4>2. typeMap[f][p] \in 0..(n - 1) /\ L[typeMap[f][p] + 1] = p
        BY <4>1, RegisteredInRange
      <4>3. /\ Len(typeList'[f]) = n + Len(s)
            /\ \A i \in 1..n : typeList'[f][i] = L[i]
        BY ExtensionFacts
      <4>4. /\ typeMap'[f][p] \in 0..(Len(typeList'[f]) - 1)
            /\ typeList'[f][typeMap'[f][p] + 1] = p
        <5>1. n \in Nat /\ Len(s) \in Nat /\ typeMap[f][p] + 1 \in 1..n
          BY <1>1, <4>2
        <5>2. typeList'[f][typeMap[f][p] + 1] = p
          BY <4>2, <4>3, <5>1
        <5> HIDE DEF n, L
        <5>3. QED
          BY <4>1, <4>2, <4>3, <5>1, <5>2
      <4>5. QED
        BY <1>g, <3>2, <4>4 DEF GetTypeByIndex, GetTypeIndex, Count
    <3>3. CASE g # f
      <4>1. typeList'[g] = typeList[g] /\ typeMap'[g] = typeMap[g]
        BY <3>3, ExtensionFacts
      <4>2. HasType(g, p)
        BY <2>1, <4>1 DEF HasType
      <4>3. /\ typeMap[g][p] \in 0..(Len(typeList[g]) - 1)
            /\ typeList[g][typeMap[g][p] + 1] = p
        BY <4>2, RegisteredInRange
      <4>4. /\ typeMap'[g][p] \in 0..(Len(typeList'[g]) - 1)
            /\ typeList'[g][typeMap'[g][p] + 1] = p
        BY <4>1, <4>3
      <4>5. QED
        BY <1>g, <4>4 DEF GetTypeByIndex, GetTypeIndex, Count
    <3>4. QED
      BY <3>1, <3>2, <3>3
  <2>2. ASSUME NEW g \in Factory, NEW i \in 1..Len(typeList'[g])
        PROVE  typeMap'[g][typeList'[g][i]] = i - 1
    <3>1. CASE g # f
      BY <2>2, <3>1, ExtensionFacts DEF ListMapInverse, GetTypeIndex
    <3>2. CASE g = f /\ i <= n
      <4>1. typeList'[f][i] = L[i] /\ L[i] \in Ptr /\ typeMap[f][L[i]] = i - 1
        BY <1>1, <2>2, <3>2, ExtensionFacts DEF ListMapInverse, GetTypeIndex
      <4>2. HasType(f, L[i])
        BY <1>1, <2>2, <3>2, <4>1 DEF HasType, NoIndex
      <4>3. QED
        BY <3>2, <4>1, <4>2, ExtensionFacts
    <3>3. CASE g = f /\ i > n
      <4>1. i - n \in 1..Len(s)
        BY <1>1, <2>2, <3>3, ExtensionFacts
      <4>2. typeList'[f][n + (i - n)] = s[i - n] /\ typeMap'[f][s[i - n]] = n + (i - n) - 1
        BY <4>1, ExtensionFacts
      <4>3. QED
        BY <1>1, <2>2, <3>3, <4>2
    <3>4. QED
      BY <1>1, <2>2, <3>1, <3>2, <3>3, ExtensionFacts
  <2>3. QED
    BY <2>1, <2>2 DEF ListMapInverse, HasType, GetTypeIndex
<1>3. IssuedRefsResolve'
  <2>1. ASSUME NEW g \in Factory, NEW h \in issued', h.fac = g, h.epoch = epoch[g]
        PROVE  GetTypeByIndex(g, h.index)' = h.target
    <3>1. CASE h \in issued
      <4>1. h.index \in 0..(Len(typeList[g]) - 1) /\ typeList[g][h.index + 1] = h.target
        BY <2>1, <3>1, ResolvedInRange DEF Current
      <4>2. QED
        BY <1>g, <4>1 DEF GetTypeByIndex, Count
    <3>2. CASE h \in NewHandles(f, s)
      <4>1. PICK i \in 1..Len(s) : h = HandleOf(f, Count(f) + i - 1, s[i])
        BY <3>2 DEF NewHandles
      <4>2. g = f /\ h.index = n + i - 1 /\ h.target = s[i]
        BY <2>1, <4>1 DEF HandleOf, Count
      <4>3. Len(typeList'[f]) = n + Len(s) /\ typeList'[f][n + i] = s[i]
        BY ExtensionFacts
      <4>4. QED
        BY <1>1, <4>2, <4>3 DEF GetTypeByIndex, Count
    <3>3. QED
      BY <2>1, <3>1, <3>2 DEF RegisterFresh
  <2>2. epoch' = epoch
    BY DEF RegisterFresh
  <2>3. QED
    BY <2>1, <2>2 DEF IssuedRefsResolve, Current
<1>4. SnapshotsArePrefixes'
  <2>1. snapshots' = snapshots /\ epoch' = epoch
    BY DEF RegisterFresh
  <2>2. ASSUME NEW t \in snapshots
        PROVE  t.fac \in Factory /\ Len(t.types) \in Nat
    BY DEF TypeOK, Snapshot
  <2>3. QED
    BY <1>g, <2>1, <2>2 DEF SnapshotsArePrefixes, Count
<1>5. HistoryOK'
  <2>1. \A h \in NewHandles(f, s) : h.fac = f /\ h.epoch = epoch[f]
    BY DEF NewHandles, HandleOf
  <2>2. ASSUME NEW h \in issued' PROVE h.epoch <= epoch'[h.fac]
    BY <2>1 DEF RegisterFresh, HistoryOK, TypeOK
  <2>3. \A t \in snapshots' : t.epoch <= epoch'[t.fac]
    BY DEF RegisterFresh, HistoryOK
  <2>4. ASSUME NEW g \in Factory, NEW p \in Ptr, typeMap'[g][p] # NoIndex
        PROVE  kind'[p] # Free
    <3>1. CASE typeMap[g][p] # NoIndex
      BY <3>1 DEF HistoryOK, HasType
    <3>2. CASE typeMap[g][p] = NoIndex
      <4>1. g = f /\ \E i \in 1..Len(s) : s[i] = p
        BY <2>4, <3>2, ExtensionFacts
      <4>2. QED
        BY <4>1
    <3>3. QED
      BY <3>1, <3>2
  <2>5. QED
    BY <2>2, <2>3, <2>4 DEF HistoryOK, HasType
<1>6. QED
  BY <1>2, <1>3, <1>4, <1>5

-----------------------------------------------------------------------------
(* The steps one by one.                                                   *)

(* GetReference keeps the invariant: a known pointer changes nothing, a    *)
(* new one is appended and entered under the index of its place.           *)
LEMMA GetReferenceStep ==
  ASSUME Inv, TypeOK', NEW f \in Factory, NEW p \in Ptr, GetReference(f, p)
  PROVE  Inv'
<1> USE DEF Inv
<1>1. CASE HasType(f, p)
  <2>1. /\ UNCHANGED <<typeList, typeMap, kind, refs, epoch, snapshots>>
        /\ issued' = issued \cup {HandleOf(f, typeMap[f][p], p)}
    BY <1>1 DEF GetReference
  <2>2. ListMapInverse' /\ SnapshotsArePrefixes'
    BY <2>1 DEF ListMapInverse, SnapshotsArePrefixes, GetTypeByIndex, GetTypeIndex,
                HasType, Count
  <2>3. HistoryOK'
    <3>1. ASSUME NEW h \in issued' PROVE h.epoch <= epoch[h.fac]
      BY <2>1 DEF HistoryOK, HandleOf, TypeOK
    <3>2. QED
      BY <2>1, <3>1 DEF HistoryOK, HasType
  <2>4. IssuedRefsResolve'
    <3>1. ASSUME NEW g \in Factory, NEW h \in issued', h.fac = g, h.epoch = epoch[g]
          PROVE  GetTypeByIndex(g, h.index) = h.target
      <4>1. CASE h \in issued
        BY <3>1, <4>1 DEF IssuedRefsResolve, Current
      <4>2. CASE h = HandleOf(f, typeMap[f][p], p)
        BY <1>1, <3>1, <4>2 DEF HandleOf, ListMapInverse, GetTypeIndex
      <4>3. QED
        BY <2>1, <3>1, <4>1, <4>2
    <3>2. QED
      BY <2>1, <3>1 DEF IssuedRefsResolve, Current, GetTypeByIndex, Count
  <2>5. QED
    BY <2>2, <2>3, <2>4
<1>2. CASE ~HasType(f, p)
  <2> DEFINE s == <<p>>
  <2>1. s \in Seq(Ptr) /\ Len(s) = 1 /\ s[1] = p
    OBVIOUS
  <2>2. typeList[f] \in Seq(Ptr) /\ Count(f) \in Nat
    BY DEF TypeOK, Count
  <2>3. RegisterFresh(f, s)
    <3>1. typeList' = [typeList EXCEPT ![f] = typeList[f] \o s]
      <4>1. Append(typeList[f], p) = typeList[f] \o s
        BY <2>2
      <4>2. QED
        BY <1>2, <4>1 DEF GetReference
    <3>2. typeMap' = [typeMap EXCEPT ![f] = MapAfter(f, s)]
      <4>1. typeMap' = [typeMap EXCEPT ![f] = [typeMap[f] EXCEPT ![p] = Count(f)]]
        BY <1>2 DEF GetReference
      <4>2. ASSUME NEW q \in Ptr
            PROVE  [typeMap[f] EXCEPT ![p] = Count(f)][q] = MapAfter(f, s)[q]
        <5>1. CASE q = p
          <6>1. (\E i \in 1..Len(s) : s[i] = q) /\ (CHOOSE i \in 1..Len(s) : s[i] = q) = 1
            BY <2>1, <5>1
          <6>2. MapAfter(f, s)[q] = Count(f) + 1 - 1
            BY <6>1 DEF MapAfter
          <6>3. QED
            BY <2>2, <5>1, <6>2 DEF TypeOK
        <5>2. CASE q # p
          <6>1. ~ \E i \in 1..Len(s) : s[i] = q
            BY <2>1, <5>2
          <6>2. MapAfter(f, s)[q] = typeMap[f][q]
            BY <6>1 DEF MapAfter
          <6>3. QED
            BY <5>2, <6>2 DEF TypeOK
        <5>3. QED
          BY <5>1, <5>2
      <4>3. [typeMap[f] EXCEPT ![p] = Count(f)] = MapAfter(f, s)
        BY <4>2 DEF MapAfter, TypeOK
      <4>4. QED
        BY <4>1, <4>3
    <3>3. issued' = issued \cup NewHandles(f, s)
      <4>1. NewHandles(f, s) = {HandleOf(f, Count(f), p)}
        BY <2>1, <2>2 DEF NewHandles
      <4>2. QED
        BY <1>2, <4>1 DEF GetReference
    <3>4. QED
      BY <3>1, <3>2, <3>3 DEF GetReference, RegisterFresh
  <2>4. kind' = kind /\ kind[p] # Free
    BY DEF GetReference
  <2>5. \A i \in 1..Len(s) : ~HasType(f, s[i]) /\ kind'[s[i]] # Free
    BY <1>2, <2>1, <2>4
  <2>6. \A i, j \in 1..Len(s) : s[i] = s[j] => i = j
    BY <2>1
  <2>7. \A q \in Ptr : kind[q] # Free => kind'[q] # Free
    BY <2>4
  <2> HIDE DEF s
  <2>8. QED
    BY <2>1, <2>3, <2>5, <2>6, <2>7, ExtensionStep
<1>3. QED
  BY <1>1, <1>2

(* Reset keeps the invariant: list and map are emptied together, and no    *)
(* reference stays current.                                                *)
LEMMA ResetStep ==
  ASSUME Inv, TypeOK', NEW f \in Factory, Reset(f)
  PROVE  Inv'
<1> USE DEF Inv
<1>1. /\ typeList'[f] = <<>> /\ epoch'[f] = epoch[f] + 1
      /\ \A p \in Ptr : typeMap'[f][p] = NoIndex
      /\ \A g \in Factory \ {f} : /\ typeList'[g] = typeList[g]
                                  /\ typeMap'[g] = typeMap[g]
                                  /\ epoch'[g] = epoch[g]
      /\ issued' = issued /\ snapshots' = snapshots /\ kind' = kind
  BY DEF Reset, TypeOK
<1>2. epoch[f] \in Nat
  BY DEF TypeOK
<1>3. ListMapInverse'
  <2>1. ASSUME NEW g \in Factory
        PROVE  /\ \A p \in Ptr : typeMap'[g][p] # NoIndex
                                => GetTypeByIndex(g, GetTypeIndex(g, p))' = p
               /\ \A i \in 1..Len(typeList'[g]) : typeMap'[g][typeList'[g][i]] = i - 1
    <3>1. CASE g = f
      BY <1>1, <3>1
    <3>2. CASE g # f
      BY <1>1, <3>2 DEF ListMapInverse, GetTypeByIndex, GetTypeIndex, HasType, Count
    <3>3. QED
      BY <3>1, <3>2
  <2>2. QED
    BY <2>1 DEF ListMapInverse, HasType, GetTypeIndex
<1>4. IssuedRefsResolve'
  <2>1. ASSUME NEW g \in Factory, NEW h \in issued, h.fac = g, h.epoch = epoch'[g]
        PROVE  g # f /\ GetTypeByIndex(g, h.index) = h.target
    <3>1. g # f
      BY <1>1, <1>2, <2>1 DEF HistoryOK
    <3>2. QED
      BY <1>1, <2>1, <3>1 DEF IssuedRefsResolve, Current
  <2>2. QED
    BY <1>1, <2>1 DEF IssuedRefsResolve, Current, GetTypeByIndex, Count
<1>5. SnapshotsArePrefixes'
  <2>1. ASSUME NEW s \in snapshots, s.epoch = epoch'[s.fac]
        PROVE  s.fac \in Factory \ {f}
    BY <1>1, <1>2, <2>1 DEF HistoryOK, TypeOK, Snapshot
  <2>2. QED
    BY <1>1, <2>1 DEF SnapshotsArePrefixes, Count
<1>6. HistoryOK'
  <2>1. ASSUME NEW g \in Factory PROVE epoch[g] \in Nat /\ epoch[g] <= epoch'[g]
    BY <1>1, <1>2 DEF TypeOK
  <2>2. ASSUME NEW h \in issued PROVE h.epoch <= epoch'[h.fac]
    <3>1. h.fac \in Factory /\ h.epoch \in Nat
      BY DEF TypeOK, Handle
    <3>2. QED
      BY <2>1, <3>1 DEF HistoryOK, TypeOK
  <2>3. ASSUME NEW s \in snapshots PROVE s.epoch <= epoch'[s.fac]
    <3>1. s.fac \in Factory /\ s.epoch \in Nat
      BY DEF TypeOK, Snapshot
    <3>2. QED
      BY <2>1, <3>1 DEF HistoryOK, TypeOK
  <2>4. ASSUME NEW g \in Factory, NEW p \in Ptr, typeMap'[g][p] # NoIndex
        PROVE  kind[p] # Free
    BY <1>1, <2>4 DEF HistoryOK, HasType
  <2>5. QED
    BY <1>1, <2>2, <2>3, <2>4 DEF HistoryOK, HasType
<1>7. QED
  BY <1>3, <1>4, <1>5, <1>6

(* The string helpers register objects they have just allocated.           *)
LEMMA HelperStep ==
  ASSUME Inv, TypeOK', NEW f \in Factory, NEW n \in Nat, NEW s \in FreshSeqs(n),
         RegisterFresh(f, s),
         \A i \in 1..Len(s) : kind'[s[i]] = Sized,
         \A p \in Ptr : kind[p] # Free => kind'[p] # Free
  PROVE  Inv'
<1>1. /\ s \in Seq(Ptr)
      /\ \A i \in 1..Len(s) : kind[s[i]] = Free
      /\ \A i, j \in 1..Len(s) : s[i] = s[j] => i = j
  BY FreshSeqsFacts DEF Inv
<1>2. ASSUME NEW i \in 1..Len(s) PROVE ~HasType(f, s[i]) /\ kind'[s[i]] # Free
  <2>1. s[i] \in Ptr
    BY <1>1
  <2>2. QED
    BY <1>1, <2>1, FreeAssumption DEF Inv, HistoryOK
<1>3. QED
  BY <1>1, <1>2, ExtensionStep

(* Steps that leave lists, maps, references and epochs alone.              *)
LEMMA ClientStep ==
  ASSUME Inv, TypeOK', UNCHANGED <<typeList, typeMap, epoch, issued, snapshots>>,
         \A p \in Ptr : kind[p] # Free => kind'[p] # Free
  PROVE  Inv'
<1>1. ListMapInverse' /\ IssuedRefsResolve' /\ SnapshotsArePrefixes'
  BY DEF Inv, ListMapInverse, IssuedRefsResolve, SnapshotsArePrefixes, HasType,
         GetTypeByIndex, GetTypeIndex, Count, Current
<1>2. HistoryOK'
  BY DEF Inv, HistoryOK, HasType
<1>3. QED
  BY <1>1, <1>2 DEF Inv

(* GetTypes keeps the invariant: what it returns is the list of that       *)
(* moment.                                                                 *)
LEMMA GetTypesStep ==
  ASSUME Inv, TypeOK', NEW f \in Factory, GetTypes(f)
  PROVE  Inv'
<1> DEFINE t == [fac |-> f, epoch |-> epoch[f], types |-> typeList[f]]
<1>1. /\ UNCHANGED <<typeList, typeMap, kind, epoch, issued>>
      /\ snapshots' = snapshots \cup {t}
  BY DEF GetTypes
<1>2. ListMapInverse' /\ IssuedRefsResolve'
  BY <1>1 DEF Inv, ListMapInverse, IssuedRefsResolve, HasType, GetTypeByIndex,
              GetTypeIndex, Count, Current
<1>3. SnapshotsArePrefixes'
  <2>1. Len(typeList[f]) \in Nat
    BY DEF Inv, TypeOK
  <2>2. QED
    BY <1>1, <2>1 DEF Inv, SnapshotsArePrefixes, Count
<1>4. HistoryOK'
  <2>1. epoch[f] \in Nat
    BY DEF Inv, TypeOK
  <2>2. QED
    BY <1>1, <2>1 DEF Inv, HistoryOK, HasType
<1>5. QED
  BY <1>2, <1>3, <1>4 DEF Inv

(* Every factory starts empty, which satisfies the invariant.              *)
LEMMA InvInit == Init => Inv
<1> SUFFICES ASSUME Init PROVE Inv
  OBVIOUS
<1>1. TypeOK
  BY DEF Init, TypeOK
<1>2. ListMapInverse /\ IssuedRefsResolve /\ SnapshotsArePrefixes /\ HistoryOK
  BY DEF Init, ListMapInverse, IssuedRefsResolve, SnapshotsArePrefixes, HistoryOK,
         HasType, Current
<1>3. QED
  BY <1>1, <1>2 DEF Inv

(* Every step of any client of any factory keeps the invariant.            *)
LEMMA InvStep == Inv /\ [Next]_vars => Inv'
<1> SUFFICES ASSUME Inv, [Next]_vars PROVE Inv'
  OBVIOUS
<1>t. TypeOK'
  BY TypeStep DEF Inv
<1>k. \A p \in Ptr : kind[p] \in Kind \cup {Free}
  BY DEF Inv, TypeOK
<1>1. ASSUME NEW f \in Factory, GetTypes(f) PROVE Inv'
  BY <1>1, <1>t, GetTypesStep
<1>2. ASSUME NEW f \in Factory, Reset(f) PROVE Inv'
  BY <1>2, <1>t, ResetStep
<1>3. ASSUME NEW f \in Factory, NEW p \in Ptr, GetReference(f, p) PROVE Inv'
  BY <1>3, <1>t, GetReferenceStep
<1>4. ASSUME NEW f \in Factory, NEW s \in FreshSeqs(1), CreateStringProperty(f, s)
      PROVE  Inv'
  <2>1. s \in Seq(Ptr) /\ Len(s) = 1
    BY FreshSeqsFacts DEF Inv
  <2>2. RegisterFresh(f, s) /\ kind' = [kind EXCEPT ![s[1]] = Sized]
    BY <1>4 DEF CreateStringProperty
  <2>3. ASSUME NEW i \in 1..Len(s) PROVE kind'[s[i]] = Sized
    <3>1. i = 1 /\ s[1] \in Ptr
      BY <2>1
    <3>2. QED
      BY <2>2, <3>1 DEF Inv, TypeOK
  <2>4. \A p \in Ptr : kind[p] # Free => kind'[p] # Free
    BY <2>2, FreeAssumption DEF Inv, TypeOK
  <2>5. QED
    BY <1>t, <2>2, <2>3, <2>4, HelperStep
<1>5. ASSUME NEW f \in Factory, NEW n \in 0..MaxLiterals, NEW s \in FreshSeqs(n),
             NEW q \in Ptr, CreateStringContainer(f, s, q)
      PROVE  Inv'
  <2>1. n \in Nat
    BY BoundAssumption
  <2>2. s \in Seq(Ptr)
    BY <2>1, FreshSeqsFacts DEF Inv
  <2>3. /\ RegisterFresh(f, s)
        /\ kind' = [p \in Ptr |-> IF p = q \/ \E i \in 1..Len(s) : s[i] = p
                                  THEN Sized ELSE kind[p]]
    BY <1>5 DEF CreateStringContainer
  <2>4. ASSUME NEW i \in 1..Len(s) PROVE kind'[s[i]] = Sized
    <3>1. s[i] \in Ptr
      BY <2>2
    <3>2. QED
      BY <2>3, <3>1
  <2>5. \A p \in Ptr : kind[p] # Free => kind'[p] # Free
    BY <2>3, FreeAssumption
  <2>6. QED
    BY <1>t, <2>1, <2>3, <2>4, <2>5, HelperStep
<1>6. ASSUME NEW p \in Ptr, NEW k \in ZeroSize, CreateZeroSize(p, k) PROVE Inv'
  <2>1. UNCHANGED <<typeList, typeMap, epoch, issued, snapshots>>
    BY <1>6 DEF CreateZeroSize
  <2>2. \A q \in Ptr : kind[q] # Free => kind'[q] # Free
    BY <1>6, FreeAssumption DEF CreateZeroSize, Inv, TypeOK
  <2>3. QED
    BY <1>t, <2>1, <2>2, ClientStep
<1>7. ASSUME NEW p \in Ptr, NEW hs, CreateSized(p, hs) PROVE Inv'
  <2>1. UNCHANGED <<typeList, typeMap, epoch, issued, snapshots>>
    BY <1>7 DEF CreateSized
  <2>2. \A q \in Ptr : kind[q] # Free => kind'[q] # Free
    BY <1>7, FreeAssumption DEF CreateSized, Inv, TypeOK
  <2>3. QED
    BY <1>t, <2>1, <2>2, ClientStep
<1>8. ASSUME NEW p \in Ptr, NEW h \in issued, SetField(p, h) PROVE Inv'
  BY <1>8, <1>t, ClientStep DEF SetField
<1>9. CASE UNCHANGED vars
  BY <1>9, <1>t, ClientStep DEF vars
<1>10. QED
  BY <1>1, <1>2, <1>3, <1>4, <1>5, <1>6, <1>7, <1>8, <1>9 DEF Next

(* The inductive invariant holds in every reachable state. *)
THEOREM Invariance == Spec => []Inv
<1>1. QED
  BY InvInit, InvStep, PTL DEF Spec

(* List and map of every factory are inverse to each other at all times.   *)
THEOREM ListAndMapAgree == Spec => []ListMapInverse
<1>1. Inv => ListMapInverse
  BY DEF Inv
<1>2. QED
  BY <1>1, Invariance, PTL

(* Until its factory is reset, a reference denotes the type it was issued  *)
(* for.                                                                    *)
THEOREM ReferencesResolve == Spec => []IssuedRefsResolve
<1>1. Inv => IssuedRefsResolve
  BY DEF Inv
<1>2. QED
  BY <1>1, Invariance, PTL

(* A slice GetTypes returned stays a prefix of the list until the Reset.   *)
THEOREM SnapshotsStayPrefixes == Spec => []SnapshotsArePrefixes
<1>1. Inv => SnapshotsArePrefixes
  BY DEF Inv
<1>2. QED
  BY <1>1, Invariance, PTL

-----------------------------------------------------------------------------
(* Refinement: every step leaves a factory's list alone, extends it, or    *)
(* empties it.                                                             *)
LEMMA ListStep ==
  ASSUME Inv, [Next]_vars, NEW f \in Factory
  PROVE  \/ typeList'[f] = typeList[f]
         \/ typeList'[f] = <<>>
         \/ /\ Len(typeList'[f]) > Len(typeList[f])
            /\ \A i \in 1..Len(typeList[f]) : typeList'[f][i] = typeList[f][i]
<1> DEFINE Goal == \/ typeList'[f] = typeList[f]
                   \/ typeList'[f] = <<>>
                   \/ /\ Len(typeList'[f]) > Len(typeList[f])
                      /\ \A i \in 1..Len(typeList[f]) : typeList'[f][i] = typeList[f][i]
<1>t. typeList \in [Factory -> Seq(Ptr)] /\ Len(typeList[f]) \in Nat
  BY DEF Inv, TypeOK
<1>r. ASSUME NEW g \in Factory, NEW n \in Nat, NEW s \in FreshSeqs(n),
             RegisterFresh(g, s)
      PROVE  Goal
  <2>1. TypeOK /\ s \in Seq(Ptr) /\ Len(s) \in Nat
    BY FreshSeqsFacts DEF Inv
  <2>2. CASE g # f
    BY <1>t, <1>r, <2>2 DEF RegisterFresh
  <2>3. CASE g = f
    <3>1. typeList'[f] = typeList[f] \o s
      BY <1>t, <1>r, <2>3 DEF RegisterFresh
    <3>2. CASE Len(s) = 0
      <4>1. s = <<>>
        BY <2>1, <3>2
      <4>2. QED
        BY <1>t, <3>1, <4>1
    <3>3. CASE Len(s) > 0
      BY <1>t, <2>1, <3>1, <3>3
    <3>4. QED
      BY <2>1, <3>2, <3>3
  <2>4. QED
    BY <2>2, <2>3
<1>1. ASSUME NEW g \in Factory, NEW p \in Ptr, GetReference(g, p) PROVE Goal
  <2>1. CASE typeList' = typeList
    BY <2>1
  <2>2. CASE typeList' = [typeList EXCEPT ![g] = Append(typeList[g], p)]
    <3>1. CASE g = f
      BY <1>t, <2>2, <3>1
    <3>2. CASE g # f
      BY <1>t, <2>2, <3>2
    <3>3. QED
      BY <3>1, <3>2
  <2>3. QED
    BY <1>1, <2>1, <2>2 DEF GetReference
<1>2. ASSUME NEW g \in Factory, NEW s \in FreshSeqs(1), CreateStringProperty(g, s)
      PROVE  Goal
  BY <1>2, <1>r DEF CreateStringProperty
<1>3. ASSUME NEW g \in Factory, NEW n \in 0..MaxLiterals, NEW s \in FreshSeqs(n),
             NEW q \in Ptr, CreateStringContainer(g, s, q)
      PROVE  Goal
  <2>1. n \in Nat
    BY BoundAssumption
  <2>2. QED
    BY <1>3, <1>r, <2>1 DEF CreateStringContainer
<1>4. ASSUME NEW g \in Factory, Reset(g) PROVE Goal
  BY <1>t, <1>4 DEF Reset
<1>5. CASE UNCHANGED typeList
  BY <1>5
<1>6. QED
  BY <1>1, <1>2, <1>3, <1>4, <1>5
  DEF Next, GetTypes, CreateZeroSize, CreateSized, SetField, vars

(* Seen from one factory, a step of the system is a step of TypeTable or   *)
(* none.                                                                   *)
LEMMA TableStep ==
  ASSUME Inv, Inv', [Next]_vars, NEW f \in Factory
  PROVE  [Table(f)!Next]_(typeList[f])
<1>1. typeList'[f] \in Seq(Ptr)
  BY DEF Inv, TypeOK
<1>2. ASSUME NEW i \in 1..Len(typeList'[f]), NEW j \in 1..Len(typeList'[f]),
             typeList'[f][i] = typeList'[f][j]
      PROVE  i = j
  <2>1. typeMap'[f][typeList'[f][i]] = i - 1 /\ typeMap'[f][typeList'[f][j]] = j - 1
    BY DEF Inv, ListMapInverse, GetTypeIndex
  <2>2. i \in Nat /\ j \in Nat
    BY <1>1
  <2>3. QED
    BY <1>2, <2>1, <2>2
<1>3. QED
  BY <1>1, <1>2, ListStep DEF Table!Next, Table!Register, Table!Clear, Table!Distinct

(* Every factory of every program implements the append-only table without *)
(* duplicates that TypeTable specifies.                                    *)
THEOREM FactoriesAreTables == Spec => EachFactoryIsATable
<1>1. Init => \A f \in Factory : Table(f)!Init
  BY DEF Init, Table!Init
<1>2. Inv /\ Inv' /\ [Next]_vars
        => [\A f \in Factory : [Table(f)!Next]_(typeList[f])]_typeList
  BY TableStep
<1>3. QED
  BY <1>1, <1>2, Invariance, PTL DEF Spec, EachFactoryIsATable

-----------------------------------------------------------------------------
(* Backward references.  Only references that exist can be stored, so the  *)
(* references of an object that is about to be registered are to lower     *)
(* indexes than the one it gets.                                           *)
RefsIssued == \A p \in Ptr : refs[p] \subseteq issued

BackInv == Inv /\ RefsIssued /\ RefsPointBackwards

(* Stated for a pointer: its references within f are to lower indexes.     *)
Backward(f, p) ==
  HasType(f, p) => \A h \in refs[p] \cap Current(f) : h.index < typeMap[f][p]

(* A step that only registers, in g, objects that were not registered.     *)
LEMMA BackwardExtension ==
  ASSUME BackInv, Inv', NEW g \in Factory, NEW n \in Nat, NEW s \in FreshSeqs(n),
         RegisterFresh(g, s),
         NEW f \in Factory, NEW p \in Sealed, refs'[p] = refs[p]
  PROVE  Backward(f, p)'
<1>s. p \in Ptr
  BY SealedAssumption
<1> SUFFICES ASSUME typeMap'[f][p] # NoIndex,
                    NEW h \in refs[p], h.fac = f, h.epoch = epoch[f]
             PROVE  h.index < typeMap'[f][p]
  BY DEF Backward, HasType, Current, RegisterFresh
<1>1. TypeOK /\ s \in Seq(Ptr) /\ \A i, j \in 1..Len(s) : s[i] = s[j] => i = j
  BY FreshSeqsFacts DEF BackInv, Inv
<1>2. h \in Current(f)
  BY <1>s DEF BackInv, RefsIssued, Current
<1>3. h.index \in 0..(Len(typeList[f]) - 1) /\ Len(typeList[f]) \in Nat
  BY <1>1, <1>2, ResolvedInRange DEF BackInv, Inv, TypeOK
<1>4. CASE typeMap'[f][p] = typeMap[f][p]
  BY <1>s, <1>2, <1>4 DEF BackInv, RefsPointBackwards, HasType, GetTypeIndex
<1>5. CASE g = f /\ \E i \in 1..Len(s) : s[i] = p
  <2>1. PICK i \in 1..Len(s) : s[i] = p
    BY <1>5
  <2>2. typeMap'[f][p] = Len(typeList[f]) + i - 1
    BY <1>s, <1>1, <1>5, <2>1, ExtensionFacts
  <2>3. i \in Nat /\ i >= 1
    BY <1>1, <2>1
  <2>4. QED
    BY <1>3, <2>2, <2>3
<1>6. QED
  BY <1>s, <1>1, <1>4, <1>5, ExtensionFacts

(* No step stores a later reference in a sealed object.                    *)
LEMMA BackwardStep == BackInv /\ [Next]_vars => BackInv'
<1> SUFFICES ASSUME BackInv, [Next]_vars PROVE BackInv'
  OBVIOUS
<1>s. Sealed \subseteq Ptr
  BY SealedAssumption
<1>i. Inv /\ Inv' /\ TypeOK
  BY InvStep DEF BackInv, Inv
<1>b. ASSUME \A f \in Factory, p \in Sealed : Backward(f, p)' PROVE RefsPointBackwards'
  BY <1>b DEF Backward, RefsPointBackwards, GetTypeIndex
<1>o. \A f \in Factory, p \in Sealed : Backward(f, p)
  BY DEF Backward, BackInv, RefsPointBackwards, GetTypeIndex
<1>n. \A f \in Factory, p \in Ptr : kind[p] = Free => ~HasType(f, p)
  BY <1>i DEF Inv, HistoryOK
<1>1. ASSUME NEW f \in Factory, GetTypes(f) PROVE BackInv'
  <2>1. RefsIssued' /\ \A g \in Factory, p \in Sealed : Backward(g, p)'
    BY <1>s, <1>1, <1>o DEF GetTypes, BackInv, RefsIssued, Backward, HasType, Current
  <2>2. QED
    BY <1>i, <1>b, <2>1 DEF BackInv
<1>2. ASSUME NEW f \in Factory, Reset(f) PROVE BackInv'
  <2>1. RefsIssued'
    BY <1>2 DEF Reset, BackInv, RefsIssued
  <2>2. ASSUME NEW g \in Factory, NEW p \in Sealed PROVE Backward(g, p)'
    <3>1. CASE g = f
      BY <1>s, <1>2, <1>i, <3>1 DEF Reset, Backward, HasType, TypeOK
    <3>2. CASE g # f
      <4>1. typeMap'[g] = typeMap[g] /\ epoch'[g] = epoch[g] /\ refs' = refs
            /\ issued' = issued
        BY <1>2, <1>i, <3>2 DEF Reset, TypeOK
      <4>2. QED
        BY <1>s, <1>o, <4>1 DEF Backward, HasType, Current
    <3>3. QED
      BY <3>1, <3>2
  <2>3. QED
    BY <1>i, <1>b, <2>1, <2>2 DEF BackInv
<1>3. ASSUME NEW f \in Factory, NEW q \in Ptr, GetReference(f, q) PROVE BackInv'
  <2>1. RefsIssued'
    BY <1>3 DEF GetReference, BackInv, RefsIssued
  <2>2. ASSUME NEW g \in Factory, NEW p \in Sealed, typeMap'[g][p] # NoIndex,
               NEW h \in refs[p], h.fac = g, h.epoch = epoch[g]
        PROVE  h.index < typeMap'[g][p]
    <3>1. h \in Current(g)
      BY <1>s, <2>2 DEF BackInv, RefsIssued, Current
    <3>2. h.index \in 0..(Len(typeList[g]) - 1) /\ Len(typeList[g]) \in Nat
      BY <1>i, <3>1, ResolvedInRange DEF Inv, TypeOK
    <3>3. CASE typeMap'[g][p] = typeMap[g][p]
      BY <1>o, <2>2, <3>1, <3>3 DEF Backward, HasType
    <3>4. CASE typeMap' = [typeMap EXCEPT ![f] = [typeMap[f] EXCEPT ![q] = Count(f)]]
      <4>1. CASE g = f /\ p = q
        <5>1. typeMap'[g][p] = Len(typeList[g])
          BY <1>s, <1>i, <3>4, <4>1 DEF TypeOK, Count
        <5>2. QED
          BY <3>2, <5>1
      <4>2. CASE ~(g = f /\ p = q)
        <5>1. typeMap'[g][p] = typeMap[g][p]
          BY <1>s, <1>i, <3>4, <4>2 DEF TypeOK
        <5>2. QED
          BY <3>3, <5>1
      <4>3. QED
        BY <4>1, <4>2
    <3>5. QED
      BY <1>3, <3>3, <3>4 DEF GetReference
  <2>3. \A g \in Factory, p \in Sealed : Backward(g, p)'
    BY <1>3, <2>2 DEF GetReference, Backward, HasType, Current
  <2>4. QED
    BY <1>i, <1>b, <2>1, <2>3 DEF BackInv
<1>4. ASSUME NEW f \in Factory, NEW s \in FreshSeqs(1), CreateStringProperty(f, s)
      PROVE  BackInv'
  <2>1. RegisterFresh(f, s) /\ refs' = refs
    BY <1>4 DEF CreateStringProperty
  <2>2. RefsIssued'
    BY <2>1 DEF RegisterFresh, BackInv, RefsIssued
  <2>3. \A g \in Factory, p \in Sealed : Backward(g, p)'
    BY <1>i, <2>1, BackwardExtension
  <2>4. QED
    BY <1>i, <1>b, <2>2, <2>3 DEF BackInv
<1>5. ASSUME NEW f \in Factory, NEW n \in 0..MaxLiterals, NEW s \in FreshSeqs(n),
             NEW q \in Ptr, CreateStringContainer(f, s, q)
      PROVE  BackInv'
  <2>1. n \in Nat /\ RegisterFresh(f, s)
    BY <1>5, BoundAssumption DEF CreateStringContainer
  <2>2. /\ kind[q] = Free /\ \A i \in 1..Len(s) : s[i] # q
        /\ refs' = [refs EXCEPT ![q] = NewHandles(f, s)]
    BY <1>5 DEF CreateStringContainer
  <2>3. RefsIssued'
    <3>1. issued' = issued \cup NewHandles(f, s)
      BY <2>1 DEF RegisterFresh
    <3>2. QED
      BY <1>i, <2>2, <3>1 DEF BackInv, RefsIssued, TypeOK
  <2>4. ASSUME NEW g \in Factory, NEW p \in Sealed PROVE Backward(g, p)'
    <3>1. CASE p # q
      <4>1. refs'[p] = refs[p]
        BY <1>s, <1>i, <2>2, <3>1 DEF TypeOK
      <4>2. QED
        BY <1>i, <2>1, <4>1, BackwardExtension
    <3>2. CASE p = q
      <4>1. s \in Seq(Ptr) /\ \A i, j \in 1..Len(s) : s[i] = s[j] => i = j
        BY <1>i, <2>1, FreshSeqsFacts
      <4>2. typeMap'[g][q] = typeMap[g][q]
        BY <1>i, <2>1, <2>2, <4>1, ExtensionFacts
      <4>3. QED
        BY <1>s, <1>n, <2>2, <3>2, <4>2 DEF Backward, HasType
    <3>3. QED
      BY <3>1, <3>2
  <2>5. QED
    BY <1>i, <1>b, <2>3, <2>4 DEF BackInv
<1>6. ASSUME NEW q \in Ptr, NEW k \in ZeroSize, CreateZeroSize(q, k) PROVE BackInv'
  <2>1. RefsIssued' /\ \A g \in Factory, p \in Sealed : Backward(g, p)'
    BY <1>s, <1>6, <1>o DEF CreateZeroSize, BackInv, RefsIssued, Backward, HasType, Current
  <2>2. QED
    BY <1>i, <1>b, <2>1 DEF BackInv
<1>7. ASSUME NEW q \in Ptr, NEW hs, CreateSized(q, hs) PROVE BackInv'
  <2>1. /\ kind[q] = Free /\ hs \subseteq issued
        /\ refs' = [refs EXCEPT ![q] = hs]
        /\ UNCHANGED <<typeMap, epoch, issued>>
    BY <1>7 DEF CreateSized
  <2>2. RefsIssued'
    BY <1>i, <2>1 DEF BackInv, RefsIssued, TypeOK
  <2>3. ASSUME NEW g \in Factory, NEW p \in Sealed PROVE Backward(g, p)'
    <3>1. CASE p # q
      BY <1>s, <1>i, <1>o, <2>1, <3>1 DEF Backward, HasType, Current, TypeOK
    <3>2. CASE p = q
      BY <1>s, <1>n, <2>1, <3>2 DEF Backward, HasType
    <3>3. QED
      BY <3>1, <3>2
  <2>4. QED
    BY <1>i, <1>b, <2>2, <2>3 DEF BackInv
<1>8. ASSUME NEW q \in Ptr, NEW h \in issued, SetField(q, h) PROVE BackInv'
  <2>1. q \notin Sealed /\ refs' = [refs EXCEPT ![q] = @ \cup {h}]
        /\ UNCHANGED <<typeMap, epoch, issued>>
    BY <1>8 DEF SetField
  <2>2. RefsIssued'
    BY <1>i, <2>1 DEF BackInv, RefsIssued, TypeOK
  <2>3. ASSUME NEW g \in Factory, NEW p \in Sealed PROVE Backward(g, p)'
    BY <1>s, <1>i, <1>o, <2>1 DEF Backward, HasType, Current, TypeOK
  <2>4. QED
    BY <1>i, <1>b, <2>2, <2>3 DEF BackInv
<1>9. CASE UNCHANGED vars
  <2>1. RefsIssued' /\ \A g \in Factory, p \in Sealed : Backward(g, p)'
    BY <1>s, <1>9, <1>o DEF vars, BackInv, RefsIssued, Backward, HasType, Current
  <2>2. QED
    BY <1>i, <1>b, <2>1 DEF BackInv
<1>10. QED
  BY <1>1, <1>2, <1>3, <1>4, <1>5, <1>6, <1>7, <1>8, <1>9 DEF Next

(* An object that nobody changes once it is created never refers, within   *)
(* the factory that lists it, to a type registered later: whoever changes  *)
(* no object builds tables without cycles.                                 *)
THEOREM SealedPointBackwards == Spec => []RefsPointBackwards
<1>1. Init => BackInv
  BY InvInit, SealedAssumption DEF BackInv, Init, RefsIssued, RefsPointBackwards, HasType
<1>2. BackInv => RefsPointBackwards
  BY DEF BackInv
<1>3. QED
  BY <1>1, <1>2, BackwardStep, PTL DEF Spec
==============================================================================
