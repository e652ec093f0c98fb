---------------------------- MODULE MarkdownProofs ----------------------------
(***************************************************************************)
(* For tables of any size and shape, with cycles and references out of     *)
(* range: the page either writer makes is closed; and if the table is      *)
(* ordered alike by both, and no two objects have one name, it is the same *)
(* page.                                                                   *)
(*                                                                         *)
(* Both writers do the same in two ways, and the argument does not depend  *)
(* on which.  What a run has still to do is a set of tasks, those on the   *)
(* stack.  While types are collected, everything a type that was walked    *)
(* from refers to has been met or is a task.  While the page is written,   *)
(* every part of what was written has been written or is a task.  At the   *)
(* end there is no task.                                                   *)
(*                                                                         *)
(* That also tells which types are listed, so both list the same.  What    *)
(* a page begins with then has one order; the rest says nothing.  Writing  *)
(* it is a function of the state, and one writer follows the other.        *)
(***************************************************************************)
EXTENDS MarkdownAgreement, SequenceTheorems, FiniteSetTheorems, WellFoundedInduction, TLAPS

StepTask == [ref : Nat, listed : BOOLEAN]

WriteTask == [write : {"section", "function", "name"}, ref : Nat, header : BOOLEAN]

(* What the calls on a stack have still to do.                             *)
Pending(stack) == UNION {ToSet(stack[i]) : i \in 1..Len(stack)}

-----------------------------------------------------------------------------
(* Sequences and stacks.                                                   *)

(* A set of natural numbers has a least element.                           *)
LEMMA LeastNat ==
  ASSUME NEW T, T \subseteq Nat, T # {}
  PROVE  \E n \in T : \A m \in T : n <= m
<1>1. PICK n \in T : \A m \in T : <<m, n>> \notin OpToRel(<, Nat)
  BY WFMin, NatLessThanWellFounded, Zenon
<1>2. \A m \in T : ~(m < n)
  BY <1>1, Zenon DEF OpToRel
<1>3. QED
  BY <1>2

(* The elements of a sequence.                                             *)
LEMMA InSet ==
  ASSUME NEW T, NEW s \in Seq(T)
  PROVE  /\ Len(s) \in Nat /\ \A i \in 1..Len(s) : s[i] \in T /\ s[i] \in ToSet(s)
         /\ \A x \in ToSet(s) : x \in T /\ \E i \in 1..Len(s) : x = s[i]
BY DEF ToSet

(* They are the first and the others.                                      *)
LEMMA HeadAndTail ==
  ASSUME NEW T, NEW s \in Seq(T), s # <<>>
  PROVE  /\ Head(s) \in T /\ Tail(s) \in Seq(T)
         /\ ToSet(s) = {Head(s)} \cup ToSet(Tail(s))
<1>1. /\ Tail(s) \in Seq(T) /\ Len(Tail(s)) = Len(s) - 1 /\ Head(s) = s[1] /\ Head(s) \in T
      /\ \A i \in 1..Len(Tail(s)) : Tail(s)[i] = s[i + 1]
  BY HeadTailProperties
<1>2. Len(s) \in Nat /\ Len(s) >= 1
  BY EmptySeq
<1>3. ASSUME NEW x \in ToSet(s) PROVE x \in {Head(s)} \cup ToSet(Tail(s))
  <2>1. PICK i \in 1..Len(s) : x = s[i]
    BY InSet
  <2>2. CASE i = 1
    BY <1>1, <2>1, <2>2
  <2>3. CASE i # 1
    <3>1. i - 1 \in 1..Len(Tail(s)) /\ Tail(s)[i - 1] = s[(i - 1) + 1]
      BY <1>1, <1>2, <2>3
    <3>2. x = Tail(s)[i - 1]
      BY <2>1, <3>1
    <3>3. QED
      BY <1>1, <3>1, <3>2, InSet
  <2>4. QED
    BY <2>2, <2>3
<1>4. Head(s) \in ToSet(s)
  BY <1>1, <1>2, InSet
<1>5. ASSUME NEW x \in ToSet(Tail(s)) PROVE x \in ToSet(s)
  <2>1. PICK i \in 1..Len(Tail(s)) : x = Tail(s)[i]
    <3> DEFINE others == Tail(s)
    <3>1. others \in Seq(T) /\ x \in ToSet(others)
      BY <1>1
    <3> HIDE DEF others
    <3>2. \E i \in 1..Len(others) : x = others[i]
      BY <3>1, InSet
    <3>3. QED
      BY <3>2 DEF others
  <2>2. i + 1 \in 1..Len(s) /\ x = s[i + 1]
    BY <1>1, <1>2, <2>1
  <2>3. QED
    BY <2>2, InSet
<1>6. QED
  BY <1>1, <1>3, <1>4, <1>5

(* The elements of two sequences in a row.                                 *)
LEMMA ConcatSet ==
  ASSUME NEW T, NEW s \in Seq(T), NEW t \in Seq(T)
  PROVE  s \o t \in Seq(T) /\ ToSet(s \o t) = ToSet(s) \cup ToSet(t)
<1>1. /\ s \o t \in Seq(T) /\ Len(s \o t) = Len(s) + Len(t)
      /\ Len(s) \in Nat /\ Len(t) \in Nat
      /\ \A i \in 1..(Len(s) + Len(t)) :
           (s \o t)[i] = IF i <= Len(s) THEN s[i] ELSE t[i - Len(s)]
  BY ConcatProperties
<1>2. ASSUME NEW x \in ToSet(s \o t) PROVE x \in ToSet(s) \cup ToSet(t)
  <2>1. PICK i \in 1..Len(s \o t) : x = (s \o t)[i]
    <3> DEFINE both == s \o t
    <3>1. both \in Seq(T) /\ x \in ToSet(both)
      BY <1>1, <1>2
    <3> HIDE DEF both
    <3>2. \E i \in 1..Len(both) : x = both[i]
      BY <3>1, InSet
    <3>3. QED
      BY <3>2 DEF both
  <2>2. CASE i <= Len(s)
    <3>1. i \in 1..Len(s) /\ x = s[i]
      BY <1>1, <2>1, <2>2
    <3>2. QED
      BY <3>1, InSet
  <2>3. CASE ~(i <= Len(s))
    <3>1. i - Len(s) \in 1..Len(t) /\ x = t[i - Len(s)]
      BY <1>1, <2>1, <2>3
    <3>2. QED
      BY <3>1, InSet
  <2>4. QED
    BY <2>2, <2>3
<1>3. ASSUME NEW x \in ToSet(s) PROVE x \in ToSet(s \o t)
  <2>1. PICK i \in 1..Len(s) : x = s[i]
    BY InSet
  <2>2. i \in 1..Len(s \o t) /\ x = (s \o t)[i]
    BY <1>1, <2>1
  <2>3. QED
    BY <1>1, <2>2, InSet
<1>4. ASSUME NEW x \in ToSet(t) PROVE x \in ToSet(s \o t)
  <2>1. PICK i \in 1..Len(t) : x = t[i]
    BY InSet
  <2>2. i + Len(s) \in 1..Len(s \o t) /\ x = (s \o t)[i + Len(s)]
    BY <1>1, <2>1
  <2>3. QED
    BY <1>1, <2>2, InSet
<1>5. QED
  BY <1>1, <1>2, <1>3, <1>4

(* A sequence of one element.                                              *)
LEMMA SingleSet ==
  ASSUME NEW T, NEW e \in T
  PROVE  <<e>> \in Seq(T) /\ ToSet(<<e>>) = {e}
BY DEF ToSet

(* Appending adds one element.                                             *)
LEMMA AppendSet ==
  ASSUME NEW T, NEW s \in Seq(T), NEW e \in T
  PROVE  Append(s, e) \in Seq(T) /\ ToSet(Append(s, e)) = ToSet(s) \cup {e}
<1>1. Append(s, e) = s \o <<e>>
  BY AppendIsConcat
<1>2. <<e>> \in Seq(T) /\ ToSet(<<e>>) = {e}
  BY SingleSet
<1> DEFINE one == <<e>>
<1> HIDE DEF one
<1>3. s \o one \in Seq(T) /\ ToSet(s \o one) = ToSet(s) \cup ToSet(one)
  BY <1>2, ConcatSet DEF one
<1>4. QED
  BY <1>1, <1>2, <1>3 DEF one

(* What is pending is what some frame holds.                               *)
LEMMA PendingIsUnion ==
  ASSUME NEW T, NEW st \in Seq(Seq(T))
  PROVE  Pending(st) = UNION {ToSet(f) : f \in ToSet(st)}
<1>1. ASSUME NEW x \in Pending(st) PROVE x \in UNION {ToSet(f) : f \in ToSet(st)}
  <2>1. PICK i \in 1..Len(st) : x \in ToSet(st[i])
    BY DEF Pending
  <2>2. QED
    BY <2>1, InSet
<1>2. ASSUME NEW x \in UNION {ToSet(f) : f \in ToSet(st)} PROVE x \in Pending(st)
  <2>1. PICK f \in ToSet(st) : x \in ToSet(f)
    OBVIOUS
  <2>2. PICK i \in 1..Len(st) : f = st[i]
    BY InSet
  <2>3. QED
    BY <2>1, <2>2 DEF Pending
<1>3. QED
  BY <1>1, <1>2

(* A call that has nothing left to do returns, and nothing is forgotten.   *)
LEMMA ReturnFacts ==
  ASSUME NEW T, NEW st \in Seq(Seq(T)), st # <<>>
  PROVE  /\ Tail(st) \in Seq(Seq(T)) /\ Head(st) \in Seq(T)
         /\ Pending(st) = ToSet(Head(st)) \cup Pending(Tail(st))
         /\ Head(st) = <<>> => Pending(st) = Pending(Tail(st))
<1>1. Tail(st) \in Seq(Seq(T)) /\ Head(st) \in Seq(T)
      /\ ToSet(st) = {Head(st)} \cup ToSet(Tail(st))
  BY HeadAndTail
<1>2. /\ Pending(st) = UNION {ToSet(f) : f \in ToSet(st)}
      /\ Pending(Tail(st)) = UNION {ToSet(f) : f \in ToSet(Tail(st))}
  BY <1>1, PendingIsUnion
<1>3. Pending(st) = ToSet(Head(st)) \cup Pending(Tail(st))
  BY <1>1, <1>2
<1>4. ToSet(<<>>) = {}
  BY DEF ToSet
<1>5. QED
  BY <1>1, <1>3, <1>4

(* A new call adds what it has to do.                                      *)
LEMMA CallFacts ==
  ASSUME NEW T, NEW st \in Seq(Seq(T)), NEW frame \in Seq(T)
  PROVE  /\ <<frame>> \o st \in Seq(Seq(T))
         /\ Pending(<<frame>> \o st) = ToSet(frame) \cup Pending(st)
<1>1. <<frame>> \in Seq(Seq(T)) /\ ToSet(<<frame>>) = {frame}
  BY SingleSet
<1>2. <<frame>> \o st \in Seq(Seq(T)) /\ ToSet(<<frame>> \o st) = {frame} \cup ToSet(st)
  <2> DEFINE F == Seq(T)
             one == <<frame>>
  <2>1. one \in Seq(F) /\ st \in Seq(F) /\ ToSet(one) = {frame}
    BY <1>1
  <2> HIDE DEF F, one
  <2>2. one \o st \in Seq(F) /\ ToSet(one \o st) = ToSet(one) \cup ToSet(st)
    BY <2>1, ConcatSet
  <2>3. QED
    BY <2>1, <2>2 DEF F, one
<1>3. /\ Pending(st) = UNION {ToSet(f) : f \in ToSet(st)}
      /\ Pending(<<frame>> \o st) = UNION {ToSet(f) : f \in ToSet(<<frame>> \o st)}
  BY <1>2, PendingIsUnion
<1>4. QED
  BY <1>2, <1>3

(* The next task is taken off the stack.                                   *)
LEMMA ContinueFacts ==
  ASSUME NEW T, NEW st \in Seq(Seq(T)), st # <<>>, Head(st) # <<>>
  PROVE  /\ Head(Head(st)) \in T
         /\ <<Tail(Head(st))>> \o Tail(st) \in Seq(Seq(T))
         /\ Pending(st) = {Head(Head(st))} \cup Pending(<<Tail(Head(st))>> \o Tail(st))
<1>1. /\ Tail(st) \in Seq(Seq(T)) /\ Head(st) \in Seq(T)
      /\ Pending(st) = ToSet(Head(st)) \cup Pending(Tail(st))
  BY ReturnFacts
<1>2. /\ Head(Head(st)) \in T /\ Tail(Head(st)) \in Seq(T)
      /\ ToSet(Head(st)) = {Head(Head(st))} \cup ToSet(Tail(Head(st)))
  BY <1>1, HeadAndTail
<1>3. QED
  BY <1>1, <1>2, CallFacts

(* Sequences in a row hold what one of them holds.                         *)
LEMMA FlattenFacts ==
  ASSUME NEW T, NEW ss \in Seq(Seq(T))
  PROVE  FlattenSeq(ss) \in Seq(T) /\ ToSet(FlattenSeq(ss)) = Pending(ss)
<1> DEFINE n == Len(ss)
           Sum(f, i) == IF i = 1 THEN ss[i] ELSE f[i - 1] \o ss[i]
           Sums(f, m) == f \in [1..m -> Seq(T)] /\ \A i \in 1..m : f[i] = Sum(f, i)
<1>1. n \in Nat /\ \A i \in 1..n : ss[i] \in Seq(T)
  BY InSet
<1>2. CASE n = 0
  <2>1. ss = <<>>
    BY <1>2, EmptySeq
  <2>2. QED
    BY <2>1 DEF FlattenSeq, Pending, ToSet
<1>3. CASE n # 0
  <2>1. \A m \in 1..n : \E f : Sums(f, m)
    <3> DEFINE Bad == {m \in 1..n : ~\E f : Sums(f, m)}
    <3>1. SUFFICES ASSUME Bad # {} PROVE FALSE
      OBVIOUS
    <3>2. PICK m \in Bad : \A k \in Bad : m <= k
      <4>1. Bad \subseteq Nat
        BY <1>1
      <4> HIDE DEF Bad
      <4>2. QED
        BY <3>1, <4>1, LeastNat
    <3>3. m \in 1..n /\ ~\E f : Sums(f, m)
      OBVIOUS
    <3>4. CASE m = 1
      <4>1. Sums([i \in 1..1 |-> ss[1]], 1)
        BY <1>1, <3>3, <3>4
      <4>2. QED
        BY <3>3, <3>4, <4>1
    <3>5. CASE m # 1
      <4>1. m - 1 \in 1..n /\ m - 1 \notin Bad
        <5>1. m - 1 \in 1..n /\ ~(m <= m - 1)
          BY <1>1, <3>3, <3>5
        <5> HIDE DEF Bad
        <5>2. QED
          BY <3>2, <5>1
      <4>2. PICK g : Sums(g, m - 1)
        BY <4>1
      <4> DEFINE f == [i \in 1..m |-> IF i = m THEN g[m - 1] \o ss[m] ELSE g[i]]
      <4>3. g[m - 1] \in Seq(T) /\ ss[m] \in Seq(T)
        BY <1>1, <3>3, <3>5, <4>2
      <4>4. g[m - 1] \o ss[m] \in Seq(T)
        BY <4>3, ConcatProperties
      <4>5. f \in [1..m -> Seq(T)]
        BY <3>3, <4>2, <4>4
      <4>6. ASSUME NEW i \in 1..m PROVE f[i] = Sum(f, i)
        <5>1. CASE i = m
          <6>1. f[m] = g[m - 1] \o ss[m] /\ f[m - 1] = g[m - 1]
            <7>1. m \in 1..m /\ m - 1 \in 1..m /\ m - 1 # m
              BY <3>3, <3>5
            <7>2. QED
              BY <7>1
          <6>2. QED
            BY <3>5, <5>1, <6>1
        <5>2. CASE i # m
          <6>1. i \in 1..(m - 1) /\ (i # 1 => i - 1 \in 1..m /\ i - 1 # m)
            BY <3>3, <5>2
          <6>2. f[i] = g[i] /\ (i # 1 => f[i - 1] = g[i - 1])
            BY <5>2, <6>1
          <6>3. g[i] = Sum(g, i)
            BY <4>2, <6>1
          <6>4. QED
            BY <6>2, <6>3
        <5>3. QED
          BY <5>1, <5>2
      <4>7. Sums(f, m)
        BY <4>5, <4>6
      <4>8. QED
        BY <3>3, <4>7
    <3>6. QED
      BY <3>4, <3>5
  <2>2. PICK f : Sums(f, n)
    <3>1. n \in 1..n
      BY <1>1, <1>3
    <3> HIDE DEF Sums, n
    <3>2. QED
      BY <2>1, <3>1
  <2>3. f = [i \in 1..n |-> Sum(f, i)]
    BY <2>2
  <2> DEFINE h == CHOOSE g : g = [i \in 1..n |-> Sum(g, i)]
  <2>4. h = [i \in 1..n |-> Sum(h, i)]
    BY <2>3
  <2>5. FlattenSeq(ss) = h[n]
    BY <1>3 DEF FlattenSeq
  <2> HIDE DEF h
  <2> DEFINE Right(i) == /\ h[i] \in Seq(T)
                         /\ ToSet(h[i]) = UNION {ToSet(ss[j]) : j \in 1..i}
  <2>6. \A i \in 1..n : Right(i)
    <3> DEFINE Bad == {i \in 1..n : ~Right(i)}
    <3>1. SUFFICES ASSUME Bad # {} PROVE FALSE
      OBVIOUS
    <3>2. PICK m \in Bad : \A k \in Bad : m <= k
      <4>1. Bad \subseteq Nat
        BY <1>1
      <4> HIDE DEF Bad
      <4>2. QED
        BY <3>1, <4>1, LeastNat
    <3>3. m \in 1..n /\ ~Right(m)
      OBVIOUS
    <3>4. h[m] = Sum(h, m)
      BY <2>4, <3>3
    <3>5. CASE m = 1
      <4>1. h[1] = ss[1] /\ ss[1] \in Seq(T)
        BY <1>1, <3>3, <3>4, <3>5
      <4>2. 1..1 = {1}
        OBVIOUS
      <4>3. QED
        BY <3>3, <3>5, <4>1, <4>2
    <3>6. CASE m # 1
      <4>1. m - 1 \in 1..n /\ m - 1 \notin Bad
        <5>1. m - 1 \in 1..n /\ ~(m <= m - 1)
          BY <1>1, <3>3, <3>6
        <5> HIDE DEF Bad
        <5>2. QED
          BY <3>2, <5>1
      <4>2. Right(m - 1)
        BY <4>1
      <4>3. h[m] = h[m - 1] \o ss[m] /\ ss[m] \in Seq(T)
        BY <1>1, <3>3, <3>4, <3>6
      <4>4. h[m] \in Seq(T) /\ ToSet(h[m]) = ToSet(h[m - 1]) \cup ToSet(ss[m])
        BY <4>2, <4>3, ConcatSet
      <4>5. 1..m = (1..(m - 1)) \cup {m}
        BY <3>3, <3>6
      <4>6. UNION {ToSet(ss[j]) : j \in 1..m}
              = (UNION {ToSet(ss[j]) : j \in 1..(m - 1)}) \cup ToSet(ss[m])
        BY <4>5
      <4>7. QED
        BY <3>3, <4>2, <4>4, <4>6
    <3>7. QED
      BY <3>5, <3>6
  <2>7. n \in 1..n
    BY <1>1, <1>3
  <2>8. QED
    BY <2>5, <2>6, <2>7 DEF Pending
<1>4. QED
  BY <1>2, <1>3

(* All elements of a set, in some order.                                   *)
LEMMA OrderedSet ==
  ASSUME NEW S, IsFiniteSet(S), NEW s \in Bijection(1..Cardinality(S), S)
  PROVE  s \in Seq(S) /\ ToSet(s) = S
<1>1. Cardinality(S) \in Nat
  BY FS_CardinalityType
<1>2. s \in [1..Cardinality(S) -> S] /\ \A x \in S : \E i \in 1..Cardinality(S) : s[i] = x
  BY DEF Bijection, Surjection
<1>3. s \in Seq(S) /\ Len(s) = Cardinality(S)
  BY <1>1, <1>2
<1>4. ASSUME NEW x \in S PROVE x \in ToSet(s)
  BY <1>2, <1>3 DEF ToSet
<1>5. QED
  BY <1>3, <1>4, InSet

-----------------------------------------------------------------------------
(* What the operators of the writers return.                               *)

(* What a reference in range leads to.                                     *)
LEMMA AtFacts ==
  ASSUME NEW t \in Table, NEW r \in Refs(t)
  PROVE  /\ r \in Nat /\ InRange(t, r)
         /\ At(t, r).kind \in Kind
         /\ At(t, r).refs \in Seq(Nat) /\ At(t, r).elements \in Seq(Nat)
         /\ At(t, r).functions \in Seq(Nat)
         /\ At(t, r).kind # "DiscriminatedObjectType" => At(t, r).elements = <<>>
         /\ At(t, r).kind # "ResourceType" => At(t, r).functions = <<>>
<1> DEFINE Nodes == {node \in [kind : Kind, name : Nat \X Nat, refs : Seq(Nat),
                              elements : Seq(Nat), functions : Seq(Nat)] :
                      /\ node.kind # "DiscriminatedObjectType" => node.elements = <<>>
                      /\ node.kind # "ResourceType" => node.functions = <<>>}
<1>1. t \in Seq(Nodes)
  BY DEF Table
<1> HIDE DEF Nodes
<1>2. Len(t) \in Nat
  BY <1>1
<1>3. r \in Nat /\ InRange(t, r) /\ r + 1 \in 1..Len(t)
  BY <1>2 DEF Refs, InRange
<1>4. At(t, r) \in Nodes
  BY <1>1, <1>3 DEF At
<1>5. QED
  BY <1>3, <1>4 DEF Nodes

(* There are finitely many.                                                *)
LEMMA RefsFacts ==
  ASSUME NEW t \in Table
  PROVE  /\ \A r \in Nat : InRange(t, r) <=> r \in Refs(t)
         /\ Refs(t) \subseteq Nat
         /\ \A S \in SUBSET Refs(t) : IsFiniteSet(S)
<1>1. Len(t) \in Nat
  BY DEF Table
<1>2. IsFiniteSet(Refs(t))
  BY <1>1, FS_Interval DEF Refs
<1>3. \A S \in SUBSET Refs(t) : IsFiniteSet(S)
  BY <1>2, FS_Subset
<1>4. QED
  BY <1>1, <1>3 DEF Refs, InRange

(* A step to every element.                                                *)
LEMMA AllStepsFacts ==
  ASSUME NEW s \in Seq(Nat), NEW listed \in BOOLEAN
  PROVE  /\ AllSteps(s, listed) \in Seq(StepTask)
         /\ ToSet(AllSteps(s, listed)) = {Step(r, listed) : r \in ToSet(s)}
<1>1. \A r \in Nat : Step(r, listed) \in StepTask
  BY DEF Step, StepTask
<1>2. /\ AllSteps(s, listed) \in Seq(StepTask) /\ DOMAIN AllSteps(s, listed) = DOMAIN s
      /\ \A i \in DOMAIN s : AllSteps(s, listed)[i] = Step(s[i], listed)
  BY <1>1 DEF AllSteps
<1>3. QED
  BY <1>2 DEF ToSet

(* The name of every element.                                              *)
LEMMA NamesFacts ==
  ASSUME NEW s \in Seq(Nat)
  PROVE  /\ Names(s) \in Seq(WriteTask)
         /\ ToSet(Names(s)) = {Name(r) : r \in ToSet(s)}
<1>1. \A r \in Nat : Name(r) \in WriteTask
  BY DEF Name, WriteTask
<1>2. /\ Names(s) \in Seq(WriteTask) /\ DOMAIN Names(s) = DOMAIN s
      /\ \A i \in DOMAIN s : Names(s)[i] = Name(s[i])
  BY <1>1 DEF Names
<1>3. QED
  BY <1>2 DEF ToSet

(* A section for every element.                                            *)
LEMMA SectionsFacts ==
  ASSUME NEW s \in Seq(Nat), NEW header \in BOOLEAN
  PROVE  /\ Sections(s, header) \in Seq(WriteTask)
         /\ ToSet(Sections(s, header)) = {Section(r, header) : r \in ToSet(s)}
<1>1. \A r \in Nat : Section(r, header) \in WriteTask
  BY DEF Section, WriteTask
<1>2. /\ Sections(s, header) \in Seq(WriteTask) /\ DOMAIN Sections(s, header) = DOMAIN s
      /\ \A i \in DOMAIN s : Sections(s, header)[i] = Section(s[i], header)
  BY <1>1 DEF Sections
<1>3. QED
  BY <1>2 DEF ToSet

(* The signature of every element.                                         *)
LEMMA SignaturesFacts ==
  ASSUME NEW s \in Seq(Nat), NEW all, all = [i \in 1..Len(s) |-> Signature(s[i])]
  PROVE  all \in Seq(WriteTask) /\ ToSet(all) = {Signature(r) : r \in ToSet(s)}
<1>1. \A r \in Nat : Signature(r) \in WriteTask
  BY DEF Signature, WriteTask
<1>2. /\ all \in Seq(WriteTask) /\ DOMAIN all = DOMAIN s
      /\ \A i \in DOMAIN s : all[i] = Signature(s[i])
  BY <1>1
<1>3. QED
  BY <1>2 DEF ToSet

(* Where a type is walked to: what it refers to, listed, and its elements, *)
(* not listed.                                                             *)
LEMMA StepsFacts ==
  ASSUME NEW t \in Table, NEW r \in Refs(t)
  PROVE  /\ Steps(t, r) \in Seq(StepTask)
         /\ ToSet(Steps(t, r)) =
              IF At(t, r).kind \in Linkable \cup {"ArrayType"}
              THEN {Step(q, TRUE) : q \in ToSet(At(t, r).refs)}
                     \cup {Step(q, FALSE) : q \in ToSet(At(t, r).elements)}
              ELSE {}
<1>1. At(t, r).refs \in Seq(Nat) /\ At(t, r).elements \in Seq(Nat)
  BY AtFacts
<1> DEFINE named == AllSteps(At(t, r).refs, TRUE)
           shown == AllSteps(At(t, r).elements, FALSE)
<1>2. /\ named \in Seq(StepTask) /\ ToSet(named) = {Step(q, TRUE) : q \in ToSet(At(t, r).refs)}
      /\ shown \in Seq(StepTask) /\ ToSet(shown) = {Step(q, FALSE) : q \in ToSet(At(t, r).elements)}
  BY <1>1, AllStepsFacts
<1>3. Steps(t, r) = IF At(t, r).kind \in Linkable \cup {"ArrayType"} THEN named \o shown ELSE <<>>
  BY DEF Steps
<1> HIDE DEF named, shown
<1>4. named \o shown \in Seq(StepTask) /\ ToSet(named \o shown) = ToSet(named) \cup ToSet(shown)
  BY <1>2, ConcatSet
<1>5. <<>> \in Seq(StepTask) /\ ToSet(<<>>) = {}
  BY DEF ToSet
<1>6. CASE At(t, r).kind \in Linkable \cup {"ArrayType"}
  BY <1>2, <1>3, <1>4, <1>6
<1>7. CASE ~(At(t, r).kind \in Linkable \cup {"ArrayType"})
  BY <1>3, <1>5, <1>7
<1>8. QED
  BY <1>6, <1>7

(* Where several types are walked to.                                      *)
LEMMA StepsOfFacts ==
  ASSUME NEW t \in Table, NEW s \in Seq(Refs(t)), NEW listed \in BOOLEAN
  PROVE  /\ StepsOf(t, s, listed) \in Seq(StepTask)
         /\ \A x : x \in ToSet(StepsOf(t, s, listed)) <=>
              \E r \in ToSet(s) : \E q \in ToSet(At(t, r).refs) : x = Step(q, listed)
<1> DEFINE each == [i \in 1..Len(s) |-> AllSteps(At(t, s[i]).refs, listed)]
<1>1. \A i \in 1..Len(s) : s[i] \in Refs(t) /\ s[i] \in ToSet(s) /\ At(t, s[i]).refs \in Seq(Nat)
  BY InSet, AtFacts
<1>2. \A i \in 1..Len(s) :
        /\ each[i] \in Seq(StepTask)
        /\ ToSet(each[i]) = {Step(q, listed) : q \in ToSet(At(t, s[i]).refs)}
  BY <1>1, AllStepsFacts
<1>3. each \in Seq(Seq(StepTask)) /\ Len(each) = Len(s)
  BY <1>2
<1>4. StepsOf(t, s, listed) = FlattenSeq(each)
  BY DEF StepsOf
<1> HIDE DEF each
<1>5. FlattenSeq(each) \in Seq(StepTask) /\ ToSet(FlattenSeq(each)) = Pending(each)
  BY <1>3, FlattenFacts
<1>6. ASSUME NEW x \in Pending(each)
      PROVE  \E r \in ToSet(s) : \E q \in ToSet(At(t, r).refs) : x = Step(q, listed)
  <2>1. PICK i \in 1..Len(s) : x \in ToSet(each[i])
    BY <1>3 DEF Pending
  <2>2. QED
    BY <1>1, <1>2, <2>1
<1>7. ASSUME NEW x, NEW r \in ToSet(s), NEW q \in ToSet(At(t, r).refs), x = Step(q, listed)
      PROVE  x \in Pending(each)
  <2>1. PICK i \in 1..Len(s) : r = s[i]
    BY InSet
  <2>2. x \in ToSet(each[i])
    BY <1>2, <1>7, <2>1
  <2>3. QED
    BY <1>3, <2>1, <2>2 DEF Pending
<1>8. QED
  BY <1>4, <1>5, <1>6, <1>7

(* The parts of a section: of a resource, of an object or function, or of  *)
(* something that has none.                                                *)
LEMMA PartsFacts ==
  ASSUME NEW t \in Table, NEW r \in Refs(t)
  PROVE  /\ Parts(t, r) \in Seq(WriteTask)
         /\ At(t, r).kind = "ResourceType" =>
              ToSet(Parts(t, r)) = {Section(q, FALSE) : q \in ToSet(At(t, r).refs)}
                                     \cup {Signature(q) : q \in ToSet(At(t, r).functions)}
         /\ At(t, r).kind \in Functions \cup Linkable =>
              ToSet(Parts(t, r)) = {Name(q) : q \in ToSet(At(t, r).refs)}
                                     \cup {Section(q, TRUE) : q \in ToSet(At(t, r).elements)}
         /\ At(t, r).kind \notin Functions \cup Linkable \cup {"ResourceType"} =>
              ToSet(Parts(t, r)) = {}
<1>1. /\ At(t, r).refs \in Seq(Nat) /\ At(t, r).elements \in Seq(Nat)
      /\ At(t, r).functions \in Seq(Nat)
  BY AtFacts
<1>2. CASE At(t, r).kind = "ResourceType"
  <2> DEFINE body == Sections(At(t, r).refs, FALSE)
             signatures == [i \in 1..Len(At(t, r).functions) |-> Signature(At(t, r).functions[i])]
  <2>1. /\ body \in Seq(WriteTask) /\ ToSet(body) = {Section(q, FALSE) : q \in ToSet(At(t, r).refs)}
    BY <1>1, SectionsFacts
  <2>2. /\ signatures \in Seq(WriteTask)
        /\ ToSet(signatures) = {Signature(q) : q \in ToSet(At(t, r).functions)}
    BY <1>1, SignaturesFacts
  <2>3. At(t, r).kind \notin Functions \cup Linkable
    BY <1>2 DEF Functions, Linkable
  <2>4. Parts(t, r) = body \o signatures
    BY <1>2, <2>3 DEF Parts
  <2> HIDE DEF body, signatures
  <2>5. /\ body \o signatures \in Seq(WriteTask)
        /\ ToSet(body \o signatures) = ToSet(body) \cup ToSet(signatures)
    BY <2>1, <2>2, ConcatSet
  <2>6. QED
    BY <1>2, <2>1, <2>2, <2>3, <2>4, <2>5
<1>3. CASE At(t, r).kind \in Functions \cup Linkable
  <2> DEFINE named == Names(At(t, r).refs)
             shown == Sections(At(t, r).elements, TRUE)
  <2>1. /\ named \in Seq(WriteTask) /\ ToSet(named) = {Name(q) : q \in ToSet(At(t, r).refs)}
        /\ shown \in Seq(WriteTask)
        /\ ToSet(shown) = {Section(q, TRUE) : q \in ToSet(At(t, r).elements)}
    BY <1>1, NamesFacts, SectionsFacts
  <2>2. At(t, r).kind # "ResourceType"
    BY <1>3 DEF Functions, Linkable
  <2>3. Parts(t, r) = named \o shown
    BY <1>3, <2>2 DEF Parts
  <2> HIDE DEF named, shown
  <2>4. named \o shown \in Seq(WriteTask) /\ ToSet(named \o shown) = ToSet(named) \cup ToSet(shown)
    BY <2>1, ConcatSet
  <2>5. QED
    BY <1>3, <2>1, <2>2, <2>3, <2>4
<1>4. CASE At(t, r).kind \notin Functions \cup Linkable \cup {"ResourceType"}
  <2>1. Parts(t, r) = <<>>
    BY <1>4 DEF Parts
  <2>2. <<>> \in Seq(WriteTask) /\ ToSet(<<>>) = {}
    BY DEF ToSet
  <2>3. QED
    BY <1>4, <2>1, <2>2
<1>5. QED
  BY <1>2, <1>3, <1>4

(* A name mentions the names that its own is made of.                      *)
LEMMA MentionedFacts ==
  ASSUME NEW t, NEW S
  PROVE  /\ S \subseteq Mentioned(t, S)
         /\ \A r, q \in Refs(t) :
              r \in Mentioned(t, S) /\ At(t, r).kind \in Composed /\ q \in ToSet(At(t, r).refs) =>
                q \in Mentioned(t, S)
<1> DEFINE L == NameLinks(t)
           targets == {l[2] : l \in L}
<1>1. ASSUME NEW r \in Refs(t), NEW q \in Refs(t), r \in Mentioned(t, S),
             At(t, r).kind \in Composed, q \in ToSet(At(t, r).refs)
      PROVE  q \in Mentioned(t, S)
  <2>1. PICK l \in L : l[1] = r /\ l[2] = q
    <3>1. <<r, q>> \in L
      BY <1>1 DEF NameLinks
    <3>2. QED
      BY <3>1
  <2> HIDE DEF L
  <2>2. q \in targets
    BY <2>1
  <2>3. ASSUME NEW T \in SUBSET targets, Successors(L, S \cup T) \subseteq T
        PROVE  q \in T
    <3>1. r \in S \cup T
      BY <1>1, <2>3 DEF Mentioned, Reachable, L
    <3>2. q \in Successors(L, S \cup T)
      BY <2>1, <3>1 DEF Successors
    <3>3. QED
      BY <2>3, <3>2
  <2>4. q \in Reachable(L, S)
    BY <2>2, <2>3 DEF Reachable
  <2>5. QED
    BY <2>4 DEF Mentioned, L
<1>2. QED
  BY <1>1 DEF Mentioned

(* Which types are elements, bodies, or only mentioned.                    *)
LEMMA LinkedFacts ==
  ASSUME NEW t, NEW r \in Refs(t), NEW q \in Refs(t)
  PROVE  /\ q \in ToSet(At(t, r).elements) => q \in Elements(t)
         /\ At(t, r).kind = "ResourceType" /\ q \in ToSet(At(t, r).refs) => q \in Bodies(t)
         /\ At(t, r).kind \in {"UnionType", "FunctionType"} /\ q \in ToSet(At(t, r).refs) =>
              q \in NotWalked(t)
         /\ r \in NotWalked(t) /\ At(t, r).kind \in Composed /\ q \in ToSet(At(t, r).refs) =>
              q \in NotWalked(t)
<1>1. ASSUME q \in ToSet(At(t, r).elements) PROVE q \in Elements(t)
  <2>1. <<r, q>> \in ElementLinks(t)
    BY <1>1 DEF ElementLinks
  <2>2. QED
    BY <2>1 DEF Elements, Successors
<1>2. ASSUME At(t, r).kind = "ResourceType", q \in ToSet(At(t, r).refs) PROVE q \in Bodies(t)
  <2>1. <<r, q>> \in BodyLinks(t)
    BY <1>2 DEF BodyLinks
  <2>2. QED
    BY <2>1 DEF Bodies, Successors
<1> DEFINE Here == {p \in Refs(t) : At(t, p).kind \in {"UnionType", "FunctionType"}}
           S == UNION {ToSet(At(t, p).refs) : p \in Here}
<1>3. NotWalked(t) = Mentioned(t, S)
  BY DEF NotWalked
<1>4. At(t, r).kind \in {"UnionType", "FunctionType"} /\ q \in ToSet(At(t, r).refs) => q \in S
  OBVIOUS
<1> HIDE DEF S
<1>5. QED
  BY <1>1, <1>2, <1>3, <1>4, MentionedFacts

-----------------------------------------------------------------------------
(* Collecting.  V is the set of types that were walked from, in whichever  *)
(* walk, and W that of the types listed.  A step is met if what it leads   *)
(* to was walked from, and listed if it should be.                         *)

RootSteps(t) ==
  {s \in StepTask : \E r \in Refs(t) :
     /\ s.ref \in ToSet(At(t, r).refs)
     /\ At(t, r).kind \in (IF s.listed THEN Functions ELSE {"ResourceType"})}

Met(t, V, W, s) == InRange(t, s.ref) => s.ref \in V /\ (s.listed => s.ref \in W)

Walked(t, V, W, todo) ==
  /\ V \subseteq Refs(t) /\ W \subseteq V
  /\ \A s \in RootSteps(t) : Met(t, V, W, s) \/ s \in todo
  /\ \A r \in V : \A s \in ToSet(Steps(t, r)) : Met(t, V, W, s) \/ s \in todo

Collected(t, seen, W, todo) == \E V \in SUBSET Refs(t) : seen \subseteq V /\ Walked(t, V, W, todo)

(* Every type that is listed will also be named.  N stands for the types   *)
(* that are and K for those that get a section, with a heading or not:     *)
(* whatever they are, if the writer names what it should, all that is      *)
(* listed or to be walked to is among them.                                *)
AllNamed(t, W, N, K) ==
  /\ N \subseteq Refs(t) /\ K \subseteq Refs(t)
  /\ Elements(t) \cup Bodies(t) \subseteq N /\ Bodies(t) \subseteq K
  /\ \A r \in Refs(t) : At(t, r).kind \in Functions =>
       ToSet(At(t, r).refs) \cap Refs(t) \subseteq N
  /\ \A r \in N : At(t, r).kind \in Composed => ToSet(At(t, r).refs) \cap Refs(t) \subseteq N
  /\ \A r \in W : At(t, r).kind \in Linkable => r \in K
  /\ \A r \in K : At(t, r).kind \in Linkable =>
       /\ ToSet(At(t, r).refs) \cap Refs(t) \subseteq N
       /\ ToSet(At(t, r).elements) \cap Refs(t) \subseteq K

WillBeNamed(t, W, todo) ==
  \A N, K \in SUBSET Refs(t) : AllNamed(t, W, N, K) =>
    /\ W \subseteq N
    /\ \A s \in todo : InRange(t, s.ref) => s.ref \in N /\ (s.listed \/ s.ref \in K)

(* And no type is listed without a reason.  A stands for the types that    *)
(* are walked from and B for those listed: whatever they are, if no step   *)
(* from the roots or from A leads out of them, what is listed or to be     *)
(* listed is among them.                                                   *)
Bounds(t, A, B) ==
  /\ \A s \in RootSteps(t) : Met(t, A, B, s)
  /\ \A r \in A : \A s \in ToSet(Steps(t, r)) : Met(t, A, B, s)

Needed(t, W, todo) ==
  \A A, B \in SUBSET Refs(t) : Bounds(t, A, B) =>
    W \subseteq B /\ \A s \in todo : Met(t, A, B, s)

Justified(t, W, todo) == WillBeNamed(t, W, todo) /\ Needed(t, W, todo)

(* All that has a reason is listed.                                        *)
Settled(t, W) == Needed(t, W, {}) /\ \E V \in SUBSET Refs(t) : Walked(t, V, W, {})

(* At first only the steps from the roots are to be taken.                 *)
LEMMA NothingCollected ==
  ASSUME NEW t \in Table
  PROVE  Collected(t, {}, {}, RootSteps(t)) /\ Justified(t, {}, RootSteps(t))
<1>1. Walked(t, {}, {}, RootSteps(t))
  BY DEF Walked
<1>2. ASSUME NEW N \in SUBSET Refs(t), NEW K \in SUBSET Refs(t), AllNamed(t, {}, N, K),
             NEW s \in RootSteps(t), InRange(t, s.ref)
      PROVE  s.ref \in N /\ (s.listed \/ s.ref \in K)
  <2>1. PICK r \in Refs(t) : /\ s.ref \in ToSet(At(t, r).refs)
                             /\ At(t, r).kind \in (IF s.listed THEN Functions ELSE {"ResourceType"})
    BY DEF RootSteps
  <2>2. s \in StepTask /\ s.ref \in Refs(t)
    BY <1>2, RefsFacts DEF RootSteps, StepTask
  <2>3. CASE s.listed
    BY <1>2, <2>1, <2>2, <2>3 DEF AllNamed
  <2>4. CASE ~s.listed
    <3>1. s.ref \in Bodies(t)
      BY <2>1, <2>2, <2>4, LinkedFacts
    <3>2. QED
      BY <1>2, <3>1 DEF AllNamed
  <2>5. QED
    BY <2>3, <2>4
<1>3. Needed(t, {}, RootSteps(t))
  BY DEF Needed, Bounds
<1>4. QED
  BY <1>1, <1>2, <1>3 DEF Collected, WillBeNamed, Justified

(* A step out of range is passed over, ...                                 *)
LEMMA PassOver ==
  ASSUME NEW t, NEW seen, NEW W, NEW rest, NEW s, ~InRange(t, s.ref),
         Collected(t, seen, W, {s} \cup rest), Justified(t, W, {s} \cup rest)
  PROVE  Collected(t, seen, W, rest) /\ Justified(t, W, rest)
<1>1. PICK V \in SUBSET Refs(t) : seen \subseteq V /\ Walked(t, V, W, {s} \cup rest)
  BY DEF Collected
<1>2. Walked(t, V, W, rest)
  BY <1>1 DEF Walked, Met
<1>3. WillBeNamed(t, W, rest) /\ Needed(t, W, rest)
  BY DEF Justified, WillBeNamed, Needed
<1>4. QED
  BY <1>1, <1>2, <1>3 DEF Collected, Justified

(* ... one to a type that was walked from is taken by listing the type if  *)
(* it should be, ...                                                       *)
LEMMA ListOnly ==
  ASSUME NEW t, NEW seen, NEW W, NEW rest, NEW s, s.ref \in seen \cup W, InRange(t, s.ref),
         Collected(t, seen, W, {s} \cup rest), Justified(t, W, {s} \cup rest),
         NEW W2, W2 = IF s.listed THEN W \cup {s.ref} ELSE W
  PROVE  Collected(t, seen, W2, rest) /\ Justified(t, W2, rest)
<1>1. PICK V \in SUBSET Refs(t) : seen \subseteq V /\ Walked(t, V, W, {s} \cup rest)
  BY DEF Collected
<1>2. s.ref \in V /\ W \subseteq W2 /\ W2 \subseteq V /\ Met(t, V, W2, s)
  BY <1>1 DEF Walked, Met
<1>3. \A x : Met(t, V, W, x) => Met(t, V, W2, x)
  BY <1>2 DEF Met
<1>4. Walked(t, V, W2, rest)
  BY <1>1, <1>2, <1>3 DEF Walked
<1>5. ASSUME NEW N \in SUBSET Refs(t), NEW K \in SUBSET Refs(t), AllNamed(t, W2, N, K)
      PROVE  /\ W2 \subseteq N
             /\ \A x \in rest : InRange(t, x.ref) => x.ref \in N /\ (x.listed \/ x.ref \in K)
  <2>1. AllNamed(t, W, N, K)
    BY <1>2, <1>5 DEF AllNamed
  <2>2. /\ W \subseteq N
        /\ \A x \in {s} \cup rest : InRange(t, x.ref) => x.ref \in N /\ (x.listed \/ x.ref \in K)
    BY <2>1 DEF Justified, WillBeNamed
  <2>3. s.ref \in N
    BY <2>2
  <2>4. QED
    BY <2>2, <2>3
<1>6. WillBeNamed(t, W2, rest)
  BY <1>5 DEF WillBeNamed
<1>7. ASSUME NEW A \in SUBSET Refs(t), NEW B \in SUBSET Refs(t), Bounds(t, A, B)
      PROVE  W2 \subseteq B /\ \A x \in rest : Met(t, A, B, x)
  <2>1. W \subseteq B /\ \A x \in {s} \cup rest : Met(t, A, B, x)
    BY <1>7 DEF Justified, Needed
  <2>2. s.listed => s.ref \in B
    BY <2>1 DEF Met
  <2>3. QED
    BY <2>1, <2>2
<1>8. Needed(t, W2, rest)
  BY <1>7 DEF Needed
<1>9. QED
  BY <1>1, <1>4, <1>6, <1>8 DEF Collected, Justified

(* ... and any other by walking on from there as well.                     *)
LEMMA WalkOn ==
  ASSUME NEW t \in Table, NEW seen, NEW W, NEW rest, NEW s \in StepTask, InRange(t, s.ref),
         Collected(t, seen, W, {s} \cup rest), Justified(t, W, {s} \cup rest),
         NEW W2, W2 = IF s.listed THEN W \cup {s.ref} ELSE W
  PROVE  /\ Collected(t, seen \cup {s.ref}, W2, ToSet(Steps(t, s.ref)) \cup rest)
         /\ Justified(t, W2, ToSet(Steps(t, s.ref)) \cup rest)
<1> DEFINE r == s.ref
           left == ToSet(Steps(t, r)) \cup rest
<1>1. PICK V \in SUBSET Refs(t) : seen \subseteq V /\ Walked(t, V, W, {s} \cup rest)
  BY DEF Collected
<1>2. r \in Refs(t)
  BY RefsFacts DEF StepTask
<1> DEFINE V2 == V \cup {r}
<1>3. V2 \in SUBSET Refs(t) /\ W \subseteq W2 /\ W2 \subseteq V2 /\ Met(t, V2, W2, s)
  BY <1>1, <1>2 DEF Walked, Met
<1>4. \A x : Met(t, V, W, x) => Met(t, V2, W2, x)
  BY <1>3 DEF Met
<1>5. ASSUME NEW x, Met(t, V, W, x) \/ x \in {s} \cup rest
      PROVE  Met(t, V2, W2, x) \/ x \in left
  BY <1>3, <1>4, <1>5
<1>6. \A x \in RootSteps(t) : Met(t, V2, W2, x) \/ x \in left
  BY <1>1, <1>5 DEF Walked
<1>7. \A p \in V2 : \A x \in ToSet(Steps(t, p)) : Met(t, V2, W2, x) \/ x \in left
  BY <1>1, <1>5 DEF Walked
<1>8. Walked(t, V2, W2, left)
  BY <1>3, <1>6, <1>7 DEF Walked
<1>9. Collected(t, seen \cup {r}, W2, left)
  BY <1>1, <1>3, <1>8 DEF Collected
<1>10. ASSUME NEW N \in SUBSET Refs(t), NEW K \in SUBSET Refs(t), AllNamed(t, W2, N, K)
       PROVE  /\ W2 \subseteq N
              /\ \A x \in left : InRange(t, x.ref) => x.ref \in N /\ (x.listed \/ x.ref \in K)
  <2>1. AllNamed(t, W, N, K)
    BY <1>3, <1>10 DEF AllNamed
  <2>2. /\ W \subseteq N /\ r \in N /\ (s.listed \/ r \in K)
        /\ \A x \in rest : InRange(t, x.ref) => x.ref \in N /\ (x.listed \/ x.ref \in K)
    BY <2>1 DEF Justified, WillBeNamed
  <2>3. At(t, r).kind \in Linkable => r \in K
    BY <1>10, <2>2 DEF AllNamed
  <2>4. ASSUME NEW x \in ToSet(Steps(t, r)), InRange(t, x.ref)
        PROVE  x.ref \in N /\ (x.listed \/ x.ref \in K)
    <3>1. /\ At(t, r).kind \in Linkable \cup {"ArrayType"}
          /\ x \in {Step(q, TRUE) : q \in ToSet(At(t, r).refs)}
                   \cup {Step(q, FALSE) : q \in ToSet(At(t, r).elements)}
      BY <1>2, StepsFacts
    <3>2. x.ref \in Nat
      <4>1. At(t, r).refs \in Seq(Nat) /\ At(t, r).elements \in Seq(Nat)
        BY <1>2, AtFacts
      <4>2. \A q \in ToSet(At(t, r).refs) \cup ToSet(At(t, r).elements) : q \in Nat
        BY <4>1, InSet
      <4>3. QED
        BY <3>1, <4>2 DEF Step
    <3>3. x.ref \in Refs(t)
      BY <2>4, <3>2, RefsFacts
    <3>4. CASE x \in {Step(q, TRUE) : q \in ToSet(At(t, r).refs)}
      <4>1. x.ref \in ToSet(At(t, r).refs) /\ x.listed
        BY <3>4 DEF Step
      <4>2. CASE At(t, r).kind \in Linkable
        BY <1>10, <2>3, <3>3, <4>1, <4>2 DEF AllNamed
      <4>3. CASE At(t, r).kind = "ArrayType"
        BY <1>10, <2>2, <3>3, <4>1, <4>3 DEF AllNamed, Composed
      <4>4. QED
        BY <3>1, <4>2, <4>3
    <3>5. CASE x \in {Step(q, FALSE) : q \in ToSet(At(t, r).elements)}
      <4>1. x.ref \in ToSet(At(t, r).elements)
        BY <3>5 DEF Step
      <4>2. At(t, r).kind \in Linkable
        <5>1. At(t, r).kind # "DiscriminatedObjectType" => At(t, r).elements = <<>>
          BY <1>2, AtFacts
        <5>2. QED
          BY <4>1, <5>1 DEF ToSet, Linkable
      <4>3. x.ref \in Elements(t)
        BY <1>2, <3>3, <4>1, LinkedFacts
      <4>4. QED
        BY <1>10, <2>3, <3>3, <4>1, <4>2, <4>3 DEF AllNamed
    <3>6. QED
      BY <3>1, <3>4, <3>5
  <2>5. W2 \subseteq N
    BY <2>2
  <2>6. QED
    BY <2>2, <2>4, <2>5
<1>11. WillBeNamed(t, W2, left)
  BY <1>10 DEF WillBeNamed
<1>12. ASSUME NEW A \in SUBSET Refs(t), NEW B \in SUBSET Refs(t), Bounds(t, A, B)
       PROVE  W2 \subseteq B /\ \A x \in left : Met(t, A, B, x)
  <2>1. W \subseteq B /\ \A x \in {s} \cup rest : Met(t, A, B, x)
    BY <1>12 DEF Justified, Needed
  <2>2. r \in A /\ (s.listed => r \in B)
    BY <2>1 DEF Met
  <2>3. \A x \in ToSet(Steps(t, r)) : Met(t, A, B, x)
    BY <1>12, <2>2 DEF Bounds
  <2>4. QED
    BY <2>1, <2>2, <2>3
<1>13. Needed(t, W2, left)
  BY <1>12 DEF Needed
<1>14. QED
  BY <1>9, <1>11, <1>13 DEF Justified

-----------------------------------------------------------------------------
(* Writing.  What a task leaves to be done, the heading it may add and the *)
(* link it may add.                                                        *)

LeftOf(t, task) ==
  IF InRange(t, task.ref) /\ task.write = "section" THEN ToSet(Parts(t, task.ref))
  ELSE IF /\ InRange(t, task.ref)
          /\ \/ task.write = "function" /\ At(t, task.ref).kind = "FunctionType"
             \/ task.write = "name" /\ At(t, task.ref).kind \in Composed
       THEN ToSet(Names(At(t, task.ref).refs))
       ELSE {}

HeadingOf(t, task) ==
  {r \in {task.ref} : InRange(t, r) /\ task.write = "section" /\ HasHeading(t, task)}

LinkOf(t, task) ==
  {r \in {task.ref} : InRange(t, r) /\ task.write = "name" /\ At(t, r).kind \in Linkable}

(* Sections are written of objects that were walked from, with a heading   *)
(* of those that are listed or elements; and names of types that are       *)
(* listed or only mentioned.                                               *)
Allowed(t, V, W, task) ==
  InRange(t, task.ref) =>
    /\ task.write = "section" /\ At(t, task.ref).kind \in Linkable =>
         task.ref \in V /\ (task.header => task.ref \in W \cup Elements(t))
    /\ task.write = "name" => task.ref \in W \cup NotWalked(t)

(* The sections the page starts with.                                      *)
OnPage(t, W) ==
  {Section(r, TRUE) : r \in W \cup {q \in Refs(t) : At(t, q).kind \in Functions \cup {"ResourceType"}}}

(* D is the set of tasks that were done: what they leave was done or is to *)
(* be done, and their headings H and links L are on the page.              *)
Recorded(t, W, D, todo, H, L) ==
  /\ OnPage(t, W) \subseteq D \cup todo
  /\ \A task \in D : /\ LeftOf(t, task) \subseteq D \cup todo
                     /\ HeadingOf(t, task) \subseteq H
                     /\ LinkOf(t, task) \subseteq L

Written(t, W, todo, H, L) ==
  \E V \in SUBSET Refs(t), D \in SUBSET WriteTask :
    /\ Walked(t, V, W, {})
    /\ \A task \in todo : Allowed(t, V, W, task)
    /\ L \subseteq W \cup NotWalked(t)
    /\ \A r \in H : At(t, r).kind \in Linkable => r \in W \cup Elements(t)
    /\ Recorded(t, W, D, todo, H, L)

(* When all is collected, the page can be started.                         *)
LEMMA NothingWritten ==
  ASSUME NEW t \in Table, NEW seen, NEW W, Collected(t, seen, W, {})
  PROVE  Written(t, W, OnPage(t, W), {}, {})
<1>1. PICK V \in SUBSET Refs(t) : Walked(t, V, W, {})
  BY DEF Collected
<1>2. ASSUME NEW task \in OnPage(t, W) PROVE Allowed(t, V, W, task)
  <2>1. PICK r \in W \cup {q \in Refs(t) : At(t, q).kind \in Functions \cup {"ResourceType"}} :
          task = Section(r, TRUE)
    BY DEF OnPage
  <2>2. task.ref = r /\ task.write = "section"
    BY <2>1 DEF Section
  <2>3. At(t, r).kind \in Linkable => r \in W
    BY <2>1 DEF Functions, Linkable
  <2>4. W \subseteq V
    BY <1>1 DEF Walked
  <2>5. QED
    BY <2>2, <2>3, <2>4 DEF Allowed
<1>3. Recorded(t, W, {}, OnPage(t, W), {}, {})
  BY DEF Recorded
<1>4. {} \in SUBSET WriteTask
  OBVIOUS
<1>5. QED
  BY <1>1, <1>2, <1>3, <1>4 DEF Written

(* Doing a task keeps to what is allowed.                                  *)
LEMMA LeftIsAllowed ==
  ASSUME NEW t \in Table, NEW V, NEW W, Walked(t, V, W, {}),
         NEW task \in WriteTask, Allowed(t, V, W, task), NEW x \in LeftOf(t, task)
  PROVE  Allowed(t, V, W, x)
<1> DEFINE r == task.ref
<1>1. InRange(t, r) /\ r \in Refs(t)
  <2>1. ASSUME ~InRange(t, r) PROVE FALSE
    <3>1. LeftOf(t, task) = {}
      BY <2>1 DEF LeftOf
    <3>2. QED
      BY <3>1
  <2>2. r \in Nat
    BY DEF WriteTask
  <2>3. QED
    BY <2>1, <2>2, RefsFacts
<1>2. At(t, r).refs \in Seq(Nat) /\ At(t, r).elements \in Seq(Nat)
  BY <1>1, AtFacts
<1>3. \A q \in ToSet(At(t, r).refs) \cup ToSet(At(t, r).elements) : InRange(t, q) => q \in Refs(t)
  <2>1. \A q \in ToSet(At(t, r).refs) \cup ToSet(At(t, r).elements) : q \in Nat
    BY <1>2, InSet
  <2>2. QED
    BY <2>1, RefsFacts
<1>4. V \subseteq Refs(t) /\ W \subseteq V
  BY DEF Walked
<1>5. CASE task.write = "section" /\ At(t, r).kind = "ResourceType"
  <2>1. x \in {Section(q, FALSE) : q \in ToSet(At(t, r).refs)}
             \cup {Signature(q) : q \in ToSet(At(t, r).functions)}
    BY <1>1, <1>5, PartsFacts DEF LeftOf
  <2>2. CASE x \in {Section(q, FALSE) : q \in ToSet(At(t, r).refs)}
    <3>1. PICK q \in ToSet(At(t, r).refs) : x = Section(q, FALSE)
      BY <2>2
    <3>2. x.ref = q /\ x.write = "section" /\ x.header = FALSE
      BY <3>1 DEF Section
    <3>3. ASSUME InRange(t, q) PROVE q \in V
      <4> DEFINE s == Step(q, FALSE)
      <4>1. s \in RootSteps(t) /\ s.ref = q
        <5>1. s \in StepTask /\ s.ref = q /\ s.listed = FALSE
          BY <1>3, <3>3, RefsFacts DEF Step, StepTask
        <5>2. QED
          BY <1>1, <1>5, <5>1 DEF RootSteps
      <4>2. Met(t, V, W, s)
        BY <4>1 DEF Walked
      <4>3. QED
        BY <3>3, <4>1, <4>2 DEF Met
    <3>4. QED
      BY <3>2, <3>3 DEF Allowed
  <2>3. CASE x \in {Signature(q) : q \in ToSet(At(t, r).functions)}
    <3>1. x.write = "function"
      BY <2>3 DEF Signature
    <3>2. QED
      BY <3>1 DEF Allowed
  <2>4. QED
    BY <2>1, <2>2, <2>3
<1>6. CASE task.write = "section" /\ At(t, r).kind \in Functions \cup Linkable
  <2>1. x \in {Name(q) : q \in ToSet(At(t, r).refs)}
             \cup {Section(q, TRUE) : q \in ToSet(At(t, r).elements)}
    BY <1>1, <1>6, PartsFacts DEF LeftOf
  <2>2. CASE x \in {Name(q) : q \in ToSet(At(t, r).refs)}
    <3>1. PICK q \in ToSet(At(t, r).refs) : x = Name(q)
      BY <2>2
    <3>2. x.ref = q /\ x.write = "name"
      BY <3>1 DEF Name
    <3>3. ASSUME InRange(t, q) PROVE q \in W
      <4> DEFINE s == Step(q, TRUE)
      <4>1. s \in StepTask /\ s.ref = q /\ s.listed = TRUE
        BY <1>3, <3>3, RefsFacts DEF Step, StepTask
      <4>2. CASE At(t, r).kind \in Functions
        <5>1. s \in RootSteps(t)
          BY <1>1, <4>1, <4>2 DEF RootSteps
        <5>2. QED
          BY <3>3, <4>1, <5>1 DEF Walked, Met
      <4>3. CASE At(t, r).kind \in Linkable
        <5>1. r \in V
          BY <1>1, <1>6, <4>3 DEF Allowed
        <5>2. s \in ToSet(Steps(t, r))
          BY <1>1, <4>3, StepsFacts
        <5>3. Met(t, V, W, s)
          BY <5>1, <5>2 DEF Walked
        <5>4. QED
          BY <3>3, <4>1, <5>3 DEF Met
      <4>4. QED
        BY <1>6, <4>2, <4>3
    <3>4. QED
      BY <3>2, <3>3 DEF Allowed
  <2>3. CASE x \in {Section(q, TRUE) : q \in ToSet(At(t, r).elements)}
    <3>1. PICK q \in ToSet(At(t, r).elements) : x = Section(q, TRUE)
      BY <2>3
    <3>2. x.ref = q /\ x.write = "section"
      BY <3>1 DEF Section
    <3>3. ASSUME InRange(t, q) PROVE q \in V \cap Elements(t)
      <4> DEFINE s == Step(q, FALSE)
      <4>1. s.ref = q
        BY DEF Step
      <4>2. At(t, r).kind \in Linkable
        <5>1. At(t, r).kind # "DiscriminatedObjectType" => At(t, r).elements = <<>>
          BY <1>1, AtFacts
        <5>2. QED
          BY <5>1 DEF ToSet, Linkable
      <4>3. r \in V
        BY <1>1, <1>6, <4>2 DEF Allowed
      <4>4. s \in ToSet(Steps(t, r))
        BY <1>1, <4>2, StepsFacts
      <4>5. Met(t, V, W, s)
        BY <4>3, <4>4 DEF Walked
      <4>6. QED
        BY <1>1, <1>3, <3>3, <4>1, <4>5, LinkedFacts DEF Met
    <3>4. QED
      BY <3>2, <3>3 DEF Allowed
  <2>4. QED
    BY <2>1, <2>2, <2>3
<1>7. CASE /\ task.write # "section"
           /\ \/ task.write = "function" /\ At(t, r).kind = "FunctionType"
              \/ task.write = "name" /\ At(t, r).kind \in Composed
  <2>1. x \in {Name(q) : q \in ToSet(At(t, r).refs)}
    BY <1>2, <1>7, NamesFacts DEF LeftOf
  <2>2. PICK q \in ToSet(At(t, r).refs) : x = Name(q)
    BY <2>1
  <2>3. x.ref = q /\ x.write = "name"
    BY <2>2 DEF Name
  <2>4. ASSUME InRange(t, q) PROVE q \in W \cup NotWalked(t)
    <3>1. q \in Refs(t)
      BY <1>3, <2>4
    <3>2. CASE At(t, r).kind \in {"UnionType", "FunctionType"}
      BY <1>1, <3>1, <3>2, LinkedFacts
    <3>3. CASE task.write = "name" /\ At(t, r).kind = "ArrayType" /\ r \in W
      <4> DEFINE s == Step(q, TRUE)
      <4>1. s.ref = q /\ s.listed = TRUE
        BY DEF Step
      <4>2. s \in ToSet(Steps(t, r))
        BY <1>1, <3>3, StepsFacts
      <4>3. r \in V
        BY <1>4, <3>3
      <4>4. Met(t, V, W, s)
        BY <4>2, <4>3 DEF Walked
      <4>5. QED
        BY <2>4, <4>1, <4>4 DEF Met
    <3>4. CASE task.write = "name" /\ At(t, r).kind = "ArrayType" /\ r \in NotWalked(t)
      BY <1>1, <3>1, <3>4, LinkedFacts DEF Composed
    <3>5. task.write = "name" => r \in W \cup NotWalked(t)
      BY <1>1 DEF Allowed
    <3>6. QED
      BY <1>7, <3>2, <3>3, <3>4, <3>5 DEF Composed
  <2>5. QED
    BY <2>3, <2>4 DEF Allowed
<1>8. CASE /\ task.write = "section"
           /\ At(t, r).kind \notin Functions \cup Linkable \cup {"ResourceType"}
  BY <1>1, <1>8, PartsFacts DEF LeftOf
<1>9. QED
  BY <1>5, <1>6, <1>7, <1>8 DEF LeftOf

(* A part of the page is written.                                          *)
LEMMA WriteOn ==
  ASSUME NEW t \in Table, NEW W, NEW rest, NEW task \in WriteTask, NEW H, NEW L,
         Written(t, W, {task} \cup rest, H, L)
  PROVE  Written(t, W, LeftOf(t, task) \cup rest, H \cup HeadingOf(t, task), L \cup LinkOf(t, task))
<1> DEFINE todo == LeftOf(t, task) \cup rest
           H2 == H \cup HeadingOf(t, task)
           L2 == L \cup LinkOf(t, task)
<1>1. PICK V \in SUBSET Refs(t), D \in SUBSET WriteTask :
        /\ Walked(t, V, W, {})
        /\ \A x \in {task} \cup rest : Allowed(t, V, W, x)
        /\ L \subseteq W \cup NotWalked(t)
        /\ \A r \in H : At(t, r).kind \in Linkable => r \in W \cup Elements(t)
        /\ Recorded(t, W, D, {task} \cup rest, H, L)
  BY DEF Written
<1> DEFINE D2 == D \cup {task}
<1>2. D2 \in SUBSET WriteTask
  OBVIOUS
<1>3. \A x \in todo : Allowed(t, V, W, x)
  BY <1>1, LeftIsAllowed
<1>4. ASSUME NEW r \in LinkOf(t, task) PROVE r \in W \cup NotWalked(t)
  BY <1>1 DEF LinkOf, Allowed
<1>5. ASSUME NEW r \in HeadingOf(t, task), At(t, r).kind \in Linkable
      PROVE  r \in W \cup Elements(t)
  <2>1. r = task.ref /\ InRange(t, r) /\ task.write = "section" /\ HasHeading(t, task)
    BY DEF HeadingOf
  <2>2. task.header
    BY <1>5, <2>1 DEF HasHeading, Functions, Linkable
  <2>3. QED
    BY <1>1, <1>5, <2>1, <2>2 DEF Allowed
<1>6. Recorded(t, W, D2, todo, H2, L2)
  BY <1>1 DEF Recorded
<1>7. QED
  BY <1>1, <1>2, <1>3, <1>4, <1>5, <1>6 DEF Written

(* A finished page is closed.                                              *)
LEMMA NothingLeft ==
  ASSUME NEW t \in Table, NEW W, NEW h \in Seq(Refs(t)), NEW L \in SUBSET Refs(t),
         WillBeNamed(t, W, {}), Written(t, W, {}, ToSet(h), L),
         \A r \in L : At(t, r).kind \in Linkable
  PROVE  Closed(t, h, L)
<1> DEFINE H == ToSet(h)
<1>1. PICK V \in SUBSET Refs(t), D \in SUBSET WriteTask :
        /\ Walked(t, V, W, {})
        /\ L \subseteq W \cup NotWalked(t)
        /\ \A r \in H : At(t, r).kind \in Linkable => r \in W \cup Elements(t)
        /\ Recorded(t, W, D, {}, H, L)
  BY DEF Written
<1>2. W \subseteq Refs(t)
  BY <1>1 DEF Walked
<1>3. ASSUME NEW r \in Refs(t), NEW header \in BOOLEAN, Section(r, header) \in D
      PROVE  ToSet(Parts(t, r)) \subseteq D
  <2> DEFINE task == Section(r, header)
  <2>1. task.ref = r /\ task.write = "section" /\ InRange(t, r)
    BY RefsFacts DEF Section
  <2>2. LeftOf(t, task) \subseteq D
    BY <1>1, <1>3 DEF Recorded
  <2>3. LeftOf(t, task) = ToSet(Parts(t, r))
    BY <2>1 DEF LeftOf
  <2>4. QED
    BY <2>2, <2>3
<1>4. ASSUME NEW r \in Refs(t), At(t, r).kind \in Composed, Name(r) \in D,
             NEW q \in ToSet(At(t, r).refs)
      PROVE  Name(q) \in D
  <2> DEFINE task == Name(r)
  <2>1. task.ref = r /\ task.write = "name" /\ InRange(t, r)
    BY RefsFacts DEF Name
  <2>2. LeftOf(t, task) \subseteq D
    BY <1>1, <1>4 DEF Recorded
  <2>3. LeftOf(t, task) = ToSet(Names(At(t, r).refs))
    BY <1>4, <2>1 DEF LeftOf
  <2>4. Name(q) \in ToSet(Names(At(t, r).refs))
    BY AtFacts, NamesFacts
  <2>5. QED
    BY <2>2, <2>3, <2>4
<1>5. ASSUME NEW r \in W, At(t, r).kind \in Linkable PROVE r \in H
  <2> DEFINE task == Section(r, TRUE)
  <2>1. task \in D
    BY <1>1 DEF Recorded, OnPage
  <2>2. task.ref = r /\ task.write = "section" /\ task.header /\ InRange(t, r)
    BY <1>2, RefsFacts DEF Section
  <2>3. HasHeading(t, task)
    BY <1>5, <2>2 DEF HasHeading
  <2>4. r \in HeadingOf(t, task)
    BY <2>2, <2>3 DEF HeadingOf
  <2>5. QED
    BY <1>1, <2>1, <2>4 DEF Recorded
<1>6. ASSUME NEW r \in Refs(t), Name(r) \in D, At(t, r).kind \in Linkable PROVE r \in L
  <2> DEFINE task == Name(r)
  <2>1. task.ref = r /\ task.write = "name" /\ InRange(t, r)
    BY RefsFacts DEF Name
  <2>2. r \in LinkOf(t, task)
    BY <1>6, <2>1 DEF LinkOf
  <2>3. QED
    BY <1>1, <1>6, <2>2 DEF Recorded
<1> DEFINE M == Mentioned(t, Elements(t) \cup Bodies(t))
           N == {r \in Refs(t) : Name(r) \in D \/ r \in M}
           K == {r \in Refs(t) : Section(r, TRUE) \in D \/ Section(r, FALSE) \in D}
<1>7. \A r \in K : ToSet(Parts(t, r)) \subseteq D
  BY <1>3
<1>8. \A r \in Refs(t) : At(t, r).kind \in Functions \cup {"ResourceType"} => r \in K
  BY <1>1 DEF Recorded, OnPage
<1>9. AllNamed(t, W, N, K)
  <2>1. /\ Elements(t) \cup Bodies(t) \subseteq M
        /\ \A r, q \in Refs(t) :
             r \in M /\ At(t, r).kind \in Composed /\ q \in ToSet(At(t, r).refs) => q \in M
    BY MentionedFacts
  <2>2. Elements(t) \cup Bodies(t) \subseteq Refs(t)
    BY DEF Elements, Bodies, Successors, ElementLinks, BodyLinks
  <2>3. ASSUME NEW q \in Bodies(t) PROVE q \in K
    <3>1. PICK r \in Refs(t) : At(t, r).kind = "ResourceType" /\ q \in ToSet(At(t, r).refs)
      BY DEF Bodies, Successors, BodyLinks
    <3>2. ToSet(Parts(t, r)) = {Section(p, FALSE) : p \in ToSet(At(t, r).refs)}
                                 \cup {Signature(p) : p \in ToSet(At(t, r).functions)}
      BY <3>1, PartsFacts
    <3>3. Section(q, FALSE) \in ToSet(Parts(t, r))
      BY <3>1, <3>2
    <3>4. QED
      BY <1>7, <1>8, <2>2, <3>1, <3>3
  <2>4. ASSUME NEW r \in K, At(t, r).kind \in Functions \cup Linkable
        PROVE  /\ ToSet(At(t, r).refs) \cap Refs(t) \subseteq N
               /\ ToSet(At(t, r).elements) \cap Refs(t) \subseteq K
    <3>1. /\ \A q \in ToSet(At(t, r).refs) : Name(q) \in ToSet(Parts(t, r))
          /\ \A q \in ToSet(At(t, r).elements) : Section(q, TRUE) \in ToSet(Parts(t, r))
      <4>1. ToSet(Parts(t, r)) = {Name(q) : q \in ToSet(At(t, r).refs)}
                                   \cup {Section(q, TRUE) : q \in ToSet(At(t, r).elements)}
        BY <2>4, PartsFacts
      <4>2. QED
        BY <4>1
    <3>2. QED
      BY <1>7, <3>1
  <2>5. \A r \in N : At(t, r).kind \in Composed => ToSet(At(t, r).refs) \cap Refs(t) \subseteq N
    BY <1>4, <2>1
  <2>6. \A r \in W : r \in K
    BY <1>1, <1>2 DEF Recorded, OnPage
  <2>7. N \subseteq Refs(t) /\ K \subseteq Refs(t) /\ Elements(t) \cup Bodies(t) \subseteq N
    BY <2>1, <2>2
  <2> HIDE DEF N, K
  <2>8. \A r \in Refs(t) : At(t, r).kind \in Functions => ToSet(At(t, r).refs) \cap Refs(t) \subseteq N
    BY <1>8, <2>4
  <2>9. \A r \in K : At(t, r).kind \in Linkable =>
          /\ ToSet(At(t, r).refs) \cap Refs(t) \subseteq N
          /\ ToSet(At(t, r).elements) \cap Refs(t) \subseteq K
    BY <2>4
  <2>10. QED
    BY <2>3, <2>5, <2>6, <2>7, <2>8, <2>9 DEF AllNamed
<1>10. W \subseteq N
  <2>1. N \in SUBSET Refs(t) /\ K \in SUBSET Refs(t)
    OBVIOUS
  <2> HIDE DEF N, K
  <2>2. QED
    BY <1>9, <2>1 DEF WillBeNamed
<1>11. L \subseteq H \cup NotWalked(t)
  BY <1>1, <1>5
<1>12. ASSUME NEW r \in H, At(t, r).kind \in Linkable PROVE r \in L \cup M
  <2>1. CASE r \in W
    BY <1>6, <1>10, <1>12, <2>1
  <2>2. CASE r \in Elements(t)
    BY <2>2, MentionedFacts
  <2>3. QED
    BY <1>1, <1>12, <2>1, <2>2
<1>13. QED
  BY <1>11, <1>12 DEF Closed

-----------------------------------------------------------------------------
(* The two writers.                                                        *)

(* Both define the page alike.                                             *)
LEMMA SameDefinitions ==
  /\ \A t, r : Go!InRange(t, r) = InRange(t, r) /\ Go!At(t, r) = At(t, r)
  /\ Go!Linkable = Linkable /\ Go!Composed = Composed /\ Go!Functions = Functions
  /\ \A t, r : Go!Steps(t, r) = Steps(t, r) /\ Go!Parts(t, r) = Parts(t, r)
  /\ \A t, s, listed : Go!StepsOf(t, s, listed) = StepsOf(t, s, listed)
  /\ \A s : Go!Names(s) = Names(s) /\ \A header : Go!Sections(s, header) = Sections(s, header)
  /\ \A t, task : Go!HasHeading(t, task) = HasHeading(t, task)
  /\ \A t, kind : Go!RefsOfKind(t, kind) = RefsOfKind(t, kind)
  /\ \A S, T : Go!Bijection(S, T) = Bijection(S, T)
  /\ \A S : Go!Cardinality(S) = Cardinality(S)
  /\ \A s : Go!ToSet(s) = ToSet(s)
  /\ \A t, h, l : Go!Closed(t, h, l) = Closed(t, h, l)
  /\ \A t, r : Ts!InRange(t, r) = InRange(t, r) /\ Ts!At(t, r) = At(t, r)
  /\ Ts!Linkable = Linkable /\ Ts!Composed = Composed /\ Ts!Functions = Functions
  /\ \A t, r : Ts!Steps(t, r) = Steps(t, r) /\ Ts!Parts(t, r) = Parts(t, r)
  /\ \A t, s, listed : Ts!StepsOf(t, s, listed) = StepsOf(t, s, listed)
  /\ \A s : Ts!Names(s) = Names(s) /\ \A header : Ts!Sections(s, header) = Sections(s, header)
  /\ \A t, task : Ts!HasHeading(t, task) = HasHeading(t, task)
  /\ \A t, kind : Ts!RefsOfKind(t, kind) = RefsOfKind(t, kind)
  /\ \A S, T : Ts!Bijection(S, T) = Bijection(S, T)
  /\ \A S : Ts!Cardinality(S) = Cardinality(S)
  /\ \A s : Ts!ToSet(s) = ToSet(s)
  /\ \A t, h, l : Ts!Closed(t, h, l) = Closed(t, h, l)
<1>1. /\ \A t, r : Go!InRange(t, r) = InRange(t, r) /\ Go!At(t, r) = At(t, r)
      /\ \A t, r : Ts!InRange(t, r) = InRange(t, r) /\ Ts!At(t, r) = At(t, r)
      /\ Go!Linkable = Linkable /\ Go!Composed = Composed /\ Go!Functions = Functions
      /\ Ts!Linkable = Linkable /\ Ts!Composed = Composed /\ Ts!Functions = Functions
  BY DEF Go!InRange, Ts!InRange, InRange, Go!At, Ts!At, At, Go!Linkable, Ts!Linkable,
         Linkable, Go!Composed, Ts!Composed, Composed, Go!Functions, Ts!Functions, Functions
<1>2. /\ \A s, listed : Go!AllSteps(s, listed) = AllSteps(s, listed)
      /\ \A s, listed : Ts!AllSteps(s, listed) = AllSteps(s, listed)
  BY DEF Go!AllSteps, Ts!AllSteps, AllSteps, Go!Step, Ts!Step, Step
<1>3. /\ \A ss : Go!FlattenSeq(ss) = FlattenSeq(ss)
      /\ \A ss : Ts!FlattenSeq(ss) = FlattenSeq(ss)
  BY DEF Go!FlattenSeq, Ts!FlattenSeq, FlattenSeq
<1>4. /\ \A t, r : Go!Steps(t, r) = Steps(t, r)
      /\ \A t, r : Ts!Steps(t, r) = Steps(t, r)
  BY <1>1, <1>2 DEF Go!Steps, Ts!Steps, Steps
<1>5. /\ \A t, s, listed : Go!StepsOf(t, s, listed) = StepsOf(t, s, listed)
      /\ \A t, s, listed : Ts!StepsOf(t, s, listed) = StepsOf(t, s, listed)
  BY <1>1, <1>2, <1>3 DEF Go!StepsOf, Ts!StepsOf, StepsOf
<1>6. /\ \A s : Go!Names(s) = Names(s) /\ \A header : Go!Sections(s, header) = Sections(s, header)
      /\ \A s : Ts!Names(s) = Names(s) /\ \A header : Ts!Sections(s, header) = Sections(s, header)
  BY DEF Go!Names, Ts!Names, Names, Go!Name, Ts!Name, Name, Go!Sections, Ts!Sections,
         Sections, Go!Section, Ts!Section, Section
<1>7. /\ \A r : Go!Signature(r) = Signature(r)
      /\ \A r : Ts!Signature(r) = Signature(r)
  BY DEF Go!Signature, Ts!Signature, Signature
<1>8. /\ \A t, r : Go!Parts(t, r) = Parts(t, r)
      /\ \A t, r : Ts!Parts(t, r) = Parts(t, r)
  BY <1>1, <1>6, <1>7 DEF Go!Parts, Ts!Parts, Parts
<1>9. /\ \A t, task : Go!HasHeading(t, task) = HasHeading(t, task)
      /\ \A t, task : Ts!HasHeading(t, task) = HasHeading(t, task)
  BY <1>1 DEF Go!HasHeading, Ts!HasHeading, HasHeading
<1>10. /\ \A t, kind : Go!RefsOfKind(t, kind) = RefsOfKind(t, kind)
       /\ \A t, kind : Ts!RefsOfKind(t, kind) = RefsOfKind(t, kind)
  BY <1>1 DEF Go!RefsOfKind, Ts!RefsOfKind, RefsOfKind, Go!Refs, Ts!Refs, Refs
<1>11. /\ \A S, T : Go!Bijection(S, T) = Bijection(S, T)
       /\ \A S, T : Ts!Bijection(S, T) = Bijection(S, T)
  BY DEF Go!Bijection, Ts!Bijection, Bijection, Go!Injection, Ts!Injection, Injection,
         Go!Surjection, Ts!Surjection, Surjection, Go!IsInjective, Ts!IsInjective,
         IsInjective
<1>12. /\ \A s : Go!ToSet(s) = ToSet(s)
       /\ \A s : Ts!ToSet(s) = ToSet(s)
  BY DEF Go!ToSet, Ts!ToSet, ToSet
<1>13. /\ \A t : Go!Refs(t) = Refs(t)
       /\ \A t : Ts!Refs(t) = Refs(t)
       /\ \A l, S : Go!Successors(l, S) = Successors(l, S)
       /\ \A l, S : Ts!Successors(l, S) = Successors(l, S)
  BY DEF Go!Refs, Ts!Refs, Refs, Go!Successors, Ts!Successors, Successors
<1>14. /\ \A l, S : Go!Reachable(l, S) = Reachable(l, S)
       /\ \A l, S : Ts!Reachable(l, S) = Reachable(l, S)
  BY <1>13 DEF Go!Reachable, Ts!Reachable, Reachable
<1>15. /\ \A t : Go!NameLinks(t) = NameLinks(t)
       /\ \A t : Ts!NameLinks(t) = NameLinks(t)
       /\ \A t : Go!ElementLinks(t) = ElementLinks(t)
       /\ \A t : Ts!ElementLinks(t) = ElementLinks(t)
       /\ \A t : Go!BodyLinks(t) = BodyLinks(t)
       /\ \A t : Ts!BodyLinks(t) = BodyLinks(t)
  BY <1>1, <1>12, <1>13 DEF Go!NameLinks, Ts!NameLinks, NameLinks, Go!ElementLinks,
                            Ts!ElementLinks, ElementLinks, Go!BodyLinks, Ts!BodyLinks,
                            BodyLinks
<1>16. /\ \A t, S : Go!Mentioned(t, S) = Mentioned(t, S)
       /\ \A t, S : Ts!Mentioned(t, S) = Mentioned(t, S)
  BY <1>14, <1>15 DEF Go!Mentioned, Ts!Mentioned, Mentioned
<1>17. /\ \A t : Go!NotWalked(t) = NotWalked(t)
       /\ \A t : Ts!NotWalked(t) = NotWalked(t)
  BY <1>1, <1>12, <1>13, <1>16 DEF Go!NotWalked, Ts!NotWalked, NotWalked
<1>18. /\ \A t : Go!Elements(t) = Elements(t)
       /\ \A t : Ts!Elements(t) = Elements(t)
       /\ \A t : Go!Bodies(t) = Bodies(t)
       /\ \A t : Ts!Bodies(t) = Bodies(t)
  BY <1>13, <1>15 DEF Go!Elements, Ts!Elements, Elements, Go!Bodies, Ts!Bodies, Bodies
<1>19. /\ \A t, h, l : Go!Closed(t, h, l) = Closed(t, h, l)
       /\ \A t, h, l : Ts!Closed(t, h, l) = Closed(t, h, l)
  BY <1>1, <1>12, <1>16, <1>17, <1>18 DEF Go!Closed, Ts!Closed, Closed
<1>20. /\ \A S : Go!Cardinality(S) = Cardinality(S)
       /\ \A S : Ts!Cardinality(S) = Cardinality(S)
  BY DEF Go!Cardinality, Ts!Cardinality, Cardinality
<1>21. QED
  BY <1>1, <1>4, <1>5, <1>6, <1>8, <1>9, <1>10, <1>11, <1>12, <1>19, <1>20

(* All types of a kind, in an order.                                       *)
LEMMA KindInOrder ==
  ASSUME NEW t \in Table, NEW kind,
         NEW s \in Bijection(1..Cardinality(RefsOfKind(t, kind)), RefsOfKind(t, kind))
  PROVE  s \in Seq(Refs(t)) /\ ToSet(s) = RefsOfKind(t, kind)
<1> DEFINE S == RefsOfKind(t, kind)
<1>1. S \subseteq Refs(t)
  BY DEF RefsOfKind
<1>2. IsFiniteSet(S)
  BY <1>1, RefsFacts
<1> HIDE DEF S
<1>3. s \in Seq(S) /\ ToSet(s) = S
  BY <1>2, OrderedSet DEF S
<1>4. s \in Seq(Refs(t))
  BY <1>1, <1>3
<1>5. QED
  BY <1>3, <1>4 DEF S

(* Those that are listed, in an order.                                     *)
LEMMA ListedInOrder ==
  ASSUME NEW t \in Table, NEW list \in Seq(Refs(t)),
         NEW s \in Bijection(1..Cardinality(ToSet(list)), ToSet(list))
  PROVE  s \in Seq(Refs(t)) /\ ToSet(s) = ToSet(list)
<1> DEFINE S == ToSet(list)
<1>1. S \subseteq Refs(t)
  BY InSet
<1>2. IsFiniteSet(S)
  BY <1>1, RefsFacts
<1> HIDE DEF S
<1>3. s \in Seq(S) /\ ToSet(s) = S
  BY <1>2, OrderedSet DEF S
<1>4. s \in Seq(Refs(t))
  BY <1>1, <1>3
<1>5. QED
  BY <1>3, <1>4 DEF S

(* In whatever order each writer lists them: all resources, ...            *)
IsResources(t, s) == s \in Seq(Refs(t)) /\ ToSet(s) = RefsOfKind(t, "ResourceType")

(* ... and all functions.                                                  *)
IsFunctions(t, s) ==
  /\ s \in Seq(Refs(t))
  /\ ToSet(s) = RefsOfKind(t, "ResourceFunctionType") \cup RefsOfKind(t, "NamespaceFunctionType")

(* Resource functions come first.                                          *)
LEMMA FunctionsInOrder ==
  ASSUME NEW t \in Table,
         NEW r \in Seq(Refs(t)), ToSet(r) = RefsOfKind(t, "ResourceFunctionType"),
         NEW n \in Seq(Refs(t)), ToSet(n) = RefsOfKind(t, "NamespaceFunctionType")
  PROVE  IsFunctions(t, r \o n)
BY ConcatSet DEF IsFunctions

(* Resources and functions of the writer of Go.                            *)
LEMMA GoInOrder ==
  ASSUME NEW t \in Table
  PROVE  /\ \A s \in Go!ResourceTypes(t) : IsResources(t, s)
         /\ \A s \in Go!FunctionTypes(t) : IsFunctions(t, s)
<1>1. ASSUME NEW kind, NEW s \in Go!ByName(t, Go!RefsOfKind(t, kind))
      PROVE  s \in Seq(Refs(t)) /\ ToSet(s) = RefsOfKind(t, kind)
  <2>1. s \in Bijection(1..Cardinality(RefsOfKind(t, kind)), RefsOfKind(t, kind))
    BY SameDefinitions DEF Go!ByName, Go!SortedRefs, Go!Orderings
  <2>2. QED
    BY <2>1, KindInOrder
<1>2. ASSUME NEW kind, NEW s \in Go!AsListed(t, Go!RefsOfKind(t, kind))
      PROVE  s \in Seq(Refs(t)) /\ ToSet(s) = RefsOfKind(t, kind)
  <2>1. s \in Bijection(1..Cardinality(RefsOfKind(t, kind)), RefsOfKind(t, kind))
    BY SameDefinitions DEF Go!AsListed, Go!SortedRefs, Go!Orderings
  <2>2. QED
    BY <2>1, KindInOrder
<1>3. ASSUME NEW s \in Go!ResourceTypes(t) PROVE IsResources(t, s)
  BY <1>1 DEF Go!ResourceTypes, IsResources
<1>4. ASSUME NEW s \in Go!FunctionTypes(t) PROVE IsFunctions(t, s)
  <2>1. PICK r \in Go!ByName(t, Go!RefsOfKind(t, "ResourceFunctionType")),
             n \in Go!AsListed(t, Go!RefsOfKind(t, "NamespaceFunctionType")) :
          s = r \o n
    BY DEF Go!FunctionTypes
  <2>2. /\ r \in Seq(Refs(t)) /\ ToSet(r) = RefsOfKind(t, "ResourceFunctionType")
        /\ n \in Seq(Refs(t)) /\ ToSet(n) = RefsOfKind(t, "NamespaceFunctionType")
    BY <1>1, <1>2
  <2>3. QED
    BY <2>1, <2>2, FunctionsInOrder
<1>5. QED
  BY <1>3, <1>4

(* And of that of TypeScript.                                              *)
LEMMA TsInOrder ==
  ASSUME NEW t \in Table
  PROVE  /\ \A s \in Ts!ResourceTypes(t) : IsResources(t, s)
         /\ \A s \in Ts!FunctionTypes(t) : IsFunctions(t, s)
<1>1. ASSUME NEW kind, NEW s \in Ts!ByBaseName(t, kind) \cup Ts!ByName(t, kind)
      PROVE  s \in Seq(Refs(t)) /\ ToSet(s) = RefsOfKind(t, kind)
  <2>1. s \in Bijection(1..Cardinality(RefsOfKind(t, kind)), RefsOfKind(t, kind))
    BY SameDefinitions DEF Ts!ByBaseName, Ts!ByName, Ts!SortedRefs, Ts!Orderings
  <2>2. QED
    BY <2>1, KindInOrder
<1>2. ASSUME NEW s \in Ts!ResourceTypes(t) PROVE IsResources(t, s)
  BY <1>1 DEF Ts!ResourceTypes, IsResources
<1>3. ASSUME NEW s \in Ts!FunctionTypes(t) PROVE IsFunctions(t, s)
  <2>1. PICK r \in Ts!ByBaseName(t, "ResourceFunctionType"),
             n \in Ts!ByName(t, "NamespaceFunctionType") : s = r \o n
    BY DEF Ts!FunctionTypes
  <2>2. /\ r \in Seq(Refs(t)) /\ ToSet(r) = RefsOfKind(t, "ResourceFunctionType")
        /\ n \in Seq(Refs(t)) /\ ToSet(n) = RefsOfKind(t, "NamespaceFunctionType")
    BY <1>1, <2>1
  <2>3. QED
    BY <2>1, <2>2, FunctionsInOrder
<1>4. QED
  BY <1>2, <1>3

(* Then both start from the same steps.                                    *)
LEMMA RootFacts ==
  ASSUME NEW t \in Table, NEW resources, NEW functions,
         IsResources(t, resources), IsFunctions(t, functions)
  PROVE  /\ StepsOfRoots(t, resources, functions) \in Seq(StepTask)
         /\ ToSet(StepsOfRoots(t, resources, functions)) = RootSteps(t)
<1> DEFINE s1 == StepsOf(t, resources, FALSE)
           s2 == StepsOf(t, functions, TRUE)
<1>1. /\ s1 \in Seq(StepTask)
      /\ \A x : x \in ToSet(s1) <=>
           \E r \in ToSet(resources) : \E q \in ToSet(At(t, r).refs) : x = Step(q, FALSE)
  BY StepsOfFacts DEF IsResources
<1>2. /\ s2 \in Seq(StepTask)
      /\ \A x : x \in ToSet(s2) <=>
           \E r \in ToSet(functions) : \E q \in ToSet(At(t, r).refs) : x = Step(q, TRUE)
  BY StepsOfFacts DEF IsFunctions
<1> HIDE DEF s1, s2
<1>3. s1 \o s2 \in Seq(StepTask) /\ ToSet(s1 \o s2) = ToSet(s1) \cup ToSet(s2)
  BY <1>1, <1>2, ConcatSet
<1>4. ASSUME NEW x \in ToSet(s1) PROVE x \in RootSteps(t)
  <2>1. PICK r \in ToSet(resources) : \E q \in ToSet(At(t, r).refs) : x = Step(q, FALSE)
    BY <1>1
  <2>2. r \in Refs(t) /\ At(t, r).kind = "ResourceType" /\ x.ref \in ToSet(At(t, r).refs)
          /\ x.listed = FALSE
    BY <2>1 DEF IsResources, RefsOfKind, Step
  <2>3. x \in StepTask
    BY <1>1, InSet
  <2>4. QED
    BY <2>2, <2>3 DEF RootSteps
<1>5. ASSUME NEW x \in ToSet(s2) PROVE x \in RootSteps(t)
  <2>1. PICK r \in ToSet(functions) : \E q \in ToSet(At(t, r).refs) : x = Step(q, TRUE)
    BY <1>2
  <2>2. r \in Refs(t) /\ At(t, r).kind \in Functions /\ x.ref \in ToSet(At(t, r).refs)
          /\ x.listed = TRUE
    BY <2>1 DEF IsFunctions, RefsOfKind, Step, Functions
  <2>3. x \in StepTask
    BY <1>2, InSet
  <2>4. QED
    BY <2>2, <2>3 DEF RootSteps
<1>6. ASSUME NEW x \in RootSteps(t) PROVE x \in ToSet(s1) \cup ToSet(s2)
  <2>1. PICK r \in Refs(t) : /\ x.ref \in ToSet(At(t, r).refs)
                             /\ At(t, r).kind \in (IF x.listed THEN Functions ELSE {"ResourceType"})
    BY DEF RootSteps
  <2>2. x = Step(x.ref, x.listed) /\ x.listed \in BOOLEAN
    BY DEF RootSteps, StepTask, Step
  <2>3. CASE x.listed = TRUE
    <3>1. r \in ToSet(functions)
      BY <2>1, <2>3 DEF IsFunctions, RefsOfKind, Functions
    <3>2. QED
      BY <1>2, <2>1, <2>2, <2>3, <3>1
  <2>4. CASE x.listed = FALSE
    <3>1. r \in ToSet(resources)
      BY <2>1, <2>4 DEF IsResources, RefsOfKind
    <3>2. QED
      BY <1>1, <2>1, <2>2, <2>4, <3>1
  <2>5. QED
    BY <2>2, <2>3, <2>4
<1>7. QED
  BY <1>3, <1>4, <1>5, <1>6 DEF s1, s2, StepsOfRoots

(* And both write sections of the same types.                              *)
LEMMA CombinedFacts ==
  ASSUME NEW t \in Table, NEW resources, NEW functions, NEW list \in Seq(Refs(t)),
         NEW others \in Seq(Refs(t)), ToSet(others) = ToSet(list),
         IsResources(t, resources), IsFunctions(t, functions)
  PROVE  /\ Sections(resources \o functions \o others, TRUE) \in Seq(WriteTask)
         /\ ToSet(Sections(resources \o functions \o others, TRUE)) = OnPage(t, ToSet(list))
<1> DEFINE front == resources \o functions
           all == resources \o functions \o others
<1>1. front \in Seq(Refs(t)) /\ ToSet(front) = ToSet(resources) \cup ToSet(functions)
  BY ConcatSet DEF IsResources, IsFunctions
<1> HIDE DEF front
<1>2. front \o others \in Seq(Refs(t)) /\ ToSet(front \o others) = ToSet(front) \cup ToSet(others)
  BY <1>1, ConcatSet
<1>3. all \in Seq(Refs(t)) /\ ToSet(all) = ToSet(resources) \cup ToSet(functions) \cup ToSet(list)
  BY <1>1, <1>2 DEF front
<1> HIDE DEF all
<1>4. all \in Seq(Nat)
  BY <1>3, RefsFacts
<1>5. ToSet(resources) \cup ToSet(functions)
        = {q \in Refs(t) : At(t, q).kind \in Functions \cup {"ResourceType"}}
  BY DEF IsResources, IsFunctions, RefsOfKind, Functions
<1>6. /\ Sections(all, TRUE) \in Seq(WriteTask)
      /\ ToSet(Sections(all, TRUE)) = {Section(r, TRUE) : r \in ToSet(all)}
  BY <1>4, SectionsFacts
<1>7. ToSet(all) = ToSet(list) \cup {q \in Refs(t) : At(t, q).kind \in Functions \cup {"ResourceType"}}
  BY <1>3, <1>5
<1>8. QED
  BY <1>6, <1>7 DEF OnPage, all

-----------------------------------------------------------------------------
(* What holds of a run in its two phases, and of the page in the end.      *)

CollectInv(t, rs, st, seen, list) ==
  /\ st \in Seq(Seq(StepTask)) /\ rs \in Seq(StepTask)
  /\ Collected(t, seen, ToSet(list), Pending(st) \cup ToSet(rs))
  /\ Justified(t, ToSet(list), Pending(st) \cup ToSet(rs))

WriteInv(t, st, list, h, L) ==
  /\ st \in Seq(Seq(WriteTask)) /\ h \in Seq(Refs(t))
  /\ L \subseteq Refs(t) /\ \A r \in L : At(t, r).kind \in Linkable
  /\ Justified(t, ToSet(list), {})
  /\ Written(t, ToSet(list), Pending(st), ToSet(h), L)

WriterInv(t, rs, st, seen, list, h, L, p) ==
  /\ list \in Seq(Refs(t))
  /\ p = "collect" => CollectInv(t, rs, st, seen, list) /\ h = <<>> /\ L = {}
  /\ p = "write" => WriteInv(t, st, list, h, L)
  /\ p = "done" => Closed(t, h, L) /\ Settled(t, ToSet(list))

(* No frames, nothing pending.                                             *)
LEMMA NothingPending == Pending(<<>>) = {} /\ \A T : <<>> \in Seq(T) /\ ToSet(<<>>) = {}
BY DEF Pending, ToSet

(* One frame.                                                              *)
LEMMA OnePending ==
  ASSUME NEW T, NEW frame \in Seq(T)
  PROVE  <<frame>> \in Seq(Seq(T)) /\ Pending(<<frame>>) = ToSet(frame)
<1>1. <<frame>> \in Seq(Seq(T)) /\ Len(<<frame>>) = 1 /\ <<frame>>[1] = frame
  OBVIOUS
<1>2. 1..1 = {1}
  OBVIOUS
<1>3. QED
  BY <1>1, <1>2 DEF Pending

(* A writer begins with the steps from the roots.                          *)
LEMMA InvBegins ==
  ASSUME NEW t \in Table, NEW rs \in Seq(StepTask), ToSet(rs) = RootSteps(t)
  PROVE  WriterInv(t, rs, <<>>, {}, <<>>, <<>>, {}, "collect")
<1>1. /\ Pending(<<>>) \cup ToSet(rs) = RootSteps(t) /\ ToSet(<<>>) = {}
      /\ <<>> \in Seq(Seq(StepTask)) /\ <<>> \in Seq(Refs(t))
  BY NothingPending
<1>2. CollectInv(t, rs, <<>>, {}, <<>>)
  BY <1>1, NothingCollected DEF CollectInv
<1>3. QED
  BY <1>1, <1>2 DEF WriterInv

(* A call that is done returns.                                            *)
LEMMA InvReturns ==
  ASSUME NEW t, NEW rs, NEW st, NEW seen, NEW list, NEW h, NEW L, NEW p \in {"collect", "write"},
         WriterInv(t, rs, st, seen, list, h, L, p), st # <<>>, Head(st) = <<>>
  PROVE  WriterInv(t, rs, Tail(st), seen, list, h, L, p)
<1>1. CASE p = "collect"
  <2>1. CollectInv(t, rs, st, seen, list) /\ h = <<>> /\ L = {} /\ list \in Seq(Refs(t))
    BY <1>1 DEF WriterInv
  <2>2. Tail(st) \in Seq(Seq(StepTask)) /\ Pending(st) = Pending(Tail(st))
    BY <2>1, ReturnFacts DEF CollectInv
  <2>3. CollectInv(t, rs, Tail(st), seen, list)
    BY <2>1, <2>2 DEF CollectInv
  <2>4. QED
    BY <1>1, <2>1, <2>3 DEF WriterInv
<1>2. CASE p = "write"
  <2>1. WriteInv(t, st, list, h, L) /\ list \in Seq(Refs(t))
    BY <1>2 DEF WriterInv
  <2>2. Tail(st) \in Seq(Seq(WriteTask)) /\ Pending(st) = Pending(Tail(st))
    BY <2>1, ReturnFacts DEF WriteInv
  <2>3. WriteInv(t, Tail(st), list, h, L)
    BY <2>1, <2>2 DEF WriteInv
  <2>4. QED
    BY <1>2, <2>1, <2>3 DEF WriterInv
<1>3. QED
  BY <1>1, <1>2

(* A writer that gives up leaves no page.                                  *)
LEMMA InvStops ==
  ASSUME NEW t, NEW rs, NEW st, NEW seen, NEW list, NEW h, NEW L, NEW p,
         WriterInv(t, rs, st, seen, list, h, L, p), NEW q \in {"failed", "overflow"}
  PROVE  WriterInv(t, rs, st, seen, list, h, L, q)
BY DEF WriterInv

(* One that has written all there is leaves a page that is closed.         *)
LEMMA InvFinishes ==
  ASSUME NEW t \in Table, NEW rs, NEW seen, NEW list, NEW h, NEW L,
         WriterInv(t, rs, <<>>, seen, list, h, L, "write")
  PROVE  WriterInv(t, rs, <<>>, seen, list, h, L, "done")
<1>1. WriteInv(t, <<>>, list, h, L) /\ list \in Seq(Refs(t))
  BY DEF WriterInv
<1>2. Written(t, ToSet(list), {}, ToSet(h), L)
  BY <1>1, NothingPending DEF WriteInv
<1>3. Closed(t, h, L)
  BY <1>1, <1>2, NothingLeft DEF WriteInv, Justified
<1>4. Settled(t, ToSet(list))
  BY <1>1, <1>2 DEF WriteInv, Justified, Written, Settled
<1>5. QED
  BY <1>1, <1>3, <1>4 DEF WriterInv

(* The page is started when nothing is left to collect.                    *)
LEMMA InvStartsPage ==
  ASSUME NEW t \in Table, NEW seen, NEW list, NEW h, NEW L,
         WriterInv(t, <<>>, <<>>, seen, list, h, L, "collect"),
         NEW frame \in Seq(WriteTask), ToSet(frame) = OnPage(t, ToSet(list))
  PROVE  WriterInv(t, <<>>, <<frame>>, seen, list, h, L, "write")
<1>1. CollectInv(t, <<>>, <<>>, seen, list) /\ h = <<>> /\ L = {} /\ list \in Seq(Refs(t))
  BY DEF WriterInv
<1>2. Pending(<<>>) \cup ToSet(<<>>) = {} /\ h \in Seq(Refs(t)) /\ ToSet(h) = {}
  BY <1>1, NothingPending
<1>3. Collected(t, seen, ToSet(list), {}) /\ Justified(t, ToSet(list), {})
  BY <1>1, <1>2 DEF CollectInv
<1>4. Written(t, ToSet(list), OnPage(t, ToSet(list)), {}, {})
  BY <1>3, NothingWritten
<1>5. <<frame>> \in Seq(Seq(WriteTask)) /\ Pending(<<frame>>) = OnPage(t, ToSet(list))
  BY OnePending
<1>6. WriteInv(t, <<frame>>, list, h, L)
  BY <1>1, <1>2, <1>3, <1>4, <1>5 DEF WriteInv
<1>7. QED
  BY <1>1, <1>6 DEF WriterInv

(* list2 is the list after the step s.                                     *)
ListedBy(t, list, s, list2) ==
  /\ list2 \in Seq(Refs(t))
  /\ ToSet(list2) = IF s.listed THEN ToSet(list) \cup {s.ref} ELSE ToSet(list)

(* A type is listed at the end, if at all.                                 *)
LEMMA Listing ==
  ASSUME NEW t \in Table, NEW list \in Seq(Refs(t)), NEW s \in StepTask, InRange(t, s.ref)
  PROVE  /\ ListedBy(t, list, s, IF s.listed THEN Append(list, s.ref) ELSE list)
         /\ ListedBy(t, list, s, IF s.listed /\ s.ref \notin ToSet(list)
                                THEN Append(list, s.ref) ELSE list)
         /\ s.ref \in ToSet(list) => ListedBy(t, list, s, list)
<1>1. s.ref \in Refs(t)
  BY RefsFacts DEF StepTask
<1>2. /\ Append(list, s.ref) \in Seq(Refs(t))
      /\ ToSet(Append(list, s.ref)) = ToSet(list) \cup {s.ref}
  BY <1>1, AppendSet
<1>3. QED
  BY <1>2 DEF ListedBy

(* A root is walked from, ...                                              *)
LEMMA InvWalksRoot ==
  ASSUME NEW t \in Table, NEW rs, rs # <<>>, NEW seen, NEW list, NEW h, NEW L,
         WriterInv(t, rs, <<>>, seen, list, h, L, "collect"), InRange(t, Head(rs).ref),
         NEW seen2, seen2 \subseteq {Head(rs).ref}, NEW list2, ListedBy(t, list, Head(rs), list2)
  PROVE  WriterInv(t, Tail(rs), <<Steps(t, Head(rs).ref)>>, seen2, list2, h, L, "collect")
<1> DEFINE s == Head(rs)
           rest == ToSet(Tail(rs))
           W2 == ToSet(list2)
<1>1. CollectInv(t, rs, <<>>, seen, list) /\ h = <<>> /\ L = {}
  BY DEF WriterInv
<1>2. s \in StepTask /\ Tail(rs) \in Seq(StepTask) /\ ToSet(rs) = {s} \cup rest
  BY <1>1, HeadAndTail DEF CollectInv
<1>3. Pending(<<>>) \cup ToSet(rs) = {s} \cup rest
  BY <1>2, NothingPending
<1>4. s.ref \in Refs(t)
  BY <1>2, RefsFacts DEF StepTask
<1>5. Collected(t, seen, ToSet(list), {s} \cup rest) /\ Justified(t, ToSet(list), {s} \cup rest)
  BY <1>1, <1>3 DEF CollectInv
<1>6. list2 \in Seq(Refs(t)) /\ W2 = IF s.listed THEN ToSet(list) \cup {s.ref} ELSE ToSet(list)
  BY DEF ListedBy
<1> HIDE DEF s, rest, W2
<1>7. /\ Collected(t, seen \cup {s.ref}, W2, ToSet(Steps(t, s.ref)) \cup rest)
      /\ Justified(t, W2, ToSet(Steps(t, s.ref)) \cup rest)
  BY <1>2, <1>5, <1>6, WalkOn DEF s
<1>8. Collected(t, seen2, W2, ToSet(Steps(t, s.ref)) \cup rest)
  BY <1>7 DEF Collected, s
<1>9. Steps(t, s.ref) \in Seq(StepTask)
  BY <1>4, StepsFacts
<1>10. /\ <<Steps(t, s.ref)>> \in Seq(Seq(StepTask))
       /\ Pending(<<Steps(t, s.ref)>>) = ToSet(Steps(t, s.ref))
  BY <1>9, OnePending
<1>11. CollectInv(t, Tail(rs), <<Steps(t, s.ref)>>, seen2, list2)
  BY <1>2, <1>7, <1>8, <1>10 DEF CollectInv, rest, W2
<1>12. QED
  BY <1>1, <1>6, <1>11 DEF WriterInv, s

(* ... or passed over.                                                     *)
LEMMA InvPassesRoot ==
  ASSUME NEW t \in Table, NEW rs, rs # <<>>, NEW seen, NEW list, NEW h, NEW L,
         WriterInv(t, rs, <<>>, seen, list, h, L, "collect"), ~InRange(t, Head(rs).ref)
  PROVE  WriterInv(t, Tail(rs), <<>>, seen, list, h, L, "collect")
<1> DEFINE s == Head(rs)
           rest == ToSet(Tail(rs))
<1>1. CollectInv(t, rs, <<>>, seen, list) /\ h = <<>> /\ L = {} /\ list \in Seq(Refs(t))
  BY DEF WriterInv
<1>2. Tail(rs) \in Seq(StepTask) /\ ToSet(rs) = {s} \cup rest
  BY <1>1, HeadAndTail DEF CollectInv
<1>3. Pending(<<>>) \cup ToSet(rs) = {s} \cup rest /\ Pending(<<>>) \cup rest = rest
  BY <1>2, NothingPending
<1>4. Collected(t, seen, ToSet(list), {s} \cup rest) /\ Justified(t, ToSet(list), {s} \cup rest)
  BY <1>1, <1>3 DEF CollectInv
<1> HIDE DEF s, rest
<1>5. Collected(t, seen, ToSet(list), rest) /\ Justified(t, ToSet(list), rest)
  BY <1>4, PassOver DEF s
<1>6. CollectInv(t, Tail(rs), <<>>, seen, list)
  BY <1>1, <1>2, <1>3, <1>5 DEF CollectInv, rest
<1>7. QED
  BY <1>1, <1>6 DEF WriterInv

(* The next step of a stack, and the stack without it.                     *)
NextOf(st) == Head(Head(st))

Without(st) == <<Tail(Head(st))>> \o Tail(st)

(* A step out of range is passed over, ...                                 *)
LEMMA InvPasses ==
  ASSUME NEW t \in Table, NEW rs, NEW st, st # <<>>, Head(st) # <<>>, NEW seen, NEW list, NEW h, NEW L,
         WriterInv(t, rs, st, seen, list, h, L, "collect"), ~InRange(t, NextOf(st).ref)
  PROVE  WriterInv(t, rs, Without(st), seen, list, h, L, "collect")
<1> DEFINE s == NextOf(st)
           rest == Pending(Without(st)) \cup ToSet(rs)
<1>1. CollectInv(t, rs, st, seen, list) /\ h = <<>> /\ L = {} /\ list \in Seq(Refs(t))
  BY DEF WriterInv
<1>2. Without(st) \in Seq(Seq(StepTask)) /\ Pending(st) = {s} \cup Pending(Without(st))
  BY <1>1, ContinueFacts DEF CollectInv, NextOf, Without
<1>3. Pending(st) \cup ToSet(rs) = {s} \cup rest
  BY <1>2
<1>4. Collected(t, seen, ToSet(list), {s} \cup rest) /\ Justified(t, ToSet(list), {s} \cup rest)
  BY <1>1, <1>3 DEF CollectInv
<1> HIDE DEF s, rest
<1>5. Collected(t, seen, ToSet(list), rest) /\ Justified(t, ToSet(list), rest)
  BY <1>4, PassOver DEF s
<1>6. CollectInv(t, rs, Without(st), seen, list)
  BY <1>1, <1>2, <1>5 DEF CollectInv, rest
<1>7. QED
  BY <1>1, <1>6 DEF WriterInv

(* ... one to a type that was walked from is not taken any further, ...    *)
LEMMA InvLists ==
  ASSUME NEW t \in Table, NEW rs, NEW st, st # <<>>, Head(st) # <<>>, NEW seen, NEW list, NEW h, NEW L,
         WriterInv(t, rs, st, seen, list, h, L, "collect"), InRange(t, NextOf(st).ref),
         NextOf(st).ref \in seen \cup ToSet(list),
         NEW list2, ListedBy(t, list, NextOf(st), list2)
  PROVE  WriterInv(t, rs, Without(st), seen, list2, h, L, "collect")
<1> DEFINE s == NextOf(st)
           rest == Pending(Without(st)) \cup ToSet(rs)
           W2 == ToSet(list2)
<1>1. CollectInv(t, rs, st, seen, list) /\ h = <<>> /\ L = {}
  BY DEF WriterInv
<1>2. Without(st) \in Seq(Seq(StepTask)) /\ Pending(st) = {s} \cup Pending(Without(st))
  BY <1>1, ContinueFacts DEF CollectInv, NextOf, Without
<1>3. Pending(st) \cup ToSet(rs) = {s} \cup rest
  BY <1>2
<1>4. Collected(t, seen, ToSet(list), {s} \cup rest) /\ Justified(t, ToSet(list), {s} \cup rest)
  BY <1>1, <1>3 DEF CollectInv
<1>5. list2 \in Seq(Refs(t)) /\ W2 = IF s.listed THEN ToSet(list) \cup {s.ref} ELSE ToSet(list)
  BY DEF ListedBy
<1> HIDE DEF s, rest, W2
<1>6. Collected(t, seen, W2, rest) /\ Justified(t, W2, rest)
  BY <1>4, <1>5, ListOnly DEF s
<1>7. CollectInv(t, rs, Without(st), seen, list2)
  BY <1>1, <1>2, <1>6 DEF CollectInv, rest, W2
<1>8. QED
  BY <1>1, <1>5, <1>7 DEF WriterInv

(* ... and any other is.                                                   *)
LEMMA InvWalksOn ==
  ASSUME NEW t \in Table, NEW rs, NEW st, st # <<>>, Head(st) # <<>>, NEW seen, NEW list, NEW h, NEW L,
         WriterInv(t, rs, st, seen, list, h, L, "collect"), InRange(t, NextOf(st).ref),
         NEW seen2, seen2 \subseteq seen \cup {NextOf(st).ref},
         NEW list2, ListedBy(t, list, NextOf(st), list2)
  PROVE  WriterInv(t, rs, <<Steps(t, NextOf(st).ref)>> \o Without(st), seen2, list2, h, L, "collect")
<1> DEFINE s == NextOf(st)
           rest == Pending(Without(st)) \cup ToSet(rs)
           W2 == ToSet(list2)
           frame == Steps(t, s.ref)
<1>1. CollectInv(t, rs, st, seen, list) /\ h = <<>> /\ L = {}
  BY DEF WriterInv
<1>2. /\ s \in StepTask /\ Without(st) \in Seq(Seq(StepTask))
      /\ Pending(st) = {s} \cup Pending(Without(st))
  BY <1>1, ContinueFacts DEF CollectInv, NextOf, Without
<1>3. Pending(st) \cup ToSet(rs) = {s} \cup rest
  BY <1>2
<1>4. Collected(t, seen, ToSet(list), {s} \cup rest) /\ Justified(t, ToSet(list), {s} \cup rest)
  BY <1>1, <1>3 DEF CollectInv
<1>5. list2 \in Seq(Refs(t)) /\ W2 = IF s.listed THEN ToSet(list) \cup {s.ref} ELSE ToSet(list)
  BY DEF ListedBy
<1>6. frame \in Seq(StepTask)
  <2>1. s.ref \in Refs(t)
    BY <1>2, RefsFacts DEF StepTask
  <2>2. QED
    BY <2>1, StepsFacts
<1> HIDE DEF s, rest, W2
<1>7. /\ Collected(t, seen \cup {s.ref}, W2, ToSet(frame) \cup rest)
      /\ Justified(t, W2, ToSet(frame) \cup rest)
  BY <1>2, <1>4, <1>5, WalkOn DEF s
<1> HIDE DEF frame
<1>8. Collected(t, seen2, W2, ToSet(frame) \cup rest)
  BY <1>7 DEF Collected, s
<1>9. /\ <<frame>> \o Without(st) \in Seq(Seq(StepTask))
      /\ Pending(<<frame>> \o Without(st)) = ToSet(frame) \cup Pending(Without(st))
  BY <1>2, <1>6, CallFacts
<1>10. Pending(<<frame>> \o Without(st)) \cup ToSet(rs) = ToSet(frame) \cup rest
  BY <1>9 DEF rest
<1>11. CollectInv(t, rs, <<frame>> \o Without(st), seen2, list2)
  BY <1>1, <1>7, <1>8, <1>9, <1>10 DEF CollectInv, W2
<1>12. QED
  BY <1>1, <1>5, <1>11 DEF WriterInv, s, frame

(* A part of the page is written.                                          *)
LEMMA InvWrites ==
  ASSUME NEW t \in Table, NEW rs, NEW st, st # <<>>, Head(st) # <<>>, NEW seen, NEW list, NEW h, NEW L,
         WriterInv(t, rs, st, seen, list, h, L, "write"),
         NEW st2,
         \/ LeftOf(t, NextOf(st)) = {} /\ st2 = Without(st)
         \/ \E frame \in Seq(WriteTask) :
              ToSet(frame) = LeftOf(t, NextOf(st)) /\ st2 = <<frame>> \o Without(st),
         NEW h2,
         \/ HeadingOf(t, NextOf(st)) = {} /\ h2 = h
         \/ HeadingOf(t, NextOf(st)) = {NextOf(st).ref} /\ h2 = Append(h, NextOf(st).ref),
         NEW L2, L2 = L \cup LinkOf(t, NextOf(st))
  PROVE  WriterInv(t, rs, st2, seen, list, h2, L2, "write")
<1> DEFINE task == NextOf(st)
           rest == Pending(Without(st))
<1>1. WriteInv(t, st, list, h, L) /\ list \in Seq(Refs(t))
  BY DEF WriterInv
<1>2. /\ task \in WriteTask /\ Without(st) \in Seq(Seq(WriteTask))
      /\ Pending(st) = {task} \cup rest
  BY <1>1, ContinueFacts DEF WriteInv, NextOf, Without
<1> HIDE DEF task, rest
<1>3. Written(t, ToSet(list), LeftOf(t, task) \cup rest, ToSet(h) \cup HeadingOf(t, task), L2)
  BY <1>1, <1>2, WriteOn DEF WriteInv, task
<1>4. st2 \in Seq(Seq(WriteTask)) /\ Pending(st2) = LeftOf(t, task) \cup rest
  <2>1. CASE LeftOf(t, task) = {} /\ st2 = Without(st)
    BY <1>2, <2>1 DEF rest
  <2>2. ASSUME NEW frame \in Seq(WriteTask), ToSet(frame) = LeftOf(t, task),
               st2 = <<frame>> \o Without(st)
        PROVE  st2 \in Seq(Seq(WriteTask)) /\ Pending(st2) = LeftOf(t, task) \cup rest
    BY <1>2, <2>2, CallFacts DEF rest
  <2>3. QED
    BY <2>1, <2>2 DEF task
<1>5. h2 \in Seq(Refs(t)) /\ ToSet(h2) = ToSet(h) \cup HeadingOf(t, task)
  <2>1. h \in Seq(Refs(t))
    BY <1>1 DEF WriteInv
  <2>2. CASE HeadingOf(t, task) = {} /\ h2 = h
    BY <2>1, <2>2
  <2>3. CASE HeadingOf(t, task) = {task.ref} /\ h2 = Append(h, task.ref)
    <3>1. InRange(t, task.ref)
      BY <2>3 DEF HeadingOf
    <3>2. task.ref \in Refs(t)
      BY <1>2, <3>1, RefsFacts DEF WriteTask
    <3>3. QED
      BY <2>1, <2>3, <3>2, AppendSet
  <2>4. QED
    BY <2>2, <2>3 DEF task
<1>6. L2 \subseteq Refs(t) /\ \A r \in L2 : At(t, r).kind \in Linkable
  <2>1. ASSUME NEW r \in LinkOf(t, task) PROVE r \in Refs(t) /\ At(t, r).kind \in Linkable
    <3>1. r = task.ref /\ InRange(t, r) /\ At(t, r).kind \in Linkable
      BY DEF LinkOf
    <3>2. QED
      BY <1>2, <3>1, RefsFacts DEF WriteTask
  <2>2. QED
    BY <1>1, <2>1 DEF WriteInv, task
<1>7. WriteInv(t, st2, list, h2, L2)
  BY <1>1, <1>3, <1>4, <1>5, <1>6 DEF WriteInv
<1>8. QED
  BY <1>1, <1>7 DEF WriterInv

-----------------------------------------------------------------------------
GoInv == WriterInv(types, goRoots, goStack, goVisited, goTypesToWrite, goHeadings, goLinks, goPhase)

TsInv == WriterInv(types, tsRoots, tsStack, {}, tsTypesToWrite, tsHeadings, tsLinks, tsPhase)

Inv == types \in Table /\ GoInv /\ TsInv

(* The stacks of both writers.                                             *)
LEMMA StackFacts ==
  /\ Go!Next1 = NextOf(goStack) /\ Go!Continue = Without(goStack)
  /\ \A frame : Go!Call(frame) = <<frame>> \o Without(goStack)
  /\ Ts!Next1 = NextOf(tsStack) /\ Ts!Continue = Without(tsStack)
  /\ \A frame : Ts!Call(frame) = <<frame>> \o Without(tsStack)
BY DEF Go!Next1, Go!Continue, Go!Call, Ts!Next1, Ts!Continue, Ts!Call, NextOf, Without

(* Both have collected nothing at first.                                   *)
LEMMA InvInit ==
  ASSUME Init
  PROVE  Inv
<1>1. types \in Table
  BY InputAssumption DEF Init
<1>2. GoInv
  <2>1. PICK resources \in Go!ResourceTypes(types), functions \in Go!FunctionTypes(types) :
          goRoots = StepsOfRoots(types, resources, functions)
    <3>1. goRoots \in Go!Roots(types)
      BY DEF Init, Go!Begin, Go!Start
    <3>2. PICK resources \in Go!ResourceTypes(types), functions \in Go!FunctionTypes(types) :
            goRoots = Go!StepsOfRoots(types, resources, functions)
      BY <3>1 DEF Go!Roots
    <3>3. QED
      BY <3>2, SameDefinitions DEF Go!StepsOfRoots, StepsOfRoots
  <2>2. goRoots \in Seq(StepTask) /\ ToSet(goRoots) = RootSteps(types)
    BY <1>1, <2>1, GoInOrder, RootFacts
  <2>3. /\ goStack = <<>> /\ goVisited = {} /\ goTypesToWrite = <<>>
        /\ goHeadings = <<>> /\ goLinks = {} /\ goPhase = "collect"
    BY DEF Init, Go!Begin, Go!Start
  <2>4. QED
    BY <1>1, <2>2, <2>3, InvBegins DEF GoInv
<1>3. TsInv
  <2>1. PICK resources \in Ts!ResourceTypes(types), functions \in Ts!FunctionTypes(types) :
          tsRoots = StepsOfRoots(types, resources, functions)
    <3>1. tsRoots \in Ts!Roots(types)
      BY DEF Init, Ts!Begin, Ts!Start
    <3>2. PICK resources \in Ts!ResourceTypes(types), functions \in Ts!FunctionTypes(types) :
            tsRoots = Ts!StepsOfRoots(types, resources, functions)
      BY <3>1 DEF Ts!Roots
    <3>3. QED
      BY <3>2, SameDefinitions DEF Ts!StepsOfRoots, StepsOfRoots
  <2>2. tsRoots \in Seq(StepTask) /\ ToSet(tsRoots) = RootSteps(types)
    BY <1>1, <2>1, TsInOrder, RootFacts
  <2>3. /\ tsStack = <<>> /\ tsTypesToWrite = <<>>
        /\ tsHeadings = <<>> /\ tsLinks = {} /\ tsPhase = "collect"
    BY DEF Init, Ts!Begin, Ts!Start
  <2>4. QED
    BY <1>1, <2>2, <2>3, InvBegins DEF TsInv
<1>4. QED
  BY <1>1, <1>2, <1>3 DEF Inv

(* Every step of the writer of Go keeps its invariant: a root is taken, ...*)
LEMMA GoStartsRoot ==
  ASSUME types \in Table, GoInv, Go!StartRoot
  PROVE  types' = types /\ GoInv'
<1>1. /\ goPhase = "collect" /\ goStack = <<>> /\ goRoots # <<>> /\ goRoots' = Tail(goRoots)
      /\ types' = types /\ goHeadings' = goHeadings /\ goLinks' = goLinks /\ goPhase' = goPhase
  BY DEF Go!StartRoot, Go!Running, Go!page
<1>2. CASE InRange(types, Head(goRoots).ref)
  <2>1. /\ goTypesToWrite' = IF Head(goRoots).listed THEN Append(goTypesToWrite, Head(goRoots).ref)
                             ELSE goTypesToWrite
        /\ goVisited' = {Head(goRoots).ref}
        /\ goStack' = <<Steps(types, Head(goRoots).ref)>>
    BY <1>2, SameDefinitions DEF Go!StartRoot
  <2>2. Head(goRoots) \in StepTask /\ goTypesToWrite \in Seq(Refs(types))
    BY <1>1, HeadAndTail DEF GoInv, WriterInv, CollectInv
  <2>3. ListedBy(types, goTypesToWrite, Head(goRoots), goTypesToWrite')
    BY <1>2, <2>1, <2>2, Listing
  <2>4. QED
    BY <1>1, <1>2, <2>1, <2>3, InvWalksRoot DEF GoInv
<1>3. CASE ~InRange(types, Head(goRoots).ref)
  <2>1. goStack' = goStack /\ goVisited' = goVisited /\ goTypesToWrite' = goTypesToWrite
    BY <1>3, SameDefinitions DEF Go!StartRoot
  <2>2. QED
    BY <1>1, <1>3, <2>1, InvPassesRoot DEF GoInv
<1>4. QED
  BY <1>2, <1>3

(* ... a step of the walk, ...                                             *)
LEMMA GoVisits ==
  ASSUME types \in Table, GoInv, Go!Visit
  PROVE  types' = types /\ GoInv'
<1>1. /\ goPhase = "collect" /\ goStack # <<>> /\ Head(goStack) # <<>> /\ goRoots' = goRoots
      /\ types' = types /\ goHeadings' = goHeadings /\ goLinks' = goLinks /\ goPhase' = goPhase
  BY DEF Go!Visit, Go!Running, Go!HasNext, Go!page
<1> DEFINE s == NextOf(goStack)
<1>2. CASE InRange(types, s.ref)
  <2>1. /\ goTypesToWrite' = IF s.listed /\ s.ref \notin ToSet(goTypesToWrite)
                             THEN Append(goTypesToWrite, s.ref) ELSE goTypesToWrite
        /\ goVisited' = goVisited \cup {s.ref}
        /\ goStack' = IF s.ref \in goVisited THEN Without(goStack)
                      ELSE <<Steps(types, s.ref)>> \o Without(goStack)
    BY <1>2, SameDefinitions, StackFacts DEF Go!Visit
  <2>2. s \in StepTask /\ goTypesToWrite \in Seq(Refs(types))
    BY <1>1, ContinueFacts DEF GoInv, WriterInv, CollectInv, NextOf
  <2>3. ListedBy(types, goTypesToWrite, s, goTypesToWrite')
    BY <1>2, <2>1, <2>2, Listing
  <2>4. CASE s.ref \in goVisited
    <3>1. goVisited' = goVisited /\ goStack' = Without(goStack)
      BY <2>1, <2>4
    <3>2. QED
      BY <1>1, <1>2, <2>3, <2>4, <3>1, InvLists DEF GoInv
  <2>5. CASE s.ref \notin goVisited
    <3>1. goVisited' = goVisited \cup {s.ref} /\ goStack' = <<Steps(types, s.ref)>> \o Without(goStack)
      BY <2>1, <2>5
    <3>2. QED
      BY <1>1, <1>2, <2>3, <3>1, InvWalksOn DEF GoInv
  <2>6. QED
    BY <2>4, <2>5
<1>3. CASE ~InRange(types, s.ref)
  <2>1. goStack' = Without(goStack) /\ goVisited' = goVisited /\ goTypesToWrite' = goTypesToWrite
    BY <1>3, SameDefinitions, StackFacts DEF Go!Visit
  <2>2. QED
    BY <1>1, <1>3, <2>1, InvPasses DEF GoInv
<1>4. QED
  BY <1>2, <1>3

(* ... the start of the page, ...                                          *)
LEMMA GoStartsPage ==
  ASSUME types \in Table, GoInv, Go!StartPage
  PROVE  types' = types /\ GoInv'
<1>1. /\ goPhase = "collect" /\ goStack = <<>> /\ goRoots = <<>> /\ goRoots' = goRoots
      /\ types' = types /\ goHeadings' = goHeadings /\ goLinks' = goLinks /\ goPhase' = "write"
      /\ goVisited' = goVisited /\ goTypesToWrite' = goTypesToWrite
  BY DEF Go!StartPage, Go!StartWriting, Go!Running, Go!page
<1>2. PICK all \in Go!Combined : goStack' = <<Go!Sections(all, TRUE)>>
  BY DEF Go!StartPage, Go!StartWriting
<1>3. PICK resources \in Go!ResourceTypes(types), functions \in Go!FunctionTypes(types),
           others \in Go!SortedFirsts(goTypesToWrite, Go!TypeNameLess) :
        all = resources \o functions \o others
  BY DEF Go!Combined
<1>4. others \in Bijection(1..Cardinality(ToSet(goTypesToWrite)), ToSet(goTypesToWrite))
  BY <1>3, SameDefinitions DEF Go!SortedFirsts, Go!Orderings
<1>5. goTypesToWrite \in Seq(Refs(types))
  BY DEF GoInv, WriterInv
<1>6. others \in Seq(Refs(types)) /\ ToSet(others) = ToSet(goTypesToWrite)
  BY <1>4, <1>5, ListedInOrder
<1>7. IsResources(types, resources) /\ IsFunctions(types, functions)
  BY GoInOrder
<1>8. /\ Sections(all, TRUE) \in Seq(WriteTask)
      /\ ToSet(Sections(all, TRUE)) = OnPage(types, ToSet(goTypesToWrite))
  BY <1>3, <1>5, <1>6, <1>7, CombinedFacts
<1>9. goStack' = <<Sections(all, TRUE)>>
  BY <1>2, SameDefinitions
<1>10. QED
  BY <1>1, <1>8, <1>9, InvStartsPage DEF GoInv

(* ... the writing of a part, ...                                          *)
LEMMA GoWrites ==
  ASSUME types \in Table, GoInv, Go!WritePart
  PROVE  types' = types /\ GoInv'
<1> DEFINE task == NextOf(goStack)
<1>1. /\ goPhase = "write" /\ goStack # <<>> /\ Head(goStack) # <<>> /\ goRoots' = goRoots
      /\ types' = types /\ goPhase' = goPhase /\ goVisited' = goVisited
      /\ goTypesToWrite' = goTypesToWrite
  BY DEF Go!WritePart, Go!WriteSection, Go!WriteFunction, Go!WriteName, Go!Writing, Go!Running,
         Go!HasNext, Go!WriteOther, Go!WriteHeading, Go!WriteLink, Go!Write
<1>2. task \in WriteTask
  BY <1>1, ContinueFacts DEF GoInv, WriterInv, WriteInv, NextOf
<1> DEFINE Left == \/ LeftOf(types, task) = {} /\ goStack' = Without(goStack)
                   \/ \E frame \in Seq(WriteTask) :
                        ToSet(frame) = LeftOf(types, task) /\ goStack' = <<frame>> \o Without(goStack)
           Heads == \/ HeadingOf(types, task) = {} /\ goHeadings' = goHeadings
                    \/ /\ HeadingOf(types, task) = {task.ref}
                       /\ goHeadings' = Append(goHeadings, task.ref)
           Links == goLinks' = goLinks \cup LinkOf(types, task)
<1>3. ASSUME Left, Heads, Links PROVE GoInv'
  BY <1>1, <1>3, InvWrites DEF GoInv
<1> HIDE DEF task
<1>4. CASE Go!WriteSection
  <2>1. /\ task.write = "section"
        /\ IF ~InRange(types, task.ref) THEN Go!WriteOther(Without(goStack))
           ELSE IF HasHeading(types, task)
                THEN Go!WriteHeading(task.ref, <<Parts(types, task.ref)>> \o Without(goStack))
           ELSE Go!WriteOther(<<Parts(types, task.ref)>> \o Without(goStack))
    BY <1>4, SameDefinitions, StackFacts DEF Go!WriteSection, Go!Writing, task
  <2>2. LinkOf(types, task) = {}
    BY <2>1 DEF LinkOf
  <2>3. CASE ~InRange(types, task.ref)
    <3>1. LeftOf(types, task) = {} /\ HeadingOf(types, task) = {}
      BY <2>3 DEF LeftOf, HeadingOf
    <3>2. QED
      BY <1>3, <2>1, <2>2, <2>3, <3>1 DEF Go!WriteOther, Go!Write
  <2>4. CASE InRange(types, task.ref)
    <3>1. /\ Parts(types, task.ref) \in Seq(WriteTask)
          /\ ToSet(Parts(types, task.ref)) = LeftOf(types, task)
      <4>1. task.ref \in Refs(types)
        BY <1>2, <2>4, RefsFacts DEF WriteTask
      <4>2. QED
        BY <2>1, <2>4, <4>1, PartsFacts DEF LeftOf
    <3>2. CASE HasHeading(types, task)
      <4>1. HeadingOf(types, task) = {task.ref}
        BY <2>1, <2>4, <3>2 DEF HeadingOf
      <4>2. QED
        BY <1>3, <2>1, <2>2, <2>4, <3>1, <3>2, <4>1 DEF Go!WriteHeading, Go!Write
    <3>3. CASE ~HasHeading(types, task)
      <4>1. HeadingOf(types, task) = {}
        BY <3>3 DEF HeadingOf
      <4>2. QED
        BY <1>3, <2>1, <2>2, <2>4, <3>1, <3>3, <4>1 DEF Go!WriteOther, Go!Write
    <3>4. QED
      BY <3>2, <3>3
  <2>5. QED
    BY <1>1, <2>3, <2>4
<1>5. CASE Go!WriteFunction
  <2>1. /\ task.write = "function"
        /\ IF InRange(types, task.ref) /\ At(types, task.ref).kind = "FunctionType"
           THEN Go!WriteOther(<<Names(At(types, task.ref).refs)>> \o Without(goStack))
           ELSE Go!WriteOther(Without(goStack))
    BY <1>5, SameDefinitions, StackFacts DEF Go!WriteFunction, Go!Writing, task
  <2>2. LinkOf(types, task) = {} /\ HeadingOf(types, task) = {}
    BY <2>1 DEF LinkOf, HeadingOf
  <2>3. CASE InRange(types, task.ref) /\ At(types, task.ref).kind = "FunctionType"
    <3>1. /\ Names(At(types, task.ref).refs) \in Seq(WriteTask)
          /\ ToSet(Names(At(types, task.ref).refs)) = LeftOf(types, task)
      <4>1. task.ref \in Refs(types)
        BY <1>2, <2>3, RefsFacts DEF WriteTask
      <4>2. QED
        BY <2>1, <2>3, <4>1, AtFacts, NamesFacts DEF LeftOf
    <3>2. QED
      BY <1>3, <2>1, <2>2, <2>3, <3>1 DEF Go!WriteOther, Go!Write
  <2>4. CASE ~(InRange(types, task.ref) /\ At(types, task.ref).kind = "FunctionType")
    <3>1. LeftOf(types, task) = {}
      BY <2>1, <2>4 DEF LeftOf
    <3>2. QED
      BY <1>3, <2>1, <2>2, <2>4, <3>1 DEF Go!WriteOther, Go!Write
  <2>5. QED
    BY <1>1, <2>3, <2>4
<1>6. CASE Go!WriteName
  <2>1. /\ task.write = "name" /\ InRange(types, task.ref)
        /\ IF At(types, task.ref).kind \in Linkable
           THEN Go!WriteLink(task.ref, Without(goStack))
           ELSE IF At(types, task.ref).kind \in Composed
                THEN Go!WriteOther(<<Names(At(types, task.ref).refs)>> \o Without(goStack))
           ELSE Go!WriteOther(Without(goStack))
    BY <1>6, SameDefinitions, StackFacts DEF Go!WriteName, Go!Nameable, Go!Writing, task
  <2>2. HeadingOf(types, task) = {}
    BY <2>1 DEF HeadingOf
  <2>3. CASE At(types, task.ref).kind \in Linkable
    <3>1. LeftOf(types, task) = {} /\ LinkOf(types, task) = {task.ref}
      BY <2>1, <2>3 DEF LeftOf, LinkOf, Linkable, Composed
    <3>2. QED
      BY <1>3, <2>1, <2>2, <2>3, <3>1 DEF Go!WriteLink, Go!Write
  <2>4. CASE At(types, task.ref).kind \in Composed
    <3>1. At(types, task.ref).kind \notin Linkable
      BY <2>4 DEF Linkable, Composed
    <3>2. LinkOf(types, task) = {}
      BY <3>1 DEF LinkOf
    <3>3. /\ Names(At(types, task.ref).refs) \in Seq(WriteTask)
          /\ ToSet(Names(At(types, task.ref).refs)) = LeftOf(types, task)
      <4>1. task.ref \in Refs(types)
        BY <1>2, <2>1, RefsFacts DEF WriteTask
      <4>2. QED
        BY <2>1, <2>4, <4>1, AtFacts, NamesFacts DEF LeftOf
    <3>4. QED
      BY <1>3, <2>1, <2>2, <2>4, <3>1, <3>2, <3>3 DEF Go!WriteOther, Go!Write
  <2>5. CASE At(types, task.ref).kind \notin Linkable \cup Composed
    <3>1. LeftOf(types, task) = {} /\ LinkOf(types, task) = {}
      BY <2>1, <2>5 DEF LeftOf, LinkOf
    <3>2. QED
      BY <1>3, <2>1, <2>2, <2>5, <3>1 DEF Go!WriteOther, Go!Write
  <2>6. QED
    BY <1>1, <2>3, <2>4, <2>5
<1>7. QED
  BY <1>1, <1>4, <1>5, <1>6 DEF Go!WritePart

(* ... and the end of a call or of the run.                                *)
LEMMA GoEnds ==
  ASSUME types \in Table, GoInv, Go!End
  PROVE  types' = types /\ GoInv'
<1>1. /\ types' = types /\ goRoots' = goRoots /\ goVisited' = goVisited
      /\ goTypesToWrite' = goTypesToWrite /\ goHeadings' = goHeadings /\ goLinks' = goLinks
  BY DEF Go!End, Go!Return, Go!Finish, Go!Fail, Go!Give, Go!Overflow, Go!page
<1>2. CASE Go!Return
  <2>1. /\ goPhase \in {"collect", "write"} /\ goStack # <<>> /\ Head(goStack) = <<>>
        /\ goStack' = Tail(goStack) /\ goPhase' = goPhase
    BY <1>2 DEF Go!Return, Go!Running
  <2>2. QED
    BY <1>1, <2>1, InvReturns DEF GoInv
<1>3. CASE Go!Finish
  <2>1. goPhase = "write" /\ goPhase' = "done" /\ goStack = <<>> /\ goStack' = goStack
    BY <1>3 DEF Go!Finish, Go!Running
  <2>2. QED
    BY <1>1, <2>1, InvFinishes DEF GoInv
<1>4. CASE Go!Fail \/ Go!Overflow
  <2>1. goPhase' \in {"failed", "overflow"} /\ goStack' = goStack
    BY <1>4 DEF Go!Fail, Go!Give, Go!Overflow
  <2>2. QED
    BY <1>1, <2>1, InvStops DEF GoInv
<1>5. QED
  BY <1>1, <1>2, <1>3, <1>4 DEF Go!End

(* And every step of that of TypeScript: a root is taken, ...              *)
LEMMA TsStartsRoot ==
  ASSUME types \in Table, TsInv, Ts!StartRoot
  PROVE  types' = types /\ TsInv'
<1>1. /\ tsPhase = "collect" /\ tsStack = <<>> /\ tsRoots # <<>> /\ tsRoots' = Tail(tsRoots)
      /\ types' = types /\ tsHeadings' = tsHeadings /\ tsLinks' = tsLinks /\ tsPhase' = tsPhase
  BY DEF Ts!StartRoot, Ts!Running, Ts!page
<1>2. /\ InRange(types, Head(tsRoots).ref)
      /\ tsTypesToWrite' = IF Head(tsRoots).listed THEN Append(tsTypesToWrite, Head(tsRoots).ref)
                           ELSE tsTypesToWrite
      /\ tsStack' = <<Steps(types, Head(tsRoots).ref)>>
  BY SameDefinitions DEF Ts!StartRoot
<1>3. Head(tsRoots) \in StepTask /\ tsTypesToWrite \in Seq(Refs(types))
  BY <1>1, HeadAndTail DEF TsInv, WriterInv, CollectInv
<1>4. ListedBy(types, tsTypesToWrite, Head(tsRoots), tsTypesToWrite')
  BY <1>2, <1>3, Listing
<1>5. QED
  BY <1>1, <1>2, <1>4, InvWalksRoot DEF TsInv

(* ... a step of the walk, ...                                             *)
LEMMA TsVisits ==
  ASSUME types \in Table, TsInv, Ts!Visit
  PROVE  types' = types /\ TsInv'
<1>1. /\ tsPhase = "collect" /\ tsStack # <<>> /\ Head(tsStack) # <<>> /\ tsRoots' = tsRoots
      /\ types' = types /\ tsHeadings' = tsHeadings /\ tsLinks' = tsLinks /\ tsPhase' = tsPhase
  BY DEF Ts!Visit, Ts!Running, Ts!HasNext, Ts!page
<1> DEFINE s == NextOf(tsStack)
<1>2. s \in StepTask /\ tsTypesToWrite \in Seq(Refs(types))
  BY <1>1, ContinueFacts DEF TsInv, WriterInv, CollectInv, NextOf
<1>3. CASE s.ref \in ToSet(tsTypesToWrite)
  <2>1. tsStack' = Without(tsStack) /\ tsTypesToWrite' = tsTypesToWrite
    BY <1>3, SameDefinitions, StackFacts DEF Ts!Visit
  <2>2. InRange(types, s.ref)
    <3>1. s.ref \in Refs(types)
      BY <1>2, <1>3, InSet
    <3>2. QED
      BY <3>1, RefsFacts
  <2>3. ListedBy(types, tsTypesToWrite, s, tsTypesToWrite')
    BY <1>2, <1>3, <2>1, <2>2, Listing
  <2>4. QED
    BY <1>1, <1>3, <2>1, <2>2, <2>3, InvLists DEF TsInv
<1>4. CASE s.ref \notin ToSet(tsTypesToWrite)
  <2>1. /\ InRange(types, s.ref)
        /\ tsTypesToWrite' = IF s.listed THEN Append(tsTypesToWrite, s.ref) ELSE tsTypesToWrite
        /\ tsStack' = <<Steps(types, s.ref)>> \o Without(tsStack)
    BY <1>4, SameDefinitions, StackFacts DEF Ts!Visit
  <2>2. ListedBy(types, tsTypesToWrite, s, tsTypesToWrite')
    BY <1>2, <2>1, Listing
  <2>3. QED
    BY <1>1, <2>1, <2>2, InvWalksOn DEF TsInv
<1>5. QED
  BY <1>3, <1>4

(* ... the start of the page, ...                                          *)
LEMMA TsStartsPage ==
  ASSUME types \in Table, TsInv, Ts!StartPage
  PROVE  types' = types /\ TsInv'
<1>1. /\ tsPhase = "collect" /\ tsStack = <<>> /\ tsRoots = <<>> /\ tsRoots' = tsRoots
      /\ types' = types /\ tsHeadings' = tsHeadings /\ tsLinks' = tsLinks /\ tsPhase' = "write"
      /\ tsTypesToWrite' = tsTypesToWrite
  BY DEF Ts!StartPage, Ts!StartWriting, Ts!Running, Ts!page
<1>2. PICK all \in Ts!Combined : tsStack' = <<Ts!Sections(all, TRUE)>>
  BY DEF Ts!StartPage, Ts!StartWriting
<1>3. PICK resources \in Ts!ResourceTypes(types), functions \in Ts!FunctionTypes(types),
           others \in Ts!SortedFirsts(tsTypesToWrite, Ts!TypeNameLess) :
        all = resources \o functions \o others
  BY DEF Ts!Combined
<1>4. others \in Bijection(1..Cardinality(ToSet(tsTypesToWrite)), ToSet(tsTypesToWrite))
  BY <1>3, SameDefinitions DEF Ts!SortedFirsts, Ts!Orderings
<1>5. tsTypesToWrite \in Seq(Refs(types))
  BY DEF TsInv, WriterInv
<1>6. others \in Seq(Refs(types)) /\ ToSet(others) = ToSet(tsTypesToWrite)
  BY <1>4, <1>5, ListedInOrder
<1>7. IsResources(types, resources) /\ IsFunctions(types, functions)
  BY TsInOrder
<1>8. /\ Sections(all, TRUE) \in Seq(WriteTask)
      /\ ToSet(Sections(all, TRUE)) = OnPage(types, ToSet(tsTypesToWrite))
  BY <1>3, <1>5, <1>6, <1>7, CombinedFacts
<1>9. tsStack' = <<Sections(all, TRUE)>>
  BY <1>2, SameDefinitions
<1>10. QED
  BY <1>1, <1>8, <1>9, InvStartsPage DEF TsInv

(* ... the writing of a part, ...                                          *)
LEMMA TsWrites ==
  ASSUME types \in Table, TsInv, Ts!WritePart
  PROVE  types' = types /\ TsInv'
<1> DEFINE task == NextOf(tsStack)
<1>1. /\ tsPhase = "write" /\ tsStack # <<>> /\ Head(tsStack) # <<>> /\ tsRoots' = tsRoots
      /\ types' = types /\ tsPhase' = tsPhase
      /\ tsTypesToWrite' = tsTypesToWrite
  BY DEF Ts!WritePart, Ts!WriteSection, Ts!WriteFunction, Ts!WriteName, Ts!Writing, Ts!Running,
         Ts!HasNext, Ts!WriteOther, Ts!WriteHeading, Ts!WriteLink, Ts!Write
<1>2. task \in WriteTask
  BY <1>1, ContinueFacts DEF TsInv, WriterInv, WriteInv, NextOf
<1> DEFINE Left == \/ LeftOf(types, task) = {} /\ tsStack' = Without(tsStack)
                   \/ \E frame \in Seq(WriteTask) :
                        ToSet(frame) = LeftOf(types, task) /\ tsStack' = <<frame>> \o Without(tsStack)
           Heads == \/ HeadingOf(types, task) = {} /\ tsHeadings' = tsHeadings
                    \/ /\ HeadingOf(types, task) = {task.ref}
                       /\ tsHeadings' = Append(tsHeadings, task.ref)
           Links == tsLinks' = tsLinks \cup LinkOf(types, task)
<1>3. ASSUME Left, Heads, Links PROVE TsInv'
  BY <1>1, <1>3, InvWrites DEF TsInv
<1> HIDE DEF task
<1>4. CASE Ts!WriteSection
  <2>1. /\ task.write = "section" /\ InRange(types, task.ref)
        /\ IF HasHeading(types, task)
           THEN Ts!WriteHeading(task.ref, <<Parts(types, task.ref)>> \o Without(tsStack))
           ELSE Ts!WriteOther(<<Parts(types, task.ref)>> \o Without(tsStack))
    BY <1>4, SameDefinitions, StackFacts DEF Ts!WriteSection, Ts!Writing, task
  <2>2. LinkOf(types, task) = {}
    BY <2>1 DEF LinkOf
  <2>3. /\ Parts(types, task.ref) \in Seq(WriteTask)
        /\ ToSet(Parts(types, task.ref)) = LeftOf(types, task)
    <3>1. task.ref \in Refs(types)
      BY <1>2, <2>1, RefsFacts DEF WriteTask
    <3>2. QED
      BY <2>1, <3>1, PartsFacts DEF LeftOf
  <2>4. CASE HasHeading(types, task)
    <3>1. HeadingOf(types, task) = {task.ref}
      BY <2>1, <2>4 DEF HeadingOf
    <3>2. QED
      BY <1>1, <1>3, <2>1, <2>2, <2>3, <2>4, <3>1 DEF Ts!WriteHeading, Ts!Write
  <2>5. CASE ~HasHeading(types, task)
    <3>1. HeadingOf(types, task) = {}
      BY <2>5 DEF HeadingOf
    <3>2. QED
      BY <1>1, <1>3, <2>1, <2>2, <2>3, <2>5, <3>1 DEF Ts!WriteOther, Ts!Write
  <2>6. QED
    BY <2>4, <2>5
<1>5. CASE Ts!WriteFunction
  <2>1. /\ task.write = "function" /\ InRange(types, task.ref)
        /\ At(types, task.ref).kind = "FunctionType"
        /\ Ts!WriteOther(<<Names(At(types, task.ref).refs)>> \o Without(tsStack))
    BY <1>5, SameDefinitions, StackFacts DEF Ts!WriteFunction, Ts!Writing, task
  <2>2. LinkOf(types, task) = {} /\ HeadingOf(types, task) = {}
    BY <2>1 DEF LinkOf, HeadingOf
  <2>3. /\ Names(At(types, task.ref).refs) \in Seq(WriteTask)
        /\ ToSet(Names(At(types, task.ref).refs)) = LeftOf(types, task)
    <3>1. task.ref \in Refs(types)
      BY <1>2, <2>1, RefsFacts DEF WriteTask
    <3>2. QED
      BY <2>1, <3>1, AtFacts, NamesFacts DEF LeftOf
  <2>4. QED
    BY <1>1, <1>3, <2>1, <2>2, <2>3 DEF Ts!WriteOther, Ts!Write
<1>6. CASE Ts!WriteName
  <2>1. /\ task.write = "name" /\ InRange(types, task.ref)
        /\ IF At(types, task.ref).kind \in Linkable
           THEN Ts!WriteLink(task.ref, Without(tsStack))
           ELSE IF At(types, task.ref).kind \in Composed
                THEN Ts!WriteOther(<<Names(At(types, task.ref).refs)>> \o Without(tsStack))
           ELSE Ts!WriteOther(Without(tsStack))
    BY <1>6, SameDefinitions, StackFacts DEF Ts!WriteName, Ts!Nameable, Ts!Writing, task
  <2>2. HeadingOf(types, task) = {}
    BY <2>1 DEF HeadingOf
  <2>3. CASE At(types, task.ref).kind \in Linkable
    <3>1. LeftOf(types, task) = {} /\ LinkOf(types, task) = {task.ref}
      BY <2>1, <2>3 DEF LeftOf, LinkOf, Linkable, Composed
    <3>2. QED
      BY <1>3, <2>1, <2>2, <2>3, <3>1 DEF Ts!WriteLink, Ts!Write
  <2>4. CASE At(types, task.ref).kind \in Composed
    <3>1. At(types, task.ref).kind \notin Linkable
      BY <2>4 DEF Linkable, Composed
    <3>2. LinkOf(types, task) = {}
      BY <3>1 DEF LinkOf
    <3>3. /\ Names(At(types, task.ref).refs) \in Seq(WriteTask)
          /\ ToSet(Names(At(types, task.ref).refs)) = LeftOf(types, task)
      <4>1. task.ref \in Refs(types)
        BY <1>2, <2>1, RefsFacts DEF WriteTask
      <4>2. QED
        BY <2>1, <2>4, <4>1, AtFacts, NamesFacts DEF LeftOf
    <3>4. QED
      BY <1>3, <2>1, <2>2, <2>4, <3>1, <3>2, <3>3 DEF Ts!WriteOther, Ts!Write
  <2>5. CASE At(types, task.ref).kind \notin Linkable \cup Composed
    <3>1. LeftOf(types, task) = {} /\ LinkOf(types, task) = {}
      BY <2>1, <2>5 DEF LeftOf, LinkOf
    <3>2. QED
      BY <1>3, <2>1, <2>2, <2>5, <3>1 DEF Ts!WriteOther, Ts!Write
  <2>6. QED
    BY <1>1, <2>3, <2>4, <2>5
<1>7. QED
  BY <1>1, <1>4, <1>5, <1>6 DEF Ts!WritePart

(* ... and the end of a call or of the run.                                *)
LEMMA TsEnds ==
  ASSUME types \in Table, TsInv, Ts!End
  PROVE  types' = types /\ TsInv'
<1>1. /\ types' = types /\ tsRoots' = tsRoots
      /\ tsTypesToWrite' = tsTypesToWrite /\ tsHeadings' = tsHeadings /\ tsLinks' = tsLinks
  BY DEF Ts!End, Ts!Return, Ts!Finish, Ts!Throw, Ts!Give, Ts!Overflow, Ts!page
<1>2. CASE Ts!Return
  <2>1. /\ tsPhase \in {"collect", "write"} /\ tsStack # <<>> /\ Head(tsStack) = <<>>
        /\ tsStack' = Tail(tsStack) /\ tsPhase' = tsPhase
    BY <1>2 DEF Ts!Return, Ts!Running
  <2>2. QED
    BY <1>1, <2>1, InvReturns DEF TsInv
<1>3. CASE Ts!Finish
  <2>1. tsPhase = "write" /\ tsPhase' = "done" /\ tsStack = <<>> /\ tsStack' = tsStack
    BY <1>3 DEF Ts!Finish, Ts!Running
  <2>2. QED
    BY <1>1, <2>1, InvFinishes DEF TsInv
<1>4. CASE Ts!Throw \/ Ts!Overflow
  <2>1. tsPhase' \in {"failed", "overflow"} /\ tsStack' = tsStack
    BY <1>4 DEF Ts!Throw, Ts!Give, Ts!Overflow
  <2>2. QED
    BY <1>1, <2>1, InvStops DEF TsInv
<1>5. QED
  BY <1>1, <1>2, <1>3, <1>4 DEF Ts!End

-----------------------------------------------------------------------------
(* Steps of one writer do not touch the other.                             *)
LEMMA Invariance ==
  ASSUME Inv, [Next]_vars
  PROVE  Inv'
<1>1. ASSUME types' = types, UNCHANGED goVars PROVE GoInv'
  BY <1>1 DEF Inv, GoInv, goVars
<1>2. ASSUME types' = types, UNCHANGED tsVars PROVE TsInv'
  BY <1>2 DEF Inv, TsInv, tsVars
<1>3. CASE Ts!StartRoot /\ UNCHANGED goVars
  BY <1>1, <1>3, TsStartsRoot DEF Inv
<1>4. CASE Ts!Visit /\ UNCHANGED goVars
  BY <1>1, <1>4, TsVisits DEF Inv
<1>5. CASE Ts!StartPage /\ UNCHANGED goVars
  BY <1>1, <1>5, TsStartsPage DEF Inv
<1>6. CASE Ts!WritePart /\ UNCHANGED goVars
  BY <1>1, <1>6, TsWrites DEF Inv
<1>7. CASE Ts!End /\ UNCHANGED goVars
  BY <1>1, <1>7, TsEnds DEF Inv
<1>8. CASE Go!StartRoot /\ UNCHANGED tsVars
  BY <1>2, <1>8, GoStartsRoot DEF Inv
<1>9. CASE Go!Visit /\ UNCHANGED tsVars
  BY <1>2, <1>9, GoVisits DEF Inv
<1>10. CASE Go!StartPage /\ UNCHANGED tsVars
  BY <1>2, <1>10, GoStartsPage DEF Inv
<1>11. CASE Go!WritePart /\ UNCHANGED tsVars
  BY <1>2, <1>11, GoWrites DEF Inv
<1>12. CASE Go!End /\ UNCHANGED tsVars
  BY <1>2, <1>12, GoEnds DEF Inv
<1>13. CASE UNCHANGED vars
  <2>1. types' = types /\ UNCHANGED goVars /\ UNCHANGED tsVars
    BY <1>13 DEF vars
  <2>2. QED
    BY <1>1, <1>2, <2>1 DEF Inv
<1>14. QED
  BY <1>3, <1>4, <1>5, <1>6, <1>7, <1>8, <1>9, <1>10, <1>11, <1>12, <1>13 DEF Next

(* Whatever the table, on a page that either writer finishes every link    *)
(* leads to a heading, unless it is to a type only mentioned in a union or *)
(* a function of a resource; and every object with a heading is linked to, *)
(* or is or belongs to an element or a body.                               *)
THEOREM PagesClosed == Spec => []PagesAreClosed
<1>1. Init => Inv
  BY InvInit
<1>2. Inv /\ [Next]_vars => Inv'
  BY Invariance
<1>3. Inv => PagesAreClosed
  <2>1. ASSUME Inv PROVE Go!PageIsClosed
    BY <2>1, SameDefinitions DEF Inv, GoInv, WriterInv, Go!PageIsClosed
  <2>2. ASSUME Inv PROVE Ts!PageIsClosed
    BY <2>2, SameDefinitions DEF Inv, TsInv, WriterInv, Ts!PageIsClosed
  <2>3. QED
    BY <2>1, <2>2 DEF PagesAreClosed
<1>4. QED
  BY <1>1, <1>2, <1>3, PTL DEF Spec

-----------------------------------------------------------------------------
(* Both writers list the same types, in whatever order.                    *)

(* What is listed follows from the table alone.                            *)
LEMMA SameList ==
  ASSUME NEW t \in Table, NEW W1, NEW W2, Settled(t, W1), Settled(t, W2)
  PROVE  W1 = W2
<1>1. ASSUME NEW X, NEW Y, Settled(t, X), Settled(t, Y) PROVE X \subseteq Y
  <2>1. PICK V \in SUBSET Refs(t) : Walked(t, V, Y, {})
    BY <1>1 DEF Settled
  <2>2. Y \in SUBSET Refs(t) /\ Bounds(t, V, Y)
    BY <2>1 DEF Walked, Bounds
  <2>3. QED
    BY <1>1, <2>2 DEF Settled, Needed
<1>2. QED
  BY <1>1

(* Whether a table is ordered alike by both, and no two objects of it have *)
(* the same name.                                                          *)
Sorted(t, kinds, order) ==
  \A r, s \in Refs(t) :
    r < s /\ At(t, r).kind = At(t, s).kind /\ At(t, r).kind \in kinds =>
      <<At(t, s).name, At(t, r).name>> \notin order

Names2 == Nat \X Nat

ByVersion == {mn \in Names2 \X Names2 : VersionLess(mn[1], mn[2])}

ByNames == {mn \in Names2 \X Names2 : NameLess(mn[1], mn[2])}

Data(t) == {r \in Refs(t) : At(t, r).kind \notin Functions \cup {"ResourceType"}}

Alike(t) ==
  /\ Sorted(t, {"ResourceType", "ResourceFunctionType"}, ByVersion)
  /\ Sorted(t, {"NamespaceFunctionType"}, ByNames)
  /\ \A r \in Refs(t) : ToSet(At(t, r).refs) \cap Refs(t) \subseteq Data(t)
  /\ \A r, s \in Refs(t) :
       {At(t, r).kind, At(t, s).kind} \subseteq Linkable /\ At(t, r).name = At(t, s).name => r = s

LEMMA NameFacts ==
  ASSUME NEW t \in Table, NEW r \in Refs(t)
  PROVE  At(t, r).name \in Names2 /\ At(t, r).name[1] \in Nat /\ At(t, r).name[2] \in Nat
         /\ At(t, r).name = <<At(t, r).name[1], At(t, r).name[2]>>
<1> DEFINE Nodes == {node \in [kind : Kind, name : Nat \X Nat, refs : Seq(Nat),
                              elements : Seq(Nat), functions : Seq(Nat)] :
                      /\ node.kind # "DiscriminatedObjectType" => node.elements = <<>>
                      /\ node.kind # "ResourceType" => node.functions = <<>>}
<1>1. t \in Seq(Nodes)
  BY DEF Table
<1> HIDE DEF Nodes
<1>2. r + 1 \in 1..Len(t)
  BY <1>1 DEF Refs
<1>3. At(t, r) \in Nodes
  BY <1>1, <1>2 DEF At
<1>4. At(t, r).name \in Nat \X Nat
  BY <1>3 DEF Nodes
<1>5. QED
  BY <1>4 DEF Names2

LEMMA AlikeFacts ==
  ASSUME types \in Table, NamesDiffer, OrderedAlike
  PROVE  Alike(types)
<1>1. Sorted(types, {"ResourceType", "ResourceFunctionType"}, ByVersion)
  BY DEF OrderedAlike, InOrder, Sorted, ByVersion
<1>2. Sorted(types, {"NamespaceFunctionType"}, ByNames)
  BY DEF OrderedAlike, InOrder, Sorted, ByNames
<1>3. ASSUME NEW r \in Refs(types), NEW q \in ToSet(At(types, r).refs), q \in Refs(types)
      PROVE  q \in Data(types)
  BY <1>3, RefsFacts DEF OrderedAlike, DataOnly, Data
<1>4. QED
  BY <1>1, <1>2, <1>3 DEF Alike, NamesDiffer

(* Only data is listed.                                                    *)
LEMMA DataListed ==
  ASSUME NEW t \in Table, Alike(t), NEW W, Settled(t, W)
  PROVE  W \subseteq Data(t)
<1> DEFINE A == Refs(t)
           B == Data(t)
<1>1. ASSUME NEW r \in Refs(t), NEW s, s.ref \in ToSet(At(t, r).refs), InRange(t, s.ref)
      PROVE  Met(t, A, B, s)
  <2>1. s.ref \in Refs(t)
    <3>1. At(t, r).refs \in Seq(Nat)
      BY AtFacts
    <3>2. s.ref \in Nat
      BY <1>1, <3>1, InSet
    <3>3. QED
      BY <1>1, <3>2, RefsFacts
  <2>2. QED
    BY <1>1, <2>1 DEF Alike, Met
<1>2. ASSUME NEW s \in RootSteps(t) PROVE Met(t, A, B, s)
  BY <1>1 DEF RootSteps, Met
<1>3. ASSUME NEW r \in Refs(t), NEW s \in ToSet(Steps(t, r)) PROVE Met(t, A, B, s)
  <2>1. \/ s \in {Step(q, TRUE) : q \in ToSet(At(t, r).refs)}
        \/ s \in {Step(q, FALSE) : q \in ToSet(At(t, r).elements)}
    BY StepsFacts
  <2>2. CASE s \in {Step(q, TRUE) : q \in ToSet(At(t, r).refs)}
    <3>1. s.ref \in ToSet(At(t, r).refs)
      BY <2>2 DEF Step
    <3>2. QED
      BY <1>1, <3>1 DEF Met
  <2>3. CASE s \in {Step(q, FALSE) : q \in ToSet(At(t, r).elements)}
    <3>1. PICK q \in ToSet(At(t, r).elements) : s = Step(q, FALSE)
      BY <2>3
    <3>2. s.ref = q /\ s.listed = FALSE
      BY <3>1 DEF Step
    <3>3. q \in Nat
      BY AtFacts, InSet
    <3>4. QED
      BY <3>2, <3>3, RefsFacts DEF Met
  <2>4. QED
    BY <2>1, <2>2, <2>3
<1>4. B \in SUBSET Refs(t)
  BY DEF Data
<1>5. Bounds(t, A, B)
  BY <1>2, <1>3 DEF Bounds
<1>6. QED
  BY <1>4, <1>5 DEF Settled, Needed
-----------------------------------------------------------------------------
(* And both sort them alike.                                               *)

(* A sequence of all of S in the order of R.                               *)
Ascending(s, S, R) ==
  /\ s \in Seq(S) /\ ToSet(s) = S
  /\ \A i, j \in 1..Len(s) : i < j => <<s[i], s[j]>> \in R

(* There is only one.                                                      *)
LEMMA OneOrder ==
  ASSUME NEW S, NEW R, \A x, y \in S : <<x, y>> \in R => <<y, x>> \notin R,
         NEW s, NEW u, Ascending(s, S, R), Ascending(u, S, R)
  PROVE  s = u
<1>1. ASSUME NEW a, NEW b, Ascending(a, S, R), Ascending(b, S, R)
      PROVE  \A i \in 1..Len(a) : i \in 1..Len(b) /\ a[i] = b[i]
  <2> DEFINE Bad == {i \in 1..Len(a) : ~(i \in 1..Len(b) /\ a[i] = b[i])}
  <2>1. SUFFICES ASSUME Bad # {} PROVE FALSE
    OBVIOUS
  <2>2. /\ a \in Seq(S) /\ b \in Seq(S) /\ ToSet(a) = S /\ ToSet(b) = S
        /\ Len(a) \in Nat /\ Len(b) \in Nat
    BY <1>1 DEF Ascending
  <2>3. PICK m \in Bad : \A k \in Bad : m <= k
    <3>1. Bad \subseteq Nat
      BY <2>2
    <3> HIDE DEF Bad
    <3>2. QED
      BY <2>1, <3>1, LeastNat
  <2>4. m \in 1..Len(a) /\ ~(m \in 1..Len(b) /\ a[m] = b[m])
    OBVIOUS
  <2>5. \A k \in 1..Len(a) : k < m => k \in 1..Len(b) /\ a[k] = b[k]
    <3>1. ASSUME NEW k \in 1..Len(a), k < m PROVE k \notin Bad
      BY <2>2, <2>3, <2>4, <3>1
    <3>2. QED
      BY <3>1
  <2> HIDE DEF Bad
  <2>6. a[m] \in S /\ a[m] \in ToSet(b)
    <3>1. a[m] \in S
      BY <2>2, <2>4, InSet
    <3>2. QED
      BY <2>2, <3>1
  <2>7. PICK k \in 1..Len(b) : a[m] = b[k]
    <3>1. b \in Seq(S) /\ a[m] \in ToSet(b)
      BY <2>2, <2>6
    <3>2. QED
      BY <3>1, InSet
  <2>8. ~(k < m)
    <3>1. ASSUME k < m PROVE FALSE
      <4>1. k \in 1..Len(a)
        BY <2>2, <2>4, <3>1
      <4>2. a[k] = a[m]
        BY <2>5, <2>7, <3>1, <4>1
      <4>3. <<a[k], a[m]>> \in R
        BY <1>1, <2>4, <3>1, <4>1 DEF Ascending
      <4>4. QED
        BY <2>6, <4>2, <4>3
    <3>2. QED
      BY <3>1
  <2>9. m \in 1..Len(b) /\ m < k
    BY <2>2, <2>4, <2>7, <2>8
  <2>10. b[m] \in S /\ b[m] \in ToSet(a)
    <3>1. b[m] \in S
      BY <2>2, <2>9, InSet
    <3>2. QED
      BY <2>2, <3>1
  <2>11. PICK l \in 1..Len(a) : b[m] = a[l]
    <3>1. a \in Seq(S) /\ b[m] \in ToSet(a)
      BY <2>2, <2>10
    <3>2. QED
      BY <3>1, InSet
  <2>12. <<b[m], a[m]>> \in R
    BY <1>1, <2>7, <2>9 DEF Ascending
  <2>13. m < l
    <3>1. ASSUME l < m PROVE FALSE
      <4>1. <<a[l], a[m]>> \in R /\ a[l] = b[l]
        BY <1>1, <2>4, <2>5, <3>1 DEF Ascending
      <4>2. <<b[l], b[m]>> \in R
        BY <1>1, <2>5, <2>9, <3>1 DEF Ascending
      <4>3. QED
        BY <2>10, <2>11, <4>1, <4>2
    <3>2. l # m
      BY <2>4, <2>9, <2>11
    <3>3. QED
      BY <2>2, <2>4, <3>1, <3>2
  <2>14. <<a[m], b[m]>> \in R
    BY <1>1, <2>4, <2>11, <2>13 DEF Ascending
  <2>15. QED
    BY <2>6, <2>10, <2>12, <2>14
<1>2. Len(s) = Len(u) /\ \A i \in 1..Len(s) : s[i] = u[i]
  <2>1. /\ s \in Seq(S) /\ u \in Seq(S) /\ Len(s) \in Nat /\ Len(u) \in Nat
    BY DEF Ascending
  <2>2. \A i \in 1..Len(s) : i \in 1..Len(u) /\ s[i] = u[i]
    BY <1>1
  <2>3. \A i \in 1..Len(u) : i \in 1..Len(s)
    BY <1>1
  <2>4. Len(s) <= Len(u)
    <3>1. CASE Len(s) = 0
      BY <2>1, <3>1
    <3>2. CASE Len(s) # 0
      <4>1. Len(s) \in 1..Len(s)
        BY <2>1, <3>2
      <4>2. QED
        BY <2>1, <2>2, <4>1
    <3>3. QED
      BY <3>1, <3>2
  <2>5. Len(u) <= Len(s)
    <3>1. CASE Len(u) = 0
      BY <2>1, <3>1
    <3>2. CASE Len(u) # 0
      <4>1. Len(u) \in 1..Len(u)
        BY <2>1, <3>2
      <4>2. QED
        BY <2>1, <2>3, <4>1
    <3>3. QED
      BY <3>1, <3>2
  <2>6. QED
    BY <2>1, <2>2, <2>4, <2>5
<1>3. s \in Seq(S) /\ u \in Seq(S)
  BY DEF Ascending
<1>4. QED
  BY <1>2, <1>3, SeqEqual

(* By name, and where names are equal in the order of the table.           *)
NameOrder(t) ==
  {rs \in Refs(t) \X Refs(t) :
     \/ NameLess(At(t, rs[1]).name, At(t, rs[2]).name)
     \/ At(t, rs[1]).name = At(t, rs[2]).name /\ rs[1] < rs[2]}

TableOrder(t) == {rs \in Refs(t) \X Refs(t) : rs[1] < rs[2]}

LEMMA OrderFacts ==
  ASSUME NEW t \in Table
  PROVE  /\ \A r, s \in Refs(t) : <<r, s>> \in NameOrder(t) => <<s, r>> \notin NameOrder(t)
         /\ \A r, s \in Refs(t) : <<r, s>> \in TableOrder(t) => <<s, r>> \notin TableOrder(t)
<1>1. ASSUME NEW r \in Refs(t), NEW s \in Refs(t), <<r, s>> \in NameOrder(t)
      PROVE  <<s, r>> \notin NameOrder(t)
  <2>1. /\ At(t, r).name[1] \in Nat /\ At(t, r).name[2] \in Nat
        /\ At(t, s).name[1] \in Nat /\ At(t, s).name[2] \in Nat /\ r \in Nat /\ s \in Nat
    BY NameFacts, RefsFacts
  <2>2. QED
    BY <1>1, <2>1 DEF NameOrder, NameLess
<1>2. ASSUME NEW r \in Refs(t), NEW s \in Refs(t), <<r, s>> \in TableOrder(t)
      PROVE  <<s, r>> \notin TableOrder(t)
  BY <1>2, RefsFacts DEF TableOrder
<1>3. QED
  BY <1>1, <1>2

(* Names are ordered totally.                                              *)
LEMMA Comparable ==
  ASSUME NEW t \in Table, NEW r \in Refs(t), NEW s \in Refs(t)
  PROVE  \/ NameLess(At(t, r).name, At(t, s).name)
         \/ NameLess(At(t, s).name, At(t, r).name)
         \/ At(t, r).name = At(t, s).name
<1>1. /\ At(t, r).name[1] \in Nat /\ At(t, r).name[2] \in Nat
      /\ At(t, s).name[1] \in Nat /\ At(t, s).name[2] \in Nat
      /\ At(t, r).name = <<At(t, r).name[1], At(t, r).name[2]>>
      /\ At(t, s).name = <<At(t, s).name[1], At(t, s).name[2]>>
  BY NameFacts
<1>2. CASE At(t, r).name[1] = At(t, s).name[1] /\ At(t, r).name[2] = At(t, s).name[2]
  BY <1>1, <1>2
<1>3. CASE ~(At(t, r).name[1] = At(t, s).name[1] /\ At(t, r).name[2] = At(t, s).name[2])
  BY <1>1, <1>3 DEF NameLess
<1>4. QED
  BY <1>2, <1>3

(* Both compare names alike.                                               *)
LEMMA SameNames ==
  /\ \A m, n : Go!NameLess(m, n) = NameLess(m, n)
  /\ \A m, n : Ts!NameLess(m, n) = NameLess(m, n)
  /\ \A m, n : Ts!BaseLess(m, n) = BaseLess(m, n)
BY DEF Go!NameLess, Ts!NameLess, NameLess, Ts!BaseLess, BaseLess

(* A sort that keeps to an order.                                          *)
LEMMA Sorting ==
  ASSUME NEW t \in Table, NEW S \in SUBSET Refs(t), NEW s \in Bijection(1..Cardinality(S), S), NEW R,
         \A i, j \in 1..Cardinality(S) :
           i < j /\ s[i] \in S /\ s[j] \in S /\ s[i] # s[j] => <<s[i], s[j]>> \in R
  PROVE  Ascending(s, S, R)
<1>1. IsFiniteSet(S)
  BY RefsFacts
<1>2. s \in Seq(S) /\ ToSet(s) = S
  BY <1>1, OrderedSet
<1>3. Cardinality(S) \in Nat /\ s \in [1..Cardinality(S) -> S]
  BY <1>1, FS_CardinalityType DEF Bijection, Surjection
<1>4. Len(s) = Cardinality(S)
  BY <1>3
<1>5. ASSUME NEW i \in 1..Cardinality(S), NEW j \in 1..Cardinality(S), i < j PROVE s[i] # s[j]
  <2>1. i # j
    BY <1>3, <1>5
  <2>2. QED
    BY <2>1, <1>3 DEF Bijection, Injection, IsInjective
<1>6. \A i, j \in 1..Cardinality(S) : i < j => <<s[i], s[j]>> \in R
  BY <1>3, <1>5
<1>7. QED
  BY <1>2, <1>4, <1>6 DEF Ascending

(* Go sorts resources and resource functions by name, ...                  *)
LEMMA GoSortsByName ==
  ASSUME NEW t \in Table, NEW kind, NEW s \in Go!ByName(t, Go!RefsOfKind(t, kind))
  PROVE  Ascending(s, RefsOfKind(t, kind), NameOrder(t))
<1> DEFINE S == RefsOfKind(t, kind)
<1>1. /\ s \in Bijection(1..Cardinality(S), S)
      /\ \A i, j \in 1..Cardinality(S) : i < j =>
           \/ NameLess(At(t, s[i]).name, At(t, s[j]).name)
           \/ ~NameLess(At(t, s[j]).name, At(t, s[i]).name) /\ s[i] < s[j]
  BY SameDefinitions, SameNames DEF Go!ByName, Go!SortedRefs, Go!Orderings
<1>2. S \subseteq Refs(t)
  BY DEF RefsOfKind
<1> HIDE DEF S
<1>3. ASSUME NEW i \in 1..Cardinality(S), NEW j \in 1..Cardinality(S), i < j,
             s[i] \in S, s[j] \in S
      PROVE  <<s[i], s[j]>> \in NameOrder(t)
  <2>1. s[i] \in Refs(t) /\ s[j] \in Refs(t)
    BY <1>2, <1>3
  <2>2. \/ NameLess(At(t, s[i]).name, At(t, s[j]).name)
        \/ ~NameLess(At(t, s[j]).name, At(t, s[i]).name) /\ s[i] < s[j]
    BY <1>1, <1>3
  <2>3. QED
    BY <2>1, <2>2, Comparable DEF NameOrder
<1>4. QED
  BY <1>1, <1>2, <1>3, Sorting DEF S

(* ... TypeScript up to "@" only, which is the same if the table lists     *)
(* versions in order.                                                      *)
LEMMA TsSortsByBaseName ==
  ASSUME NEW t \in Table, Alike(t), NEW kind \in {"ResourceType", "ResourceFunctionType"},
         NEW s \in Ts!ByBaseName(t, kind)
  PROVE  Ascending(s, RefsOfKind(t, kind), NameOrder(t))
<1> DEFINE S == RefsOfKind(t, kind)
<1>1. /\ s \in Bijection(1..Cardinality(S), S)
      /\ \A i, j \in 1..Cardinality(S) : i < j =>
           \/ BaseLess(At(t, s[i]).name, At(t, s[j]).name)
           \/ ~BaseLess(At(t, s[j]).name, At(t, s[i]).name) /\ s[i] < s[j]
  BY SameDefinitions, SameNames DEF Ts!ByBaseName, Ts!SortedRefs, Ts!Orderings
<1>2. S \subseteq Refs(t) /\ \A r \in S : At(t, r).kind = kind
  BY DEF RefsOfKind
<1> HIDE DEF S
<1>3. ASSUME NEW i \in 1..Cardinality(S), NEW j \in 1..Cardinality(S), i < j,
             s[i] \in S, s[j] \in S
      PROVE  <<s[i], s[j]>> \in NameOrder(t)
  <2> DEFINE m == At(t, s[i]).name
             n == At(t, s[j]).name
  <2>1. s[i] \in Refs(t) /\ s[j] \in Refs(t) /\ At(t, s[i]).kind = kind /\ At(t, s[j]).kind = kind
    BY <1>2, <1>3
  <2>2. /\ m \in Names2 /\ n \in Names2 /\ m[1] \in Nat /\ m[2] \in Nat /\ n[1] \in Nat /\ n[2] \in Nat
        /\ m = <<m[1], m[2]>> /\ n = <<n[1], n[2]>>
    BY <2>1, NameFacts
  <2>3. BaseLess(m, n) \/ (~BaseLess(n, m) /\ s[i] < s[j])
    BY <1>1, <1>3
  <2>4. s[i] < s[j] => <<n, m>> \notin ByVersion
    BY <2>1 DEF Alike, Sorted
  <2> HIDE DEF m, n
  <2>5. NameLess(m, n) \/ (m = n /\ s[i] < s[j])
    <3>1. CASE BaseLess(m, n)
      BY <3>1 DEF BaseLess, NameLess
    <3>2. CASE ~BaseLess(m, n) /\ ~BaseLess(n, m) /\ s[i] < s[j]
      <4>1. m[1] = n[1]
        BY <2>2, <3>2 DEF BaseLess
      <4>2. ~(n[2] < m[2])
        BY <2>2, <2>4, <3>2, <4>1 DEF ByVersion, VersionLess
      <4>3. CASE m[2] = n[2]
        BY <2>2, <3>2, <4>1, <4>3
      <4>4. CASE m[2] < n[2]
        BY <4>1, <4>4 DEF NameLess
      <4>5. QED
        BY <2>2, <4>2, <4>3, <4>4
    <3>3. QED
      BY <2>3, <3>1, <3>2
  <2>6. QED
    BY <2>1, <2>5 DEF NameOrder, m, n
<1>4. QED
  BY <1>1, <1>2, <1>3, Sorting DEF S

(* Go does not sort namespace functions, ...                               *)
LEMMA GoSortsNot ==
  ASSUME NEW t \in Table, NEW kind, NEW s \in Go!AsListed(t, Go!RefsOfKind(t, kind))
  PROVE  Ascending(s, RefsOfKind(t, kind), TableOrder(t))
<1> DEFINE S == RefsOfKind(t, kind)
<1>1. /\ s \in Bijection(1..Cardinality(S), S)
      /\ \A i, j \in 1..Cardinality(S) : i < j => s[i] < s[j]
  BY SameDefinitions DEF Go!AsListed, Go!SortedRefs, Go!Orderings
<1>2. S \subseteq Refs(t)
  BY DEF RefsOfKind
<1> HIDE DEF S
<1>3. \A i, j \in 1..Cardinality(S) :
        i < j /\ s[i] \in S /\ s[j] \in S /\ s[i] # s[j] => <<s[i], s[j]>> \in TableOrder(t)
  BY <1>1, <1>2 DEF TableOrder
<1>4. QED
  BY <1>1, <1>2, <1>3, Sorting DEF S

(* ... TypeScript does, which is the same if the table lists them so.      *)
LEMMA TsSortsByName ==
  ASSUME NEW t \in Table, Alike(t), NEW s \in Ts!ByName(t, "NamespaceFunctionType")
  PROVE  Ascending(s, RefsOfKind(t, "NamespaceFunctionType"), TableOrder(t))
<1> DEFINE S == RefsOfKind(t, "NamespaceFunctionType")
<1>1. /\ s \in Bijection(1..Cardinality(S), S)
      /\ \A i, j \in 1..Cardinality(S) : i < j =>
           \/ NameLess(At(t, s[i]).name, At(t, s[j]).name)
           \/ ~NameLess(At(t, s[j]).name, At(t, s[i]).name) /\ s[i] < s[j]
  BY SameDefinitions, SameNames DEF Ts!ByName, Ts!SortedRefs, Ts!Orderings
<1>2. S \subseteq Refs(t) /\ \A r \in S : At(t, r).kind = "NamespaceFunctionType"
  BY DEF RefsOfKind
<1> HIDE DEF S
<1>3. ASSUME NEW i \in 1..Cardinality(S), NEW j \in 1..Cardinality(S), i < j,
             s[i] \in S, s[j] \in S, s[i] # s[j]
      PROVE  <<s[i], s[j]>> \in TableOrder(t)
  <2> DEFINE m == At(t, s[i]).name
             n == At(t, s[j]).name
  <2>1. /\ s[i] \in Refs(t) /\ s[j] \in Refs(t) /\ s[i] \in Nat /\ s[j] \in Nat
        /\ At(t, s[i]).kind = "NamespaceFunctionType" /\ At(t, s[j]).kind = "NamespaceFunctionType"
    BY <1>2, <1>3, RefsFacts
  <2>2. m \in Names2 /\ n \in Names2
    BY <2>1, NameFacts
  <2>3. NameLess(m, n) \/ s[i] < s[j]
    BY <1>1, <1>3
  <2>4. s[j] < s[i] => <<m, n>> \notin ByNames
    BY <2>1 DEF Alike, Sorted
  <2> HIDE DEF m, n
  <2>5. NameLess(m, n) => s[i] < s[j]
    BY <1>3, <2>1, <2>2, <2>4 DEF ByNames
  <2>6. QED
    BY <2>1, <2>3, <2>5 DEF TableOrder
<1>4. QED
  BY <1>1, <1>2, <1>3, Sorting DEF S

(* Of the types listed, both put objects first, by name.  What comes then  *)
(* leaves nothing on the page.                                             *)
Objects(t) == {r \in Refs(t) : At(t, r).kind \in Linkable}

Plain(t) == Data(t) \ Objects(t)

ObjectsFirst(t, W, s) ==
  \E objects, plain :
    /\ s = objects \o plain
    /\ Ascending(objects, W \cap Objects(t), NameOrder(t)) /\ plain \in Seq(Plain(t))

LEMMA Splitting ==
  ASSUME NEW t \in Table, NEW W \in SUBSET Data(t), NEW s \in Bijection(1..Cardinality(W), W),
         \A i, j \in 1..Cardinality(W) :
           i < j /\ s[i] \in W /\ s[j] \in W \cap Objects(t) /\ s[i] # s[j] =>
             s[i] \in Objects(t) /\ <<s[i], s[j]>> \in NameOrder(t)
  PROVE  ObjectsFirst(t, W, s)
<1> DEFINE n == Cardinality(W)
<1>1. W \subseteq Refs(t) /\ IsFiniteSet(W)
  BY RefsFacts DEF Data
<1>2. n \in Nat /\ s \in [1..n -> W] /\ \A i, j \in 1..n : s[i] = s[j] => i = j
  BY <1>1, FS_CardinalityType DEF Bijection, Injection, Surjection, IsInjective
<1>3. \A i \in 1..n : s[i] \in W
  BY <1>2
<1>4. s \in Seq(W) /\ ToSet(s) = W /\ Len(s) = n
  BY <1>1, <1>2, OrderedSet
<1> HIDE DEF n
<1> DEFINE Ends == {i \in 1..(n + 1) : i = n + 1 \/ s[i] \notin Objects(t)}
<1>5. PICK e \in Ends : \A k \in Ends : e <= k
  <2>1. Ends \subseteq Nat /\ n + 1 \in Ends
    BY <1>2
  <2> HIDE DEF Ends
  <2>2. QED
    BY <2>1, LeastNat
<1>6. e \in 1..(n + 1) /\ (e = n + 1 \/ s[e] \notin Objects(t))
  OBVIOUS
<1>7. \A i \in 1..n : i < e => s[i] \in Objects(t)
  <2>1. ASSUME NEW i \in 1..n, i < e, s[i] \notin Objects(t) PROVE FALSE
    <3>1. i \in Ends
      BY <1>2, <2>1
    <3> HIDE DEF Ends
    <3>2. QED
      BY <1>2, <1>5, <1>6, <2>1, <3>1
  <2>2. QED
    BY <2>1
<1> HIDE DEF Ends
<1>8. \A i, j \in 1..n : i < j /\ s[j] \in Objects(t) =>
        s[i] \in Objects(t) /\ <<s[i], s[j]>> \in NameOrder(t)
  <2>1. \A i, j \in 1..n : i < j => s[i] \in W /\ s[j] \in W /\ s[i] # s[j]
    BY <1>2, <1>3
  <2>2. QED
    BY <2>1 DEF n
<1>9. \A i \in 1..n : ~(i < e) => s[i] \notin Objects(t)
  <2>1. ASSUME NEW i \in 1..n, ~(i < e), s[i] \in Objects(t) PROVE FALSE
    <3>1. e \in 1..n /\ s[e] \notin Objects(t) /\ (e < i \/ e = i)
      BY <1>2, <1>6, <2>1
    <3>2. QED
      BY <1>8, <2>1, <3>1
  <2>2. QED
    BY <2>1
<1> DEFINE objects == [i \in 1..(e - 1) |-> s[i]]
           plain == [i \in 1..(n - (e - 1)) |-> s[i + (e - 1)]]
           WO == W \cap Objects(t)
<1>10. e - 1 \in Nat /\ n - (e - 1) \in Nat /\ e \in Nat
  BY <1>2, <1>6
<1>11. \A i \in 1..(e - 1) : i \in 1..n /\ i < e
  BY <1>2, <1>6
<1>12. objects \in Seq(WO) /\ Len(objects) = e - 1
  BY <1>3, <1>7, <1>10, <1>11
<1>13. plain \in Seq(Plain(t)) /\ Len(plain) = n - (e - 1)
  <2>1. ASSUME NEW i \in 1..(n - (e - 1)) PROVE s[i + (e - 1)] \in Plain(t)
    <3>1. i + (e - 1) \in 1..n /\ ~(i + (e - 1) < e)
      BY <1>2, <1>6
    <3>2. QED
      BY <1>3, <1>9, <3>1 DEF Plain
  <2>2. QED
    BY <1>10, <2>1
<1>14. s = objects \o plain
  <2>1. /\ objects \o plain \in Seq(W) /\ Len(objects \o plain) = n
        /\ \A i \in 1..n : (objects \o plain)[i] =
                             IF i <= e - 1 THEN objects[i] ELSE plain[i - (e - 1)]
    <3>1. objects \in Seq(W) /\ plain \in Seq(W)
      <4>1. \A i \in 1..(n - (e - 1)) : i + (e - 1) \in 1..n
        BY <1>2, <1>6
      <4>2. QED
        BY <1>3, <1>10, <1>11, <4>1
    <3> HIDE DEF objects, plain
    <3>2. /\ objects \o plain \in Seq(W) /\ Len(objects \o plain) = Len(objects) + Len(plain)
          /\ \A i \in 1..(Len(objects) + Len(plain)) : (objects \o plain)[i] =
                               IF i <= Len(objects) THEN objects[i] ELSE plain[i - Len(objects)]
      BY <3>1, ConcatProperties
    <3>3. Len(objects) + Len(plain) = n
      BY <1>2, <1>10, <1>12, <1>13
    <3>4. QED
      BY <1>12, <3>2, <3>3
  <2>2. ASSUME NEW i \in 1..n
        PROVE  (IF i <= e - 1 THEN objects[i] ELSE plain[i - (e - 1)]) = s[i]
    <3>1. CASE i <= e - 1
      <4>1. i \in 1..(e - 1)
        BY <1>2, <1>10, <3>1
      <4>2. QED
        BY <3>1, <4>1
    <3>2. CASE ~(i <= e - 1)
      <4>1. i - (e - 1) \in 1..(n - (e - 1)) /\ (i - (e - 1)) + (e - 1) = i
        BY <1>2, <1>10, <3>2
      <4>2. QED
        BY <3>2, <4>1
    <3>3. QED
      BY <3>1, <3>2
  <2> HIDE DEF objects, plain
  <2>3. \A i \in 1..n : s[i] = (objects \o plain)[i]
    BY <2>1, <2>2
  <2>4. QED
    BY <1>4, <2>1, <2>3, SeqEqual
<1>15. ToSet(objects) = WO
  <2>1. ASSUME NEW r \in WO PROVE r \in ToSet(objects)
    <3>1. r \in ToSet(s)
      BY <1>4
    <3>2. PICK i \in 1..n : r = s[i]
      <4>1. PICK i \in 1..Len(s) : r = s[i]
        BY <1>4, <3>1, InSet
      <4>2. QED
        BY <1>4, <4>1
    <3>3. i < e
      BY <1>9, <3>2
    <3>4. i \in 1..(e - 1) /\ r = objects[i]
      BY <1>2, <1>10, <3>2, <3>3
    <3> HIDE DEF objects, WO
    <3>5. QED
      BY <1>12, <3>4, InSet
  <2> HIDE DEF objects, WO
  <2>2. \A x \in ToSet(objects) : x \in WO
    BY <1>12, InSet
  <2>3. QED
    BY <2>1, <2>2
<1>16. ASSUME NEW i \in 1..Len(objects), NEW j \in 1..Len(objects), i < j
       PROVE  <<objects[i], objects[j]>> \in NameOrder(t)
  <2>1. i \in 1..(e - 1) /\ j \in 1..(e - 1) /\ objects[i] = s[i] /\ objects[j] = s[j]
    BY <1>12
  <2>2. i \in 1..n /\ j \in 1..n /\ s[j] \in Objects(t)
    BY <1>7, <1>11, <2>1
  <2>3. QED
    BY <1>8, <1>16, <2>1, <2>2
<1> HIDE DEF objects, plain
<1>17. Ascending(objects, WO, NameOrder(t))
  BY <1>12, <1>15, <1>16 DEF Ascending
<1>18. QED
  BY <1>13, <1>14, <1>17 DEF ObjectsFirst

(* If the first of two is not put behind an object, it is an object with a *)
(* smaller name.                                                           *)
LEMMA Firsts ==
  ASSUME NEW t \in Table, Alike(t), NEW m \in Refs(t), NEW n \in Objects(t), m # n,
         \/ m \in Objects(t) /\ NameLess(At(t, m).name, At(t, n).name)
         \/ m \in Objects(t) /\ ~NameLess(At(t, n).name, At(t, m).name)
  PROVE  <<m, n>> \in NameOrder(t)
<1>1. n \in Refs(t)
  BY DEF Objects
<1>2. At(t, m).name # At(t, n).name
  BY <1>1 DEF Alike, Objects
<1>3. QED
  BY <1>1, <1>2, Comparable DEF NameOrder

(* Go sorts the types listed so, ...                                       *)
LEMMA GoSortsOthers ==
  ASSUME types \in Table, Alike(types), NEW list, ToSet(list) \subseteq Data(types),
         NEW s \in Go!SortedFirsts(list, Go!TypeNameLess)
  PROVE  ObjectsFirst(types, ToSet(list), s)
<1> DEFINE W == ToSet(list)
           Less(m, n) == /\ At(types, m).kind \in Linkable
                         /\ \/ At(types, n).kind \notin Linkable
                            \/ NameLess(At(types, m).name, At(types, n).name)
<1>1. /\ s \in Bijection(1..Cardinality(W), W)
      /\ \A i, j \in 1..Cardinality(W) : i < j => Less(s[i], s[j]) \/ ~Less(s[j], s[i])
  BY SameDefinitions, SameNames DEF Go!SortedFirsts, Go!Orderings, Go!TypeNameLess
<1>2. W \subseteq Refs(types)
  BY DEF Data
<1> HIDE DEF W
<1>3. ASSUME NEW i \in 1..Cardinality(W), NEW j \in 1..Cardinality(W), i < j,
             s[i] \in W, s[j] \in W \cap Objects(types), s[i] # s[j]
      PROVE  s[i] \in Objects(types) /\ <<s[i], s[j]>> \in NameOrder(types)
  <2> DEFINE m == s[i]
             n == s[j]
  <2>1. m \in Refs(types) /\ n \in Objects(types) /\ m # n /\ (Less(m, n) \/ ~Less(n, m))
    BY <1>1, <1>2, <1>3
  <2> HIDE DEF m, n
  <2>2. /\ m \in Objects(types)
        /\ \/ NameLess(At(types, m).name, At(types, n).name)
           \/ ~NameLess(At(types, n).name, At(types, m).name)
    BY <2>1 DEF Objects
  <2>3. <<m, n>> \in NameOrder(types)
    BY <2>1, <2>2, Firsts
  <2>4. QED
    BY <2>2, <2>3 DEF m, n
<1>4. QED
  BY <1>1, <1>3, Splitting DEF W

(* ... and so does TypeScript, as no resource or function is among them.   *)
LEMMA TsSortsOthers ==
  ASSUME types \in Table, Alike(types), NEW list, ToSet(list) \subseteq Data(types),
         NEW s \in Ts!SortedFirsts(list, Ts!TypeNameLess)
  PROVE  ObjectsFirst(types, ToSet(list), s)
<1> DEFINE W == ToSet(list)
           HasName(m) == At(types, m).kind \in Linkable \cup Functions \cup {"ResourceType"}
           Less(m, n) == /\ HasName(m)
                         /\ ~HasName(n) \/ NameLess(At(types, m).name, At(types, n).name)
<1>1. /\ s \in Bijection(1..Cardinality(W), W)
      /\ \A i, j \in 1..Cardinality(W) : i < j => Less(s[i], s[j]) \/ ~Less(s[j], s[i])
  BY SameDefinitions, SameNames DEF Ts!SortedFirsts, Ts!Orderings, Ts!TypeNameLess
<1>2. W \subseteq Refs(types) /\ W \subseteq Data(types)
  BY DEF Data
<1> HIDE DEF W
<1>3. ASSUME NEW i \in 1..Cardinality(W), NEW j \in 1..Cardinality(W), i < j,
             s[i] \in W, s[j] \in W \cap Objects(types), s[i] # s[j]
      PROVE  s[i] \in Objects(types) /\ <<s[i], s[j]>> \in NameOrder(types)
  <2> DEFINE m == s[i]
             n == s[j]
  <2>1. /\ m \in Refs(types) /\ m \in Data(types) /\ n \in Objects(types) /\ m # n
        /\ Less(m, n) \/ ~Less(n, m)
    BY <1>1, <1>2, <1>3
  <2> HIDE DEF m, n
  <2>2. HasName(n) /\ (HasName(m) => m \in Objects(types))
    BY <2>1 DEF Objects, Data
  <2>3. /\ m \in Objects(types)
        /\ \/ NameLess(At(types, m).name, At(types, n).name)
           \/ ~NameLess(At(types, n).name, At(types, m).name)
    BY <2>1, <2>2
  <2>4. <<m, n>> \in NameOrder(types)
    BY <2>1, <2>3, Firsts
  <2>5. QED
    BY <2>3, <2>4 DEF m, n
<1>4. QED
  BY <1>1, <1>3, Splitting DEF W

(* What both write first: resources, functions and the objects listed.     *)
Leading(t, W, f) ==
  \E resources, rfs, nfs, objects :
    /\ Ascending(resources, RefsOfKind(t, "ResourceType"), NameOrder(t))
    /\ Ascending(rfs, RefsOfKind(t, "ResourceFunctionType"), NameOrder(t))
    /\ Ascending(nfs, RefsOfKind(t, "NamespaceFunctionType"), TableOrder(t))
    /\ Ascending(objects, W \cap Objects(t), NameOrder(t))
    /\ f = (resources \o (rfs \o nfs)) \o objects

LEMMA OneLeading ==
  ASSUME NEW t \in Table, NEW W, NEW f, NEW g, Leading(t, W, f), Leading(t, W, g)
  PROVE  f = g
<1>1. ASSUME NEW S \in SUBSET Refs(t), NEW a, NEW b, Ascending(a, S, NameOrder(t)),
             Ascending(b, S, NameOrder(t))
      PROVE  a = b
  BY <1>1, OrderFacts, OneOrder
<1>2. ASSUME NEW S \in SUBSET Refs(t), NEW a, NEW b, Ascending(a, S, TableOrder(t)),
             Ascending(b, S, TableOrder(t))
      PROVE  a = b
  BY <1>2, OrderFacts, OneOrder
<1>3. /\ \A kind : RefsOfKind(t, kind) \in SUBSET Refs(t)
      /\ W \cap Objects(t) \in SUBSET Refs(t)
  BY DEF RefsOfKind, Objects
<1>4. PICK r1, f1, n1, o1 :
        /\ Ascending(r1, RefsOfKind(t, "ResourceType"), NameOrder(t))
        /\ Ascending(f1, RefsOfKind(t, "ResourceFunctionType"), NameOrder(t))
        /\ Ascending(n1, RefsOfKind(t, "NamespaceFunctionType"), TableOrder(t))
        /\ Ascending(o1, W \cap Objects(t), NameOrder(t))
        /\ f = (r1 \o (f1 \o n1)) \o o1
  BY DEF Leading
<1>5. PICK r2, f2, n2, o2 :
        /\ Ascending(r2, RefsOfKind(t, "ResourceType"), NameOrder(t))
        /\ Ascending(f2, RefsOfKind(t, "ResourceFunctionType"), NameOrder(t))
        /\ Ascending(n2, RefsOfKind(t, "NamespaceFunctionType"), TableOrder(t))
        /\ Ascending(o2, W \cap Objects(t), NameOrder(t))
        /\ g = (r2 \o (f2 \o n2)) \o o2
  BY DEF Leading
<1>6. r1 = r2 /\ f1 = f2 /\ o1 = o2
  BY <1>1, <1>3, <1>4, <1>5
<1>7. n1 = n2
  BY <1>2, <1>3, <1>4, <1>5
<1>8. QED
  BY <1>4, <1>5, <1>6, <1>7

(* A function on the first numbers is a sequence.                          *)
LEMMA FunctionIsSeq ==
  ASSUME NEW S, NEW n \in Nat, NEW s \in [1..n -> S]
  PROVE  s \in Seq(S) /\ Len(s) = n
OBVIOUS

(* Sections of types, one after the other.                                 *)
LEMMA SectionsOf ==
  ASSUME NEW S, NEW s \in Seq(S), NEW T, T = {Section(r, TRUE) : r \in S}
  PROVE  /\ Sections(s, TRUE) \in Seq(T) /\ Len(Sections(s, TRUE)) = Len(s) /\ Len(s) \in Nat
         /\ \A i \in 1..Len(s) : Sections(s, TRUE)[i] = Section(s[i], TRUE)
<1>1. Len(s) \in Nat /\ \A i \in 1..Len(s) : s[i] \in S
  BY InSet
<1>2. \A i \in 1..Len(s) : Section(s[i], TRUE) \in T
  BY <1>1
<1>3. Sections(s, TRUE) = [i \in 1..Len(s) |-> Section(s[i], TRUE)]
  BY DEF Sections
<1>4. Sections(s, TRUE) \in [1..Len(s) -> T]
  BY <1>2, <1>3
<1>5. Sections(s, TRUE) \in Seq(T) /\ Len(Sections(s, TRUE)) = Len(s)
  BY <1>1, <1>4, FunctionIsSeq
<1>6. \A i \in 1..Len(s) : Sections(s, TRUE)[i] = Section(s[i], TRUE)
  BY <1>3
<1>7. QED
  BY <1>1, <1>5, <1>6

LEMMA SectionsConcat ==
  ASSUME NEW S, NEW s \in Seq(S), NEW u \in Seq(S)
  PROVE  Sections(s \o u, TRUE) = Sections(s, TRUE) \o Sections(u, TRUE)
<1> DEFINE T == {Section(r, TRUE) : r \in S}
           a == Sections(s, TRUE)
           b == Sections(u, TRUE)
           c == Sections(s \o u, TRUE)
<1>1. /\ s \o u \in Seq(S) /\ Len(s \o u) = Len(s) + Len(u)
      /\ \A i \in 1..(Len(s) + Len(u)) :
           (s \o u)[i] = IF i <= Len(s) THEN s[i] ELSE u[i - Len(s)]
  BY ConcatProperties
<1>2. /\ a \in Seq(T) /\ Len(a) = Len(s) /\ b \in Seq(T) /\ Len(b) = Len(u)
      /\ \A i \in 1..Len(s) : a[i] = Section(s[i], TRUE)
      /\ \A i \in 1..Len(u) : b[i] = Section(u[i], TRUE)
      /\ Len(s) \in Nat /\ Len(u) \in Nat
  BY SectionsOf
<1>3. /\ c \in Seq(T) /\ Len(c) = Len(s) + Len(u)
      /\ \A i \in 1..(Len(s) + Len(u)) : c[i] = Section((s \o u)[i], TRUE)
  <2> DEFINE v == s \o u
  <2>1. v \in Seq(S) /\ Len(v) = Len(s) + Len(u)
    BY <1>1
  <2> HIDE DEF v
  <2>2. /\ Sections(v, TRUE) \in Seq(T) /\ Len(Sections(v, TRUE)) = Len(v)
        /\ \A i \in 1..Len(v) : Sections(v, TRUE)[i] = Section(v[i], TRUE)
    BY <2>1, SectionsOf
  <2>3. QED
    BY <2>1, <2>2 DEF v
<1> HIDE DEF a, b, c, T
<1>4. /\ a \o b \in Seq(T) /\ Len(a \o b) = Len(a) + Len(b)
      /\ \A i \in 1..(Len(a) + Len(b)) :
           (a \o b)[i] = IF i <= Len(a) THEN a[i] ELSE b[i - Len(a)]
  <2>1. a \in Seq(T) /\ b \in Seq(T)
    BY <1>2
  <2>2. QED
    BY <2>1, ConcatProperties
<1>5. ASSUME NEW i \in 1..(Len(s) + Len(u)) PROVE c[i] = (a \o b)[i]
  <2>1. CASE i <= Len(s)
    <3>1. i \in 1..Len(s)
      BY <1>2, <2>1
    <3>2. QED
      BY <1>1, <1>2, <1>3, <1>4, <2>1, <3>1
  <2>2. CASE ~(i <= Len(s))
    <3>1. i - Len(s) \in 1..Len(u)
      BY <1>2, <2>2
    <3>2. QED
      BY <1>1, <1>2, <1>3, <1>4, <2>2, <3>1
  <2>3. QED
    BY <2>1, <2>2
<1>6. c = a \o b
  BY <1>2, <1>3, <1>4, <1>5, SeqEqual
<1>7. QED
  BY <1>6 DEF a, b, c

(* The tasks that leave nothing on the page.                               *)
PlainTask(t) == {Section(r, TRUE) : r \in Plain(t)}

(* A page starts with the front, and plain types in some order follow.     *)
Starts(t, W, frame) ==
  \E f, P : /\ Leading(t, W, f) /\ f \in Seq(Refs(t))
            /\ P \in Seq(PlainTask(t)) /\ frame = Sections(f, TRUE) \o P

LEMMA Starting ==
  ASSUME NEW t \in Table, NEW W, NEW resources, NEW rfs, NEW nfs, NEW others,
         Ascending(resources, RefsOfKind(t, "ResourceType"), NameOrder(t)),
         Ascending(rfs, RefsOfKind(t, "ResourceFunctionType"), NameOrder(t)),
         Ascending(nfs, RefsOfKind(t, "NamespaceFunctionType"), TableOrder(t)),
         ObjectsFirst(t, W, others)
  PROVE  Starts(t, W, Sections(resources \o (rfs \o nfs) \o others, TRUE))
<1>1. PICK objects, plain :
        /\ others = objects \o plain
        /\ Ascending(objects, W \cap Objects(t), NameOrder(t)) /\ plain \in Seq(Plain(t))
  BY DEF ObjectsFirst
<1> DEFINE S == Refs(t)
           ofs == resources \o (rfs \o nfs)
           f == ofs \o objects
           P == Sections(plain, TRUE)
<1>2. /\ \A kind : RefsOfKind(t, kind) \subseteq S
      /\ W \cap Objects(t) \subseteq S /\ Plain(t) \subseteq S
  BY DEF RefsOfKind, Objects, Plain, Data
<1>3. /\ resources \in Seq(S) /\ rfs \in Seq(S) /\ nfs \in Seq(S)
      /\ objects \in Seq(S) /\ plain \in Seq(S)
  BY <1>1, <1>2 DEF Ascending
<1>4. rfs \o nfs \in Seq(S)
  BY <1>3, ConcatProperties
<1>5. ofs \in Seq(S)
  BY <1>3, <1>4, ConcatProperties
<1>6. Leading(t, W, f)
  BY <1>1 DEF Leading
<1> HIDE DEF ofs
<1>7. f \in Seq(S)
  BY <1>3, <1>5, ConcatProperties
<1>8. ofs \o others = f \o plain
  <2>1. (ofs \o objects) \o plain = ofs \o (objects \o plain)
    BY <1>3, <1>5, ConcatAssociative
  <2>2. QED
    BY <1>1, <2>1
<1>9. P \in Seq(PlainTask(t))
  BY <1>1, SectionsOf DEF PlainTask
<1> HIDE DEF f, P
<1>10. Sections(f \o plain, TRUE) = Sections(f, TRUE) \o P
  BY <1>3, <1>7, SectionsConcat DEF P
<1>11. QED
  BY <1>6, <1>7, <1>8, <1>9, <1>10 DEF Starts, ofs

(* So it does in both languages.                                           *)
LEMMA GoStartsAlike ==
  ASSUME types \in Table, Alike(types), Settled(types, ToSet(goTypesToWrite)), NEW all \in Go!Combined
  PROVE  Starts(types, ToSet(goTypesToWrite), Sections(all, TRUE))
<1>1. PICK resources \in Go!ResourceTypes(types), functions \in Go!FunctionTypes(types),
           others \in Go!SortedFirsts(goTypesToWrite, Go!TypeNameLess) :
        all = resources \o functions \o others
  BY DEF Go!Combined
<1>2. PICK rfs \in Go!ByName(types, Go!RefsOfKind(types, "ResourceFunctionType")),
           nfs \in Go!AsListed(types, Go!RefsOfKind(types, "NamespaceFunctionType")) :
        functions = rfs \o nfs
  BY DEF Go!FunctionTypes
<1>3. Ascending(resources, RefsOfKind(types, "ResourceType"), NameOrder(types))
  BY GoSortsByName DEF Go!ResourceTypes
<1>4. /\ Ascending(rfs, RefsOfKind(types, "ResourceFunctionType"), NameOrder(types))
      /\ Ascending(nfs, RefsOfKind(types, "NamespaceFunctionType"), TableOrder(types))
  BY GoSortsByName, GoSortsNot
<1>5. ToSet(goTypesToWrite) \subseteq Data(types)
  BY DataListed
<1>6. ObjectsFirst(types, ToSet(goTypesToWrite), others)
  BY <1>5, GoSortsOthers
<1>7. QED
  BY <1>1, <1>2, <1>3, <1>4, <1>6, Starting

LEMMA TsStartsAlike ==
  ASSUME types \in Table, Alike(types), Settled(types, ToSet(tsTypesToWrite)), NEW all \in Ts!Combined
  PROVE  Starts(types, ToSet(tsTypesToWrite), Sections(all, TRUE))
<1>1. PICK resources \in Ts!ResourceTypes(types), functions \in Ts!FunctionTypes(types),
           others \in Ts!SortedFirsts(tsTypesToWrite, Ts!TypeNameLess) :
        all = resources \o functions \o others
  BY DEF Ts!Combined
<1>2. PICK rfs \in Ts!ByBaseName(types, "ResourceFunctionType"),
           nfs \in Ts!ByName(types, "NamespaceFunctionType") :
        functions = rfs \o nfs
  BY DEF Ts!FunctionTypes
<1>3. Ascending(resources, RefsOfKind(types, "ResourceType"), NameOrder(types))
  BY TsSortsByBaseName DEF Ts!ResourceTypes
<1>4. /\ Ascending(rfs, RefsOfKind(types, "ResourceFunctionType"), NameOrder(types))
      /\ Ascending(nfs, RefsOfKind(types, "NamespaceFunctionType"), TableOrder(types))
  BY TsSortsByBaseName, TsSortsByName
<1>5. ToSet(tsTypesToWrite) \subseteq Data(types)
  BY DataListed
<1>6. ObjectsFirst(types, ToSet(tsTypesToWrite), others)
  BY <1>5, TsSortsOthers
<1>7. QED
  BY <1>1, <1>2, <1>3, <1>4, <1>6, Starting

-----------------------------------------------------------------------------
(* Writing in step.  A run of either writer in which no task fails is the  *)
(* same sequence of states: of calls, headings and links.                  *)

(* Tasks that neither fails at.                                            *)
Doable(t, task) ==
  /\ InRange(t, task.ref)
  /\ task.write = "function" => At(t, task.ref).kind = "FunctionType"
  /\ task.write = "name" => At(t, task.ref).kind \notin {"NamespaceFunctionType", "FunctionType"}

(* The call a task makes, if any.                                          *)
Calls(t, task) ==
  IF task.write = "section" THEN <<Parts(t, task.ref)>>
  ELSE IF task.write = "function" \/ At(t, task.ref).kind \in Composed
       THEN <<Names(At(t, task.ref).refs)>>
       ELSE <<>>

StackAfter(t, st) ==
  IF Head(st) = <<>> THEN Tail(st) ELSE Calls(t, NextOf(st)) \o Without(st)

HeadingsAfter(t, st, h) ==
  IF Head(st) # <<>> /\ HeadingOf(t, NextOf(st)) # {} THEN Append(h, NextOf(st).ref) ELSE h

LinksAfter(t, st, l) == IF Head(st) # <<>> THEN l \cup LinkOf(t, NextOf(st)) ELSE l

After(t, c) == <<StackAfter(t, c[1]), HeadingsAfter(t, c[1], c[2]), LinksAfter(t, c[1], c[3])>>

(* A run stops before its first call returns.                              *)
Bare == << <<>> >>

Able(t, c) ==
  /\ Len(c[1]) <= MaxDepth /\ c[1] # <<>> /\ c[1] # Bare
  /\ Head(c[1]) # <<>> => Doable(t, NextOf(c[1]))

(* From c a run comes to d.                                                *)
Leads(t, c, d) ==
  \A C : c \in C /\ (\A e \in C : Able(t, e) => After(t, e) \in C) => d \in C

LEMMA LeadsFacts ==
  ASSUME NEW t, NEW c, NEW d
  PROVE  /\ Leads(t, c, c)
         /\ Leads(t, c, d) /\ Able(t, d) => Leads(t, c, After(t, d))
         /\ Leads(t, c, d) /\ c # d => Able(t, c) /\ Leads(t, After(t, c), d)
<1>1. Leads(t, c, c)
  BY DEF Leads
<1>2. ASSUME Leads(t, c, d), Able(t, d) PROVE Leads(t, c, After(t, d))
  BY <1>2 DEF Leads
<1>3. ASSUME Leads(t, c, d), c # d PROVE Able(t, c)
  <2>1. ASSUME ~Able(t, c) PROVE FALSE
    <3>1. c \in {c} /\ \A e \in {c} : Able(t, e) => After(t, e) \in {c}
      BY <2>1
    <3>2. d \in {c}
      BY <1>3, <3>1 DEF Leads
    <3>3. QED
      BY <1>3, <3>2
  <2>2. QED
    BY <2>1
<1>4. ASSUME Leads(t, c, d), c # d PROVE Leads(t, After(t, c), d)
  <2>1. ASSUME NEW C, After(t, c) \in C, \A e \in C : Able(t, e) => After(t, e) \in C
        PROVE  d \in C
    <3> DEFINE C2 == C \cup {c}
    <3>1. c \in C2 /\ \A e \in C2 : Able(t, e) => After(t, e) \in C2
      BY <2>1
    <3> HIDE DEF C2
    <3>2. d \in C2
      BY <1>4, <3>1 DEF Leads
    <3>3. QED
      BY <1>4, <3>2 DEF C2
  <2>2. QED
    BY <2>1 DEF Leads
<1>5. QED
  BY <1>1, <1>2, <1>3, <1>4

(* Tasks P may be left for the end.                                        *)
Frames == Seq(WriteTask)

Extends(big, small, P) ==
  \E top \in Seq(Frames), bottom \in Frames :
    small = Append(top, bottom) /\ big = Append(top, bottom \o P)

LEMMA ExtendsMore ==
  ASSUME NEW P \in Frames, NEW big, NEW small, Extends(big, small, P), NEW calls \in Seq(Frames)
  PROVE  Extends(calls \o big, calls \o small, P)
<1>1. PICK top \in Seq(Frames), bottom \in Frames :
        small = Append(top, bottom) /\ big = Append(top, bottom \o P)
  BY DEF Extends
<1>2. bottom \o P \in Frames
  BY ConcatProperties DEF Frames
<1> DEFINE S == Frames
           all == calls \o top
<1>3. top \in Seq(S) /\ calls \in Seq(S) /\ bottom \in S /\ bottom \o P \in S
  BY <1>1, <1>2
<1> HIDE DEF S
<1>4. all \in Seq(S)
  BY <1>3, ConcatProperties
<1>5. ASSUME NEW b \in S PROVE calls \o Append(top, b) = Append(all, b)
  <2>1. Append(top, b) = top \o <<b>> /\ Append(all, b) = all \o <<b>>
    <3> HIDE DEF all
    <3>1. QED
      BY <1>3, <1>4, AppendIsConcat
  <2> DEFINE one == <<b>>
  <2>2. one \in Seq(S)
    BY SingleSet
  <2> HIDE DEF one
  <2>3. (calls \o top) \o one = calls \o (top \o one)
    BY <1>3, <2>2, ConcatAssociative
  <2>4. QED
    BY <2>1, <2>3 DEF one
<1>6. /\ calls \o small = Append(all, bottom)
      /\ calls \o big = Append(all, bottom \o P)
  BY <1>1, <1>3, <1>5
<1> HIDE DEF all
<1>7. QED
  BY <1>3, <1>4, <1>6 DEF Extends, S

(* The first of two sequences that are put together.                       *)
LEMMA ConcatHeadTail ==
  ASSUME NEW T, NEW s \in Seq(T), s # <<>>, NEW u \in Seq(T)
  PROVE  s \o u # <<>> /\ Head(s \o u) = Head(s) /\ Tail(s \o u) = Tail(s) \o u
<1>1. <<Head(s)>> \in Seq(T) /\ Tail(s) \in Seq(T) /\ Head(s) \in T
  BY HeadAndTail, SingleSet
<1>2. Len(s) \in Nat /\ Len(s) >= 1 /\ Len(u) \in Nat
  BY EmptySeq
<1> DEFINE v == s \o u
<1>3. v \in Seq(T) /\ Len(v) = Len(s) + Len(u)
      /\ \A i \in 1..(Len(s) + Len(u)) : v[i] = IF i <= Len(s) THEN s[i] ELSE u[i - Len(s)]
  BY ConcatProperties
<1> HIDE DEF v
<1>4. v # <<>>
  BY <1>2, <1>3
<1>5. Head(v) = Head(s)
  BY <1>2, <1>3, <1>4
<1>6. /\ Tail(s) \in Seq(T) /\ Len(Tail(s)) = Len(s) - 1
      /\ \A i \in 1..Len(Tail(s)) : Tail(s)[i] = s[i + 1]
  BY HeadTailProperties
<1>7. /\ Tail(v) \in Seq(T) /\ Len(Tail(v)) = Len(v) - 1
      /\ \A i \in 1..Len(Tail(v)) : Tail(v)[i] = v[i + 1]
  BY <1>3, <1>4, HeadTailProperties
<1> DEFINE rest == Tail(s)
           w == rest \o u
<1>8. /\ w \in Seq(T) /\ Len(w) = Len(rest) + Len(u)
      /\ \A i \in 1..(Len(rest) + Len(u)) :
           w[i] = IF i <= Len(rest) THEN rest[i] ELSE u[i - Len(rest)]
  <2>1. rest \in Seq(T)
    BY <1>1
  <2> HIDE DEF rest
  <2>2. QED
    BY <2>1, ConcatProperties
<1> HIDE DEF w
<1>9. Len(Tail(v)) = Len(w) /\ Len(w) = Len(s) - 1 + Len(u)
  BY <1>2, <1>3, <1>6, <1>7, <1>8
<1>10. ASSUME NEW i \in 1..Len(w) PROVE Tail(v)[i] = w[i]
  <2>1. Tail(v)[i] = v[i + 1] /\ i + 1 \in 1..(Len(s) + Len(u))
    BY <1>2, <1>7, <1>9
  <2>2. CASE i <= Len(s) - 1
    <3>1. v[i + 1] = s[i + 1] /\ i \in 1..Len(rest)
      BY <1>2, <1>3, <1>6, <2>1, <2>2
    <3>2. w[i] = rest[i]
      BY <1>2, <1>6, <1>8, <1>9, <2>2, <3>1
    <3>3. rest[i] = s[i + 1]
      BY <1>6, <3>1
    <3>4. QED
      BY <2>1, <3>1, <3>2, <3>3
  <2>3. CASE ~(i <= Len(s) - 1)
    <3>1. v[i + 1] = u[(i + 1) - Len(s)]
      BY <1>2, <1>3, <2>1, <2>3
    <3>2. w[i] = u[i - (Len(s) - 1)]
      BY <1>2, <1>6, <1>8, <1>9, <2>3
    <3>3. (i + 1) - Len(s) = i - (Len(s) - 1)
      BY <1>2
    <3>4. QED
      BY <2>1, <3>1, <3>2, <3>3
  <2>4. QED
    BY <2>2, <2>3
<1>11. Tail(v) = w
  BY <1>7, <1>8, <1>9, <1>10, SeqEqual
<1>12. QED
  BY <1>4, <1>5, <1>11 DEF v, w

(* They do not change what is to be done before.                           *)
LEMMA ExtendsFacts ==
  ASSUME NEW P \in Frames, NEW big, NEW small, Extends(big, small, P), small # Bare
  PROVE  /\ big \in Seq(Frames) /\ small \in Seq(Frames) /\ big # <<>> /\ small # <<>>
         /\ Len(big) = Len(small)
         /\ Head(small) = <<>> => Head(big) = <<>> /\ Extends(Tail(big), Tail(small), P)
         /\ Head(small) # <<>> => /\ Head(big) # <<>> /\ NextOf(big) = NextOf(small)
                                  /\ NextOf(small) \in WriteTask
                                  /\ Extends(Without(big), Without(small), P)
<1> DEFINE S == Frames
<1>1. PICK top \in Seq(S), bottom \in S :
        small = Append(top, bottom) /\ big = Append(top, bottom \o P)
  BY DEF Extends
<1>2. bottom \o P \in S
  BY <1>1, ConcatProperties DEF Frames
<1>3. <<>> \in Seq(S) /\ <<>> \in S
  BY DEF Frames
<1>4. P \in S /\ S = Seq(WriteTask)
  BY DEF Frames
<1> HIDE DEF S
<1>5. /\ small \in Seq(S) /\ big \in Seq(S) /\ small # <<>> /\ big # <<>>
      /\ Len(small) = Len(top) + 1 /\ Len(big) = Len(top) + 1
  BY <1>1, <1>2, AppendProperties
<1>6. CASE top = <<>>
  <2>1. /\ small = <<bottom>> /\ big = <<bottom \o P>>
        /\ Head(small) = bottom /\ Head(big) = bottom \o P
        /\ Tail(small) = <<>> /\ Tail(big) = <<>>
    BY <1>1, <1>6
  <2>2. bottom # <<>>
    BY <2>1 DEF Bare
  <2>3. /\ bottom \o P # <<>> /\ Head(bottom \o P) = Head(bottom)
        /\ Tail(bottom \o P) = Tail(bottom) \o P
    BY <1>1, <1>4, <2>2, ConcatHeadTail
  <2>4. NextOf(big) = NextOf(small) /\ NextOf(small) = Head(bottom)
    BY <2>1, <2>3 DEF NextOf
  <2>5. Head(bottom) \in WriteTask /\ Tail(bottom) \in S
    BY <1>1, <1>4, <2>2, HeadAndTail
  <2>6. /\ Without(small) = <<Tail(bottom)>> \o <<>>
        /\ Without(big) = <<Tail(bottom) \o P>> \o <<>>
    BY <2>1, <2>3 DEF Without
  <2>7. /\ Without(small) = Append(<<>>, Tail(bottom))
        /\ Without(big) = Append(<<>>, Tail(bottom) \o P)
    BY <2>6
  <2>8. Extends(Without(big), Without(small), P)
    BY <1>3, <2>5, <2>7 DEF Extends, S
  <2>9. QED
    BY <1>5, <2>1, <2>2, <2>3, <2>4, <2>5, <2>8 DEF S
<1>7. CASE top # <<>>
  <2>1. /\ Head(small) = Head(top) /\ Tail(small) = Append(Tail(top), bottom)
        /\ Head(big) = Head(top) /\ Tail(big) = Append(Tail(top), bottom \o P)
    BY <1>1, <1>2, <1>7, HeadTailAppend
  <2>2. Head(top) \in S /\ Tail(top) \in Seq(S)
    BY <1>1, <1>7, HeadAndTail
  <2>3. Extends(Tail(big), Tail(small), P)
    BY <1>1, <2>1, <2>2 DEF Extends, S
  <2>4. ASSUME Head(top) # <<>>
        PROVE  Head(Head(top)) \in WriteTask /\ Tail(Head(top)) \in S
    BY <1>4, <2>2, <2>4, HeadAndTail
  <2>5. ASSUME Head(top) # <<>> PROVE Extends(Without(big), Without(small), P)
    <3> DEFINE calls == <<Tail(Head(top))>>
    <3>1. calls \in Seq(S)
      BY <2>4, <2>5, SingleSet
    <3>2. Without(big) = calls \o Tail(big) /\ Without(small) = calls \o Tail(small)
      BY <2>1 DEF Without
    <3> HIDE DEF calls
    <3>3. Extends(calls \o Tail(big), calls \o Tail(small), P)
      BY <2>3, <3>1, ExtendsMore DEF S
    <3>4. QED
      BY <3>2, <3>3
  <2>6. NextOf(big) = Head(Head(top)) /\ NextOf(small) = Head(Head(top))
    BY <2>1 DEF NextOf
  <2>7. QED
    BY <1>5, <2>1, <2>3, <2>4, <2>5, <2>6 DEF S
<1>8. QED
  BY <1>6, <1>7

(* Plain tasks are done one at a time, and each makes one call.            *)
PlainStack(t, st) ==
  /\ st \in Seq(Seq(PlainTask(t)))
  /\ \/ Len(st) <= 1
     \/ Len(st) = 2 /\ Head(st) = <<>> /\ Refs(t) # {}

(* The stack st has plain tasks beyond those of s.                         *)
Behind(t, st, s) ==
  \/ s # Bare /\ \E P \in Seq(PlainTask(t)) : Extends(st, s, P)
  \/ s = Bare /\ PlainStack(t, st)

LEMMA PlainFacts ==
  ASSUME NEW t \in Table
  PROVE  /\ \A P \in Seq(PlainTask(t)) : P \in Frames
         /\ \A task \in PlainTask(t) :
              /\ task \in WriteTask /\ Doable(t, task) /\ Calls(t, task) = << <<>> >>
              /\ HeadingOf(t, task) = {} /\ LinkOf(t, task) = {}
<1>1. ASSUME NEW task \in PlainTask(t)
      PROVE  /\ task \in WriteTask /\ Doable(t, task) /\ Calls(t, task) = << <<>> >>
             /\ HeadingOf(t, task) = {} /\ LinkOf(t, task) = {}
  <2>1. PICK r \in Plain(t) : task = Section(r, TRUE)
    BY DEF PlainTask
  <2>2. /\ r \in Refs(t) /\ r \in Nat /\ InRange(t, r)
        /\ At(t, r).kind \notin Functions \cup Linkable \cup {"ResourceType"}
    BY RefsFacts DEF Plain, Data, Objects
  <2>3. task.ref = r /\ task.write = "section" /\ task.header = TRUE
    BY <2>1 DEF Section
  <2>4. task \in WriteTask
    BY <2>1, <2>2 DEF Section, WriteTask
  <2>5. Parts(t, r) = <<>>
    BY <2>2 DEF Parts
  <2>6. ~HasHeading(t, task)
    BY <2>2, <2>3 DEF HasHeading
  <2>7. QED
    BY <2>2, <2>3, <2>4, <2>5, <2>6 DEF Doable, Calls, HeadingOf, LinkOf
<1>2. PlainTask(t) \subseteq WriteTask
  BY <1>1
<1>3. \A P \in Seq(PlainTask(t)) : P \in Frames
  BY <1>2, SeqMonotonic DEF Frames
<1>4. QED
  BY <1>1, <1>3

(* What a task that can be done calls.                                     *)
LEMMA CallsFacts ==
  ASSUME NEW t \in Table, NEW task \in WriteTask, Doable(t, task)
  PROVE  Calls(t, task) \in Seq(Frames)
<1>1. task.ref \in Refs(t)
  BY RefsFacts DEF Doable, WriteTask
<1>2. Parts(t, task.ref) \in Frames /\ Names(At(t, task.ref).refs) \in Frames
  BY <1>1, PartsFacts, AtFacts, NamesFacts DEF Frames
<1>3. /\ <<Parts(t, task.ref)>> \in Seq(Frames) /\ <<Names(At(t, task.ref).refs)>> \in Seq(Frames)
      /\ <<>> \in Seq(Frames)
  <2>1. \A f \in Frames : <<f>> \in Seq(Frames)
    BY SingleSet
  <2>2. QED
    BY <1>2, <2>1, EmptySeq
<1>4. QED
  BY <1>3 DEF Calls

(* A sequence that is not empty.                                           *)
LEMMA NotEmpty ==
  ASSUME NEW T, NEW s \in Seq(T), s # <<>>
  PROVE  /\ Len(s) \in Nat /\ Len(s) >= 1 /\ Len(Tail(s)) = Len(s) - 1
         /\ Len(s) = 1 => Tail(s) = <<>>
<1>1. Len(s) \in Nat /\ Len(s) >= 1
  BY EmptySeq
<1>2. Tail(s) \in Seq(T) /\ Len(Tail(s)) = Len(s) - 1
  BY HeadTailProperties
<1>3. QED
  BY <1>1, <1>2, EmptySeq

(* Two frames in a row.                                                    *)
LEMMA TwoFrames ==
  ASSUME NEW T, NEW a \in T, NEW b \in T
  PROVE  <<a>> \o (<<b>> \o <<>>) = <<a, b>>
<1> DEFINE one == <<a>>
           other == <<b>>
           both == <<a, b>>
           cat == one \o other
<1>1. one \in Seq(T) /\ Len(one) = 1 /\ one[1] = a
  BY SingleSet
<1>2. other \in Seq(T) /\ Len(other) = 1 /\ other[1] = b
  BY SingleSet
<1>3. both \in Seq(T) /\ Len(both) = 2 /\ both[1] = a /\ both[2] = b
  OBVIOUS
<1>4. other \o <<>> = other
  OBVIOUS
<1> HIDE DEF one, other, both
<1>5. /\ cat \in Seq(T) /\ Len(cat) = Len(one) + Len(other)
      /\ \A i \in 1..(Len(one) + Len(other)) :
           cat[i] = IF i <= Len(one) THEN one[i] ELSE other[i - Len(one)]
  <2>1. one \in Seq(T) /\ other \in Seq(T)
    BY <1>1, <1>2
  <2>2. QED
    BY <2>1, ConcatProperties
<1> HIDE DEF cat
<1>6. Len(cat) = 2 /\ cat[1] = a /\ cat[2] = b
  BY <1>1, <1>2, <1>5
<1>7. \A i \in 1..2 : i = 1 \/ i = 2
  OBVIOUS
<1>8. \A i \in 1..Len(cat) : cat[i] = both[i]
  BY <1>3, <1>6, <1>7
<1>9. cat = both
  BY <1>3, <1>5, <1>6, <1>8, SeqEqual
<1>10. QED
  BY <1>4, <1>9 DEF cat, both, one, other

(* When only plain tasks are left, the page does not change any more.      *)
LEMMA PlainSteps ==
  ASSUME NEW t \in Table, NEW st, PlainStack(t, st), st # <<>>, NEW h, NEW l
  PROVE  /\ PlainStack(t, StackAfter(t, st))
         /\ HeadingsAfter(t, st, h) = h /\ LinksAfter(t, st, l) = l
         /\ Head(st) # <<>> => NextOf(st) \in PlainTask(t)
<1> DEFINE T == PlainTask(t)
           F == Seq(T)
<1>1. /\ st \in Seq(F)
      /\ Len(st) <= 1 \/ (Len(st) = 2 /\ Head(st) = <<>> /\ Refs(t) # {})
  BY DEF PlainStack
<1> HIDE DEF F
<1>2. /\ Tail(st) \in Seq(F) /\ Head(st) \in F
      /\ Len(st) \in Nat /\ Len(st) >= 1 /\ Len(Tail(st)) = Len(st) - 1
      /\ Len(st) = 1 => Tail(st) = <<>>
  BY <1>1, HeadAndTail, NotEmpty
<1>3. CASE Head(st) = <<>>
  <2>1. StackAfter(t, st) = Tail(st) /\ HeadingsAfter(t, st, h) = h /\ LinksAfter(t, st, l) = l
    BY <1>3 DEF StackAfter, HeadingsAfter, LinksAfter
  <2>2. Len(Tail(st)) <= 1
    BY <1>1, <1>2
  <2>3. QED
    BY <1>2, <1>3, <2>1, <2>2 DEF PlainStack, F
<1>4. CASE Head(st) # <<>>
  <2>1. Len(st) = 1
    BY <1>1, <1>2, <1>4
  <2>2. Tail(st) = <<>>
    BY <1>2, <2>1
  <2>3. NextOf(st) \in T /\ Tail(Head(st)) \in Seq(T)
    BY <1>2, <1>4, HeadAndTail DEF NextOf, F
  <2>4. /\ Calls(t, NextOf(st)) = << <<>> >>
        /\ HeadingOf(t, NextOf(st)) = {} /\ LinkOf(t, NextOf(st)) = {}
    BY <2>3, PlainFacts
  <2>5. HeadingsAfter(t, st, h) = h /\ LinksAfter(t, st, l) = l
    BY <2>4 DEF HeadingsAfter, LinksAfter
  <2> DEFINE rest == Tail(Head(st))
  <2>6. StackAfter(t, st) = << <<>> >> \o (<<rest>> \o <<>>)
    BY <1>4, <2>2, <2>4 DEF StackAfter, Without
  <2> HIDE DEF rest, T
  <2>7. <<>> \in F /\ rest \in F
    BY <2>3, EmptySeq DEF rest, F
  <2>8. StackAfter(t, st) = << <<>>, rest>>
    BY <2>6, <2>7, TwoFrames
  <2>9. << <<>>, rest>> \in Seq(F) /\ Len(<< <<>>, rest>>) = 2 /\ Head(<< <<>>, rest>>) = <<>>
    BY <2>7
  <2>10. Refs(t) # {}
    BY <2>3 DEF T, PlainTask, Plain, Data
  <2>11. QED
    BY <2>3, <2>5, <2>8, <2>9, <2>10 DEF PlainStack, T, F
<1>5. QED
  BY <1>3, <1>4


(* Once there is nothing but them, they are a run of their own.            *)
LEMMA Normalise ==
  ASSUME NEW t \in Table, NEW P \in Seq(PlainTask(t)), NEW st, NEW s, Extends(st, s, P)
  PROVE  Behind(t, st, s)
<1>1. CASE s # Bare
  BY <1>1 DEF Behind
<1>2. CASE s = Bare
  <2> DEFINE S == Frames
             T == PlainTask(t)
  <2>1. PICK top \in Seq(S), bottom \in S :
          s = Append(top, bottom) /\ st = Append(top, bottom \o P)
    BY DEF Extends
  <2>2. P \in Seq(WriteTask) /\ S = Seq(WriteTask)
    BY PlainFacts DEF Frames
  <2> HIDE DEF S, T
  <2>3. Len(s) = Len(top) + 1 /\ Len(top) \in Nat
    BY <2>1, AppendProperties, LenProperties
  <2>4. Len(s) = 1 /\ s[1] = <<>>
    BY <1>2 DEF Bare
  <2>5. top = <<>>
    BY <2>1, <2>3, <2>4, EmptySeq
  <2>6. s = <<bottom>> /\ st = <<bottom \o P>>
    BY <2>1, <2>5
  <2>7. bottom = <<>>
    BY <2>4, <2>6
  <2>8. <<>> \o P = P
    BY <2>2, ConcatEmptySeq
  <2>9. st = <<P>>
    BY <2>6, <2>7, <2>8
  <2>10. <<P>> \in Seq(Seq(T)) /\ Len(<<P>>) = 1
    BY DEF T
  <2>11. PlainStack(t, st)
    BY <2>9, <2>10 DEF PlainStack, T
  <2>12. QED
    BY <1>2, <2>11 DEF Behind
<1>3. QED
  BY <1>1, <1>2

(* A step of the writer is a step of the run, or one with a plain task     *)
(* that the page does not show.                                            *)
LEMMA StepTogether ==
  ASSUME NEW t \in Table, NEW st, NEW s, NEW h, NEW l, Behind(t, st, s), st # <<>>,
         Len(st) <= MaxDepth, Head(st) # <<>> => Doable(t, NextOf(st))
  PROVE  \/ /\ Able(t, <<s, h, l>>)
            /\ Behind(t, StackAfter(t, st), StackAfter(t, s))
            /\ After(t, <<s, h, l>>)
                 = <<StackAfter(t, s), HeadingsAfter(t, st, h), LinksAfter(t, st, l)>>
         \/ /\ Behind(t, StackAfter(t, st), s)
            /\ HeadingsAfter(t, st, h) = h /\ LinksAfter(t, st, l) = l
<1>1. CASE s = Bare
  <2>1. PlainStack(t, st)
    BY <1>1 DEF Behind
  <2>2. /\ PlainStack(t, StackAfter(t, st))
        /\ HeadingsAfter(t, st, h) = h /\ LinksAfter(t, st, l) = l
    BY <2>1, PlainSteps
  <2>3. QED
    BY <1>1, <2>2 DEF Behind
<1>2. CASE s # Bare
  <2>1. PICK P \in Seq(PlainTask(t)) : Extends(st, s, P)
    BY <1>2 DEF Behind
  <2>2. P \in Frames
    BY PlainFacts
  <2>3. /\ s # <<>> /\ Len(st) = Len(s)
        /\ Head(s) = <<>> => Head(st) = <<>> /\ Extends(Tail(st), Tail(s), P)
        /\ Head(s) # <<>> => /\ Head(st) # <<>> /\ NextOf(st) = NextOf(s)
                             /\ NextOf(s) \in WriteTask
                             /\ Extends(Without(st), Without(s), P)
    BY <1>2, <2>1, <2>2, ExtendsFacts
  <2>4. Able(t, <<s, h, l>>)
    <3>1. /\ Len(s) <= MaxDepth /\ s # <<>> /\ s # Bare
          /\ Head(s) # <<>> => Doable(t, NextOf(s))
      BY <1>2, <2>3
    <3>2. QED
      BY <3>1 DEF Able
  <2>5. Extends(StackAfter(t, st), StackAfter(t, s), P)
    <3>1. CASE Head(s) = <<>>
      BY <2>3, <3>1 DEF StackAfter
    <3>2. CASE Head(s) # <<>>
      <4> DEFINE calls == Calls(t, NextOf(s))
      <4>1. calls \in Seq(Frames)
        BY <2>3, <3>2, CallsFacts
      <4>2. StackAfter(t, st) = calls \o Without(st) /\ StackAfter(t, s) = calls \o Without(s)
        BY <2>3, <3>2 DEF StackAfter
      <4> HIDE DEF calls
      <4>3. Extends(Without(st), Without(s), P)
        BY <2>3, <3>2
      <4>4. QED
        BY <2>2, <4>1, <4>2, <4>3, ExtendsMore
    <3>3. QED
      BY <3>1, <3>2
  <2>6. Behind(t, StackAfter(t, st), StackAfter(t, s))
    BY <2>5, Normalise
  <2>7. HeadingsAfter(t, s, h) = HeadingsAfter(t, st, h) /\ LinksAfter(t, s, l) = LinksAfter(t, st, l)
    <3>1. CASE Head(s) = <<>>
      BY <2>3, <3>1 DEF HeadingsAfter, LinksAfter
    <3>2. CASE Head(s) # <<>>
      BY <2>3, <3>2 DEF HeadingsAfter, LinksAfter
    <3>3. QED
      BY <3>1, <3>2
  <2>8. QED
    BY <2>4, <2>6, <2>7 DEF After
<1>3. QED
  BY <1>1, <1>2

(* A writer that follows a run to its end can always go on.                *)
LEMMA CanGoOn ==
  ASSUME NEW t \in Table, MaxDepth \in Nat, Len(t) < MaxDepth, NEW st, NEW s, NEW h, NEW l,
         NEW h2, NEW l2, Behind(t, st, s), Leads(t, <<s, h, l>>, <<Bare, h2, l2>>)
  PROVE  /\ Len(st) <= MaxDepth
         /\ st # <<>> /\ Head(st) # <<>> => Doable(t, NextOf(st))
         /\ st = <<>> => s = Bare
         /\ s = Bare => h = h2 /\ l = l2
<1>1. CASE s = Bare
  <2>1. PlainStack(t, st)
    BY <1>1 DEF Behind
  <2>2. Len(t) \in Nat /\ (Refs(t) # {} => Len(t) >= 1)
    <3>1. Len(t) \in Nat
      BY LenProperties DEF Table
    <3>2. QED
      BY <3>1 DEF Refs
  <2>3. Len(st) <= 1 \/ (Len(st) = 2 /\ Refs(t) # {})
    BY <2>1 DEF PlainStack
  <2>4. Len(st) \in Nat
    BY <2>1, LenProperties DEF PlainStack
  <2>5. Len(st) <= MaxDepth
    <3>1. Len(st) <= 1 => Len(st) <= MaxDepth
      BY <2>2, <2>4
    <3>2. Len(t) >= 1 => 2 <= MaxDepth
      BY <2>2
    <3>3. Len(st) = 2 /\ Refs(t) # {} => Len(st) <= MaxDepth
      BY <2>2, <3>2
    <3>4. QED
      BY <2>3, <3>1, <3>3
  <2>6. st # <<>> /\ Head(st) # <<>> => Doable(t, NextOf(st))
    BY <2>1, PlainSteps, PlainFacts
  <2>7. ~Able(t, <<s, h, l>>)
    BY <1>1 DEF Able
  <2>8. <<s, h, l>> = <<Bare, h2, l2>>
    BY <2>7, LeadsFacts
  <2>9. QED
    BY <1>1, <2>5, <2>6, <2>8
<1>2. CASE s # Bare
  <2>1. PICK P \in Seq(PlainTask(t)) : Extends(st, s, P)
    BY <1>2 DEF Behind
  <2>2. P \in Frames
    BY PlainFacts
  <2>3. /\ st # <<>> /\ s # <<>> /\ Len(st) = Len(s)
        /\ Head(s) = <<>> => Head(st) = <<>>
        /\ Head(s) # <<>> => NextOf(st) = NextOf(s)
    BY <1>2, <2>1, <2>2, ExtendsFacts
  <2>4. <<s, h, l>> # <<Bare, h2, l2>>
    BY <1>2
  <2>5. Able(t, <<s, h, l>>)
    BY <2>4, LeadsFacts
  <2>6. Len(s) <= MaxDepth /\ (Head(s) # <<>> => Doable(t, NextOf(s)))
    BY <2>5 DEF Able
  <2>7. QED
    BY <1>2, <2>3, <2>6
<1>3. QED
  BY <1>1, <1>2

(* A page begins like the run that begins with the front.                  *)
Origin(f) == << <<Sections(f, TRUE)>>, <<>>, {} >>

LEMMA Beginning ==
  ASSUME NEW t \in Table, NEW W, NEW frame, Starts(t, W, frame)
  PROVE  \E f : Leading(t, W, f) /\ Behind(t, <<frame>>, <<Sections(f, TRUE)>>)
<1>1. PICK f, P : /\ Leading(t, W, f) /\ f \in Seq(Refs(t))
                  /\ P \in Seq(PlainTask(t)) /\ frame = Sections(f, TRUE) \o P
  BY DEF Starts
<1> DEFINE front == Sections(f, TRUE)
<1>2. front \in Frames
  <2>1. Refs(t) \subseteq Nat
    BY RefsFacts
  <2>2. {Section(r, TRUE) : r \in Refs(t)} \subseteq WriteTask
    <3>1. ASSUME NEW r \in Refs(t) PROVE Section(r, TRUE) \in WriteTask
      <4>1. r \in Nat
        BY <2>1
      <4>2. QED
        BY <4>1 DEF Section, WriteTask
    <3>2. QED
      BY <3>1
  <2>3. front \in Seq({Section(r, TRUE) : r \in Refs(t)})
    BY <1>1, SectionsOf
  <2>4. QED
    BY <2>2, <2>3, SeqMonotonic DEF Frames
<1> HIDE DEF front
<1>3. <<front>> = Append(<<>>, front) /\ <<frame>> = Append(<<>>, frame) /\ <<>> \in Seq(Frames)
  OBVIOUS
<1>4. Extends(<<frame>>, <<front>>, P)
  BY <1>1, <1>2, <1>3 DEF Extends, front
<1>5. Behind(t, <<frame>>, <<front>>)
  BY <1>1, <1>4, Normalise
<1>6. QED
  BY <1>1, <1>5 DEF front

(* A part TypeScript writes is a step of a run, ...                         *)
LEMMA TsWritesAfter ==
  ASSUME types \in Table, TsInv, Ts!WritePart
  PROVE  /\ tsStack # <<>> /\ Head(tsStack) # <<>> /\ Len(tsStack) <= MaxDepth
         /\ Doable(types, NextOf(tsStack))
         /\ tsStack' = StackAfter(types, tsStack)
         /\ tsHeadings' = HeadingsAfter(types, tsStack, tsHeadings)
         /\ tsLinks' = LinksAfter(types, tsStack, tsLinks)
<1> DEFINE task == NextOf(tsStack)
           left == Without(tsStack)
<1>1. tsPhase = "write" /\ tsStack # <<>> /\ Head(tsStack) # <<>> /\ Len(tsStack) <= MaxDepth
  BY DEF Ts!WritePart, Ts!WriteSection, Ts!WriteFunction, Ts!WriteName, Ts!Writing, Ts!Running,
         Ts!HasNext
<1>2. tsStack \in Seq(Seq(WriteTask))
  BY <1>1 DEF TsInv, WriterInv, WriteInv
<1>3. <<>> \o left = left
  <2>1. left \in Seq(Seq(WriteTask))
    BY <1>1, <1>2, ContinueFacts DEF Without
  <2> HIDE DEF left
  <2>2. QED
    BY <2>1, ConcatEmptySeq
<1>4. ASSUME Doable(types, task),
            
             tsStack' = Calls(types, task) \o left,
             tsHeadings' = IF HeadingOf(types, task) # {} THEN Append(tsHeadings, task.ref)
                           ELSE tsHeadings,
             tsLinks' = tsLinks \cup LinkOf(types, task)
      PROVE  /\ tsStack' = StackAfter(types, tsStack)
             /\ tsHeadings' = HeadingsAfter(types, tsStack, tsHeadings)
             /\ tsLinks' = LinksAfter(types, tsStack, tsLinks)
             /\ Doable(types, NextOf(tsStack))
  BY <1>1, <1>4 DEF StackAfter, HeadingsAfter, LinksAfter
<1> HIDE DEF task, left
<1>5. CASE Ts!WriteSection
  <2>1. /\ task.write = "section" /\ InRange(types, task.ref)
        /\ IF HasHeading(types, task)
           THEN Ts!WriteHeading(task.ref, <<Parts(types, task.ref)>> \o left)
           ELSE Ts!WriteOther(<<Parts(types, task.ref)>> \o left)
    BY <1>5, SameDefinitions, StackFacts DEF Ts!WriteSection, Ts!Writing, task, left
  <2>2. /\ LinkOf(types, task) = {} /\ Calls(types, task) = <<Parts(types, task.ref)>>
        /\ Doable(types, task)
        /\ HeadingOf(types, task) # {} <=> HasHeading(types, task)
    BY <2>1 DEF LinkOf, Calls, HeadingOf, Doable
  <2>3. QED
    BY <1>1, <1>4, <2>1, <2>2 DEF Ts!WriteHeading, Ts!WriteOther, Ts!Write
<1>6. CASE Ts!WriteFunction
  <2>1. /\ task.write = "function" /\ InRange(types, task.ref)
        /\ At(types, task.ref).kind = "FunctionType"
        /\ Ts!WriteOther(<<Names(At(types, task.ref).refs)>> \o left)
    BY <1>6, SameDefinitions, StackFacts DEF Ts!WriteFunction, Ts!Writing, task, left
  <2>2. /\ LinkOf(types, task) = {} /\ HeadingOf(types, task) = {}
        /\ Calls(types, task) = <<Names(At(types, task.ref).refs)>> /\ Doable(types, task)
    BY <2>1 DEF LinkOf, Calls, HeadingOf, Doable
  <2>3. QED
    BY <1>1, <1>4, <2>1, <2>2 DEF Ts!WriteOther, Ts!Write
<1>7. CASE Ts!WriteName
  <2>1. /\ task.write = "name" /\ InRange(types, task.ref)
        /\ At(types, task.ref).kind \notin {"NamespaceFunctionType", "FunctionType"}
        /\ IF At(types, task.ref).kind \in Linkable THEN Ts!WriteLink(task.ref, left)
           ELSE IF At(types, task.ref).kind \in Composed
                THEN Ts!WriteOther(<<Names(At(types, task.ref).refs)>> \o left)
           ELSE Ts!WriteOther(left)
    BY <1>7, SameDefinitions, StackFacts DEF Ts!WriteName, Ts!Nameable, Ts!Writing, task, left
  <2>2. HeadingOf(types, task) = {} /\ Doable(types, task)
    BY <2>1 DEF HeadingOf, Doable
  <2>3. CASE At(types, task.ref).kind \in Linkable
    <3>1. LinkOf(types, task) = {task.ref} /\ Calls(types, task) = <<>>
      BY <2>1, <2>3 DEF LinkOf, Calls, Linkable, Composed
    <3>2. QED
      BY <1>1, <1>3, <1>4, <2>1, <2>2, <2>3, <3>1 DEF Ts!WriteLink, Ts!Write
  <2>4. CASE At(types, task.ref).kind \in Composed
    <3>1. At(types, task.ref).kind \notin Linkable
      BY <2>4 DEF Linkable, Composed
    <3>2. LinkOf(types, task) = {} /\ Calls(types, task) = <<Names(At(types, task.ref).refs)>>
      BY <2>1, <2>4, <3>1 DEF LinkOf, Calls
    <3>3. QED
      BY <1>1, <1>4, <2>1, <2>2, <2>4, <3>1, <3>2 DEF Ts!WriteOther, Ts!Write
  <2>5. CASE At(types, task.ref).kind \notin Linkable \cup Composed
    <3>1. LinkOf(types, task) = {} /\ Calls(types, task) = <<>>
      BY <2>1, <2>5 DEF LinkOf, Calls
    <3>2. QED
      BY <1>1, <1>3, <1>4, <2>1, <2>2, <2>5, <3>1 DEF Ts!WriteOther, Ts!Write
  <2>6. QED
    BY <2>3, <2>4, <2>5
<1>8. QED
  BY <1>1, <1>5, <1>6, <1>7 DEF Ts!WritePart, task

(* So is a part Go writes, when it can be written, ...                      *)
LEMMA GoWritesAfter ==
  ASSUME types \in Table, GoInv, Go!WritePart, Doable(types, NextOf(goStack))
  PROVE  /\ goStack # <<>> /\ Head(goStack) # <<>> /\ Len(goStack) <= MaxDepth
         /\ goStack' = StackAfter(types, goStack)
         /\ goHeadings' = HeadingsAfter(types, goStack, goHeadings)
         /\ goLinks' = LinksAfter(types, goStack, goLinks)
<1> DEFINE task == NextOf(goStack)
           left == Without(goStack)
<1>1. goPhase = "write" /\ goStack # <<>> /\ Head(goStack) # <<>> /\ Len(goStack) <= MaxDepth
  BY DEF Go!WritePart, Go!WriteSection, Go!WriteFunction, Go!WriteName, Go!Writing, Go!Running,
         Go!HasNext
<1>2. goStack \in Seq(Seq(WriteTask))
  BY <1>1 DEF GoInv, WriterInv, WriteInv
<1>3. <<>> \o left = left
  <2>1. left \in Seq(Seq(WriteTask))
    BY <1>1, <1>2, ContinueFacts DEF Without
  <2> HIDE DEF left
  <2>2. QED
    BY <2>1, ConcatEmptySeq
<1>4. ASSUME goStack' = Calls(types, task) \o left,
             goHeadings' = IF HeadingOf(types, task) # {} THEN Append(goHeadings, task.ref)
                           ELSE goHeadings,
             goLinks' = goLinks \cup LinkOf(types, task)
      PROVE  /\ goStack' = StackAfter(types, goStack)
             /\ goHeadings' = HeadingsAfter(types, goStack, goHeadings)
             /\ goLinks' = LinksAfter(types, goStack, goLinks)
  BY <1>1, <1>4 DEF StackAfter, HeadingsAfter, LinksAfter
<1> HIDE DEF task, left
<1>5. CASE Go!WriteSection
  <2>1. /\ task.write = "section" /\ InRange(types, task.ref)
        /\ IF HasHeading(types, task)
           THEN Go!WriteHeading(task.ref, <<Parts(types, task.ref)>> \o left)
           ELSE Go!WriteOther(<<Parts(types, task.ref)>> \o left)
    BY <1>5, SameDefinitions, StackFacts DEF Go!WriteSection, Go!Writing, task, left, Doable
  <2>2. /\ LinkOf(types, task) = {} /\ Calls(types, task) = <<Parts(types, task.ref)>>
        /\ Doable(types, task)
        /\ HeadingOf(types, task) # {} <=> HasHeading(types, task)
    BY <2>1 DEF LinkOf, Calls, HeadingOf, Doable
  <2>3. QED
    BY <1>1, <1>4, <2>1, <2>2 DEF Go!WriteHeading, Go!WriteOther, Go!Write
<1>6. CASE Go!WriteFunction
  <2>1. /\ task.write = "function" /\ InRange(types, task.ref)
        /\ At(types, task.ref).kind = "FunctionType"
        /\ Go!WriteOther(<<Names(At(types, task.ref).refs)>> \o left)
    BY <1>6, SameDefinitions, StackFacts DEF Go!WriteFunction, Go!Writing, task, left, Doable
  <2>2. /\ LinkOf(types, task) = {} /\ HeadingOf(types, task) = {}
        /\ Calls(types, task) = <<Names(At(types, task.ref).refs)>> /\ Doable(types, task)
    BY <2>1 DEF LinkOf, Calls, HeadingOf, Doable
  <2>3. QED
    BY <1>1, <1>4, <2>1, <2>2 DEF Go!WriteOther, Go!Write
<1>7. CASE Go!WriteName
  <2>1. /\ task.write = "name" /\ InRange(types, task.ref)
        /\ At(types, task.ref).kind \notin {"NamespaceFunctionType", "FunctionType"}
        /\ IF At(types, task.ref).kind \in Linkable THEN Go!WriteLink(task.ref, left)
           ELSE IF At(types, task.ref).kind \in Composed
                THEN Go!WriteOther(<<Names(At(types, task.ref).refs)>> \o left)
           ELSE Go!WriteOther(left)
    BY <1>7, SameDefinitions, StackFacts DEF Go!WriteName, Go!Nameable, Go!Writing, task, left, Doable
  <2>2. HeadingOf(types, task) = {} /\ Doable(types, task)
    BY <2>1 DEF HeadingOf, Doable
  <2>3. CASE At(types, task.ref).kind \in Linkable
    <3>1. LinkOf(types, task) = {task.ref} /\ Calls(types, task) = <<>>
      BY <2>1, <2>3 DEF LinkOf, Calls, Linkable, Composed
    <3>2. QED
      BY <1>1, <1>3, <1>4, <2>1, <2>2, <2>3, <3>1 DEF Go!WriteLink, Go!Write
  <2>4. CASE At(types, task.ref).kind \in Composed
    <3>1. At(types, task.ref).kind \notin Linkable
      BY <2>4 DEF Linkable, Composed
    <3>2. LinkOf(types, task) = {} /\ Calls(types, task) = <<Names(At(types, task.ref).refs)>>
      BY <2>1, <2>4, <3>1 DEF LinkOf, Calls
    <3>3. QED
      BY <1>1, <1>4, <2>1, <2>2, <2>4, <3>1, <3>2 DEF Go!WriteOther, Go!Write
  <2>5. CASE At(types, task.ref).kind \notin Linkable \cup Composed
    <3>1. LinkOf(types, task) = {} /\ Calls(types, task) = <<>>
      BY <2>1, <2>5 DEF LinkOf, Calls
    <3>2. QED
      BY <1>1, <1>3, <1>4, <2>1, <2>2, <2>5, <3>1 DEF Go!WriteOther, Go!Write
  <2>6. QED
    BY <2>3, <2>4, <2>5
<1>8. QED
  BY <1>1, <1>5, <1>6, <1>7 DEF Go!WritePart, task

(* ... and a return of either.                                             *)
LEMMA TsReturnsAfter ==
  ASSUME Ts!Return, tsPhase = "write"
  PROVE  /\ tsStack # <<>> /\ Head(tsStack) = <<>> /\ Len(tsStack) <= MaxDepth
         /\ tsStack' = StackAfter(types, tsStack)
         /\ tsHeadings' = HeadingsAfter(types, tsStack, tsHeadings)
         /\ tsLinks' = LinksAfter(types, tsStack, tsLinks)
         /\ tsPhase' = tsPhase
<1>1. /\ tsStack # <<>> /\ Head(tsStack) = <<>> /\ Len(tsStack) <= MaxDepth
      /\ tsStack' = Tail(tsStack) /\ tsHeadings' = tsHeadings /\ tsLinks' = tsLinks
      /\ tsPhase' = tsPhase
  BY DEF Ts!Return, Ts!Running, Ts!page
<1>2. QED
  BY <1>1 DEF StackAfter, HeadingsAfter, LinksAfter

LEMMA GoReturnsAfter ==
  ASSUME Go!Return, goPhase = "write"
  PROVE  /\ goStack # <<>> /\ Head(goStack) = <<>> /\ Len(goStack) <= MaxDepth
         /\ goStack' = StackAfter(types, goStack)
         /\ goHeadings' = HeadingsAfter(types, goStack, goHeadings)
         /\ goLinks' = LinksAfter(types, goStack, goLinks)
         /\ goPhase' = goPhase
<1>1. /\ goStack # <<>> /\ Head(goStack) = <<>> /\ Len(goStack) <= MaxDepth
      /\ goStack' = Tail(goStack) /\ goHeadings' = goHeadings /\ goLinks' = goLinks
      /\ goPhase' = goPhase
  BY DEF Go!Return, Go!Running, Go!page
<1>2. QED
  BY <1>1 DEF StackAfter, HeadingsAfter, LinksAfter

-----------------------------------------------------------------------------
(* The first writer follows the run of its front; that run is what remains *)
(* for the other.                                                          *)
Follows(t, W, st, h, l) ==
  \E f, s : Leading(t, W, f) /\ Behind(t, st, s) /\ Leads(t, Origin(f), <<s, h, l>>)

Ran(t, W, h, l) == \E f : Leading(t, W, f) /\ Leads(t, Origin(f), <<Bare, h, l>>)

Remains(t, st, h, l, h2, l2) ==
  \E s : Behind(t, st, s) /\ Leads(t, <<s, h, l>>, <<Bare, h2, l2>>)

LEMMA Following ==
  ASSUME NEW t \in Table, NEW W
  PROVE  /\ \A frame : Starts(t, W, frame) => Follows(t, W, <<frame>>, <<>>, {})
         /\ \A h, l : Follows(t, W, <<>>, h, l) => Ran(t, W, h, l)
<1>1. ASSUME NEW frame, Starts(t, W, frame) PROVE Follows(t, W, <<frame>>, <<>>, {})
  <2>1. PICK f : Leading(t, W, f) /\ Behind(t, <<frame>>, <<Sections(f, TRUE)>>)
    BY <1>1, Beginning
  <2>2. Leads(t, Origin(f), << <<Sections(f, TRUE)>>, <<>>, {} >>)
    BY LeadsFacts DEF Origin
  <2>3. QED
    BY <2>1, <2>2 DEF Follows
<1>2. ASSUME NEW h, NEW l, Follows(t, W, <<>>, h, l) PROVE Ran(t, W, h, l)
  <2>1. PICK f, s : Leading(t, W, f) /\ Behind(t, <<>>, s) /\ Leads(t, Origin(f), <<s, h, l>>)
    BY <1>2 DEF Follows
  <2>2. s = Bare
    <3>1. ASSUME s # Bare PROVE FALSE
      <4>1. PICK P \in Seq(PlainTask(t)) : Extends(<<>>, s, P)
        BY <2>1, <3>1 DEF Behind
      <4>2. P \in Frames
        BY PlainFacts
      <4>3. QED
        BY <3>1, <4>1, <4>2, ExtendsFacts
    <3>2. QED
      BY <3>1
  <2>3. QED
    BY <2>1, <2>2 DEF Ran
<1>3. QED
  BY <1>1, <1>2

LEMMA FollowsOn ==
  ASSUME NEW t \in Table, NEW W, NEW st, NEW h, NEW l, Follows(t, W, st, h, l), st # <<>>,
         Len(st) <= MaxDepth, Head(st) # <<>> => Doable(t, NextOf(st))
  PROVE  Follows(t, W, StackAfter(t, st), HeadingsAfter(t, st, h), LinksAfter(t, st, l))
<1>1. PICK f, s : Leading(t, W, f) /\ Behind(t, st, s) /\ Leads(t, Origin(f), <<s, h, l>>)
  BY DEF Follows
<1> DEFINE st2 == StackAfter(t, st)
           s2 == StackAfter(t, s)
           h2 == HeadingsAfter(t, st, h)
           l2 == LinksAfter(t, st, l)
<1>2. \/ /\ Able(t, <<s, h, l>>) /\ Behind(t, st2, s2) /\ After(t, <<s, h, l>>) = <<s2, h2, l2>>
      \/ /\ Behind(t, st2, s) /\ h2 = h /\ l2 = l
  BY <1>1, StepTogether
<1> HIDE DEF st2, s2, h2, l2
<1>3. CASE Able(t, <<s, h, l>>) /\ Behind(t, st2, s2) /\ After(t, <<s, h, l>>) = <<s2, h2, l2>>
  <2>1. Leads(t, Origin(f), After(t, <<s, h, l>>))
    BY <1>1, <1>3, LeadsFacts
  <2>2. Follows(t, W, st2, h2, l2)
    BY <1>1, <1>3, <2>1 DEF Follows
  <2>3. QED
    BY <2>2 DEF st2, h2, l2
<1>4. CASE Behind(t, st2, s) /\ h2 = h /\ l2 = l
  <2>1. Follows(t, W, st2, h2, l2)
    BY <1>1, <1>4 DEF Follows
  <2>2. QED
    BY <2>1 DEF st2, h2, l2
<1>5. QED
  BY <1>2, <1>3, <1>4

(* What was written by one can be written by the other.                    *)
LEMMA Remaining ==
  ASSUME NEW t \in Table, NEW W, NEW h2, NEW l2, Ran(t, W, h2, l2), NEW frame, Starts(t, W, frame)
  PROVE  Remains(t, <<frame>>, <<>>, {}, h2, l2)
<1>1. PICK f : Leading(t, W, f) /\ Behind(t, <<frame>>, <<Sections(f, TRUE)>>)
  BY Beginning
<1>2. PICK g : Leading(t, W, g) /\ Leads(t, Origin(g), <<Bare, h2, l2>>)
  BY DEF Ran
<1>3. f = g
  BY <1>1, <1>2, OneLeading
<1>4. Leads(t, << <<Sections(f, TRUE)>>, <<>>, {} >>, <<Bare, h2, l2>>)
  BY <1>2, <1>3 DEF Origin
<1>5. QED
  BY <1>1, <1>4 DEF Remains

LEMMA RemainsFacts ==
  ASSUME NEW t \in Table, MaxDepth \in Nat, Len(t) < MaxDepth, NEW st, NEW h, NEW l, NEW h2, NEW l2,
         Remains(t, st, h, l, h2, l2)
  PROVE  /\ Len(st) <= MaxDepth
         /\ st # <<>> /\ Head(st) # <<>> => Doable(t, NextOf(st))
         /\ st = <<>> => h = h2 /\ l = l2
         /\ st # <<>> =>
              Remains(t, StackAfter(t, st), HeadingsAfter(t, st, h), LinksAfter(t, st, l), h2, l2)
<1>1. PICK s : Behind(t, st, s) /\ Leads(t, <<s, h, l>>, <<Bare, h2, l2>>)
  BY DEF Remains
<1>2. /\ Len(st) <= MaxDepth
      /\ st # <<>> /\ Head(st) # <<>> => Doable(t, NextOf(st))
      /\ st = <<>> => s = Bare
      /\ s = Bare => h = h2 /\ l = l2
  BY <1>1, CanGoOn
<1> DEFINE st3 == StackAfter(t, st)
           s3 == StackAfter(t, s)
           h3 == HeadingsAfter(t, st, h)
           l3 == LinksAfter(t, st, l)
<1>3. ASSUME st # <<>> PROVE Remains(t, st3, h3, l3, h2, l2)
  <2>1. \/ /\ Able(t, <<s, h, l>>) /\ Behind(t, st3, s3) /\ After(t, <<s, h, l>>) = <<s3, h3, l3>>
        \/ /\ Behind(t, st3, s) /\ h3 = h /\ l3 = l
    BY <1>1, <1>2, <1>3, StepTogether
  <2> HIDE DEF st3, s3, h3, l3
  <2>2. CASE Able(t, <<s, h, l>>) /\ Behind(t, st3, s3) /\ After(t, <<s, h, l>>) = <<s3, h3, l3>>
    <3>1. s # Bare
      BY <2>2 DEF Able
    <3>2. <<s, h, l>> # <<Bare, h2, l2>>
      BY <3>1
    <3>3. Leads(t, After(t, <<s, h, l>>), <<Bare, h2, l2>>)
      BY <1>1, <3>2, LeadsFacts
    <3>4. QED
      BY <2>2, <3>3 DEF Remains
  <2>3. CASE Behind(t, st3, s) /\ h3 = h /\ l3 = l
    BY <1>1, <2>3 DEF Remains
  <2>4. QED
    BY <2>1, <2>2, <2>3
<1>4. QED
  BY <1>2, <1>3

-----------------------------------------------------------------------------
(* The walk of Go makes one call for a type at most.                       *)
Shallow(st, seen) == Len(st) <= Cardinality(seen)

(* How calls change the depth.                                             *)
LEMMA DepthFacts ==
  ASSUME NEW T, NEW st \in Seq(Seq(T)), st # <<>>
  PROVE  /\ Len(st) \in Nat /\ Len(Tail(st)) = Len(st) - 1
         /\ Head(st) # <<>> =>
              /\ Len(Without(st)) = Len(st)
              /\ \A frame \in Seq(T) : Len(<<frame>> \o Without(st)) = Len(st) + 1
<1> DEFINE F == Seq(T)
<1>1. st \in Seq(F)
  OBVIOUS
<1> HIDE DEF F
<1>2. Len(st) \in Nat /\ Len(Tail(st)) = Len(st) - 1 /\ Tail(st) \in Seq(F) /\ Head(st) \in F
  BY <1>1, NotEmpty, HeadAndTail
<1>3. ASSUME NEW frame \in F, NEW s \in Seq(F)
      PROVE  <<frame>> \o s \in Seq(F) /\ Len(<<frame>> \o s) = Len(s) + 1
  <2> DEFINE one == <<frame>>
  <2>1. one \in Seq(F) /\ Len(one) = 1
    BY SingleSet
  <2> HIDE DEF one
  <2>2. one \o s \in Seq(F) /\ Len(one \o s) = Len(one) + Len(s) /\ Len(s) \in Nat
    BY <2>1, ConcatProperties, LenProperties
  <2>3. QED
    BY <2>1, <2>2 DEF one
<1>4. ASSUME Head(st) # <<>>
      PROVE  /\ Without(st) \in Seq(F) /\ Len(Without(st)) = Len(st)
             /\ \A frame \in F : Len(<<frame>> \o Without(st)) = Len(st) + 1
  <2>1. Tail(Head(st)) \in F
    BY <1>2, <1>4, HeadAndTail DEF F
  <2>2. Without(st) \in Seq(F) /\ Len(Without(st)) = Len(Tail(st)) + 1
    BY <1>2, <1>3, <2>1 DEF Without
  <2>3. Len(Without(st)) = Len(st)
    BY <1>2, <2>2
  <2>4. QED
    BY <1>3, <2>2, <2>3
<1>5. QED
  BY <1>2, <1>4 DEF F

(* The walk has been at types of the table only.                           *)
LEMMA SeenFacts ==
  ASSUME types \in Table, GoInv, goPhase = "collect"
  PROVE  /\ goVisited \subseteq Refs(types) /\ IsFiniteSet(goVisited)
         /\ Cardinality(goVisited) \in Nat /\ Cardinality(goVisited) <= Len(types)
<1>1. goVisited \subseteq Refs(types)
  BY DEF GoInv, WriterInv, CollectInv, Collected
<1>2. Len(types) \in Nat
  BY DEF Table
<1>3. IsFiniteSet(Refs(types)) /\ Cardinality(Refs(types)) = Len(types)
  <2>1. Len(types) - 1 \in Int /\ 0 \in Int
    BY <1>2
  <2>2. /\ IsFiniteSet(0..(Len(types) - 1))
        /\ Cardinality(0..(Len(types) - 1)) = IF 0 > Len(types) - 1 THEN 0 ELSE Len(types) - 1 - 0 + 1
    BY <2>1, FS_Interval
  <2>3. QED
    BY <1>2, <2>2 DEF Refs
<1>4. IsFiniteSet(goVisited) /\ Cardinality(goVisited) <= Cardinality(Refs(types))
  BY <1>1, <1>3, FS_Subset
<1>5. Cardinality(goVisited) \in Nat
  BY <1>4, FS_CardinalityType
<1>6. QED
  BY <1>1, <1>3, <1>4, <1>5

LEMMA GoHasRoom ==
  ASSUME types \in Inputs, GoInv, goPhase = "collect", Shallow(goStack, goVisited)
  PROVE  Len(goStack) <= MaxDepth
<1>1. types \in Table /\ Len(types) < MaxDepth /\ MaxDepth \in Nat
  BY InputAssumption, DepthAssumption
<1>2. Len(types) \in Nat
  BY <1>1 DEF Table
<1>3. Len(goStack) \in Nat
  BY LenProperties DEF GoInv, WriterInv, CollectInv
<1>4. Cardinality(goVisited) \in Nat /\ Cardinality(goVisited) <= Len(types)
  BY <1>1, SeenFacts
<1>5. QED
  BY <1>1, <1>2, <1>3, <1>4 DEF Shallow

LEMMA GoStaysShallow ==
  ASSUME types \in Table, GoInv, goPhase = "collect", Shallow(goStack, goVisited),
         Go!StartRoot \/ Go!Visit \/ (Go!Return /\ goVisited' = goVisited)
  PROVE  Shallow(goStack', goVisited')
<1>1. goStack \in Seq(Seq(StepTask)) /\ goRoots \in Seq(StepTask)
  BY DEF GoInv, WriterInv, CollectInv
<1>2. IsFiniteSet(goVisited) /\ Cardinality(goVisited) \in Nat
  BY SeenFacts
<1>3. CASE Go!StartRoot
  <2>1. CASE InRange(types, Head(goRoots).ref)
    <3>1. goVisited' = {Head(goRoots).ref} /\ goStack' = <<Steps(types, Head(goRoots).ref)>>
      BY <1>3, <2>1, SameDefinitions DEF Go!StartRoot
    <3>2. Len(goStack') = 1 /\ Cardinality(goVisited') = 1
      BY <3>1, FS_Singleton
    <3>3. QED
      BY <3>2 DEF Shallow
  <2>2. CASE ~InRange(types, Head(goRoots).ref)
    BY <1>3, <2>2, SameDefinitions DEF Go!StartRoot
  <2>3. QED
    BY <2>1, <2>2
<1>4. CASE Go!Visit
  <2>1. goStack # <<>> /\ Head(goStack) # <<>>
    BY <1>4 DEF Go!Visit, Go!HasNext
  <2>2. /\ Len(goStack) \in Nat /\ Len(Without(goStack)) = Len(goStack)
        /\ \A frame \in Seq(StepTask) : Len(<<frame>> \o Without(goStack)) = Len(goStack) + 1
    BY <1>1, <2>1, DepthFacts
  <2>3. NextOf(goStack) \in StepTask
    BY <1>1, <2>1, ContinueFacts DEF NextOf
  <2> DEFINE ref == NextOf(goStack).ref
  <2>4. CASE InRange(types, ref) /\ ref \notin goVisited
    <3>1. /\ goVisited' = goVisited \cup {ref}
          /\ goStack' = <<Steps(types, ref)>> \o Without(goStack)
      BY <1>4, <2>4, SameDefinitions, StackFacts DEF Go!Visit
    <3>2. ref \in Refs(types)
      BY <2>3, <2>4, RefsFacts DEF StepTask
    <3>3. Steps(types, ref) \in Seq(StepTask)
      BY <3>2, StepsFacts
    <3>4. Len(goStack') = Len(goStack) + 1
      BY <2>2, <3>1, <3>3
    <3>5. Cardinality(goVisited') = Cardinality(goVisited) + 1
      BY <1>2, <2>4, <3>1, FS_AddElement
    <3>6. QED
      BY <1>2, <2>2, <3>4, <3>5 DEF Shallow
  <2>5. CASE ~(InRange(types, ref) /\ ref \notin goVisited)
    <3>1. goVisited' = goVisited /\ goStack' = Without(goStack)
      BY <1>4, <2>5, SameDefinitions, StackFacts DEF Go!Visit
    <3>2. QED
      BY <2>2, <3>1 DEF Shallow
  <2>6. QED
    BY <2>4, <2>5
<1>5. CASE Go!Return /\ goVisited' = goVisited
  <2>1. goStack # <<>> /\ goStack' = Tail(goStack)
    BY <1>5 DEF Go!Return
  <2>2. Len(goStack) \in Nat /\ Len(Tail(goStack)) = Len(goStack) - 1
    BY <1>1, <2>1, DepthFacts
  <2>3. QED
    BY <1>2, <1>5, <2>1, <2>2 DEF Shallow
<1>6. QED
  BY <1>3, <1>4, <1>5

-----------------------------------------------------------------------------
(* Of a table that both order alike, TypeScript follows the run of the     *)
(* front, and Go what TypeScript has written.                              *)
InStep ==
  /\ tsPhase = "write" => Follows(types, ToSet(tsTypesToWrite), tsStack, tsHeadings, tsLinks)
  /\ tsPhase = "done" =>
       /\ goPhase \in {"collect", "write", "done"}
       /\ Ran(types, ToSet(tsTypesToWrite), tsHeadings, tsLinks)
       /\ goPhase = "write" => Remains(types, goStack, goHeadings, goLinks, tsHeadings, tsLinks)
       /\ goPhase = "done" => goHeadings = tsHeadings /\ goLinks = tsLinks

Together ==
  /\ types \in Inputs
  /\ goPhase = "collect" => Shallow(goStack, goVisited)
  /\ tsPhase \in {"collect", "write"} => goPhase = "collect"
  /\ Alike(types) => InStep

(* When nothing is left to collect, the list is settled.                   *)
LEMMA CollectedSettled ==
  ASSUME NEW t \in Table, NEW seen, NEW list, NEW h, NEW L,
         WriterInv(t, <<>>, <<>>, seen, list, h, L, "collect")
  PROVE  Settled(t, ToSet(list)) /\ h = <<>> /\ L = {}
<1>1. CollectInv(t, <<>>, <<>>, seen, list) /\ h = <<>> /\ L = {}
  BY DEF WriterInv
<1>2. Pending(<<>>) \cup ToSet(<<>>) = {}
  BY NothingPending
<1>3. Collected(t, seen, ToSet(list), {}) /\ Justified(t, ToSet(list), {})
  BY <1>1, <1>2 DEF CollectInv
<1>4. QED
  BY <1>1, <1>3 DEF Collected, Justified, Settled

(* TypeScript writes first.                                                *)
LEMMA TsInStep ==
  ASSUME Inv, Together, tsPhase \in {"collect", "write"}, types' = types, UNCHANGED goVars,
         \/ Ts!StartRoot \/ Ts!Visit \/ Ts!StartPage \/ Ts!WritePart \/ Ts!End
  PROVE  Together'
<1> DEFINE W == ToSet(tsTypesToWrite)
<1>1. /\ types \in Table /\ TsInv /\ goPhase = "collect" /\ Shallow(goStack, goVisited)
      /\ Alike(types) => InStep
  BY DEF Inv, Together
<1>2. goPhase' = "collect" /\ Shallow(goStack, goVisited)'
  BY <1>1 DEF goVars, Shallow
<1>3. SUFFICES ASSUME Alike(types) PROVE InStep'
  <2>1. Alike(types') = Alike(types)
    OBVIOUS
  <2>2. (Alike(types) => InStep)' <=> (Alike(types') => InStep')
    BY DEF Alike, Sorted, Data
  <2>3. QED
    BY <1>1, <1>2, <2>1 DEF Together
<1>4. CASE Ts!StartRoot \/ Ts!Visit
  <2>1. tsPhase' = "collect"
    BY <1>4 DEF Ts!StartRoot, Ts!Visit, Ts!Running
  <2>2. QED
    BY <2>1 DEF InStep
<1>5. CASE Ts!StartPage
  <2>1. /\ tsPhase = "collect" /\ tsStack = <<>> /\ tsRoots = <<>> /\ tsPhase' = "write"
        /\ tsHeadings' = tsHeadings /\ tsLinks' = tsLinks /\ tsTypesToWrite' = tsTypesToWrite
    BY <1>5 DEF Ts!StartPage, Ts!StartWriting, Ts!Running, Ts!page
  <2>2. PICK all \in Ts!Combined : tsStack' = <<Sections(all, TRUE)>>
    BY <1>5, SameDefinitions DEF Ts!StartPage, Ts!StartWriting
  <2>3. Settled(types, W) /\ tsHeadings = <<>> /\ tsLinks = {}
    BY <1>1, <2>1, CollectedSettled DEF TsInv
  <2>4. Starts(types, W, Sections(all, TRUE))
    BY <1>1, <1>3, <2>3, TsStartsAlike
  <2>5. Follows(types, W, tsStack', tsHeadings', tsLinks')
    BY <1>1, <2>1, <2>2, <2>3, <2>4, Following
  <2>6. QED
    BY <2>1, <2>5 DEF InStep
<1>6. CASE Ts!WritePart
  <2>1. tsPhase = "write" /\ tsPhase' = "write" /\ tsTypesToWrite' = tsTypesToWrite
    BY <1>6 DEF Ts!WritePart, Ts!WriteSection, Ts!WriteFunction, Ts!WriteName, Ts!Writing,
                Ts!Running, Ts!WriteOther, Ts!WriteHeading, Ts!WriteLink, Ts!Write
  <2>2. /\ tsStack # <<>> /\ Len(tsStack) <= MaxDepth /\ Doable(types, NextOf(tsStack))
        /\ tsStack' = StackAfter(types, tsStack)
        /\ tsHeadings' = HeadingsAfter(types, tsStack, tsHeadings)
        /\ tsLinks' = LinksAfter(types, tsStack, tsLinks)
    BY <1>1, <1>6, TsWritesAfter
  <2>3. Follows(types, W, tsStack, tsHeadings, tsLinks)
    BY <1>1, <1>3, <2>1 DEF InStep
  <2>4. Follows(types, W, tsStack', tsHeadings', tsLinks')
    BY <1>1, <2>2, <2>3, FollowsOn
  <2>5. QED
    BY <2>1, <2>4 DEF InStep
<1>7. CASE Ts!Return
  <2>1. tsPhase' = tsPhase /\ tsTypesToWrite' = tsTypesToWrite
    BY <1>7 DEF Ts!Return
  <2>2. CASE tsPhase = "collect"
    BY <2>1, <2>2 DEF InStep
  <2>3. CASE tsPhase = "write"
    <3>1. /\ tsStack # <<>> /\ Head(tsStack) = <<>> /\ Len(tsStack) <= MaxDepth
          /\ tsStack' = StackAfter(types, tsStack)
          /\ tsHeadings' = HeadingsAfter(types, tsStack, tsHeadings)
          /\ tsLinks' = LinksAfter(types, tsStack, tsLinks)
      BY <1>7, <2>3, TsReturnsAfter
    <3>2. Follows(types, W, tsStack, tsHeadings, tsLinks)
      BY <1>1, <1>3, <2>3 DEF InStep
    <3>3. Follows(types, W, tsStack', tsHeadings', tsLinks')
      BY <1>1, <3>1, <3>2, FollowsOn
    <3>4. QED
      BY <2>1, <2>3, <3>3 DEF InStep
  <2>4. QED
    BY <2>2, <2>3
<1>8. CASE Ts!Finish
  <2>1. /\ tsPhase = "write" /\ tsStack = <<>> /\ tsPhase' = "done"
        /\ tsHeadings' = tsHeadings /\ tsLinks' = tsLinks /\ tsTypesToWrite' = tsTypesToWrite
    BY <1>8 DEF Ts!Finish, Ts!Running, Ts!page
  <2>2. Follows(types, W, <<>>, tsHeadings, tsLinks)
    BY <1>1, <1>3, <2>1 DEF InStep
  <2>3. Ran(types, W, tsHeadings, tsLinks)
    BY <1>1, <2>2, Following
  <2>4. QED
    BY <1>2, <2>1, <2>3 DEF InStep
<1>9. CASE Ts!Throw \/ Ts!Overflow
  <2>1. tsPhase' \in {"failed", "overflow"}
    BY <1>9 DEF Ts!Throw, Ts!Give, Ts!Overflow
  <2>2. QED
    BY <2>1 DEF InStep
<1>10. QED
  BY <1>4, <1>5, <1>6, <1>7, <1>8, <1>9 DEF Ts!End

(* Go writes what TypeScript has written, if it has.                       *)
LEMMA GoInStep ==
  ASSUME Inv, Together, tsPhase \notin {"collect", "write"}, types' = types, UNCHANGED tsVars,
         \/ Go!StartRoot \/ Go!Visit \/ Go!StartPage \/ Go!WritePart \/ Go!End
  PROVE  Together'
<1>1. /\ types \in Table /\ GoInv /\ TsInv
      /\ Alike(types) => InStep
      /\ goPhase = "collect" => Shallow(goStack, goVisited)
      /\ MaxDepth \in Nat /\ Len(types) < MaxDepth
  BY InputAssumption, DepthAssumption DEF Inv, Together
<1>2. /\ tsPhase' = tsPhase /\ tsHeadings' = tsHeadings /\ tsLinks' = tsLinks
      /\ tsTypesToWrite' = tsTypesToWrite
  BY DEF tsVars
<1>3. goPhase' = "collect" => Shallow(goStack', goVisited')
  <2>1. ASSUME goPhase' = "collect"
        PROVE  /\ goPhase = "collect"
               /\ Go!StartRoot \/ Go!Visit \/ (Go!Return /\ goVisited' = goVisited)
    BY <2>1 DEF Go!StartRoot, Go!Visit, Go!Running, Go!StartPage, Go!StartWriting, Go!End,
                Go!Return, Go!Finish, Go!Fail, Go!Give, Go!Overflow, Go!WritePart, Go!WriteSection,
                Go!WriteFunction, Go!WriteName, Go!Writing, Go!WriteOther, Go!WriteHeading,
                Go!WriteLink, Go!Write
  <2>2. QED
    BY <1>1, <2>1, GoStaysShallow
<1>4. SUFFICES ASSUME Alike(types), tsPhase = "done" PROVE InStep'
  BY <1>1, <1>2, <1>3 DEF Together, InStep
<1> DEFINE W == ToSet(tsTypesToWrite)
<1>5. /\ goPhase \in {"collect", "write", "done"} /\ Ran(types, W, tsHeadings, tsLinks)
      /\ goPhase = "write" => Remains(types, goStack, goHeadings, goLinks, tsHeadings, tsLinks)
  BY <1>1, <1>4 DEF InStep
<1>6. ASSUME goPhase' = "collect" PROVE InStep'
  BY <1>2, <1>4, <1>5, <1>6 DEF InStep
<1>7. ASSUME goPhase' = "write",
             Remains(types, goStack', goHeadings', goLinks', tsHeadings, tsLinks)
      PROVE  InStep'
  BY <1>2, <1>4, <1>5, <1>7 DEF InStep
<1>8. CASE Go!StartRoot \/ Go!Visit
  <2>1. goPhase' = "collect"
    BY <1>8 DEF Go!StartRoot, Go!Visit, Go!Running
  <2>2. QED
    BY <1>6, <2>1
<1>9. CASE Go!StartPage
  <2>1. /\ goPhase = "collect" /\ goStack = <<>> /\ goRoots = <<>> /\ goPhase' = "write"
        /\ goHeadings' = goHeadings /\ goLinks' = goLinks /\ goTypesToWrite' = goTypesToWrite
    BY <1>9 DEF Go!StartPage, Go!StartWriting, Go!Running, Go!page
  <2>2. PICK all \in Go!Combined : goStack' = <<Sections(all, TRUE)>>
    BY <1>9, SameDefinitions DEF Go!StartPage, Go!StartWriting
  <2>3. Settled(types, ToSet(goTypesToWrite)) /\ goHeadings = <<>> /\ goLinks = {}
    BY <1>1, <2>1, CollectedSettled DEF GoInv
  <2>4. Settled(types, W)
    BY <1>1, <1>4 DEF TsInv, WriterInv
  <2>5. ToSet(goTypesToWrite) = W
    BY <1>1, <2>3, <2>4, SameList
  <2>6. Starts(types, W, Sections(all, TRUE))
    BY <1>1, <1>4, <2>3, <2>5, GoStartsAlike
  <2>7. Remains(types, goStack', goHeadings', goLinks', tsHeadings, tsLinks)
    BY <1>1, <1>5, <2>1, <2>2, <2>3, <2>6, Remaining
  <2>8. QED
    BY <1>7, <2>1, <2>7
<1>10. ASSUME goPhase = "write"
       PROVE  /\ Len(goStack) <= MaxDepth
              /\ goStack # <<>> /\ Head(goStack) # <<>> => Doable(types, NextOf(goStack))
              /\ goStack = <<>> => goHeadings = tsHeadings /\ goLinks = tsLinks
              /\ goStack # <<>> =>
                   Remains(types, StackAfter(types, goStack),
                           HeadingsAfter(types, goStack, goHeadings),
                           LinksAfter(types, goStack, goLinks), tsHeadings, tsLinks)
  BY <1>1, <1>5, <1>10, RemainsFacts
<1>11. CASE Go!WritePart
  <2>1. /\ goPhase = "write" /\ goPhase' = "write" /\ goStack # <<>> /\ Head(goStack) # <<>>
    BY <1>11 DEF Go!WritePart, Go!WriteSection, Go!WriteFunction, Go!WriteName, Go!Writing,
                 Go!Running, Go!HasNext, Go!WriteOther, Go!WriteHeading, Go!WriteLink, Go!Write
  <2>2. /\ goStack' = StackAfter(types, goStack)
        /\ goHeadings' = HeadingsAfter(types, goStack, goHeadings)
        /\ goLinks' = LinksAfter(types, goStack, goLinks)
    BY <1>1, <1>10, <1>11, <2>1, GoWritesAfter
  <2>3. QED
    BY <1>7, <1>10, <2>1, <2>2
<1>12. CASE Go!Return
  <2>1. goPhase \in {"collect", "write"} /\ goPhase' = goPhase
    BY <1>12 DEF Go!Return, Go!Running
  <2>2. CASE goPhase = "collect"
    BY <1>6, <2>1, <2>2
  <2>3. CASE goPhase = "write"
    <3>1. /\ goStack # <<>> /\ goStack' = StackAfter(types, goStack)
          /\ goHeadings' = HeadingsAfter(types, goStack, goHeadings)
          /\ goLinks' = LinksAfter(types, goStack, goLinks)
      BY <1>12, <2>3, GoReturnsAfter
    <3>2. QED
      BY <1>7, <1>10, <2>1, <2>3, <3>1
  <2>4. QED
    BY <2>1, <2>2, <2>3
<1>13. CASE Go!Finish
  <2>1. /\ goPhase = "write" /\ goStack = <<>> /\ goPhase' = "done"
        /\ goHeadings' = goHeadings /\ goLinks' = goLinks
    BY <1>13 DEF Go!Finish, Go!Running, Go!page
  <2>2. QED
    BY <1>2, <1>4, <1>5, <1>10, <2>1 DEF InStep
<1>14. CASE Go!Fail
  <2>1. /\ goPhase = "write" /\ goStack # <<>> /\ Head(goStack) # <<>>
        /\ NextOf(goStack).write = "name"
        /\ \/ ~InRange(types, NextOf(goStack).ref)
           \/ At(types, NextOf(goStack).ref).kind = "NamespaceFunctionType"
    BY <1>14, SameDefinitions, StackFacts DEF Go!Fail, Go!Give, Go!Writing, Go!Running, Go!HasNext,
                                             Go!Nameable
  <2>2. Doable(types, NextOf(goStack))
    BY <1>10, <2>1
  <2>3. QED
    BY <2>1, <2>2 DEF Doable
<1>15. CASE Go!Overflow
  <2>1. goPhase \in {"collect", "write"} /\ Len(goStack) > MaxDepth
    BY <1>15 DEF Go!Overflow
  <2>2. Len(goStack) <= MaxDepth
    BY <1>1, <1>10, <2>1, GoHasRoom DEF Together
  <2>3. Len(goStack) \in Nat
    BY <1>1, <2>1, LenProperties DEF GoInv, WriterInv, CollectInv, WriteInv
  <2>4. QED
    BY <1>1, <2>1, <2>2, <2>3
<1>16. QED
  BY <1>8, <1>9, <1>11, <1>12, <1>13, <1>14, <1>15 DEF Go!End

(* Whatever either does, they stay in step.                                *)
LEMMA StayInStep ==
  ASSUME Inv, Together, [Next]_vars
  PROVE  Together'
<1>1. CASE UNCHANGED vars
  <2>1. types' = types /\ UNCHANGED goVars /\ UNCHANGED tsVars
    BY <1>1 DEF vars
  <2>2. QED
    BY <2>1 DEF Together, InStep, goVars, tsVars
<1>2. CASE /\ Ts!StartRoot \/ Ts!Visit \/ Ts!StartPage \/ Ts!WritePart \/ Ts!End
           /\ UNCHANGED goVars
  <2>1. tsPhase \in {"collect", "write"} /\ types' = types
    BY <1>2 DEF Ts!StartRoot, Ts!Visit, Ts!Running, Ts!StartPage, Ts!StartWriting, Ts!End,
                Ts!Return, Ts!Finish, Ts!Throw, Ts!Give, Ts!Overflow, Ts!WritePart, Ts!WriteSection,
                Ts!WriteFunction, Ts!WriteName, Ts!Writing, Ts!WriteOther, Ts!WriteHeading,
                Ts!WriteLink, Ts!Write
  <2>2. QED
    BY <1>2, <2>1, TsInStep
<1>3. CASE /\ TsEnded /\ UNCHANGED tsVars
           /\ Go!StartRoot \/ Go!Visit \/ Go!StartPage \/ Go!WritePart \/ Go!End
  <2>1. types' = types
    BY <1>3, GoStartsRoot, GoVisits, GoStartsPage, GoWrites, GoEnds DEF Inv
  <2>2. QED
    BY <1>3, <2>1, GoInStep DEF TsEnded
<1>4. QED
  BY <1>1, <1>2, <1>3 DEF Next

(* Of a table in which no two objects have the same name, and which both   *)
(* order alike, the writer of Go writes the page of TypeScript whenever    *)
(* that is finished: the same sections in the same order, and the same     *)
(* links.                                                                  *)
THEOREM PagesAreTheSame == Spec => []PagesAgree
<1>1. Init => Inv /\ Together
  <2>1. SUFFICES ASSUME Init PROVE Together
    BY InvInit
  <2>2. /\ types \in Inputs /\ goPhase = "collect" /\ tsPhase = "collect"
        /\ goStack = <<>> /\ goVisited = {}
    BY <2>1 DEF Init, Go!Begin, Go!Start, Ts!Begin, Ts!Start
  <2>3. Shallow(goStack, goVisited)
    BY <2>2, FS_EmptySet DEF Shallow
  <2>4. QED
    BY <2>2, <2>3 DEF Together, InStep
<1>2. Inv /\ Together /\ [Next]_vars => Inv' /\ Together'
  BY Invariance, StayInStep
<1>3. Inv /\ Together => PagesAgree
  <2>1. SUFFICES ASSUME Inv, Together, NamesDiffer, OrderedAlike, tsPhase = "done", GoEnded
                 PROVE  goPhase = "done" /\ goHeadings = tsHeadings /\ goLinks = tsLinks
    BY DEF PagesAgree, SamePages
  <2>2. Alike(types)
    BY <2>1, AlikeFacts DEF Inv
  <2>3. QED
    BY <2>1, <2>2 DEF Together, InStep, GoEnded
<1>4. QED
  BY <1>1, <1>2, <1>3, PTL DEF Spec
==============================================================================
