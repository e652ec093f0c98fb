---------------------------- MODULE TypesFileProofs ----------------------------
(***************************************************************************)
(* Proofs about TypesFile and the codecs it is built from, for all lists   *)
(* of types, all texts, any number of conversions and all sizes of a       *)
(* number.                                                                 *)
(***************************************************************************)
EXTENDS TypesFile, WellFoundedInduction, TLAPS

-----------------------------------------------------------------------------
(* Numbers.                                                                *)

(* A set of natural numbers has a least element.                           *)
LEMMA LeastNumber ==
  ASSUME NEW T, T \subseteq Nat, T # {}
  PROVE  \E n \in T : \A m \in T : n <= m
<1>1. PICK n \in T : \A m \in T : <<m, n>> \notin OpToRel(<, Nat)
  BY WFMin, NatLessThanWellFounded, Zenon
<1>2. \A m \in T : ~(m < n)
  BY <1>1, Zenon DEF OpToRel
<1>3. QED
  BY <1>2

Powers == Mantissa + MaxBits

(* Each power of two is twice the one before.                              *)
LEMMA Doubles ==
  /\ Powers \in Nat /\ Powers >= 1
  /\ PowerOfTwo = [k \in 0..Powers |-> IF k = 0 THEN 1 ELSE 2 * PowerOfTwo[k - 1]]
<1> DEFINE Next2(f, k) == IF k = 0 THEN 1 ELSE 2 * f[k - 1]
           Upto(f, m) == f = [k \in 0..m |-> Next2(f, k)]
           Bad == {m \in 0..Powers : ~\E f : Upto(f, m)}
<1>1. Powers \in Nat /\ Powers >= 1
  BY WidthAssumption DEF Powers, MaxBits
<1>2. Bad = {}
  <2>1. SUFFICES ASSUME Bad # {} PROVE FALSE
    OBVIOUS
  <2>2. PICK m \in Bad : \A l \in Bad : m <= l
    <3>1. Bad \subseteq Nat
      BY <1>1
    <3> HIDE DEF Bad
    <3>2. QED
      BY <2>1, <3>1, LeastNumber
  <2>3. m \in 0..Powers /\ ~\E f : Upto(f, m)
    OBVIOUS
  <2>4. CASE m = 0
    <3>1. Upto([k \in 0..0 |-> 1], 0)
      OBVIOUS
    <3>2. QED
      BY <2>3, <2>4, <3>1
  <2>5. CASE m # 0
    <3>1. m - 1 \in 0..Powers /\ m - 1 \notin Bad
      <4>1. m - 1 \in 0..Powers /\ ~(m <= m - 1)
        BY <1>1, <2>3, <2>5
      <4> HIDE DEF Bad
      <4>2. QED
        BY <2>2, <4>1
    <3>2. PICK g : Upto(g, m - 1)
      BY <3>1
    <3> DEFINE f == [k \in 0..m |-> IF k = m THEN 2 * g[m - 1] ELSE g[k]]
    <3>3. \A k \in 0..m : f[k] = Next2(f, k)
      <4> SUFFICES ASSUME NEW k \in 0..m PROVE f[k] = Next2(f, k)
        OBVIOUS
      <4>1. CASE k = m
        <5>1. m - 1 \in 0..m /\ m - 1 # m /\ m \in 0..m
          BY <1>1, <2>3, <2>5
        <5>2. QED
          BY <2>5, <4>1, <5>1
      <4>2. CASE k # m
        <5>1. k \in 0..(m - 1) /\ (k # 0 => k - 1 \in 0..m /\ k - 1 # m)
          BY <2>3, <4>2
        <5>2. g[k] = Next2(g, k)
          BY <3>2, <5>1
        <5>3. QED
          BY <4>2, <5>1, <5>2
      <4>3. QED
        BY <4>1, <4>2
    <3>4. Upto(f, m)
      BY <3>3
    <3>5. QED
      BY <2>3, <3>4
  <2>6. QED
    BY <2>4, <2>5
<1>3. PICK f : Upto(f, Powers)
  <2>1. Powers \in 0..Powers
    BY <1>1
  <2>2. QED
    BY <1>2, <2>1
<1> DEFINE h == CHOOSE g : Upto(g, Powers)
<1>4. Upto(h, Powers)
  BY <1>3
<1>5. PowerOfTwo = h
  BY DEF PowerOfTwo, Powers
<1>6. QED
  BY <1>1, <1>4, <1>5

LEMMA PowerFacts ==
  /\ \A k \in 0..Powers : PowerOfTwo[k] \in Nat \ {0}
  /\ PowerOfTwo[0] = 1 /\ \A k \in 1..Powers : PowerOfTwo[k] = 2 * PowerOfTwo[k - 1]
<1> DEFINE P == PowerOfTwo
           Bad == {k \in 0..Powers : P[k] \notin Nat \ {0}}
<1>1. P[0] = 1 /\ \A k \in 1..Powers : P[k] = 2 * P[k - 1]
  BY Doubles
<1>2. Bad = {}
  <2>1. SUFFICES ASSUME Bad # {} PROVE FALSE
    OBVIOUS
  <2>2. PICK m \in Bad : \A l \in Bad : m <= l
    <3>1. Bad \subseteq Nat
      BY Doubles
    <3> HIDE DEF Bad
    <3>2. QED
      BY <2>1, <3>1, LeastNumber
  <2>3. m \in 0..Powers /\ P[m] \notin Nat \ {0}
    OBVIOUS
  <2> HIDE DEF P
  <2>4. m \in 1..Powers /\ m - 1 \in 0..Powers
    BY <1>1, <2>3, Doubles
  <2>5. m - 1 \notin Bad
    <3> HIDE DEF Bad
    <3>1. QED
      BY <2>2, <2>4, Doubles
  <2>6. QED
    BY <1>1, <2>3, <2>4, <2>5
<1>3. QED
  BY <1>1, <1>2

LEMMA PowersGrow ==
  ASSUME NEW k \in 0..Powers, NEW l \in 0..Powers, k < l
  PROVE  2 * PowerOfTwo[k] <= PowerOfTwo[l]
<1> DEFINE P == PowerOfTwo
           Bad == {m \in 0..Powers : k < m /\ ~(2 * P[k] <= P[m])}
<1>1. \A i \in 0..Powers : P[i] \in Nat \ {0}
  BY PowerFacts
<1>2. \A i \in 1..Powers : P[i] = 2 * P[i - 1]
  BY PowerFacts
<1>3. Bad = {}
  <2>1. SUFFICES ASSUME Bad # {} PROVE FALSE
    OBVIOUS
  <2>2. PICK m \in Bad : \A i \in Bad : m <= i
    <3>1. Bad \subseteq Nat
      BY Doubles
    <3> HIDE DEF Bad
    <3>2. QED
      BY <2>1, <3>1, LeastNumber
  <2>3. m \in 0..Powers /\ k < m /\ ~(2 * P[k] <= P[m])
    OBVIOUS
  <2> HIDE DEF P
  <2>4. m \in 1..Powers /\ m - 1 \in 0..Powers /\ m - 1 # k
    <3>1. m \in 1..Powers /\ m - 1 \in 0..Powers
      BY <2>3, Doubles
    <3>2. P[m] = 2 * P[m - 1] /\ P[m] \in Nat
      BY <1>1, <1>2, <3>1
    <3>3. QED
      BY <2>3, <3>1, <3>2
  <2>5. m - 1 \notin Bad
    <3> HIDE DEF Bad
    <3>1. QED
      BY <2>2, <2>4, Doubles
  <2>6. 2 * P[k] <= P[m - 1]
    BY <2>3, <2>4, <2>5, Doubles
  <2>7. QED
    BY <1>1, <1>2, <2>3, <2>4, <2>6
<1>4. QED
  BY <1>3

(* A power is a multiple of the smaller ones.                              *)
LEMMA PowerOfSum ==
  ASSUME NEW i \in Nat, NEW k \in Nat, i + k <= Powers
  PROVE  PowerOfTwo[i + k] = PowerOfTwo[i] * PowerOfTwo[k]
<1> DEFINE P == PowerOfTwo
           Bad == {m \in Nat : i + m <= Powers /\ P[i + m] # P[i] * P[m]}
<1>1. \A m \in 0..Powers : P[m] \in Nat \ {0}
  BY PowerFacts
<1>2. P[0] = 1 /\ \A m \in 1..Powers : P[m] = 2 * P[m - 1]
  BY PowerFacts
<1>3. Bad = {}
  <2>1. SUFFICES ASSUME Bad # {} PROVE FALSE
    OBVIOUS
  <2>2. PICK m \in Bad : \A l \in Bad : m <= l
    <3>1. Bad \subseteq Nat
      OBVIOUS
    <3> HIDE DEF Bad
    <3>2. QED
      BY <2>1, <3>1, LeastNumber
  <2>3. m \in Nat /\ i + m <= Powers /\ P[i + m] # P[i] * P[m]
    OBVIOUS
  <2> HIDE DEF P
  <2>4. m # 0
    <3>1. i \in 0..Powers
      BY <2>3, Doubles
    <3>2. P[i] \in Nat
      BY <1>1, <3>1
    <3>3. P[i] * 1 = P[i]
      BY <3>2
    <3>4. QED
      BY <1>2, <2>3, <3>3
  <2>5. m - 1 \notin Bad
    <3>1. ~(m <= m - 1)
      BY <2>3
    <3> HIDE DEF Bad
    <3>2. QED
      BY <2>2, <3>1
  <2>6. P[i + (m - 1)] = P[i] * P[m - 1]
    BY <2>3, <2>4, <2>5, Doubles
  <2>7. /\ P[i] \in Nat /\ P[m - 1] \in Nat /\ P[m] = 2 * P[m - 1]
        /\ P[i + m] = 2 * P[i + (m - 1)]
    BY <1>1, <1>2, <2>3, <2>4, Doubles
  <2>8. \A a, b \in Nat : 2 * (a * b) = a * (2 * b)
    OBVIOUS
  <2>9. QED
    BY <2>3, <2>6, <2>7, <2>8
<1>4. QED
  BY <1>3

(* A multiple of the spacing is not rounded; what is rounded becomes the   *)
(* multiple below or above.                                                *)
LEMMA Exactly ==
  ASSUME NEW q \in Int, NEW unit \in Nat \ {0}, Spacing(q * unit) = unit
  PROVE  Float64(q * unit) = q * unit
<1>1. (q * unit) \div unit = q
  OBVIOUS
<1>2. q * unit \in Int
  OBVIOUS
<1> DEFINE n == q * unit
<1>3. n - n = 0 /\ 2 * 0 = 0 /\ ~(0 > unit) /\ 0 # unit
  OBVIOUS
<1>4. QED
  BY <1>1, <1>2, <1>3 DEF Float64

LEMMA Multiples ==
  ASSUME NEW n \in Int, NEW unit \in Nat \ {0}, Spacing(n) = unit
  PROVE  \E q \in Int : /\ Float64(n) = q * unit
                        /\ q * unit <= n + unit - 1 /\ n - unit + 1 <= q * unit
<1> DEFINE p == n \div unit
<1>1. p \in Int /\ p * unit <= n /\ n < p * unit + unit
  OBVIOUS
<1>2. p * unit \in Int /\ (p + 1) * unit = p * unit + unit /\ p + 1 \in Int
  BY <1>1
<1> HIDE DEF p
<1>3. Float64(n) = IF 2 * (n - p * unit) > unit \/ (2 * (n - p * unit) = unit /\ p % 2 = 1)
                   THEN p * unit + unit ELSE p * unit
  BY DEF Float64, p
<1>4. CASE 2 * (n - p * unit) > unit \/ (2 * (n - p * unit) = unit /\ p % 2 = 1)
  BY <1>1, <1>2, <1>3, <1>4
<1>5. CASE ~(2 * (n - p * unit) > unit \/ (2 * (n - p * unit) = unit /\ p % 2 = 1))
  BY <1>1, <1>2, <1>3, <1>5
<1>6. QED
  BY <1>4, <1>5

(* The numbers that are apart by the k-th power of two.                    *)
Spaced(n, k) ==
  /\ Abs(n) < PowerOfTwo[Mantissa + k]
  /\ k = 0 \/ Abs(n) >= PowerOfTwo[Mantissa + k - 1]

LEMMA SpacingIs ==
  ASSUME NEW n \in Int, NEW k \in 0..MaxBits, Spaced(n, k)
  PROVE  Spacing(n) = PowerOfTwo[k]
<1> DEFINE j == CHOOSE j \in 0..MaxBits : Spaced(n, j)
<1>1. j \in 0..MaxBits /\ Spaced(n, j)
  OBVIOUS
<1>2. Spacing(n) = PowerOfTwo[j]
  BY DEF Spacing, Spaced
<1> HIDE DEF j
<1>3. \A a, b \in 0..MaxBits : Spaced(n, a) /\ Spaced(n, b) => ~(a < b)
  <2> SUFFICES ASSUME NEW a \in 0..MaxBits, NEW b \in 0..MaxBits,
                      Spaced(n, a), Spaced(n, b), a < b
               PROVE  FALSE
    OBVIOUS
  <2>1. Mantissa + a \in 0..Powers /\ Mantissa + b - 1 \in 0..Powers /\ Mantissa + a <= Mantissa + b - 1
    BY WidthAssumption DEF Powers, MaxBits
  <2>2. PowerOfTwo[Mantissa + a] \in Nat /\ PowerOfTwo[Mantissa + b - 1] \in Nat
    BY <2>1, PowerFacts
  <2>3. PowerOfTwo[Mantissa + a] <= PowerOfTwo[Mantissa + b - 1]
    <3>1. CASE Mantissa + a = Mantissa + b - 1
      BY <2>2, <3>1
    <3>2. CASE Mantissa + a < Mantissa + b - 1
      <4>1. 2 * PowerOfTwo[Mantissa + a] <= PowerOfTwo[Mantissa + b - 1]
        BY <2>1, <3>2, PowersGrow
      <4>2. QED
        BY <2>2, <4>1
    <3>3. QED
      BY <2>1, <3>1, <3>2, WidthAssumption DEF MaxBits
  <2>4. Abs(n) \in Int
    BY DEF Abs
  <2>5. QED
    BY <2>2, <2>3, <2>4 DEF Spaced
<1>4. j = k
  BY <1>1, <1>3, WidthAssumption DEF MaxBits
<1>5. QED
  BY <1>2, <1>4

(* Every int64 has a spacing, and there is one more.                       *)
LEMMA SpacingExists ==
  ASSUME NEW n \in Int64
  PROVE  \E k \in 0..(MaxBits - 1) : Spaced(n, k)
<1> DEFINE Good == {k \in 0..(MaxBits - 1) : Abs(n) < PowerOfTwo[Mantissa + k]}
<1>1. Width - 1 \in 0..Powers /\ Width \in 0..(MaxBits - 1) /\ Mantissa + Width \in 0..Powers
      /\ Width - 1 < Mantissa + Width
  BY WidthAssumption DEF Powers, MaxBits
<1>2. PowerOfTwo[Width - 1] \in Nat /\ PowerOfTwo[Mantissa + Width] \in Nat
  BY <1>1, PowerFacts
<1>3. n \in Int /\ Abs(n) \in Nat /\ Abs(n) <= PowerOfTwo[Width - 1]
  BY <1>2 DEF Int64, Abs
<1>4. Abs(n) < PowerOfTwo[Mantissa + Width]
  <2>1. 2 * PowerOfTwo[Width - 1] <= PowerOfTwo[Mantissa + Width] /\ PowerOfTwo[Width - 1] # 0
    BY <1>1, PowersGrow, PowerFacts
  <2>2. QED
    BY <1>2, <1>3, <2>1
<1>5. Good # {} /\ Good \subseteq Nat
  BY <1>1, <1>4
<1>6. PICK k \in Good : \A l \in Good : k <= l
  <2> HIDE DEF Good
  <2>1. QED
    BY <1>5, LeastNumber
<1>7. k \in 0..(MaxBits - 1) /\ Abs(n) < PowerOfTwo[Mantissa + k]
  OBVIOUS
<1>8. CASE k = 0
  BY <1>7, <1>8, WidthAssumption DEF Spaced, MaxBits
<1>9. CASE k # 0
  <2>1. k - 1 \notin Good /\ k - 1 \in 0..(MaxBits - 1)
    <3>1. ~(k <= k - 1) /\ k - 1 \in 0..(MaxBits - 1)
      BY <1>7, <1>9, WidthAssumption DEF MaxBits
    <3> HIDE DEF Good
    <3>2. QED
      BY <1>6, <3>1
  <2>2. ~(Abs(n) < PowerOfTwo[Mantissa + (k - 1)])
    BY <2>1
  <2>3. Mantissa + (k - 1) = Mantissa + k - 1 /\ Mantissa + k - 1 \in 0..Powers
    BY <1>7, <1>9, WidthAssumption DEF Powers, MaxBits
  <2>4. PowerOfTwo[Mantissa + k - 1] \in Nat
    BY <2>3, PowerFacts
  <2>5. QED
    BY <1>3, <1>7, <2>2, <2>3, <2>4 DEF Spaced
<1>10. QED
  BY <1>8, <1>9

(* Rounding a rounded number changes nothing.                              *)
LEMMA RoundedOnce ==
  ASSUME NEW n \in Int64
  PROVE  Float64(n) \in Int /\ Float64(Float64(n)) = Float64(n)
<1> DEFINE P == PowerOfTwo
<1>1. PICK k \in 0..(MaxBits - 1) : Spaced(n, k)
  BY SpacingExists
<1>2. /\ k \in Nat /\ k \in 0..Powers /\ k + 1 \in 0..Powers /\ k \in 0..MaxBits /\ k + 1 \in 0..MaxBits
      /\ Mantissa + k \in 0..Powers /\ Mantissa + k + 1 \in 0..Powers /\ Mantissa - 1 \in Nat
      /\ Mantissa \in 0..Powers /\ Mantissa - 1 \in 0..Powers
      /\ Mantissa + k <= Powers /\ (Mantissa - 1) + k <= Powers /\ (Mantissa - 1) + (k + 1) <= Powers
  BY WidthAssumption DEF Powers, MaxBits
<1>3. /\ P[k] \in Nat \ {0} /\ P[k + 1] \in Nat \ {0} /\ P[Mantissa] \in Nat \ {0} /\ P[Mantissa - 1] \in Nat \ {0}
      /\ P[Mantissa + k] \in Nat \ {0} /\ P[Mantissa + k + 1] \in Nat \ {0}
  BY <1>2, PowerFacts
<1>4. /\ P[Mantissa + k] = P[Mantissa] * P[k]
      /\ P[(Mantissa - 1) + k] = P[Mantissa - 1] * P[k]
      /\ P[(Mantissa - 1) + (k + 1)] = P[Mantissa - 1] * P[k + 1]
  BY <1>2, PowerOfSum, WidthAssumption
<1>5. (Mantissa - 1) + k = Mantissa + k - 1 /\ (Mantissa - 1) + (k + 1) = Mantissa + k
  BY <1>2, WidthAssumption
<1>6. n \in Int
  <2>1. Width - 1 \in 0..Powers
    BY WidthAssumption DEF Powers, MaxBits
  <2>2. P[Width - 1] \in Nat
    BY <2>1, PowerFacts
  <2>3. QED
    BY <2>2 DEF Int64
<1> HIDE DEF P
<1>7. Spacing(n) = P[k]
  BY <1>1, <1>2, <1>6, SpacingIs DEF P
<1>8. PICK q \in Int : /\ Float64(n) = q * P[k]
                       /\ q * P[k] <= n + P[k] - 1 /\ n - P[k] + 1 <= q * P[k]
  BY <1>3, <1>6, <1>7, Multiples
<1> DEFINE r == q * P[k]
<1>9. r \in Int
  BY <1>3
<1>10. Abs(n) < P[Mantissa] * P[k] /\ (k = 0 \/ P[Mantissa - 1] * P[k] <= Abs(n))
  BY <1>1, <1>4, <1>5 DEF Spaced, P
<1>11. /\ -(P[Mantissa]) <= q /\ q <= P[Mantissa]
       /\ k # 0 => P[Mantissa - 1] <= q \/ q <= -P[Mantissa - 1]
  <2>1. \A a, b \in Int, u \in Nat \ {0} : a * u < b * u + u => a <= b
    OBVIOUS
  <2>2. \A a \in Int, u \in Nat : (-a) * u = -(a * u) /\ a * u \in Int
    OBVIOUS
  <2>3. q * P[k] < P[Mantissa] * P[k] + P[k]
    BY <1>3, <1>6, <1>8, <1>9, <1>10, <2>2 DEF Abs
  <2>4. (-P[Mantissa]) * P[k] < q * P[k] + P[k]
    BY <1>3, <1>6, <1>8, <1>9, <1>10, <2>2 DEF Abs
  <2>5. ASSUME k # 0 PROVE P[Mantissa - 1] <= q \/ q <= -P[Mantissa - 1]
    <3>1. CASE n >= 0
      <4>1. P[Mantissa - 1] * P[k] < q * P[k] + P[k]
        BY <1>3, <1>6, <1>8, <1>9, <1>10, <2>2, <2>5, <3>1 DEF Abs
      <4>2. QED
        BY <1>3, <2>1, <4>1
    <3>2. CASE n < 0
      <4>1. q * P[k] < (-P[Mantissa - 1]) * P[k] + P[k]
        BY <1>3, <1>6, <1>8, <1>9, <1>10, <2>2, <2>5, <3>2 DEF Abs
      <4>2. QED
        BY <1>3, <2>1, <4>1
    <3>3. QED
      BY <1>6, <3>1, <3>2
  <2>6. QED
    BY <1>3, <2>1, <2>3, <2>4, <2>5
<1>12. /\ \A a, b \in Int, u \in Nat \ {0} : a <= b => a * u <= b * u
       /\ \A a, b \in Int, u \in Nat \ {0} : a < b => a * u < b * u
       /\ \A a \in Int, u \in Nat : (-a) * u = -(a * u) /\ a * u \in Int
  <2>1. \A a, b \in Int, u \in Nat \ {0} : a <= b => a * u <= b * u
    OBVIOUS
  <2>2. \A a, b \in Int, u \in Nat \ {0} : a < b => a * u < b * u
    OBVIOUS
  <2>3. \A a \in Int, u \in Nat : (-a) * u = -(a * u) /\ a * u \in Int
    OBVIOUS
  <2>4. QED
    BY <2>1, <2>2, <2>3
<1>13. CASE -(P[Mantissa]) < q /\ q < P[Mantissa]
  <2>1. r < P[Mantissa] * P[k] /\ -(P[Mantissa] * P[k]) < r
    BY <1>3, <1>12, <1>13
  <2>2. k # 0 => P[Mantissa - 1] * P[k] <= r \/ r <= -(P[Mantissa - 1] * P[k])
    BY <1>3, <1>11, <1>12
  <2>3. P[Mantissa] * P[k] \in Int /\ P[Mantissa - 1] * P[k] \in Int
    BY <1>3
  <2>4. Abs(r) < P[Mantissa] * P[k] /\ (k = 0 \/ Abs(r) >= P[Mantissa - 1] * P[k])
    BY <1>3, <1>9, <2>1, <2>2, <2>3 DEF Abs
  <2>5. Spaced(r, k)
    BY <1>4, <1>5, <2>4 DEF Spaced, P
  <2> HIDE DEF P
  <2>6. Spacing(r) = P[k]
    BY <1>2, <1>9, <2>5, SpacingIs DEF P
  <2>7. QED
    BY <1>3, <1>8, <1>9, <2>6, Exactly
<1>14. CASE q \in {P[Mantissa], -P[Mantissa]}
  <2> DEFINE s == IF q = P[Mantissa] THEN P[Mantissa - 1] ELSE -P[Mantissa - 1]
  <2>1. r = s * P[k + 1] /\ s \in Int
    BY <1>3, <1>4, <1>5, <1>12, <1>14
  <2>2. Abs(r) = P[Mantissa + k]
    BY <1>3, <1>4, <1>9, <1>12, <1>14 DEF Abs
  <2>3. P[Mantissa + k] < P[Mantissa + k + 1]
    <3>1. 2 * P[Mantissa + k] <= P[Mantissa + k + 1]
      BY <1>2, PowersGrow, WidthAssumption DEF P
    <3>2. QED
      BY <1>3, <3>1
  <2>4. Mantissa + (k + 1) = Mantissa + k + 1 /\ Mantissa + (k + 1) - 1 = Mantissa + k
    BY <1>2, WidthAssumption
  <2>5. Spaced(r, k + 1)
    BY <1>3, <2>2, <2>3, <2>4 DEF Spaced, P
  <2>6. Spacing(r) = P[k + 1]
    BY <1>2, <1>9, <2>5, SpacingIs DEF P
  <2> HIDE DEF s, r
  <2>7. Float64(r) = r
    BY <1>3, <2>1, <2>6, Exactly
  <2>8. QED
    BY <1>8, <1>9, <2>7 DEF r
<1>15. (-(P[Mantissa]) < q /\ q < P[Mantissa]) \/ q \in {P[Mantissa], -P[Mantissa]}
  BY <1>3, <1>11
<1>16. QED
  BY <1>13, <1>14, <1>15

-----------------------------------------------------------------------------
(* The fields of structs: leaves and collections of items.                 *)
LeafEntry(f) ==
  /\ f.omitempty \in BOOLEAN
  /\ \/ f.holds = "string" /\ f.zero = String("") /\ f.absent = f.zero
     \/ f.holds = "number" /\ f.zero = Number(0) /\ f.absent = f.zero /\ ~f.omitempty
     \/ f.holds = "boolean" /\ f.zero = Boolean(FALSE) /\ f.absent = f.zero
     \/ f.holds \in {"number", "boolean"} /\ f.zero = Null /\ f.absent = Null /\ f.omitempty
     \/ f.holds = "reference" /\ f.zero = Null /\ f.absent = Null
     \/ f.holds = "reference" /\ f.zero = Null /\ f.absent = Failed /\ ~f.omitempty

TableEntry(items) ==
  /\ items # Reference
  /\ "type" \in DOMAIN items /\ items["type"] = Reference
  /\ \A name \in DOMAIN items :
       /\ LeafEntry(items[name])
       /\ items[name].holds = "reference" => name = "type"
       /\ name \notin {"$ref", "$type", "relativePath"}

CollectionEntry(f) ==
  /\ f.omitempty \in BOOLEAN /\ f.zero = Null
  /\ f.items = Reference \/ TableEntry(f.items)
  /\ \/ f.holds = "array" /\ f.absent = Array(<<>>) /\ ~f.omitempty
     \/ f.holds = "object" /\ f.absent = Object(<<>>) /\ ~f.omitempty
     \/ f.holds = "object" /\ f.absent = Null

Entry(f) == LeafEntry(f) \/ CollectionEntry(f)

LEMMA LeafEntries ==
  /\ LeafEntry(StringField) /\ LeafEntry(IntField) /\ LeafEntry(OmitEmpty(StringField))
  /\ LeafEntry(OmitEmpty(BoolField)) /\ LeafEntry(OmitEmpty(Pointer(IntField)))
  /\ LeafEntry(OmitEmpty(Pointer(BoolField)))
  /\ LeafEntry(Reference) /\ LeafEntry(OptionalReference) /\ LeafEntry(OmitEmpty(OptionalReference))
BY DEF LeafEntry, StringField, IntField, BoolField, OmitEmpty, Pointer, Reference, OptionalReference, Field

LEMMA TableEntries ==
  /\ TableEntry(ObjectTypeProperty) /\ TableEntry(ResourceTypeFunction)
  /\ TableEntry(FunctionParameter) /\ TableEntry(NamespaceFunctionParameter)
<1>1. "holds" \in DOMAIN Reference /\ Reference.holds = "reference"
  BY DEF Reference, Field
<1>2. /\ IntField.holds = "number" /\ StringField.holds = "string"
      /\ OmitEmpty(StringField).holds = "string"
  BY DEF OmitEmpty, IntField, StringField, Field
<1>3. TableEntry(ObjectTypeProperty)
  BY <1>1, <1>2, LeafEntries DEF TableEntry, ObjectTypeProperty
<1>4. TableEntry(ResourceTypeFunction)
  BY <1>1, <1>2, LeafEntries DEF TableEntry, ResourceTypeFunction
<1>5. TableEntry(FunctionParameter)
  BY <1>1, <1>2, LeafEntries DEF TableEntry, FunctionParameter
<1>6. TableEntry(NamespaceFunctionParameter)
  BY <1>1, <1>2, LeafEntries DEF TableEntry, NamespaceFunctionParameter
<1>7. QED
  BY <1>3, <1>4, <1>5, <1>6

LEMMA CollectionEntries ==
  ASSUME NEW items, items = Reference \/ TableEntry(items)
  PROVE  /\ CollectionEntry(SliceOf(items)) /\ CollectionEntry(MapOf(items))
         /\ CollectionEntry(LeftNil(MapOf(items))) /\ CollectionEntry(OmitEmpty(LeftNil(MapOf(items))))
BY DEF CollectionEntry, SliceOf, MapOf, LeftNil, OmitEmpty, Collection

(* Every field of every struct is one of these.                            *)
LEMMA Entries ==
  ASSUME NEW k \in DOMAIN Fields, NEW name \in DOMAIN Fields[k]
  PROVE  Entry(Fields[k][name]) /\ name \notin {"$ref", "$type", "relativePath"}
<1>1. /\ CollectionEntry(SliceOf(Reference)) /\ CollectionEntry(MapOf(Reference))
      /\ CollectionEntry(MapOf(ObjectTypeProperty)) /\ CollectionEntry(LeftNil(MapOf(ObjectTypeProperty)))
      /\ CollectionEntry(OmitEmpty(LeftNil(MapOf(ResourceTypeFunction))))
      /\ CollectionEntry(SliceOf(FunctionParameter)) /\ CollectionEntry(SliceOf(NamespaceFunctionParameter))
  BY CollectionEntries, TableEntries
<1>2. CASE k \in {"AnyType", "NullType", "BooleanType"}
  BY <1>2 DEF Fields
<1>3. CASE k \in {"IntegerType", "StringType", "StringLiteralType", "BuiltInType"}
  BY <1>3, LeafEntries DEF Fields, Entry, IntegerTypeFields, StringTypeFields, StringLiteralTypeFields, BuiltInTypeFields
<1>4. CASE k \in {"ArrayType", "UnionType"}
  BY <1>1, <1>4, LeafEntries DEF Fields, Entry, ArrayTypeFields, UnionTypeFields
<1>5. CASE k = "ObjectType"
  BY <1>1, <1>5, LeafEntries DEF Fields, Entry, ObjectTypeFields
<1>6. CASE k = "DiscriminatedObjectType"
  BY <1>1, <1>6, LeafEntries DEF Fields, Entry, DiscriminatedObjectTypeFields
<1>7. CASE k = "ResourceType"
  BY <1>1, <1>7, LeafEntries DEF Fields, Entry, ResourceTypeFields
<1>8. CASE k = "FunctionType"
  BY <1>1, <1>8, LeafEntries DEF Fields, Entry, FunctionTypeFields
<1>9. CASE k = "ResourceFunctionType"
  BY <1>1, <1>9, LeafEntries DEF Fields, Entry, ResourceFunctionTypeFields
<1>10. CASE k = "NamespaceFunctionType"
  BY <1>1, <1>10, LeafEntries DEF Fields, Entry, NamespaceFunctionTypeFields
<1>11. QED
  BY <1>2, <1>3, <1>4, <1>5, <1>6, <1>7, <1>8, <1>9, <1>10 DEF Fields

-----------------------------------------------------------------------------
(* Leaves.                                                                 *)

(* What a struct's field, a TypeScript field, becomes in an object.        *)
Sent(f, v) == IF f.omitempty /\ IsEmpty(f, v) THEN Missing ELSE WriteLeaf(v)

TsSent(v) == IF v = Null THEN Missing ELSE ReplacedRef(v)

PlainLeaf(v) ==
  /\ "relativePath" \in DOMAIN v => Len(v.relativePath) = 1 /\ v.relativePath # <<"">>
  /\ "number" \in DOMAIN v => Float64(v.number) = v.number

SoundLeaf(f, v) == PlainLeaf(v) /\ (f.holds = "reference" /\ ~f.omitempty => v # Null)

LEMMA Shapes ==
  /\ DOMAIN Null = {"null"} /\ DOMAIN Missing = {"missing"} /\ DOMAIN Failed = {"failed"}
  /\ \A x : /\ DOMAIN String(x) = {"string"} /\ String(x).string = x
            /\ DOMAIN Number(x) = {"number"} /\ Number(x).number = x
            /\ DOMAIN Boolean(x) = {"boolean"} /\ Boolean(x).boolean = x
            /\ DOMAIN Object(x) = {"object"} /\ Object(x).object = x
            /\ DOMAIN Array(x) = {"array"} /\ Array(x).array = x
            /\ DOMAIN TypeReference(x) = {"ref"} /\ TypeReference(x).ref = x
  /\ \A x, y : /\ DOMAIN CrossFileTypeReference(x, y) = {"relativePath", "ref"}
               /\ CrossFileTypeReference(x, y).ref = y
               /\ CrossFileTypeReference(x, y).relativePath = x
               /\ DOMAIN RefText(x, y) = {"prefix", "index"}
               /\ RefText(x, y).prefix = x /\ RefText(x, y).index = y
               /\ DOMAIN Only(x, y) = {x} /\ Only(x, y)[x] = y
BY DEF Null, Missing, Failed, String, Number, Boolean, Object, Array, TypeReference,
       CrossFileTypeReference, RefText, Only

(* What is one thing is not another.                                       *)
LEMMA Apart ==
  ASSUME NEW v
  PROVE  /\ DOMAIN v \in {{"string"}, {"number"}, {"boolean"}, {"object"}, {"array"}, {"ref"},
                         {"relativePath", "ref"}, {"prefix", "index"}} =>
              v \notin {Null, Missing, Failed}
         /\ String("") # Null /\ Number(0) # Null /\ Boolean(FALSE) # Null /\ Missing # Null /\ Failed # Null
         /\ String("") # Failed /\ Number(0) # Failed /\ Boolean(FALSE) # Failed /\ Missing # Failed
         /\ \A x : Object(x) # Null /\ Array(x) # Null /\ Object(x) # Failed /\ Array(x) # Failed
<1>1. /\ "null" \in DOMAIN Null /\ "missing" \in DOMAIN Missing /\ "failed" \in DOMAIN Failed
  BY DEF Null, Missing, Failed
<1>2. DOMAIN v \in {{"string"}, {"number"}, {"boolean"}, {"object"}, {"array"}, {"ref"},
                    {"relativePath", "ref"}, {"prefix", "index"}} =>
        "null" \notin DOMAIN v /\ "missing" \notin DOMAIN v /\ "failed" \notin DOMAIN v
  OBVIOUS
<1>3. /\ String("") # Null /\ Number(0) # Null /\ Boolean(FALSE) # Null /\ Missing # Null /\ Failed # Null
      /\ String("") # Failed /\ Number(0) # Failed /\ Boolean(FALSE) # Failed /\ Missing # Failed
  BY DEF String, Number, Boolean, Null, Missing, Failed
<1>4. \A x : Object(x) # Null /\ Array(x) # Null /\ Object(x) # Failed /\ Array(x) # Failed
  BY DEF Object, Array, Null, Failed
<1>5. QED
  BY <1>1, <1>2, <1>3, <1>4

LEMMA Paths ==
  /\ <<"">> # <<>> /\ Len(<<"">>) = 1 /\ Len(<<>>) = 0
  /\ PathText(<<"">>)
  /\ \A p : (PathText(p) => p # <<>>) /\ (Len(p) = 1 => PathText(p))
<1>1. <<"">> # <<>> /\ Len(<<"">>) = 1 /\ Len(<<>>) = 0
  <2>1. Len(<<"">>) = 1 /\ Len(<<>>) = 0
    OBVIOUS
  <2>2. QED
    BY <2>1
<1>2. \A p : PathText(p) => p # <<>>
  BY DEF PathText
<1>3. ASSUME NEW p, Len(p) = 1 PROVE PathText(p)
  <2>1. p # <<>>
    BY <1>1, <1>3
  <2>2. QED
    BY <1>3, <2>1 DEF PathText
<1>4. QED
  BY <1>1, <1>2, <1>3

LEMMA References ==
  ASSUME NEW v, GoReference(v)
  PROVE  /\ v.ref \in Int /\ v.ref # Garbled /\ IsReference(v)
         /\ \/ DOMAIN v = {"ref"} /\ v = TypeReference(v.ref)
            \/ /\ DOMAIN v = {"relativePath", "ref"} /\ PathText(v.relativePath)
               /\ v = CrossFileTypeReference(v.relativePath, v.ref)
BY GarbledAssumption DEF GoReference, TypeReference, CrossFileTypeReference

LEMMA Held ==
  ASSUME NEW v, NEW what, Holds(v, what)
  PROVE  /\ DOMAIN v = {what}
         /\ what = "string" => v = String(v.string)
         /\ what = "boolean" => v = Boolean(v.boolean)
         /\ what = "number" => v = Number(v.number)
         /\ what = "object" => v = Object(v.object)
         /\ what = "array" => v = Array(v.array)
BY DEF Holds, Only, String, Boolean, Number, Object, Array

(* What a leaf can be.                                                     *)
LEMMA Leaves ==
  ASSUME NEW f, LeafEntry(f), NEW v, GoLeaf(f, v) \/ TsLeaf(f, v)
  PROVE  /\ \/ v = Null
            \/ f.holds = "string" /\ DOMAIN v = {"string"} /\ v = String(v.string)
            \/ f.holds = "boolean" /\ DOMAIN v = {"boolean"} /\ v = Boolean(v.boolean)
            \/ f.holds = "number" /\ DOMAIN v = {"number"} /\ v = Number(v.number)
            \/ f.holds = "reference" /\ GoReference(v)
         /\ "object" \notin DOMAIN v /\ "array" \notin DOMAIN v /\ "prefix" \notin DOMAIN v
         /\ v \notin {Missing, Failed}
<1>1. \/ v = Null
      \/ f.holds = "string" /\ Holds(v, "string")
      \/ f.holds = "boolean" /\ Holds(v, "boolean")
      \/ f.holds = "number" /\ Holds(v, "number")
      \/ f.holds = "reference" /\ GoReference(v)
  <2>1. CASE GoLeaf(f, v)
    BY <2>1 DEF LeafEntry, GoLeaf
  <2>2. CASE TsLeaf(f, v)
    BY <2>2 DEF LeafEntry, TsLeaf, GoReference, TypeReference
  <2>3. QED
    BY <2>1, <2>2
<1>2. CASE v = Null
  BY <1>2, Shapes, Apart
<1>3. CASE f.holds = "reference" /\ GoReference(v)
  <2>1. DOMAIN v \in {{"ref"}, {"relativePath", "ref"}}
    BY <1>3, References
  <2>2. QED
    BY <1>3, <2>1, Apart
<1>4. ASSUME NEW what \in {"string", "boolean", "number"}, Holds(v, what)
      PROVE  /\ "object" \notin DOMAIN v /\ "array" \notin DOMAIN v /\ "prefix" \notin DOMAIN v
             /\ v \notin {Missing, Failed}
  <2>1. DOMAIN v = {what}
    BY <1>4, Held
  <2>2. QED
    BY <2>1, Apart
<1>5. QED
  BY <1>1, <1>2, <1>3, <1>4, Held

(* What Go reads from the text of a reference, if that is all there is.    *)
LEMMA TextRead ==
  ASSUME NEW p, NEW i
  PROVE  unmarshalTypeReference(Object(Only("$ref", RefText(p, i)))) =
           IF i = Garbled THEN Failed
           ELSE IF Len(p) = 1 /\ p # <<"">> THEN CrossFileTypeReference(p, i)
           ELSE IF p \in {<<>>, <<"">>} THEN TypeReference(i) ELSE Failed
<1> DEFINE given == Only("$ref", RefText(p, i))
           json == Object(given)
<1>1. "object" \in DOMAIN json /\ json.object = given
  BY DEF Object
<1>2. Lookup(given, "$ref") = RefText(p, i) /\ Lookup(given, "relativePath") = Missing
  BY DEF Only, Lookup
<1>3. "prefix" \in DOMAIN RefText(p, i) /\ RefText(p, i).prefix = p /\ RefText(p, i).index = i
  BY DEF RefText
<1>4. Missing # Null /\ "string" \notin DOMAIN Missing
  BY DEF Missing, Null
<1> HIDE DEF given, json
<1>5. unmarshalTypeReference(json) =
        IF i = Garbled THEN Failed
        ELSE IF Len(p) = 1 /\ p # <<"">> THEN CrossFileTypeReference(p, i)
        ELSE UnmarshalLocal(RefText(p, i))
  BY <1>1, <1>2, <1>3, <1>4, Zenon DEF unmarshalTypeReference
<1>6. UnmarshalLocal(RefText(p, i)) = IF p \in {<<>>, <<"">>} THEN TypeReference(i) ELSE Failed
  BY <1>3 DEF UnmarshalLocal
<1>7. QED
  BY <1>5, <1>6 DEF json, given

(* Go reads a reference it has written.                                    *)
LEMMA ReferenceBack ==
  ASSUME NEW v, GoReference(v), PlainLeaf(v)
  PROVE  unmarshalTypeReference(ReferenceJson(v)) = v
<1>1. CASE DOMAIN v = {"ref"} /\ v = TypeReference(v.ref)
  <2>1. ReferenceJson(v) = Object(Only("$ref", RefText(<<"">>, v.ref)))
    BY <1>1 DEF ReferenceJson
  <2>2. QED
    BY <1>1, <2>1, TextRead, References
<1>2. CASE DOMAIN v = {"relativePath", "ref"} /\ v = CrossFileTypeReference(v.relativePath, v.ref)
  <2>1. ReferenceJson(v) = Object(Only("$ref", RefText(v.relativePath, v.ref)))
    BY <1>2 DEF ReferenceJson
  <2>2. Len(v.relativePath) = 1 /\ v.relativePath # <<"">>
    BY <1>2 DEF PlainLeaf
  <2>3. QED
    BY <1>2, <2>1, <2>2, TextRead, References
<1>3. QED
  BY <1>1, <1>2, References

LEMMA LeafBack ==
  ASSUME NEW f, LeafEntry(f), NEW v, GoLeaf(f, v), SoundLeaf(f, v)
  PROVE  ReadLeaf(f, Sent(f, v)) = Fill(f, v)
<1>1. IsEmpty(f, v) <=> v = f.zero
  BY Leaves DEF IsEmpty
<1>2. CASE f.holds = "reference"
  <2>1. CASE v = Null
    BY <1>1, <1>2, <2>1, Shapes DEF Sent, Fill, LeafEntry, SoundLeaf, ReadLeaf
  <2>2. CASE v # Null
    <3>1. GoReference(v) /\ Sent(f, v) = ReferenceJson(v)
      BY <1>1, <1>2, <2>2, References DEF GoLeaf, LeafEntry, Sent, WriteLeaf
    <3>2. ReferenceJson(v) # Missing
      BY DEF ReferenceJson, Object, Missing
    <3>3. Fill(f, v) = v
      BY <1>1, <1>2, <2>2 DEF Fill, LeafEntry
    <3>4. QED
      BY <1>2, <3>1, <3>2, <3>3, ReferenceBack DEF SoundLeaf, ReadLeaf
  <2>3. QED
    BY <2>1, <2>2
<1>3. CASE f.holds # "reference"
  <2>1. CASE f.omitempty /\ v = f.zero
    BY <1>1, <1>3, <2>1, Shapes DEF Sent, Fill, LeafEntry, ReadLeaf
  <2>2. CASE ~(f.omitempty /\ v = f.zero)
    <3>1. Holds(v, f.holds) /\ (f.holds = "number" => v.number \in Int64)
      <4>1. ~(v = Null /\ f.zero = Null)
        BY <1>3, <2>2, Apart DEF LeafEntry
      <4>2. QED
        BY <1>3, <4>1 DEF GoLeaf
    <3>2. v \notin {Missing, Null} /\ ~IsReference(v)
      <4>1. DOMAIN v = {f.holds} /\ f.holds \in {"string", "number", "boolean"}
        BY <1>3, <3>1, Held DEF LeafEntry
      <4>2. QED
        BY <4>1, Apart DEF IsReference
    <3>3. WriteLeaf(v) = v
      <4>1. "number" \in DOMAIN v => v = Number(v.number) /\ Float64(v.number) = v.number
        <5>1. DOMAIN v = {f.holds} /\ (f.holds = "number" => v = Number(v.number))
          BY <3>1, Held
        <5>2. QED
          BY <5>1 DEF SoundLeaf, PlainLeaf
      <4>2. QED
        BY <3>2, <4>1 DEF WriteLeaf
    <3>4. ReadLeaf(f, v) = v
      BY <1>3, <3>1, <3>2 DEF ReadLeaf, Holds
    <3>5. Sent(f, v) = v /\ Fill(f, v) = v
      BY <1>1, <2>2, <3>2, <3>3 DEF Sent, Fill
    <3>6. QED
      BY <3>4, <3>5
  <2>3. QED
    BY <2>1, <2>2
<1>4. QED
  BY <1>2, <1>3

(* What a field left out was.                                              *)
LEMMA LeafZero ==
  ASSUME NEW f, LeafEntry(f), f.omitempty
  PROVE  /\ f.absent = f.zero /\ f.zero \in {Null, String(""), Boolean(FALSE)} /\ f.zero # Failed
         /\ GoLeaf(f, f.zero) /\ PlainLeaf(f.zero)
<1>1. /\ f.absent = f.zero
      /\ \/ f.zero = Null
         \/ f.zero = String("") /\ f.holds = "string"
         \/ f.zero = Boolean(FALSE) /\ f.holds = "boolean"
  BY DEF LeafEntry
<1>2. /\ DOMAIN Null = {"null"} /\ DOMAIN String("") = {"string"} /\ DOMAIN Boolean(FALSE) = {"boolean"}
      /\ Holds(String(""), "string") /\ Holds(Boolean(FALSE), "boolean")
  BY DEF Null, String, Boolean, Holds, Only
<1>3. f.zero # Failed
  BY <1>1, Apart
<1>4. GoLeaf(f, f.zero)
  <2>1. CASE f.zero = Null
    BY <2>1 DEF GoLeaf
  <2>2. CASE f.zero = String("") /\ f.holds = "string"
    BY <1>2, <2>2 DEF GoLeaf
  <2>3. CASE f.zero = Boolean(FALSE) /\ f.holds = "boolean"
    BY <1>2, <2>3 DEF GoLeaf
  <2>4. QED
    BY <1>1, <2>1, <2>2, <2>3
<1>5. PlainLeaf(f.zero)
  <2>1. DOMAIN f.zero \in {{"null"}, {"string"}, {"boolean"}}
    <3>1. CASE f.zero = Null
      BY <1>2, <3>1
    <3>2. CASE f.zero = String("")
      BY <1>2, <3>2
    <3>3. CASE f.zero = Boolean(FALSE)
      BY <1>2, <3>3
    <3>4. QED
      BY <1>1, <3>1, <3>2, <3>3
  <2>2. QED
    BY <2>1 DEF PlainLeaf
<1>6. QED
  BY <1>1, <1>3, <1>4, <1>5

(* A field of a struct that was empty or missing is as full as it gets.    *)
LEMMA LeafFill ==
  ASSUME NEW f, LeafEntry(f), NEW v, SoundLeaf(f, v),
         GoLeaf(f, v) \/ (TsLeaf(f, v) /\ ("number" \in DOMAIN v => v.number \in Int64))
  PROVE  /\ GoLeaf(f, Fill(f, v)) /\ SoundLeaf(f, Fill(f, v)) /\ Fill(f, Fill(f, v)) = Fill(f, v)
         /\ Fill(f, v) # v => f.omitempty /\ v = Null /\ Fill(f, v) = f.zero /\ f.absent = f.zero
<1>1. IsEmpty(f, v) <=> v = f.zero
  BY Leaves DEF IsEmpty
<1>2. CASE v = Null /\ f.omitempty
  <2>1. Fill(f, v) = f.zero /\ f.absent = f.zero
    BY <1>2, LeafZero DEF Fill
  <2>2. GoLeaf(f, f.zero)
    BY <1>2, LeafZero
  <2>3. SoundLeaf(f, f.zero)
    BY <1>2, LeafZero DEF SoundLeaf
  <2>4. Fill(f, f.zero) = f.zero
    BY <2>1 DEF Fill
  <2>5. QED
    BY <1>2, <2>1, <2>2, <2>3, <2>4
<1>3. CASE ~(v = Null /\ f.omitempty)
  <2>1. GoLeaf(f, v)
    <3>1. CASE TsLeaf(f, v) /\ ("number" \in DOMAIN v => v.number \in Int64)
      BY <1>3, <3>1 DEF TsLeaf, GoLeaf, Holds, GoReference, TypeReference
    <3>2. QED
      BY <3>1
  <2>2. Fill(f, v) = v
    <3>1. f.absent # Failed /\ (v = Null \/ (f.omitempty /\ v = f.zero)) => f.absent = v
      <4>1. CASE v = Null
        <5>1. f.holds # "reference" => f.zero = Null
          <6>1. DOMAIN Null = {"null"} /\ f.holds # "null"
            BY DEF Null, LeafEntry
          <6>2. QED
            BY <2>1, <4>1, <6>1 DEF GoLeaf, Holds
        <5>2. QED
          BY <1>3, <4>1, <5>1, Apart DEF LeafEntry, SoundLeaf
      <4>2. CASE v # Null
        BY <4>2 DEF LeafEntry
      <4>3. QED
        BY <4>1, <4>2
    <3>2. QED
      BY <1>1, <3>1 DEF Fill
  <2>3. QED
    BY <2>1, <2>2
<1>4. QED
  BY <1>2, <1>3

(* What Go reads of what it wrote, it writes as before.                    *)
LEMMA LeafStable ==
  ASSUME NEW f, LeafEntry(f), NEW v, GoLeaf(f, v), ReadLeaf(f, Sent(f, v)) # Failed
  PROVE  Sent(f, ReadLeaf(f, Sent(f, v))) = Sent(f, v)
<1>1. IsEmpty(f, v) <=> v = f.zero
  BY Leaves DEF IsEmpty
<1>2. CASE Sent(f, v) = Missing
  <2>1. ReadLeaf(f, Sent(f, v)) = f.absent
    BY <1>2 DEF ReadLeaf
  <2>2. f.omitempty /\ v = f.zero
    <3>1. ASSUME WriteLeaf(v) = Missing PROVE FALSE
      <4>1. ReferenceJson(v) # Missing /\ Number(Float64(v.number)) # Missing
        BY DEF ReferenceJson, Object, Missing, Number
      <4>2. v # Missing
        BY Leaves
      <4>3. QED
        BY <3>1, <4>1, <4>2 DEF WriteLeaf
    <3>2. QED
      BY <1>1, <1>2, <3>1 DEF Sent
  <2>3. f.absent = v
    BY <2>2 DEF LeafEntry
  <2>4. QED
    BY <2>1, <2>3
<1>3. CASE Sent(f, v) # Missing
  <2>1. Sent(f, v) = WriteLeaf(v) /\ ~(f.omitempty /\ v = f.zero)
    BY <1>1, <1>3 DEF Sent
  <2>2. CASE f.holds = "reference"
    <3>1. CASE v = Null
      <4>1. WriteLeaf(v) = Null
        BY <3>1, Shapes DEF WriteLeaf, IsReference
      <4>2. unmarshalTypeReference(Null) = Failed
        <5>1. "object" \notin DOMAIN Null /\ Lookup(<<>>, "$ref") = Missing /\ "prefix" \notin DOMAIN Missing
          BY DEF Null, Missing, Lookup
        <5>2. QED
          BY <5>1, Zenon DEF unmarshalTypeReference
      <4>3. QED
        BY <1>3, <2>1, <2>2, <4>1, <4>2 DEF ReadLeaf
    <3>2. CASE v # Null
      <4>1. GoReference(v) /\ WriteLeaf(v) = ReferenceJson(v)
        BY <2>2, <3>2, References DEF GoLeaf, WriteLeaf
      <4> DEFINE x == unmarshalTypeReference(ReferenceJson(v))
      <4>2. ReadLeaf(f, Sent(f, v)) = x /\ x # Failed
        BY <1>3, <2>1, <2>2, <4>1 DEF ReadLeaf
      <4>3. PICK p : ReferenceJson(v) = Object(Only("$ref", RefText(p, v.ref))) /\ p # <<>>
        <5>1. CASE DOMAIN v = {"ref"}
          <6>1. ReferenceJson(v) = Object(Only("$ref", RefText(<<"">>, v.ref)))
            BY <5>1 DEF ReferenceJson
          <6>2. QED
            BY <6>1, Paths
        <5>2. CASE DOMAIN v = {"relativePath", "ref"} /\ PathText(v.relativePath)
          <6>1. ReferenceJson(v) = Object(Only("$ref", RefText(v.relativePath, v.ref)))
            BY <5>2 DEF ReferenceJson
          <6>2. v.relativePath # <<>>
            BY <5>2, Paths
          <6>3. QED
            BY <6>1, <6>2
        <5>3. QED
          BY <4>1, <5>1, <5>2, References
      <4>4. x \in {CrossFileTypeReference(p, v.ref), TypeReference(v.ref)}
            /\ (x = TypeReference(v.ref) /\ x # CrossFileTypeReference(p, v.ref) => p = <<"">>)
        BY <4>2, <4>3, TextRead
      <4>5. ReferenceJson(x) = ReferenceJson(v) /\ IsReference(x)
        <5> HIDE DEF x
        <5>1. CASE x = CrossFileTypeReference(p, v.ref)
          <6>1. "relativePath" \in DOMAIN x /\ x.relativePath = p /\ x.ref = v.ref /\ "ref" \in DOMAIN x
            BY <5>1 DEF CrossFileTypeReference
          <6>2. QED
            BY <4>3, <6>1 DEF ReferenceJson, IsReference
        <5>2. CASE x = TypeReference(v.ref) /\ p = <<"">>
          <6>1. "relativePath" \notin DOMAIN x /\ x.ref = v.ref /\ "ref" \in DOMAIN x
            BY <5>2 DEF TypeReference
          <6>2. QED
            BY <4>3, <5>2, <6>1 DEF ReferenceJson, IsReference
        <5>3. QED
          BY <4>4, <5>1, <5>2
      <4>6. x # Null /\ "object" \notin DOMAIN x
        <5> HIDE DEF x
        <5>1. DOMAIN x \in {{"ref"}, {"relativePath", "ref"}}
          BY <4>4 DEF CrossFileTypeReference, TypeReference
        <5>2. QED
          BY <5>1, Apart
      <4>7. Sent(f, x) = ReferenceJson(x)
        BY <2>2, <4>5, <4>6 DEF Sent, IsEmpty, WriteLeaf, LeafEntry
      <4> HIDE DEF x
      <4>8. QED
        BY <2>1, <4>1, <4>2, <4>5, <4>7
    <3>3. QED
      BY <3>1, <3>2
  <2>3. CASE f.holds # "reference"
    <3>1. Holds(v, f.holds) /\ (f.holds = "number" => v.number \in Int64)
      <4>1. ~(v = Null /\ f.zero = Null)
        BY <2>1, <2>3, Apart DEF LeafEntry
      <4>2. QED
        BY <2>3, <4>1 DEF GoLeaf
    <3>2. DOMAIN v = {f.holds} /\ v # Null /\ ~IsReference(v)
          /\ (f.holds = "number" => v = Number(v.number))
      <4>1. DOMAIN v = {f.holds} /\ f.holds \in {"string", "number", "boolean"}
        BY <2>3, <3>1, Held DEF LeafEntry
      <4>2. QED
        BY <3>1, <4>1, Apart, Held DEF IsReference
    <3>3. CASE f.holds # "number"
      <4>1. WriteLeaf(v) = v
        BY <3>2, <3>3 DEF WriteLeaf
      <4>2. ReadLeaf(f, v) = v
        BY <1>3, <2>1, <2>3, <3>2, <3>3, <4>1 DEF ReadLeaf
      <4>3. QED
        BY <2>1, <4>1, <4>2
    <3>4. CASE f.holds = "number"
      <4> DEFINE n == v.number
                 x == Number(Float64(n))
      <4>1. WriteLeaf(v) = x
        BY <3>2, <3>4 DEF WriteLeaf
      <4>2. x # Null /\ DOMAIN x = {"number"} /\ x.number = Float64(n)
        BY DEF Number, Null
      <4>3. ReadLeaf(f, x) = x
        BY <1>3, <2>1, <3>4, <4>1, <4>2 DEF ReadLeaf
      <4>4. Float64(Float64(n)) = Float64(n)
        BY <3>1, <3>4, RoundedOnce
      <4> HIDE DEF x
      <4>5. WriteLeaf(x) = x
        BY <4>2, <4>4 DEF WriteLeaf, IsReference, x
      <4>6. Sent(f, x) = x
        BY <3>4, <4>2, <4>5 DEF Sent, IsEmpty, LeafEntry
      <4>7. QED
        BY <2>1, <4>1, <4>3, <4>6
    <3>5. QED
      BY <3>3, <3>4
  <2>4. QED
    BY <2>2, <2>3
<1>4. QED
  BY <1>2, <1>3

(* TypeScript writes leaves as they are, at every level.                   *)
LEMMA ReplacedLeaf ==
  ASSUME NEW f, LeafEntry(f), NEW v, GoLeaf(f, v) \/ TsLeaf(f, v)
  PROVE  /\ ReplacedRef(v) = IF IsReference(v) THEN ReferenceJson(v) ELSE v
         /\ ReplacedItem(v) = ReplacedRef(v) /\ ReplacedField(v) = ReplacedRef(v)
<1>1. "object" \notin DOMAIN v /\ "array" \notin DOMAIN v
  BY Leaves
<1>2. \A inner : Replacer(v, inner) = IF IsReference(v) THEN ReferenceJson(v) ELSE v
  BY <1>1 DEF Replacer, IsReference
<1>3. QED
  BY <1>2 DEF ReplacedRef, ReplacedItem, ReplacedField

(* Go reads a leaf that TypeScript wrote.                                  *)
LEMMA TsLeafBack ==
  ASSUME NEW f, LeafEntry(f), NEW v, TsLeaf(f, v), SoundLeaf(f, v),
         "number" \in DOMAIN v => v.number \in Int64
  PROVE  ReadLeaf(f, TsSent(v)) = Fill(f, v)
<1>1. IsEmpty(f, v) <=> v = f.zero
  BY Leaves DEF IsEmpty
<1>2. CASE v = Null
  <2>1. f.omitempty
    BY <1>2, Shapes DEF TsLeaf, Holds, IsReference, LeafEntry
  <2>2. Fill(f, v) = f.absent
    BY <1>2, <2>1, LeafZero DEF Fill
  <2>3. QED
    BY <1>2, <2>2 DEF TsSent, ReadLeaf
<1>3. CASE v # Null
  <2>1. Fill(f, v) = v
    BY <1>1, <1>3, LeafZero DEF Fill, LeafEntry
  <2>2. CASE f.holds = "reference"
    <3>1. GoReference(v) /\ TsSent(v) = ReferenceJson(v)
      BY <1>3, <2>2, Leaves, ReplacedLeaf, References DEF TsSent
    <3>2. ReferenceJson(v) # Missing
      BY DEF ReferenceJson, Object, Missing
    <3>3. QED
      BY <2>1, <2>2, <3>1, <3>2, ReferenceBack DEF ReadLeaf, SoundLeaf
  <2>3. CASE f.holds # "reference"
    <3>1. Holds(v, f.holds) /\ f.holds \in {"string", "number", "boolean"}
      BY <1>3, <2>3 DEF TsLeaf, LeafEntry
    <3>2. DOMAIN v = {f.holds} /\ ~IsReference(v) /\ v # Missing
      <4>1. DOMAIN v = {f.holds}
        BY <3>1, Held
      <4>2. QED
        BY <3>1, <4>1, Apart DEF IsReference
    <3>3. TsSent(v) = v
      BY <1>3, <3>2, ReplacedLeaf DEF TsSent
    <3>4. QED
      BY <1>3, <2>1, <2>3, <3>2, <3>3 DEF ReadLeaf
  <2>4. QED
    BY <2>2, <2>3
<1>4. QED
  BY <1>2, <1>3

(* A JSON value and what it holds.                                         *)
Shape(j) == JsonLeaf(j) \/ Container(j)

Deep(j) == Shape(j) /\ \A w \in RangeOf(Inside(j)) : Shape(w)

LEMMA LeafShape ==
  ASSUME NEW j, JsonLeaf(j)
  PROVE  /\ "object" \notin DOMAIN j /\ "array" \notin DOMAIN j /\ "ref" \notin DOMAIN j
         /\ Inside(j) = <<>> /\ RangeOf(Inside(j)) = {} /\ j \notin {Missing, Failed}
         /\ Deep(j)
<1>1. DOMAIN j \in {{"null"}, {"string"}, {"boolean"}, {"number"}, {"prefix", "index"}}
  BY Shapes DEF JsonLeaf, Holds
<1>2. j \notin {Missing, Failed}
  BY <1>1, Apart, Shapes
<1>3. Inside(j) = <<>>
  BY <1>1 DEF Inside
<1>4. RangeOf(Inside(j)) = {}
  BY <1>3 DEF RangeOf
<1>5. QED
  BY <1>1, <1>2, <1>3, <1>4 DEF Deep, Shape

LEMMA Deeper ==
  ASSUME NEW j, JsonRef(j) \/ JsonItem(j) \/ JsonField(j)
  PROVE  Deep(j)
BY LeafShape DEF JsonRef, JsonItem, JsonField, Deep, Shape

(* What Go reads of a reference is one.                                    *)
LEMMA ReferenceRead ==
  ASSUME NEW j, Deep(j), unmarshalTypeReference(j) # Failed
  PROVE  GoReference(unmarshalTypeReference(j))
<1> DEFINE fields == IF "object" \in DOMAIN j THEN j.object ELSE <<>>
           text == Lookup(fields, "$ref")
           path == Lookup(fields, "relativePath")
           x == unmarshalTypeReference(j)
<1>1. "prefix" \in DOMAIN text
  BY DEF unmarshalTypeReference
<1>2. "object" \in DOMAIN j /\ "$ref" \in DOMAIN j.object /\ text = j.object["$ref"]
  <2>1. "prefix" \notin DOMAIN Missing
    BY Shapes
  <2>2. "$ref" \in DOMAIN fields
    BY <1>1, <2>1 DEF Lookup
  <2>3. QED
    BY <2>2 DEF Lookup
<1>3. Shape(text)
  BY <1>2 DEF Deep, RangeOf, Inside
<1>4. (text.prefix = <<>> \/ PathText(text.prefix)) /\ text.index \in Int \cup {Garbled}
  BY <1>1, <1>3, Shapes DEF Shape, JsonLeaf, Container, Holds
<1>5. "string" \in DOMAIN path => PathText(path.string)
  <2>1. Container(j)
    BY <1>2, LeafShape DEF Deep, Shape
  <2>2. QED
    BY <1>2, <2>1 DEF Container
<1>6. x = IF text.index = Garbled THEN Failed
          ELSE IF path = Null THEN UnmarshalCrossFile(<<"">>, text)
          ELSE IF "string" \in DOMAIN path THEN UnmarshalCrossFile(path.string, text)
          ELSE IF path # Missing THEN Failed
          ELSE IF Len(text.prefix) = 1 /\ text.prefix # <<"">>
               THEN CrossFileTypeReference(text.prefix, text.index)
               ELSE UnmarshalLocal(text)
  BY <1>1 DEF unmarshalTypeReference
<1> HIDE DEF x, fields, text, path
<1>7. text.index \in Int /\ x # Failed
  BY <1>4, <1>6 DEF x
<1>8. Len(text.prefix) = 1 => PathText(text.prefix)
  BY Paths
<1>9. PathText(<<"">>)
  BY Paths
<1>10. \A p : PathText(p) => GoReference(CrossFileTypeReference(p, text.index))
  BY <1>7, Shapes DEF GoReference, IsReference
<1>11. GoReference(TypeReference(text.index))
  BY <1>7, Shapes DEF GoReference, IsReference
<1>12. ASSUME NEW given, PathText(given), x = UnmarshalCrossFile(given, text)
       PROVE  GoReference(x)
  BY <1>7, <1>8, <1>10, <1>12 DEF UnmarshalCrossFile
<1>13. GoReference(x)
  BY <1>5, <1>6, <1>7, <1>8, <1>9, <1>10, <1>11, <1>12 DEF UnmarshalLocal
<1>14. QED
  BY <1>13 DEF x

LEMMA ZeroFits == 0 \in Int64
<1>1. Width - 1 \in 0..Powers
  BY WidthAssumption DEF Powers, MaxBits
<1>2. PowerOfTwo[Width - 1] \in Nat \ {0}
  BY <1>1, PowerFacts
<1>3. QED
  BY <1>2 DEF Int64

(* What Go reads fits the struct.                                          *)
LEMMA LeafRead ==
  ASSUME NEW f, LeafEntry(f), NEW j, j = Missing \/ Deep(j), ReadLeaf(f, j) # Failed
  PROVE  GoLeaf(f, ReadLeaf(f, j))
<1>1. f.absent # Failed => GoLeaf(f, f.absent)
  <2>1. /\ Holds(String(""), "string") /\ Holds(Boolean(FALSE), "boolean") /\ Holds(Number(0), "number")
        /\ Number(0).number = 0
    BY DEF String, Boolean, Number, Holds, Only
  <2>2. CASE f.absent = Null /\ f.zero = Null
    BY <2>2 DEF GoLeaf
  <2>3. CASE f.holds = "string" /\ f.absent = String("")
    BY <2>1, <2>3 DEF GoLeaf
  <2>4. CASE f.holds = "boolean" /\ f.absent = Boolean(FALSE)
    BY <2>1, <2>4 DEF GoLeaf
  <2>5. CASE f.holds = "number" /\ f.absent = Number(0)
    BY <2>1, <2>5, ZeroFits DEF GoLeaf
  <2>6. QED
    BY <2>2, <2>3, <2>4, <2>5 DEF LeafEntry
<1>2. CASE f.holds = "reference"
  BY <1>1, <1>2, ReferenceRead DEF ReadLeaf, GoLeaf
<1>3. CASE f.holds # "reference"
  <2>1. CASE j \in {Missing, Null}
    BY <1>1, <1>3, <2>1 DEF ReadLeaf
  <2>2. CASE j \notin {Missing, Null}
    <3>1. f.holds \in DOMAIN j /\ ReadLeaf(f, j) = j /\ (f.holds = "number" => j.number \in Int64)
      BY <1>3, <2>2 DEF ReadLeaf
    <3>2. f.holds \in {"string", "number", "boolean"}
      BY <1>3 DEF LeafEntry
    <3>3. Holds(j, f.holds)
      BY <2>2, <3>1, <3>2 DEF Deep, Shape, JsonLeaf, Container, Holds
    <3>4. QED
      BY <1>3, <3>1, <3>3 DEF GoLeaf
  <2>3. QED
    BY <2>1, <2>2
<1>4. QED
  BY <1>2, <1>3

MadeText(j) ==
  \E p, i : j = Object(Only("$ref", RefText(p, i))) /\ PathText(p) /\ i \in Int

(* What a program writes for a leaf: numbers rounded, references as texts. *)
MadeLeaf(j) ==
  \/ /\ JsonLeaf(j) /\ "prefix" \notin DOMAIN j
     /\ "number" \in DOMAIN j => Float64(j.number) = j.number
  \/ MadeText(j)

LEMMA MadeReference ==
  ASSUME NEW v, GoReference(v)
  PROVE  MadeText(ReferenceJson(v)) /\ MadeLeaf(ReferenceJson(v))
<1>1. CASE DOMAIN v = {"ref"}
  <2>1. ReferenceJson(v) = Object(Only("$ref", RefText(<<"">>, v.ref)))
    BY <1>1 DEF ReferenceJson
  <2>2. QED
    BY <2>1, Paths, References DEF MadeLeaf, MadeText
<1>2. CASE DOMAIN v = {"relativePath", "ref"} /\ PathText(v.relativePath)
  <2>1. ReferenceJson(v) = Object(Only("$ref", RefText(v.relativePath, v.ref)))
    BY <1>2 DEF ReferenceJson
  <2>2. QED
    BY <1>2, <2>1, References DEF MadeLeaf, MadeText
<1>3. QED
  BY <1>1, <1>2, References

LEMMA MadeByGo ==
  ASSUME NEW f, LeafEntry(f), NEW v, GoLeaf(f, v)
  PROVE  MadeLeaf(WriteLeaf(v)) /\ WriteLeaf(v) # Missing
<1>1. CASE v = Null
  <2>1. WriteLeaf(v) = Null /\ "prefix" \notin DOMAIN Null /\ "number" \notin DOMAIN Null
    BY <1>1, Shapes DEF WriteLeaf, IsReference
  <2>2. QED
    BY <2>1, Apart DEF MadeLeaf, JsonLeaf
<1>2. CASE GoReference(v)
  <2>1. WriteLeaf(v) = ReferenceJson(v)
    BY <1>2, References DEF WriteLeaf
  <2>2. ReferenceJson(v) # Missing
    BY DEF ReferenceJson, Object, Missing
  <2>3. QED
    BY <1>2, <2>1, <2>2, MadeReference
<1>3. CASE \/ f.holds = "string" /\ Holds(v, "string")
           \/ f.holds = "boolean" /\ Holds(v, "boolean")
  <2>1. DOMAIN v \in {{"string"}, {"boolean"}}
    BY <1>3, Held
  <2>2. WriteLeaf(v) = v
    BY <2>1 DEF WriteLeaf, IsReference
  <2>3. JsonLeaf(v) /\ "prefix" \notin DOMAIN v /\ "number" \notin DOMAIN v
    BY <1>3, <2>1 DEF JsonLeaf
  <2>4. QED
    BY <2>1, <2>2, <2>3, Apart DEF MadeLeaf
<1>4. CASE f.holds = "number" /\ Holds(v, "number") /\ v.number \in Int64
  <2> DEFINE x == Number(Float64(v.number))
  <2>1. WriteLeaf(v) = x
    <3>1. DOMAIN v = {"number"}
      BY <1>4, Held
    <3>2. QED
      BY <3>1 DEF WriteLeaf, IsReference
  <2>2. DOMAIN x = {"number"} /\ x.number = Float64(v.number) /\ Holds(x, "number")
    BY DEF Number, Holds, Only
  <2>3. Float64(x.number) = x.number
    BY <1>4, <2>2, RoundedOnce
  <2> HIDE DEF x
  <2>4. JsonLeaf(x) /\ "prefix" \notin DOMAIN x /\ x # Missing
    BY <2>2, Apart DEF JsonLeaf
  <2>5. QED
    BY <2>1, <2>3, <2>4 DEF MadeLeaf
<1>5. QED
  BY <1>1, <1>2, <1>3, <1>4 DEF GoLeaf, LeafEntry

LEMMA MadeByTs ==
  ASSUME NEW f, LeafEntry(f), NEW v, TsLeaf(f, v), v # Null
  PROVE  MadeLeaf(ReplacedRef(v))
<1>1. CASE f.holds = "reference"
  <2>1. GoReference(v)
    BY <1>1, Leaves
  <2>2. ReplacedRef(v) = ReferenceJson(v)
    BY <2>1, ReplacedLeaf, References
  <2>3. QED
    BY <2>1, <2>2, MadeReference
<1>2. CASE f.holds # "reference"
  <2>1. Holds(v, f.holds) /\ f.holds \in {"string", "number", "boolean"}
        /\ (f.holds = "number" => Float64(v.number) = v.number)
    BY <1>2 DEF TsLeaf, LeafEntry
  <2>2. DOMAIN v = {f.holds}
    BY <2>1, Held
  <2>3. ReplacedRef(v) = v
    BY <2>1, <2>2, ReplacedLeaf DEF IsReference
  <2>4. JsonLeaf(v)
    BY <2>1 DEF JsonLeaf
  <2>5. QED
    BY <2>1, <2>2, <2>3, <2>4 DEF MadeLeaf
<1>3. QED
  BY <1>1, <1>2

LEMMA MadeIsJson ==
  ASSUME NEW j, MadeLeaf(j)
  PROVE  JsonRef(j) /\ JsonItem(j) /\ JsonField(j) /\ Deep(j)
<1>1. CASE JsonLeaf(j)
  BY <1>1, LeafShape DEF JsonRef, JsonItem, JsonField
<1>2. ASSUME NEW p, NEW i, j = Object(Only("$ref", RefText(p, i))), PathText(p), i \in Int
      PROVE  JsonRef(j) /\ JsonItem(j) /\ JsonField(j)
  <2> DEFINE given == Only("$ref", RefText(p, i))
  <2>1. DOMAIN j = {"object"} /\ j.object = given /\ Holds(j, "object")
    BY <1>2 DEF Object, Holds, Only
  <2>2. DOMAIN given = {"$ref"} /\ given["$ref"] = RefText(p, i) /\ given = [n \in DOMAIN given |-> given[n]]
    BY DEF Only
  <2>3. Inside(j) = given
    BY <2>1 DEF Inside
  <2> HIDE DEF given
  <2>4. RangeOf(given) = {RefText(p, i)}
    BY <2>2 DEF RangeOf
  <2>5. JsonLeaf(RefText(p, i))
    BY <1>2, Shapes DEF JsonLeaf
  <2>6. Lookup(j.object, "relativePath") = Missing /\ "string" \notin DOMAIN Missing
    BY <2>1, <2>2, Shapes DEF Lookup
  <2>7. Container(j)
    BY <2>1, <2>2, <2>3, <2>6 DEF Container, FieldsOf
  <2>8. JsonRef(RefText(p, i)) /\ JsonItem(RefText(p, i))
    BY <2>5 DEF JsonRef, JsonItem
  <2>9. QED
    BY <2>3, <2>4, <2>5, <2>7, <2>8 DEF JsonRef, JsonItem, JsonField
<1>3. QED
  BY <1>1, <1>2, Deeper DEF MadeLeaf, MadeText, JsonRef

-----------------------------------------------------------------------------
(* Items.                                                                  *)
ItemEntry(items) == items = Reference \/ TableEntry(items)

SoundItem(items, w) ==
  IF items = Reference THEN SoundLeaf(Reference, w)
  ELSE \A name \in DOMAIN items : SoundLeaf(items[name], w.object[name])

(* The numbers of a TypeScript value that is to be read by Go.             *)
FitsLeaf(v) == "number" \in DOMAIN v => v.number \in Int64

FitsItem(items, w) == items # Reference => \A name \in DOMAIN items : FitsLeaf(w.object[name])

LEMMA TheReference ==
  /\ LeafEntry(Reference) /\ Reference.holds = "reference" /\ Reference.absent = Failed
  /\ Reference.zero = Null /\ Reference.omitempty = FALSE
  /\ \A v : Sent(Reference, v) = WriteLeaf(v) /\ Fill(Reference, v) = v
<1>1. /\ LeafEntry(Reference) /\ Reference.holds = "reference" /\ Reference.absent = Failed
      /\ Reference.zero = Null /\ Reference.omitempty = FALSE
  BY LeafEntries DEF Reference, Field
<1>2. QED
  BY <1>1 DEF Sent, Fill

LEMMA WrittenLookup ==
  ASSUME NEW fields, NEW v, NEW name \in DOMAIN fields
  PROVE  Lookup([n \in Written(fields, v) |-> WriteLeaf(v[n])], name) = Sent(fields[name], v[name])
BY DEF Lookup, Written, Sent

LEMMA ReplacedLookup ==
  ASSUME NEW v, NEW name \in DOMAIN v
  PROVE  Lookup([n \in {m \in DOMAIN v : v[m] # Null} |-> ReplacedRef(v[n])], name) = TsSent(v[name])
BY DEF Lookup, TsSent

LEMMA TableRead ==
  ASSUME NEW items, TableEntry(items), NEW given, NEW v, v = [name \in DOMAIN items |-> v[name]],
         \A name \in DOMAIN items : ReadLeaf(items[name], Lookup(given, name)) = v[name] /\ v[name] # Failed
  PROVE  ReadItem(items, Object(given)) = Object(v)
<1>1. [name \in DOMAIN items |-> ReadLeaf(items[name], Lookup(given, name))] = v
  OBVIOUS
<1>2. Failed \notin RangeOf(v)
  BY DEF RangeOf
<1>3. items # Reference /\ "object" \in DOMAIN Object(given) /\ Object(given).object = given
      /\ Object(given) # Null
  <2>1. items # Reference
    BY DEF TableEntry
  <2>2. "object" \in DOMAIN Object(given) /\ Object(given).object = given /\ Object(given) # Null
    BY Shapes, Apart
  <2>3. QED
    BY <2>1, <2>2
<1>4. QED
  BY <1>1, <1>2, <1>3 DEF ReadItem

(* Leaves are never errors.                                                *)
LEMMA FillNotFailed ==
  ASSUME NEW f, LeafEntry(f), NEW v, SoundLeaf(f, v), GoLeaf(f, v) \/ (TsLeaf(f, v) /\ FitsLeaf(v))
  PROVE  Fill(f, v) # Failed
<1>1. GoLeaf(f, Fill(f, v))
  BY LeafFill DEF FitsLeaf
<1>2. QED
  BY <1>1, Leaves

LEMMA ItemBack ==
  ASSUME NEW items, ItemEntry(items), NEW w, GoItem(items, w), SoundItem(items, w)
  PROVE  ReadItem(items, WriteItem(items, w)) = FilledItem(items, w)
<1>1. CASE items = Reference
  <2>1. ReadLeaf(Reference, Sent(Reference, w)) = Fill(Reference, w) /\ Fill(Reference, w) = w
    BY <1>1, TheReference, LeafBack DEF GoItem, SoundItem
  <2>2. w # Failed /\ w # Null
    BY <1>1, TheReference, Leaves DEF GoItem, SoundItem, SoundLeaf
  <2>3. WriteLeaf(w) # Missing
    BY <2>1, <2>2, TheReference DEF ReadLeaf
  <2>4. QED
    BY <1>1, <2>1, <2>3, TheReference DEF ReadItem, WriteItem, FilledItem, ReadLeaf
<1>2. CASE items # Reference
  <2> DEFINE given == [name \in Written(items, w.object) |-> WriteLeaf(w.object[name])]
             full == [name \in DOMAIN items |-> Fill(items[name], w.object[name])]
  <2>1. TableEntry(items)
    BY <1>2 DEF ItemEntry
  <2>2. ASSUME NEW name \in DOMAIN items
        PROVE  ReadLeaf(items[name], Lookup(given, name)) = full[name] /\ full[name] # Failed
    <3>1. LeafEntry(items[name]) /\ GoLeaf(items[name], w.object[name]) /\ SoundLeaf(items[name], w.object[name])
      BY <1>2, <2>1 DEF TableEntry, GoItem, SoundItem
    <3>2. Lookup(given, name) = Sent(items[name], w.object[name])
      BY WrittenLookup
    <3>3. full[name] = Fill(items[name], w.object[name])
      OBVIOUS
    <3> HIDE DEF given, full
    <3>4. ReadLeaf(items[name], Sent(items[name], w.object[name])) = Fill(items[name], w.object[name])
      BY <3>1, LeafBack
    <3>5. Fill(items[name], w.object[name]) # Failed
      <4> DEFINE f == items[name]
                 u == w.object[name]
      <4>1. LeafEntry(f) /\ GoLeaf(f, u) /\ SoundLeaf(f, u)
        BY <3>1
      <4> HIDE DEF f, u
      <4>2. Fill(f, u) # Failed
        BY <4>1, FillNotFailed
      <4>3. QED
        BY <4>2 DEF f, u
    <3>6. QED
      BY <3>2, <3>3, <3>4, <3>5
  <2>3. full = [name \in DOMAIN items |-> full[name]]
    OBVIOUS
  <2>4. WriteItem(items, w) = Object(given) /\ FilledItem(items, w) = Object(full)
    BY <1>2 DEF WriteItem, FilledItem
  <2> HIDE DEF given, full
  <2>5. QED
    BY <2>1, <2>2, <2>3, <2>4, TableRead
<1>3. QED
  BY <1>1, <1>2

LEMMA TsItemBack ==
  ASSUME NEW items, ItemEntry(items), NEW w, TsItem(items, w), SoundItem(items, w), FitsItem(items, w)
  PROVE  ReadItem(items, ReplacedItem(w)) = FilledItem(items, w)
<1>1. CASE items = Reference
  <2>1. TsLeaf(Reference, w) /\ SoundLeaf(Reference, w) /\ w # Null
    BY <1>1, TheReference DEF TsItem, SoundItem, SoundLeaf
  <2>2. GoReference(w)
    BY <2>1, TheReference, Leaves
  <2>3. ReplacedItem(w) = ReferenceJson(w)
    BY <2>1, <2>2, TheReference, ReplacedLeaf, References
  <2>4. QED
    BY <1>1, <2>1, <2>2, <2>3, ReferenceBack DEF ReadItem, FilledItem, SoundLeaf
<1>2. CASE items # Reference
  <2> DEFINE given == [name \in {n \in DOMAIN w.object : w.object[n] # Null} |-> ReplacedRef(w.object[name])]
             full == [name \in DOMAIN items |-> Fill(items[name], w.object[name])]
  <2>1. TableEntry(items)
    BY <1>2 DEF ItemEntry
  <2>2. DOMAIN w = {"object"} /\ DOMAIN w.object = DOMAIN items
    BY <1>2, Held DEF TsItem, FieldsOf
  <2>3. ASSUME NEW name \in DOMAIN items
        PROVE  ReadLeaf(items[name], Lookup(given, name)) = full[name] /\ full[name] # Failed
    <3>1. LeafEntry(items[name]) /\ TsLeaf(items[name], w.object[name]) /\ SoundLeaf(items[name], w.object[name])
          /\ FitsLeaf(w.object[name])
      BY <1>2, <2>1 DEF TableEntry, TsItem, SoundItem, FitsItem
    <3>2. Lookup(given, name) = TsSent(w.object[name])
      BY <2>2, ReplacedLookup
    <3>3. full[name] = Fill(items[name], w.object[name])
      OBVIOUS
    <3> HIDE DEF given, full
    <3>4. QED
      BY <3>1, <3>2, <3>3, TsLeafBack, FillNotFailed DEF FitsLeaf
  <2>4. full = [name \in DOMAIN items |-> full[name]]
    OBVIOUS
  <2>5. ReplacedItem(w) = Object(given) /\ FilledItem(items, w) = Object(full)
    <3>1. Inside(w) = w.object /\ "ref" \notin DOMAIN w
      BY <2>2 DEF Inside
    <3>2. ReplacedItem(w) = Object([name \in {n \in DOMAIN w.object : w.object[n] # Null} |-> Each(w, ReplacedRef)[name]])
      BY <2>2, <3>1 DEF ReplacedItem, Replacer
    <3>3. \A name \in DOMAIN w.object : Each(w, ReplacedRef)[name] = ReplacedRef(w.object[name])
      BY <3>1 DEF Each
    <3>4. QED
      BY <1>2, <3>2, <3>3 DEF FilledItem
  <2> HIDE DEF given, full
  <2>6. QED
    BY <2>1, <2>3, <2>4, <2>5, TableRead
<1>3. QED
  BY <1>1, <1>2

LEMMA ItemFill ==
  ASSUME NEW items, ItemEntry(items), NEW w, SoundItem(items, w),
         GoItem(items, w) \/ (TsItem(items, w) /\ FitsItem(items, w))
  PROVE  /\ GoItem(items, FilledItem(items, w)) /\ SoundItem(items, FilledItem(items, w))
         /\ FilledItem(items, FilledItem(items, w)) = FilledItem(items, w)
         /\ FilledItem(items, w) # Failed
<1>1. CASE items = Reference
  <2>1. LeafEntry(Reference) /\ SoundLeaf(Reference, w) /\ w # Null
    BY <1>1, TheReference DEF SoundItem, SoundLeaf
  <2>2. GoLeaf(Reference, w) \/ TsLeaf(Reference, w)
    BY <1>1 DEF GoItem, TsItem
  <2>3. GoReference(w) /\ w # Failed
    BY <2>1, <2>2, TheReference, Leaves
  <2>4. GoLeaf(Reference, w)
    BY <2>3, TheReference DEF GoLeaf
  <2>5. FilledItem(items, w) = w
    BY <1>1 DEF FilledItem
  <2>6. QED
    BY <1>1, <2>1, <2>3, <2>4, <2>5 DEF GoItem, SoundItem
<1>2. CASE items # Reference
  <2> DEFINE full == [name \in DOMAIN items |-> Fill(items[name], w.object[name])]
  <2>1. TableEntry(items)
    BY <1>2 DEF ItemEntry
  <2>2. ASSUME NEW name \in DOMAIN items
        PROVE  /\ GoLeaf(items[name], full[name]) /\ SoundLeaf(items[name], full[name])
               /\ Fill(items[name], full[name]) = full[name]
    <3> DEFINE f == items[name]
               v == w.object[name]
    <3>1. LeafEntry(f) /\ SoundLeaf(f, v)
      BY <1>2, <2>1 DEF TableEntry, SoundItem
    <3>2. GoLeaf(f, v) \/ (TsLeaf(f, v) /\ ("number" \in DOMAIN v => v.number \in Int64))
      BY <1>2 DEF GoItem, TsItem, FitsItem, FitsLeaf
    <3>3. full[name] = Fill(f, v)
      OBVIOUS
    <3> HIDE DEF f, v, full
    <3>4. GoLeaf(f, Fill(f, v)) /\ SoundLeaf(f, Fill(f, v)) /\ Fill(f, Fill(f, v)) = Fill(f, v)
      BY <3>1, <3>2, LeafFill
    <3>5. QED
      BY <3>3, <3>4 DEF f
  <2>3. FilledItem(items, w) = Object(full) /\ DOMAIN full = DOMAIN items
    BY <1>2 DEF FilledItem
  <2>4. full = [name \in DOMAIN items |-> full[name]]
    OBVIOUS
  <2>5. [name \in DOMAIN items |-> Fill(items[name], full[name])] = full
    BY <2>2
  <2> HIDE DEF full
  <2>6. Object(full).object = full /\ Holds(Object(full), "object") /\ Object(full) # Failed
    BY Apart DEF Object, Holds, Only
  <2>7. FilledItem(items, Object(full)) = Object(full)
    BY <1>2, <2>5, <2>6 DEF FilledItem
  <2>8. GoItem(items, Object(full)) /\ SoundItem(items, Object(full))
    BY <1>2, <2>2, <2>3, <2>4, <2>6 DEF GoItem, SoundItem, FieldsOf
  <2>9. QED
    BY <2>3, <2>6, <2>7, <2>8
<1>3. QED
  BY <1>1, <1>2

(* What Go reads of any object fits the struct.                            *)
LEMMA ItemRead ==
  ASSUME NEW items, ItemEntry(items), NEW j, JsonItem(j), ReadItem(items, j) # Failed
  PROVE  GoItem(items, ReadItem(items, j))
<1>1. CASE items = Reference
  <2>1. GoReference(unmarshalTypeReference(j))
    BY <1>1, Deeper, ReferenceRead DEF ReadItem
  <2>2. QED
    BY <1>1, <2>1, TheReference DEF ReadItem, GoItem, GoLeaf
<1>2. CASE items # Reference
  <2> DEFINE given == IF j = Null THEN <<>> ELSE j.object
             v == [name \in DOMAIN items |-> ReadLeaf(items[name], Lookup(given, name))]
  <2>1. TableEntry(items)
    BY <1>2 DEF ItemEntry
  <2>2. ReadItem(items, j) = Object(v) /\ Failed \notin RangeOf(v) /\ (j # Null => "object" \in DOMAIN j)
    BY <1>2 DEF ReadItem
  <2>3. ASSUME NEW name \in DOMAIN items PROVE GoLeaf(items[name], v[name])
    <3> DEFINE f == items[name]
               x == Lookup(given, name)
    <3>1. LeafEntry(f)
      BY <2>1 DEF TableEntry
    <3>2. v[name] = ReadLeaf(f, x) /\ v[name] # Failed
      BY <2>2 DEF RangeOf
    <3>3. x = Missing \/ Deep(x)
      <4>1. CASE j = Null \/ name \notin DOMAIN j.object
        BY <4>1 DEF Lookup
      <4>2. CASE j # Null /\ name \in DOMAIN j.object
        <5>1. Inside(j) = j.object /\ x = j.object[name]
          BY <2>2, <4>2 DEF Inside, Lookup
        <5>2. ~JsonLeaf(j)
          BY <2>2, <4>2, LeafShape
        <5>3. JsonRef(x)
          BY <4>2, <5>1, <5>2 DEF JsonItem, RangeOf
        <5> HIDE DEF x
        <5>4. QED
          BY <5>3, Deeper
      <4>3. QED
        BY <4>1, <4>2
    <3> HIDE DEF f, x, v
    <3>4. GoLeaf(f, ReadLeaf(f, x))
      BY <3>1, <3>2, <3>3, LeafRead
    <3>5. QED
      BY <3>2, <3>4 DEF f
  <2>4. DOMAIN v = DOMAIN items /\ v = [name \in DOMAIN items |-> v[name]]
    OBVIOUS
  <2> HIDE DEF v
  <2>5. Object(v).object = v /\ Holds(Object(v), "object")
    BY DEF Object, Holds, Only
  <2>6. QED
    BY <1>2, <2>2, <2>3, <2>4, <2>5 DEF GoItem, FieldsOf
<1>3. QED
  BY <1>1, <1>2

(* What a program writes for an item.                                      *)
MadeObject(j) ==
  /\ Holds(j, "object") /\ FieldsOf(j.object, j.object)
  /\ "relativePath" \notin DOMAIN j.object
  /\ \A name \in DOMAIN j.object : MadeLeaf(j.object[name])

MadeItem(j) == j = Null \/ MadeText(j) \/ MadeObject(j)

LEMMA ItemMadeByGo ==
  ASSUME NEW items, ItemEntry(items), NEW w, GoItem(items, w)
  PROVE  MadeItem(WriteItem(items, w))
<1>1. CASE items = Reference
  <2>1. GoLeaf(Reference, w) /\ WriteItem(items, w) = WriteLeaf(w)
    BY <1>1 DEF GoItem, WriteItem
  <2>2. CASE w = Null
    BY <2>1, <2>2, Shapes DEF WriteLeaf, IsReference, MadeItem
  <2>3. CASE GoReference(w)
    BY <2>1, <2>3, References, MadeReference DEF WriteLeaf, MadeItem
  <2>4. QED
    BY <2>1, <2>2, <2>3, TheReference DEF GoLeaf
<1>2. CASE items # Reference
  <2> DEFINE v == w.object
             given == [name \in Written(items, v) |-> WriteLeaf(v[name])]
  <2>1. TableEntry(items)
    BY <1>2 DEF ItemEntry
  <2>2. WriteItem(items, w) = Object(given)
    BY <1>2 DEF WriteItem
  <2>3. ASSUME NEW name \in DOMAIN given PROVE MadeLeaf(given[name]) /\ name # "relativePath"
    <3>1. name \in DOMAIN items
      BY DEF Written
    <3>2. LeafEntry(items[name]) /\ GoLeaf(items[name], v[name]) /\ name # "relativePath"
      BY <1>2, <2>1, <3>1 DEF TableEntry, GoItem
    <3>3. given[name] = WriteLeaf(v[name])
      OBVIOUS
    <3> HIDE DEF given
    <3>4. QED
      BY <3>2, <3>3, MadeByGo
  <2>4. given = [name \in DOMAIN given |-> given[name]]
    OBVIOUS
  <2> HIDE DEF given
  <2>5. Object(given).object = given /\ Holds(Object(given), "object")
    BY DEF Object, Holds, Only
  <2>6. QED
    BY <2>2, <2>3, <2>4, <2>5 DEF MadeItem, MadeObject, FieldsOf
<1>3. QED
  BY <1>1, <1>2

(* TypeScript writes the fields of an object that are not undefined.       *)
LEMMA ReplacedObject ==
  ASSUME NEW w, Holds(w, "object")
  PROVE  /\ ReplacedItem(w) = Object([n \in {m \in DOMAIN w.object : w.object[m] # Null} |-> ReplacedRef(w.object[n])])
         /\ ReplacedField(w) = Object([n \in {m \in DOMAIN w.object : w.object[m] # Null} |-> ReplacedItem(w.object[n])])
<1>1. DOMAIN w = {"object"}
  BY Held
<1>2. Inside(w) = w.object /\ "ref" \notin DOMAIN w /\ "object" \in DOMAIN w /\ "array" \notin DOMAIN w
  BY <1>1 DEF Inside
<1>3. \A inner : Replacer(w, inner) = Object([n \in {m \in DOMAIN w.object : w.object[m] # Null} |-> inner[n]])
  BY <1>2 DEF Replacer
<1>4. \A n \in DOMAIN w.object : /\ Each(w, ReplacedRef)[n] = ReplacedRef(w.object[n])
                                 /\ Each(w, ReplacedItem)[n] = ReplacedItem(w.object[n])
  BY <1>2 DEF Each
<1>5. QED
  BY <1>3, <1>4 DEF ReplacedItem, ReplacedField

LEMMA ItemMadeByTs ==
  ASSUME NEW items, ItemEntry(items), NEW w, TsItem(items, w)
  PROVE  MadeItem(ReplacedItem(w)) /\ ReplacedItem(w) # Null
<1>1. CASE items = Reference
  <2>1. TsLeaf(Reference, w)
    BY <1>1 DEF TsItem
  <2>2. GoReference(w)
    BY <2>1, TheReference, Shapes DEF TsLeaf, GoReference
  <2>3. ReplacedItem(w) = ReferenceJson(w)
    BY <2>1, <2>2, TheReference, ReplacedLeaf, References
  <2>4. ReferenceJson(w) # Null
    BY DEF ReferenceJson, Object, Null
  <2>5. QED
    BY <2>2, <2>3, <2>4, MadeReference DEF MadeItem
<1>2. CASE items # Reference
  <2> DEFINE v == w.object
             given == [name \in {n \in DOMAIN v : v[n] # Null} |-> ReplacedRef(v[name])]
  <2>1. TableEntry(items)
    BY <1>2 DEF ItemEntry
  <2>2. ReplacedItem(w) = Object(given)
    BY <1>2, ReplacedObject DEF TsItem
  <2>3. ASSUME NEW name \in DOMAIN given PROVE MadeLeaf(given[name]) /\ name # "relativePath"
    <3>1. name \in DOMAIN items /\ v[name] # Null
      BY <1>2 DEF TsItem, FieldsOf
    <3>2. LeafEntry(items[name]) /\ TsLeaf(items[name], v[name]) /\ name # "relativePath"
      BY <1>2, <2>1, <3>1 DEF TableEntry, TsItem
    <3>3. given[name] = ReplacedRef(v[name])
      OBVIOUS
    <3> HIDE DEF given
    <3>4. QED
      BY <3>1, <3>2, <3>3, MadeByTs
  <2>4. given = [name \in DOMAIN given |-> given[name]]
    OBVIOUS
  <2> HIDE DEF given
  <2>5. Object(given).object = given /\ Holds(Object(given), "object") /\ Object(given) # Null
    BY Apart DEF Object, Holds, Only
  <2>6. QED
    BY <2>2, <2>3, <2>4, <2>5 DEF MadeItem, MadeObject, FieldsOf
<1>3. QED
  BY <1>1, <1>2

LEMMA MadeItemIsJson ==
  ASSUME NEW j, MadeItem(j)
  PROVE  JsonItem(j) /\ JsonField(j) /\ "string" \notin DOMAIN j
<1>1. CASE j = Null
  BY <1>1, Shapes DEF JsonItem, JsonField, JsonLeaf
<1>2. CASE MadeText(j)
  BY <1>2, MadeIsJson, Shapes DEF MadeLeaf, MadeText
<1>3. CASE MadeObject(j)
  <2>1. Inside(j) = j.object /\ DOMAIN j = {"object"}
    BY <1>3, Held DEF MadeObject, Inside
  <2>2. Container(j)
    <3>1. Lookup(j.object, "relativePath") = Missing /\ "string" \notin DOMAIN Missing
      BY <1>3, Shapes DEF MadeObject, Lookup
    <3>2. QED
      BY <1>3, <2>1, <3>1 DEF Container, MadeObject
  <2>3. \A v \in RangeOf(Inside(j)) : MadeLeaf(v)
    BY <1>3, <2>1 DEF RangeOf, MadeObject
  <2>4. \A v \in RangeOf(Inside(j)) : JsonRef(v) /\ JsonItem(v)
    BY <2>3, MadeIsJson
  <2>5. QED
    BY <2>1, <2>2, <2>4 DEF JsonItem, JsonField
<1>4. QED
  BY <1>1, <1>2, <1>3 DEF MadeItem

(* What Go reads of an item that it wrote, it writes as before.            *)
LEMMA TableStable ==
  ASSUME NEW items, NEW u, NEW v,
         \A name \in DOMAIN items : /\ Sent(items[name], u[name]) = Sent(items[name], v[name])
                                    /\ WriteLeaf(u[name]) # Missing /\ WriteLeaf(v[name]) # Missing
  PROVE  [n \in Written(items, u) |-> WriteLeaf(u[n])] = [n \in Written(items, v) |-> WriteLeaf(v[n])]
<1>1. \A name \in DOMAIN items :
        /\ name \in Written(items, u) <=> name \in Written(items, v)
        /\ name \in Written(items, u) => WriteLeaf(u[name]) = WriteLeaf(v[name])
  BY DEF Sent, Written
<1>2. Written(items, u) \subseteq DOMAIN items /\ Written(items, v) \subseteq DOMAIN items
  BY DEF Written
<1>3. Written(items, u) = Written(items, v)
  BY <1>1, <1>2
<1>4. \A n \in Written(items, u) : WriteLeaf(u[n]) = WriteLeaf(v[n])
  BY <1>1, <1>2
<1> HIDE DEF Written
<1>5. QED
  BY <1>3, <1>4

LEMMA ItemStable ==
  ASSUME NEW items, ItemEntry(items), NEW w, GoItem(items, w), ReadItem(items, WriteItem(items, w)) # Failed
  PROVE  WriteItem(items, ReadItem(items, WriteItem(items, w))) = WriteItem(items, w)
<1>1. CASE items = Reference
  <2>1. GoLeaf(Reference, w) /\ WriteItem(items, w) = WriteLeaf(w)
    BY <1>1 DEF GoItem, WriteItem
  <2>2. WriteLeaf(w) # Missing
    BY <2>1, TheReference, MadeByGo
  <2>3. ReadItem(items, WriteLeaf(w)) = ReadLeaf(Reference, Sent(Reference, w))
    BY <1>1, <2>2, TheReference DEF ReadItem, ReadLeaf
  <2>4. Sent(Reference, ReadLeaf(Reference, Sent(Reference, w))) = Sent(Reference, w)
    BY <2>1, <2>3, TheReference, LeafStable
  <2>5. QED
    BY <1>1, <2>1, <2>3, <2>4, TheReference DEF WriteItem
<1>2. CASE items # Reference
  <2> DEFINE v == w.object
             given == [name \in Written(items, v) |-> WriteLeaf(v[name])]
             u == [name \in DOMAIN items |-> ReadLeaf(items[name], Lookup(given, name))]
  <2>1. TableEntry(items)
    BY <1>2 DEF ItemEntry
  <2>2. WriteItem(items, w) = Object(given) /\ Object(given).object = given /\ Object(given) # Null
    BY <1>2, Apart, Shapes DEF WriteItem
  <2>3. ReadItem(items, Object(given)) = Object(u) /\ Failed \notin RangeOf(u)
    BY <1>2, <2>2 DEF ReadItem
  <2>4. ASSUME NEW name \in DOMAIN items
        PROVE  /\ Sent(items[name], u[name]) = Sent(items[name], v[name])
               /\ WriteLeaf(u[name]) # Missing /\ WriteLeaf(v[name]) # Missing
    <3> DEFINE f == items[name]
               x == v[name]
               y == u[name]
    <3>1. LeafEntry(f) /\ GoLeaf(f, x)
      BY <1>2, <2>1 DEF TableEntry, GoItem
    <3>2. Lookup(given, name) = Sent(f, x)
      BY WrittenLookup
    <3>3. y = ReadLeaf(f, Sent(f, x)) /\ y # Failed
      BY <2>3, <3>2 DEF RangeOf
    <3> HIDE DEF f, x, y
    <3>4. Sent(f, y) = Sent(f, x)
      BY <3>1, <3>3, LeafStable
    <3>5. Sent(f, x) = Missing \/ Deep(Sent(f, x))
      BY <3>1, MadeByGo, MadeIsJson DEF Sent
    <3>6. GoLeaf(f, y)
      BY <3>1, <3>3, <3>5, LeafRead
    <3>7. WriteLeaf(x) # Missing /\ WriteLeaf(y) # Missing
      BY <3>1, <3>6, MadeByGo
    <3>8. QED
      BY <3>4, <3>7 DEF f, x, y
  <2> HIDE DEF u
  <2>5. [n \in Written(items, u) |-> WriteLeaf(u[n])] = given
    BY <2>4, TableStable
  <2>6. WriteItem(items, Object(u)) = Object([n \in Written(items, u) |-> WriteLeaf(u[n])])
    BY <1>2, Shapes DEF WriteItem
  <2>7. QED
    BY <2>2, <2>3, <2>5, <2>6
<1>3. QED
  BY <1>1, <1>2

-----------------------------------------------------------------------------
(* Fields.                                                                 *)
SentField(f, v) == IF f.omitempty /\ IsEmpty(f, v) THEN Missing ELSE WriteField(f, v)

TsSentField(v) == IF v = Null THEN Missing ELSE ReplacedField(v)

SoundField(f, v) ==
  IF f.holds \notin {"array", "object"} THEN SoundLeaf(f, v)
  ELSE v = Null \/ \A x \in DOMAIN v[f.holds] : SoundItem(f.items, v[f.holds][x])

FitsField(f, v) ==
  IF f.holds \notin {"array", "object"} THEN FitsLeaf(v)
  ELSE v = Null \/ \A x \in DOMAIN v[f.holds] : FitsItem(f.items, v[f.holds][x])

(* A collection with content m.                                            *)
Whole(f, m) == Only(f.holds, m)

LEMMA Nothing ==
  /\ DOMAIN <<>> = {} /\ \A m : m = [x \in DOMAIN m |-> m[x]] /\ DOMAIN m = {} => m = <<>>
OBVIOUS

LEMMA Wholes ==
  ASSUME NEW f, CollectionEntry(f), NEW m
  PROVE  /\ f.holds \in {"array", "object"}
         /\ DOMAIN Whole(f, m) = {f.holds} /\ Whole(f, m)[f.holds] = m /\ Holds(Whole(f, m), f.holds)
         /\ Whole(f, m) \notin {Null, Missing, Failed} /\ Inside(Whole(f, m)) = m
         /\ f.holds = "array" => Whole(f, m) = Array(m) /\ Whole(f, m).array = m
         /\ f.holds = "object" => Whole(f, m) = Object(m) /\ Whole(f, m).object = m
<1>1. f.holds \in {"array", "object"} /\ f.zero = Null
  BY DEF CollectionEntry
<1>2. /\ DOMAIN Whole(f, m) = {f.holds} /\ Whole(f, m)[f.holds] = m /\ Holds(Whole(f, m), f.holds)
  BY DEF Whole, Only, Holds
<1>3. /\ f.holds = "array" => Whole(f, m) = Array(m) /\ Whole(f, m).array = m
      /\ f.holds = "object" => Whole(f, m) = Object(m) /\ Whole(f, m).object = m
  BY DEF Whole, Only, Array, Object
<1>4. Whole(f, m) \notin {Null, Missing, Failed}
  BY <1>1, <1>2, Apart
<1>5. Inside(Whole(f, m)) = m
  BY <1>1, <1>2, <1>3 DEF Inside
<1>6. QED
  BY <1>1, <1>2, <1>3, <1>4, <1>5

LEMMA WholeEmpty ==
  ASSUME NEW f, CollectionEntry(f), NEW m
  PROVE  IsEmpty(f, Whole(f, m)) <=> (f.holds = "object" /\ DOMAIN m = {})
<1>1. f.zero = Null
  BY DEF CollectionEntry
<1>2. /\ Whole(f, m) # Null /\ DOMAIN Whole(f, m) = {f.holds}
      /\ f.holds = "object" => Whole(f, m).object = m
  BY Wholes
<1> DEFINE w == Whole(f, m)
<1> HIDE DEF w
<1>3. w # Null /\ DOMAIN w = {f.holds} /\ (f.holds = "object" => w.object = m)
  BY <1>2 DEF w
<1>4. IsEmpty(f, w) <=> (f.holds = "object" /\ DOMAIN m = {})
  BY <1>1, <1>3 DEF IsEmpty
<1>5. QED
  BY <1>4 DEF w

LEMMA WholeOf ==
  ASSUME NEW f, NEW v, Holds(v, f.holds)
  PROVE  v = Whole(f, v[f.holds])
BY DEF Whole, Holds

LEMMA WholeWritten ==
  ASSUME NEW f, CollectionEntry(f), NEW m
  PROVE  WriteField(f, Whole(f, m)) = Whole(f, [x \in DOMAIN m |-> WriteItem(f.items, m[x])])
<1> DEFINE g == [x \in DOMAIN m |-> WriteItem(f.items, m[x])]
<1>1. CASE f.holds = "array"
  <2>1. Whole(f, m) # Null /\ Whole(f, m).array = m /\ Whole(f, g) = Array(g)
    BY <1>1, Wholes
  <2>2. QED
    BY <1>1, <2>1 DEF WriteField
<1>2. CASE f.holds = "object"
  <2>1. Whole(f, m) # Null /\ Whole(f, m).object = m /\ Whole(f, g) = Object(g)
    BY <1>2, Wholes
  <2>2. QED
    BY <1>2, <2>1 DEF WriteField
<1>3. QED
  BY <1>1, <1>2, Wholes

LEMMA WholeRead ==
  ASSUME NEW f, CollectionEntry(f), NEW g, NEW v, v = [x \in DOMAIN g |-> ReadItem(f.items, g[x])]
  PROVE  ReadField(f, Whole(f, g)) = IF Failed \in RangeOf(v) THEN Failed ELSE Whole(f, v)
<1>1. f.holds \in DOMAIN Whole(f, g) /\ Whole(f, g) \notin {Missing, Null} /\ Whole(f, g)[f.holds] = g
      /\ f.holds \in {"array", "object"}
  BY Wholes
<1>2. ReadField(f, Whole(f, g)) = IF Failed \in RangeOf(v) THEN Failed
                                  ELSE IF f.holds = "array" THEN Array(v) ELSE Object(v)
  BY <1>1 DEF ReadField
<1>3. QED
  BY <1>1, <1>2, Wholes

LEMMA WholeFilled ==
  ASSUME NEW f, CollectionEntry(f), NEW m
  PROVE  /\ FilledField(f, Whole(f, m)) =
              IF f.omitempty /\ DOMAIN m = {} THEN Null
              ELSE Whole(f, [x \in DOMAIN m |-> FilledItem(f.items, m[x])])
         /\ FilledField(f, Null) = f.absent /\ f.absent \in {Null, Whole(f, <<>>)}
         /\ f.omitempty => f.absent = Null /\ f.holds = "object"
<1> DEFINE g == [x \in DOMAIN m |-> FilledItem(f.items, m[x])]
           w == Whole(f, m)
<1>1. /\ w # Null /\ DOMAIN w = {f.holds} /\ f.holds \in {"array", "object"}
      /\ IsEmpty(f, w) <=> f.holds = "object" /\ DOMAIN m = {}
      /\ f.holds = "array" => w.array = m /\ Whole(f, g) = Array(g)
      /\ f.holds = "object" => w.object = m /\ Whole(f, g) = Object(g)
  BY Wholes, WholeEmpty
<1>2. f.omitempty => f.absent = Null /\ f.holds = "object"
  BY DEF CollectionEntry
<1>3. f.absent # Failed /\ f.absent \in {Null, Whole(f, <<>>)}
  <2>1. /\ f.holds = "array" => Whole(f, <<>>) = Array(<<>>)
        /\ f.holds = "object" => Whole(f, <<>>) = Object(<<>>)
    BY Wholes
  <2>2. QED
    BY <2>1, Apart DEF CollectionEntry
<1>4. Fill(f, Null) = f.absent
  BY <1>3 DEF Fill
<1>5. FilledField(f, Null) = f.absent
  <2>1. CASE f.absent = Null
    BY <1>4, <2>1, Shapes DEF FilledField
  <2>2. CASE f.absent = Whole(f, <<>>)
    <3>1. DOMAIN f.absent = {f.holds}
          /\ (f.holds = "array" => f.absent.array = <<>> /\ f.absent = Array(<<>>))
          /\ (f.holds = "object" => f.absent.object = <<>> /\ f.absent = Object(<<>>))
      BY <2>2, Wholes
    <3>2. [x \in DOMAIN <<>> |-> FilledItem(f.items, <<>>[x])] = <<>>
      OBVIOUS
    <3>3. CASE f.holds = "array"
      BY <1>4, <3>1, <3>2, <3>3 DEF FilledField
    <3>4. CASE f.holds = "object"
      BY <1>4, <3>1, <3>2, <3>4 DEF FilledField
    <3>5. QED
      BY <1>1, <3>3, <3>4
  <2>3. QED
    BY <1>3, <2>1, <2>2
<1>6. CASE f.omitempty /\ DOMAIN m = {}
  <2>1. Fill(f, w) = Null
    BY <1>1, <1>2, <1>3, <1>6 DEF Fill
  <2> HIDE DEF w
  <2>2. FilledField(f, w) = Null
    BY <2>1, Shapes DEF FilledField
  <2>3. QED
    BY <1>2, <1>3, <1>5, <1>6, <2>2 DEF w
<1>7. CASE ~(f.omitempty /\ DOMAIN m = {})
  <2>1. Fill(f, w) = w
    BY <1>1, <1>7, <1>2 DEF Fill
  <2>2. FilledField(f, w) = Whole(f, g)
    <3>1. CASE f.holds = "array"
      <4> HIDE DEF w
      <4>1. QED
        BY <1>1, <2>1, <3>1 DEF FilledField
    <3>2. CASE f.holds = "object"
      <4> HIDE DEF w
      <4>1. QED
        BY <1>1, <2>1, <3>2 DEF FilledField
    <3>3. QED
      BY <1>1, <3>1, <3>2
  <2>3. QED
    BY <1>2, <1>3, <1>5, <1>7, <2>2
<1>8. QED
  BY <1>6, <1>7

(* A field that is no collection is a leaf.                                *)
LEMMA LeafField ==
  ASSUME NEW f, LeafEntry(f)
  PROVE  /\ f.holds \notin {"array", "object"}
         /\ \A j : ReadField(f, j) = ReadLeaf(f, j)
         /\ \A v : /\ GoField(f, v) <=> GoLeaf(f, v)
                   /\ TsField(f, v) <=> TsLeaf(f, v)
                   /\ SoundField(f, v) <=> SoundLeaf(f, v)
                   /\ FitsField(f, v) <=> FitsLeaf(v)
<1>1. f.holds \notin {"array", "object"}
  BY DEF LeafEntry
<1>2. QED
  BY <1>1 DEF ReadField, GoField, TsField, SoundField, FitsField

LEMMA LeafFieldWritten ==
  ASSUME NEW f, LeafEntry(f), NEW v
  PROVE  WriteField(f, v) = WriteLeaf(v) /\ SentField(f, v) = Sent(f, v)
<1>1. f.holds \notin {"array", "object"}
  BY LeafField
<1>2. WriteField(f, v) = WriteLeaf(v)
  BY <1>1, Shapes DEF WriteField, WriteLeaf, IsReference
<1>3. QED
  BY <1>2 DEF SentField, Sent

LEMMA LeafFieldFilled ==
  ASSUME NEW f, LeafEntry(f), NEW v, GoLeaf(f, Fill(f, v))
  PROVE  FilledField(f, v) = Fill(f, v)
<1> DEFINE full == Fill(f, v)
<1> HIDE DEF full
<1>1. GoLeaf(f, full)
  BY DEF full
<1>2. "object" \notin DOMAIN full /\ "array" \notin DOMAIN full
  BY <1>1, Leaves
<1>3. FilledField(f, v) = full
  BY <1>2 DEF FilledField, full
<1>4. QED
  BY <1>3 DEF full

LEMMA FieldFill ==
  ASSUME NEW f, Entry(f), NEW v, SoundField(f, v), GoField(f, v) \/ (TsField(f, v) /\ FitsField(f, v))
  PROVE  /\ GoField(f, FilledField(f, v)) /\ SoundField(f, FilledField(f, v))
         /\ FilledField(f, FilledField(f, v)) = FilledField(f, v)
         /\ FilledField(f, v) # Failed
<1>1. CASE LeafEntry(f)
  <2> DEFINE u == Fill(f, v)
  <2>1. SoundLeaf(f, v) /\ (GoLeaf(f, v) \/ (TsLeaf(f, v) /\ FitsLeaf(v)))
    BY <1>1, LeafField
  <2>2. GoLeaf(f, u) /\ SoundLeaf(f, u) /\ Fill(f, u) = u
    BY <1>1, <2>1, LeafFill DEF FitsLeaf
  <2>3. FilledField(f, v) = u
    BY <1>1, <2>2, LeafFieldFilled
  <2> HIDE DEF u
  <2>4. FilledField(f, u) = u
    BY <1>1, <2>2, LeafFieldFilled
  <2>5. u # Failed
    BY <1>1, <2>2, Leaves
  <2>6. QED
    BY <1>1, <2>2, <2>3, <2>4, <2>5, LeafField
<1>2. CASE CollectionEntry(f)
  <2>1. f.holds \in {"array", "object"} /\ ItemEntry(f.items)
    BY <1>2 DEF CollectionEntry, ItemEntry
  <2>2. CASE v = Null \/ (v # Null /\ f.omitempty /\ DOMAIN v[f.holds] = {})
    <3> DEFINE u == f.absent
    <3>1. FilledField(f, v) = u
      <4>1. CASE v = Null
        BY <1>2, <4>1, WholeFilled
      <4>2. CASE v # Null /\ f.omitempty /\ DOMAIN v[f.holds] = {}
        <5> DEFINE m == v[f.holds]
        <5>1. v = Whole(f, m) /\ DOMAIN m = {}
          BY <2>1, <4>2, WholeOf DEF GoField, TsField
        <5> HIDE DEF m
        <5>2. FilledField(f, Whole(f, m)) = Null /\ f.absent = Null
          BY <1>2, <4>2, <5>1, WholeFilled
        <5>3. QED
          BY <5>1, <5>2
      <4>3. QED
        BY <2>2, <4>1, <4>2
    <3>2. u \in {Null, Whole(f, <<>>)} /\ FilledField(f, Null) = u /\ (f.omitempty => u = Null)
      BY <1>2, WholeFilled
    <3>3. CASE u = Null
      BY <2>1, <3>1, <3>2, <3>3, Apart DEF GoField, SoundField
    <3>4. CASE u = Whole(f, <<>>) /\ ~f.omitempty
      <4>1. /\ Holds(u, f.holds) /\ u[f.holds] = <<>> /\ u # Failed
        <5> DEFINE e == <<>>
        <5> HIDE DEF u, e
        <5>1. Holds(Whole(f, e), f.holds) /\ Whole(f, e)[f.holds] = e /\ Whole(f, e) # Failed
          BY <1>2, Wholes
        <5>2. u = Whole(f, e)
          BY <3>4 DEF e
        <5>3. QED
          BY <5>1, <5>2 DEF e
      <4>2. FilledField(f, Whole(f, <<>>)) = Whole(f, [x \in DOMAIN <<>> |-> FilledItem(f.items, <<>>[x])])
        BY <1>2, <3>4, WholeFilled
      <4>3. [x \in DOMAIN <<>> |-> FilledItem(f.items, <<>>[x])] = <<>>
        OBVIOUS
      <4>4. DOMAIN <<>> = {} /\ <<>> = [x \in DOMAIN <<>> |-> <<>>[x]]
        OBVIOUS
      <4>5. GoField(f, u) /\ SoundField(f, u)
        BY <2>1, <4>1, <4>4 DEF GoField, SoundField, FieldsOf
      <4> HIDE DEF u
      <4>6. QED
        BY <3>1, <3>4, <4>1, <4>2, <4>3, <4>5
    <3>5. QED
      BY <3>2, <3>3, <3>4, <1>2, Wholes
  <2>3. CASE v # Null /\ ~(f.omitempty /\ DOMAIN v[f.holds] = {})
    <3> DEFINE m == v[f.holds]
               g == [x \in DOMAIN m |-> FilledItem(f.items, m[x])]
    <3>1. v = Whole(f, m)
      BY <2>1, <2>3, WholeOf DEF GoField, TsField
    <3>2. ASSUME NEW x \in DOMAIN m
          PROVE  /\ GoItem(f.items, g[x]) /\ SoundItem(f.items, g[x])
                 /\ FilledItem(f.items, g[x]) = g[x]
      <4> DEFINE w == m[x]
                 items == f.items
      <4>1. SoundItem(items, w) /\ (GoItem(items, w) \/ (TsItem(items, w) /\ FitsItem(items, w)))
        BY <2>1, <2>3 DEF GoField, TsField, SoundField, FitsField
      <4>2. ItemEntry(items) /\ g[x] = FilledItem(items, w)
        BY <2>1
      <4> HIDE DEF w, items, g
      <4>3. /\ GoItem(items, FilledItem(items, w)) /\ SoundItem(items, FilledItem(items, w))
            /\ FilledItem(items, FilledItem(items, w)) = FilledItem(items, w)
        BY <4>1, <4>2, ItemFill
      <4>4. QED
        BY <4>2, <4>3 DEF items
    <3>3. DOMAIN g = DOMAIN m /\ g = [x \in DOMAIN g |-> g[x]]
      OBVIOUS
    <3>4. [x \in DOMAIN g |-> FilledItem(f.items, g[x])] = g
      BY <3>2
    <3> HIDE DEF g, m
    <3>5. FilledField(f, v) = Whole(f, g)
      BY <1>2, <2>3, <3>1, WholeFilled DEF m, g
    <3>6. FilledField(f, Whole(f, g)) = Whole(f, g)
      BY <1>2, <2>3, <3>3, <3>4, WholeFilled DEF m
    <3>7. Holds(Whole(f, g), f.holds) /\ Whole(f, g)[f.holds] = g /\ Whole(f, g) # Failed
      BY <1>2, Wholes
    <3>8. GoField(f, Whole(f, g)) /\ SoundField(f, Whole(f, g))
      BY <2>1, <3>2, <3>3, <3>7 DEF GoField, SoundField, FieldsOf
    <3>9. QED
      BY <3>5, <3>6, <3>7, <3>8
  <2>4. QED
    BY <2>2, <2>3
<1>3. QED
  BY <1>1, <1>2 DEF Entry

(* Go reads the fields that it writes.                                     *)
LEMMA FieldBack ==
  ASSUME NEW f, Entry(f), NEW v, GoField(f, v), SoundField(f, v)
  PROVE  ReadField(f, SentField(f, v)) = FilledField(f, v)
<1>1. CASE LeafEntry(f)
  <2>1. GoLeaf(f, v) /\ SoundLeaf(f, v)
    BY <1>1, LeafField
  <2>2. ReadField(f, SentField(f, v)) = ReadLeaf(f, Sent(f, v))
    BY <1>1, LeafField, LeafFieldWritten
  <2>3. ReadLeaf(f, Sent(f, v)) = Fill(f, v)
    BY <1>1, <2>1, LeafBack
  <2>4. GoLeaf(f, Fill(f, v))
    BY <1>1, <2>1, LeafFill
  <2>5. FilledField(f, v) = Fill(f, v)
    BY <1>1, <2>4, LeafFieldFilled
  <2>6. QED
    BY <2>2, <2>3, <2>5
<1>2. CASE CollectionEntry(f)
  <2>1. f.holds \in {"array", "object"} /\ ItemEntry(f.items) /\ f.zero = Null
    BY <1>2 DEF CollectionEntry, ItemEntry
  <2>2. ReadField(f, Null) = f.absent /\ ReadField(f, Missing) = f.absent
    BY <2>1 DEF ReadField
  <2>3. CASE v = Null
    <3>1. SentField(f, v) \in {Missing, Null}
      BY <2>3 DEF SentField, WriteField
    <3>2. FilledField(f, v) = f.absent
      BY <1>2, <2>3, WholeFilled
    <3>3. QED
      BY <2>2, <3>1, <3>2
  <2>4. CASE v # Null
    <3> DEFINE m == v[f.holds]
               g == [x \in DOMAIN m |-> WriteItem(f.items, m[x])]
               u == [x \in DOMAIN g |-> ReadItem(f.items, g[x])]
    <3>1. v = Whole(f, m)
      BY <2>1, <2>4, WholeOf DEF GoField
    <3>2. ASSUME NEW x \in DOMAIN m
          PROVE  ReadItem(f.items, g[x]) = FilledItem(f.items, m[x]) /\ FilledItem(f.items, m[x]) # Failed
      <4> DEFINE w == m[x]
                 items == f.items
      <4>1. ItemEntry(items) /\ GoItem(items, w) /\ SoundItem(items, w)
        BY <2>1, <2>4 DEF GoField, SoundField
      <4>2. g[x] = WriteItem(items, w)
        OBVIOUS
      <4> HIDE DEF w, items, g
      <4>3. ReadItem(items, WriteItem(items, w)) = FilledItem(items, w) /\ FilledItem(items, w) # Failed
        BY <4>1, ItemBack, ItemFill
      <4>4. QED
        BY <4>2, <4>3 DEF items, w
    <3>3. u = [x \in DOMAIN m |-> FilledItem(f.items, m[x])] /\ Failed \notin RangeOf(u)
      BY <3>2 DEF RangeOf
    <3> HIDE DEF m
    <3>4. IsEmpty(f, v) <=> (f.holds = "object" /\ DOMAIN m = {})
      BY <1>2, <3>1, WholeEmpty
    <3>5. f.omitempty => f.absent = Null /\ f.holds = "object"
      BY <1>2 DEF CollectionEntry
    <3>6. CASE f.omitempty /\ DOMAIN m = {}
      <4>1. SentField(f, v) = Missing
        BY <3>4, <3>5, <3>6 DEF SentField
      <4>2. FilledField(f, v) = Null
        BY <1>2, <3>1, <3>6, WholeFilled
      <4>3. QED
        BY <2>2, <3>5, <3>6, <4>1, <4>2
    <3>7. CASE ~(f.omitempty /\ DOMAIN m = {})
      <4>1. SentField(f, v) = Whole(f, g)
        <5>1. WriteField(f, v) = Whole(f, g)
          BY <1>2, <3>1, WholeWritten
        <5>2. QED
          BY <3>4, <3>5, <3>7, <5>1 DEF SentField
      <4> HIDE DEF g
      <4>2. ReadField(f, Whole(f, g)) = Whole(f, u)
        BY <1>2, <3>3, WholeRead
      <4>3. FilledField(f, v) = Whole(f, u)
        BY <1>2, <3>1, <3>3, <3>7, WholeFilled
      <4>4. QED
        BY <4>1, <4>2, <4>3
    <3>8. QED
      BY <3>6, <3>7
  <2>5. QED
    BY <2>3, <2>4
<1>3. QED
  BY <1>1, <1>2 DEF Entry

(* TypeScript writes each item of a collection.                            *)
LEMMA ReplacedWhole ==
  ASSUME NEW f, CollectionEntry(f), NEW m, m = [x \in DOMAIN m |-> m[x]], \A x \in DOMAIN m : m[x] # Null
  PROVE  ReplacedField(Whole(f, m)) = Whole(f, [x \in DOMAIN m |-> ReplacedItem(m[x])])
<1> DEFINE w == Whole(f, m)
           g == [x \in DOMAIN m |-> ReplacedItem(m[x])]
<1>1. /\ f.holds \in {"array", "object"} /\ DOMAIN w = {f.holds} /\ Inside(w) = m /\ Holds(w, f.holds)
      /\ f.holds = "array" => w.array = m
      /\ f.holds = "object" => w.object = m
  BY Wholes
<1>2. CASE f.holds = "object"
  <2>1. Holds(w, "object") /\ w.object = m
    BY <1>1, <1>2
  <2> HIDE DEF w
  <2>2. ReplacedField(w) = Object([n \in {x \in DOMAIN w.object : w.object[x] # Null} |-> ReplacedItem(w.object[n])])
    BY <2>1, ReplacedObject
  <2>3. {x \in DOMAIN m : m[x] # Null} = DOMAIN m
    OBVIOUS
  <2>4. ReplacedField(w) = Object(g)
    BY <2>1, <2>2, <2>3
  <2> HIDE DEF g
  <2>5. Whole(f, g) = Object(g)
    BY <1>2, Wholes
  <2>6. QED
    BY <2>4, <2>5 DEF w, g
<1>3. CASE f.holds = "array"
  <2>1. Each(w, ReplacedItem) = g
    BY <1>1 DEF Each
  <2> HIDE DEF w
  <2>2. ReplacedField(w) = Array(g)
    BY <1>1, <1>3, <2>1 DEF ReplacedField, Replacer
  <2> HIDE DEF g
  <2>3. Whole(f, g) = Array(g)
    BY <1>3, Wholes
  <2>4. QED
    BY <2>2, <2>3 DEF w, g
<1>4. QED
  BY <1>1, <1>2, <1>3

(* Go reads the fields that TypeScript writes, as full as its own.         *)
LEMMA TsFieldBack ==
  ASSUME NEW f, Entry(f), NEW v, TsField(f, v), SoundField(f, v), FitsField(f, v),
         NEW u, u = ReadField(f, TsSentField(v))
  PROVE  GoField(f, u) /\ SoundField(f, u) /\ FilledField(f, u) = FilledField(f, v) /\ u # Failed
<1>1. /\ GoField(f, FilledField(f, v)) /\ SoundField(f, FilledField(f, v)) /\ FilledField(f, v) # Failed
      /\ FilledField(f, FilledField(f, v)) = FilledField(f, v)
  BY FieldFill
<1>2. CASE LeafEntry(f)
  <2>1. TsLeaf(f, v) /\ SoundLeaf(f, v) /\ FitsLeaf(v)
    BY <1>2, LeafField
  <2>2. TsSentField(v) = TsSent(v)
    BY <1>2, <2>1, ReplacedLeaf DEF TsSentField, TsSent
  <2>3. ReadLeaf(f, TsSent(v)) = Fill(f, v)
    BY <1>2, <2>1, TsLeafBack DEF FitsLeaf
  <2>4. GoLeaf(f, Fill(f, v))
    BY <1>2, <2>1, LeafFill DEF FitsLeaf
  <2>5. FilledField(f, v) = Fill(f, v)
    BY <1>2, <2>4, LeafFieldFilled
  <2>6. u = FilledField(f, v)
    BY <1>2, <2>2, <2>3, <2>5, LeafField
  <2>7. QED
    BY <1>1, <2>6
<1>3. CASE CollectionEntry(f)
  <2>1. f.holds \in {"array", "object"} /\ ItemEntry(f.items)
    BY <1>3 DEF CollectionEntry, ItemEntry
  <2>2. CASE v = Null
    <3>1. u = f.absent
      BY <2>1, <2>2 DEF TsSentField, ReadField
    <3>2. FilledField(f, v) = f.absent
      BY <1>3, <2>2, WholeFilled
    <3>3. QED
      BY <1>1, <3>1, <3>2
  <2>3. CASE v # Null
    <3> DEFINE m == v[f.holds]
               g == [x \in DOMAIN m |-> ReplacedItem(m[x])]
               k == [x \in DOMAIN g |-> ReadItem(f.items, g[x])]
    <3>1. v = Whole(f, m) /\ m = [x \in DOMAIN m |-> m[x]]
      BY <2>1, <2>3, WholeOf DEF TsField, FieldsOf
    <3>2. ASSUME NEW x \in DOMAIN m
          PROVE  /\ ReadItem(f.items, g[x]) = FilledItem(f.items, m[x]) /\ FilledItem(f.items, m[x]) # Failed
                 /\ m[x] # Null
      <4> DEFINE w == m[x]
                 items == f.items
      <4>1. ItemEntry(items) /\ TsItem(items, w) /\ SoundItem(items, w) /\ FitsItem(items, w)
        BY <2>1, <2>3 DEF TsField, SoundField, FitsField
      <4>2. g[x] = ReplacedItem(w)
        OBVIOUS
      <4> HIDE DEF w, items, g
      <4>3. ReadItem(items, ReplacedItem(w)) = FilledItem(items, w) /\ FilledItem(items, w) # Failed
        BY <4>1, TsItemBack, ItemFill
      <4>4. w # Null
        BY <4>1, TheReference, Shapes DEF TsItem, Holds, SoundItem, SoundLeaf
      <4>5. QED
        BY <4>2, <4>3, <4>4 DEF items, w
    <3>3. k = [x \in DOMAIN m |-> FilledItem(f.items, m[x])] /\ Failed \notin RangeOf(k)
      BY <3>2 DEF RangeOf
    <3>4. \A x \in DOMAIN m : m[x] # Null
      BY <3>2
    <3> HIDE DEF m
    <3>5. TsSentField(v) = Whole(f, g)
      BY <1>3, <2>3, <3>1, <3>4, ReplacedWhole DEF TsSentField
    <3> HIDE DEF g
    <3>6. u = Whole(f, k)
      BY <1>3, <3>3, <3>5, WholeRead
    <3>7. CASE ~(f.omitempty /\ DOMAIN m = {})
      <4>1. FilledField(f, v) = Whole(f, k)
        BY <1>3, <3>1, <3>3, <3>7, WholeFilled
      <4>2. QED
        BY <1>1, <3>6, <4>1
    <3>8. CASE f.omitempty /\ DOMAIN m = {}
      <4>1. DOMAIN k = {} /\ k = [x \in DOMAIN k |-> k[x]]
        BY <3>3, <3>8
      <4> HIDE DEF k
      <4>2. FilledField(f, Whole(f, m)) = Null
        BY <1>3, <3>8, WholeFilled
      <4>5. FilledField(f, Whole(f, k)) = Null
        BY <1>3, <3>8, <4>1, WholeFilled
      <4>6. FilledField(f, v) = Null /\ FilledField(f, u) = Null
        BY <3>1, <3>6, <4>2, <4>5
      <4>7. Holds(Whole(f, k), f.holds) /\ Whole(f, k)[f.holds] = k /\ Whole(f, k) # Failed
        BY <1>3, Wholes
      <4>3. Holds(u, f.holds) /\ u[f.holds] = k /\ u # Failed
        BY <3>6, <4>7
      <4>4. QED
        BY <2>1, <4>1, <4>6, <4>3 DEF GoField, SoundField, FieldsOf
    <3>9. QED
      BY <3>7, <3>8
  <2>4. QED
    BY <2>2, <2>3
<1>4. QED
  BY <1>2, <1>3 DEF Entry

LEMMA WholeIsGo ==
  ASSUME NEW f, CollectionEntry(f), NEW m, m = [x \in DOMAIN m |-> m[x]],
         \A x \in DOMAIN m : GoItem(f.items, m[x])
  PROVE  GoField(f, Whole(f, m))
<1>1. /\ f.holds \in {"array", "object"} /\ Holds(Whole(f, m), f.holds) /\ Whole(f, m)[f.holds] = m
  BY Wholes
<1>2. QED
  BY <1>1 DEF GoField, FieldsOf

(* What Go reads fits the struct.                                          *)
LEMMA FieldRead ==
  ASSUME NEW f, Entry(f), NEW j, j = Missing \/ JsonField(j), ReadField(f, j) # Failed
  PROVE  GoField(f, ReadField(f, j))
<1>1. CASE LeafEntry(f)
  <2>1. ReadField(f, j) = ReadLeaf(f, j)
    BY <1>1, LeafField
  <2>2. GoLeaf(f, ReadLeaf(f, j))
    BY <1>1, <2>1, Deeper, LeafRead
  <2>3. QED
    BY <1>1, <2>1, <2>2, LeafField
<1>2. CASE CollectionEntry(f)
  <2>1. f.holds \in {"array", "object"} /\ ItemEntry(f.items)
    BY <1>2 DEF CollectionEntry, ItemEntry
  <2>2. CASE j \in {Missing, Null}
    <3> DEFINE e == <<>>
    <3>1. ReadField(f, j) = f.absent
      BY <2>1, <2>2 DEF ReadField
    <3>2. f.absent \in {Null, Whole(f, e)}
      BY <1>2, WholeFilled
    <3>3. GoField(f, Null)
      BY <2>1 DEF GoField
    <3>4. DOMAIN e = {} /\ e = [x \in DOMAIN e |-> e[x]]
      OBVIOUS
    <3> HIDE DEF e
    <3>5. GoField(f, Whole(f, e))
      BY <1>2, <3>4, WholeIsGo
    <3>6. QED
      BY <3>1, <3>2, <3>3, <3>5
  <2>3. CASE j \notin {Missing, Null}
    <3> DEFINE given == j[f.holds]
               v == [x \in DOMAIN given |-> ReadItem(f.items, given[x])]
    <3>1. f.holds \in DOMAIN j /\ Failed \notin RangeOf(v)
      BY <2>1, <2>3 DEF ReadField
    <3>2. ~JsonLeaf(j)
      BY <2>1, <3>1, LeafShape
    <3>3. Inside(j) = given /\ \A w \in RangeOf(Inside(j)) : JsonItem(w)
      BY <2>1, <2>3, <3>1, <3>2 DEF JsonField, Container, Holds, Inside
    <3>4. ASSUME NEW x \in DOMAIN given PROVE GoItem(f.items, v[x])
      <4> DEFINE w == given[x]
                 items == f.items
      <4>1. JsonItem(w) /\ v[x] = ReadItem(items, w) /\ v[x] # Failed
        BY <3>1, <3>3 DEF RangeOf
      <4>2. ItemEntry(items)
        BY <2>1
      <4> HIDE DEF w, items, v
      <4>3. GoItem(items, ReadItem(items, w))
        BY <4>1, <4>2, ItemRead
      <4>4. QED
        BY <4>1, <4>3 DEF items
    <3>5. ReadField(f, j) = IF f.holds = "array" THEN Array(v) ELSE Object(v)
      BY <2>1, <2>3, <3>1 DEF ReadField
    <3>6. v = [x \in DOMAIN v |-> v[x]] /\ DOMAIN v = DOMAIN given
      OBVIOUS
    <3> HIDE DEF v, given
    <3>7. GoField(f, Whole(f, v))
      BY <1>2, <3>4, <3>6, WholeIsGo
    <3>8. ReadField(f, j) = Whole(f, v)
      <4>1. /\ f.holds = "array" => Whole(f, v) = Array(v)
            /\ f.holds = "object" => Whole(f, v) = Object(v)
        BY <1>2, Wholes
      <4>2. QED
        BY <2>1, <3>5, <4>1
    <3>9. QED
      BY <3>7, <3>8
  <2>4. QED
    BY <2>2, <2>3
<1>3. QED
  BY <1>1, <1>2 DEF Entry

(* What a program writes for a field.                                      *)
MadeWhole(j) ==
  /\ Holds(j, "object") \/ Holds(j, "array")
  /\ FieldsOf(Inside(j), Inside(j))
  /\ \A x \in DOMAIN Inside(j) : MadeItem(Inside(j)[x])

MadeField(j) == MadeLeaf(j) \/ MadeWhole(j)

LEMMA WholeMade ==
  ASSUME NEW f, CollectionEntry(f), NEW m, m = [x \in DOMAIN m |-> m[x]], \A x \in DOMAIN m : MadeItem(m[x])
  PROVE  MadeField(Whole(f, m)) /\ Whole(f, m) # Null /\ Whole(f, m) # Missing
<1>1. /\ f.holds \in {"array", "object"} /\ Holds(Whole(f, m), f.holds) /\ Inside(Whole(f, m)) = m
      /\ Whole(f, m) \notin {Null, Missing}
  BY Wholes
<1>2. QED
  BY <1>1 DEF MadeField, MadeWhole, FieldsOf

LEMMA MadeFieldIsJson ==
  ASSUME NEW j, MadeField(j)
  PROVE  JsonField(j)
<1>1. CASE MadeLeaf(j)
  BY <1>1, MadeIsJson
<1>2. CASE MadeWhole(j)
  <2>1. \A x \in DOMAIN Inside(j) : JsonItem(Inside(j)[x]) /\ "string" \notin DOMAIN Inside(j)[x]
    BY <1>2, MadeItemIsJson DEF MadeWhole
  <2>2. "object" \in DOMAIN j => "string" \notin DOMAIN Lookup(j.object, "relativePath")
    <3>1. "string" \notin DOMAIN Missing
      BY Shapes
    <3>2. QED
      BY <2>1, <3>1 DEF Lookup, Inside
  <2>3. Container(j)
    BY <1>2, <2>2 DEF Container, MadeWhole
  <2>4. QED
    BY <2>1, <2>3 DEF JsonField, RangeOf
<1>3. QED
  BY <1>1, <1>2 DEF MadeField

LEMMA FieldMadeByGo ==
  ASSUME NEW f, Entry(f), NEW v, GoField(f, v)
  PROVE  MadeField(WriteField(f, v)) /\ WriteField(f, v) # Missing
<1>1. CASE LeafEntry(f)
  <2>1. GoLeaf(f, v) /\ WriteField(f, v) = WriteLeaf(v)
    BY <1>1, LeafField, LeafFieldWritten
  <2>2. QED
    BY <1>1, <2>1, MadeByGo DEF MadeField
<1>2. CASE CollectionEntry(f)
  <2>1. f.holds \in {"array", "object"} /\ ItemEntry(f.items)
    BY <1>2 DEF CollectionEntry, ItemEntry
  <2>2. CASE v = Null
    <3>1. WriteField(f, v) = Null
      BY <2>2 DEF WriteField
    <3>2. MadeLeaf(Null) /\ Null # Missing
      BY Shapes, Apart DEF MadeLeaf, JsonLeaf
    <3>3. QED
      BY <3>1, <3>2 DEF MadeField
  <2>3. CASE v # Null
    <3> DEFINE m == v[f.holds]
               g == [x \in DOMAIN m |-> WriteItem(f.items, m[x])]
    <3>1. v = Whole(f, m) /\ WriteField(f, Whole(f, m)) = Whole(f, g)
      BY <1>2, <2>1, <2>3, WholeOf, WholeWritten DEF GoField
    <3>2. ASSUME NEW x \in DOMAIN g PROVE MadeItem(g[x])
      <4> DEFINE w == m[x]
                 items == f.items
      <4>1. ItemEntry(items) /\ GoItem(items, w) /\ g[x] = WriteItem(items, w)
        BY <2>1, <2>3 DEF GoField
      <4> HIDE DEF w, items, g
      <4>2. QED
        BY <4>1, ItemMadeByGo
    <3>3. g = [x \in DOMAIN g |-> g[x]]
      OBVIOUS
    <3> HIDE DEF g, m
    <3>4. MadeField(Whole(f, g)) /\ Whole(f, g) # Missing
      BY <1>2, <3>2, <3>3, WholeMade
    <3>5. QED
      BY <3>1, <3>4
  <2>4. QED
    BY <2>2, <2>3
<1>3. QED
  BY <1>1, <1>2 DEF Entry

LEMMA FieldMadeByTs ==
  ASSUME NEW f, Entry(f), NEW v, TsField(f, v), v # Null
  PROVE  MadeField(ReplacedField(v))
<1>1. CASE LeafEntry(f)
  <2>1. TsLeaf(f, v)
    BY <1>1, LeafField
  <2>2. ReplacedField(v) = ReplacedRef(v)
    BY <1>1, <2>1, ReplacedLeaf
  <2>3. QED
    BY <1>1, <2>1, <2>2, MadeByTs DEF MadeField
<1>2. CASE CollectionEntry(f)
  <2>1. f.holds \in {"array", "object"} /\ ItemEntry(f.items)
    BY <1>2 DEF CollectionEntry, ItemEntry
  <2> DEFINE m == v[f.holds]
             g == [x \in DOMAIN m |-> ReplacedItem(m[x])]
  <2>2. v = Whole(f, m) /\ m = [x \in DOMAIN m |-> m[x]]
    BY <2>1, WholeOf DEF TsField, FieldsOf
  <2>3. ASSUME NEW x \in DOMAIN m PROVE MadeItem(g[x]) /\ m[x] # Null
    <3> DEFINE w == m[x]
               items == f.items
    <3>1. ItemEntry(items) /\ TsItem(items, w) /\ g[x] = ReplacedItem(w)
      BY <2>1 DEF TsField
    <3>2. w # Null
      BY <3>1, TheReference, Shapes DEF TsItem, Holds, TsLeaf, IsReference
    <3> HIDE DEF w, items, g
    <3>3. QED
      BY <3>1, <3>2, ItemMadeByTs DEF w
  <2>4. g = [x \in DOMAIN g |-> g[x]] /\ DOMAIN g = DOMAIN m
    OBVIOUS
  <2>5. \A x \in DOMAIN m : m[x] # Null
    BY <2>3
  <2> HIDE DEF m
  <2>6. ReplacedField(Whole(f, m)) = Whole(f, g)
    BY <1>2, <2>2, <2>5, ReplacedWhole
  <2> HIDE DEF g
  <2>7. MadeField(Whole(f, g))
    BY <1>2, <2>3, <2>4, WholeMade
  <2>8. QED
    BY <2>2, <2>6, <2>7
<1>3. QED
  BY <1>1, <1>2 DEF Entry

(* What Go reads of a field that it wrote, it writes as before, but for    *)
(* nil slices and maps: those that it reads are not nil.                   *)
Settled(f, v) == f.holds \in {"array", "object"} /\ v = Null => f.absent = Null

LEMMA ReadSettled ==
  ASSUME NEW f, Entry(f), NEW j, ReadField(f, j) # Failed
  PROVE  Settled(f, ReadField(f, j))
<1>1. CASE f.holds \in {"array", "object"} /\ j \in {Missing, Null}
  BY <1>1 DEF Settled, ReadField
<1>2. CASE f.holds \in {"array", "object"} /\ j \notin {Missing, Null}
  <2>1. PICK v : ReadField(f, j) \in {Array(v), Object(v)}
    BY <1>2 DEF ReadField
  <2>2. ReadField(f, j) # Null
    BY <2>1, Apart
  <2>3. QED
    BY <2>2 DEF Settled
<1>3. QED
  BY <1>1, <1>2 DEF Settled

LEMMA FieldStable ==
  ASSUME NEW f, Entry(f), NEW v, GoField(f, v), Settled(f, v),
         NEW u, u = ReadField(f, SentField(f, v)), u # Failed
  PROVE  SentField(f, u) = SentField(f, v)
<1>1. CASE LeafEntry(f)
  <2>1. GoLeaf(f, v) /\ SentField(f, v) = Sent(f, v) /\ SentField(f, u) = Sent(f, u)
    BY <1>1, LeafField, LeafFieldWritten
  <2>2. u = ReadLeaf(f, Sent(f, v))
    BY <1>1, <2>1, LeafField
  <2>3. QED
    BY <1>1, <2>1, <2>2, LeafStable
<1>2. CASE CollectionEntry(f)
  <2>1. f.holds \in {"array", "object"} /\ ItemEntry(f.items) /\ f.zero = Null
        /\ (f.omitempty => f.absent = Null)
    BY <1>2 DEF CollectionEntry, ItemEntry
  <2>2. ReadField(f, Null) = f.absent /\ ReadField(f, Missing) = f.absent
    BY <2>1 DEF ReadField
  <2>3. CASE SentField(f, v) = Missing
    <3>1. f.omitempty
      BY <2>3, FieldMadeByGo DEF SentField
    <3>2. u = Null
      BY <2>1, <2>2, <2>3, <3>1
    <3>3. QED
      BY <2>1, <2>3, <3>1, <3>2 DEF SentField, IsEmpty
  <2>4. CASE v = Null /\ SentField(f, v) # Missing
    <3>1. SentField(f, v) = Null /\ f.absent = Null
      BY <2>1, <2>4 DEF SentField, WriteField, IsEmpty, Settled
    <3>2. u = v
      BY <2>2, <2>4, <3>1
    <3>3. QED
      BY <3>2
  <2>5. CASE v # Null /\ SentField(f, v) # Missing
    <3> DEFINE m == v[f.holds]
               g == [x \in DOMAIN m |-> WriteItem(f.items, m[x])]
               k == [x \in DOMAIN g |-> ReadItem(f.items, g[x])]
    <3>1. v = Whole(f, m)
      BY <2>1, <2>5, WholeOf DEF GoField
    <3>2. ~(f.omitempty /\ IsEmpty(f, v)) /\ SentField(f, v) = WriteField(f, v)
      BY <2>5 DEF SentField
    <3>3. WriteField(f, Whole(f, m)) = Whole(f, g)
      BY <1>2, WholeWritten
    <3>4. u = ReadField(f, Whole(f, g))
      BY <3>1, <3>2, <3>3
    <3>5. k = [x \in DOMAIN g |-> ReadItem(f.items, g[x])]
      OBVIOUS
    <3>6. DOMAIN k = DOMAIN m /\ DOMAIN g = DOMAIN m
      OBVIOUS
    <3>7. u = Whole(f, k) /\ Failed \notin RangeOf(k)
      <4> HIDE DEF g, k, m
      <4>1. ReadField(f, Whole(f, g)) = IF Failed \in RangeOf(k) THEN Failed ELSE Whole(f, k)
        BY <1>2, <3>5, WholeRead
      <4>2. QED
        BY <3>4, <4>1
    <3>8. ASSUME NEW x \in DOMAIN m PROVE WriteItem(f.items, k[x]) = g[x]
      <4> DEFINE w == m[x]
                 items == f.items
      <4>1. ItemEntry(items) /\ GoItem(items, w) /\ g[x] = WriteItem(items, w)
        BY <2>1, <2>5 DEF GoField
      <4>2. k[x] = ReadItem(items, WriteItem(items, w)) /\ k[x] # Failed
        BY <3>7 DEF RangeOf
      <4> HIDE DEF w, items, g, k, m
      <4>3. WriteItem(items, k[x]) = g[x]
        BY <4>1, <4>2, ItemStable
      <4>4. QED
        BY <4>3 DEF items
    <3>9. [x \in DOMAIN k |-> WriteItem(f.items, k[x])] = g
      BY <3>6, <3>8
    <3> HIDE DEF m, g, k
    <3>10. IsEmpty(f, v) <=> (f.holds = "object" /\ DOMAIN m = {})
      BY <1>2, <3>1, WholeEmpty
    <3>11. IsEmpty(f, u) <=> (f.holds = "object" /\ DOMAIN k = {})
      BY <1>2, <3>7, WholeEmpty
    <3>12. SentField(f, u) = WriteField(f, u)
      BY <3>2, <3>6, <3>10, <3>11 DEF SentField
    <3>13. WriteField(f, Whole(f, k)) = Whole(f, g)
      BY <1>2, <3>9, WholeWritten
    <3>14. QED
      BY <3>1, <3>2, <3>3, <3>7, <3>12, <3>13
  <2>6. QED
    BY <2>3, <2>4, <2>5
<1>3. QED
  BY <1>1, <1>2 DEF Entry

-----------------------------------------------------------------------------
(* Types.                                                                  *)
SoundType(t) == \A name \in DOMAIN Fields[t.kind] : SoundField(Fields[t.kind][name], t.fields[name])

FitsType(t) == \A name \in DOMAIN Fields[t.kind] : FitsField(Fields[t.kind][name], t.fields[name])

SettledType(t) == \A name \in DOMAIN Fields[t.kind] : Settled(Fields[t.kind][name], t.fields[name])

LEMMA TypeShape ==
  ASSUME NEW k, NEW f
  PROVE  /\ [kind |-> k, fields |-> f] # Failed
         /\ [kind |-> k, fields |-> f].kind = k /\ [kind |-> k, fields |-> f].fields = f
<1>1. "kind" \in DOMAIN [kind |-> k, fields |-> f] /\ "kind" \notin DOMAIN Failed
  BY Shapes
<1>2. QED
  BY <1>1

LEMMA TypeOf ==
  ASSUME NEW k \in DOMAIN Fields, NEW f, DOMAIN f = DOMAIN Fields[k], f = [name \in DOMAIN f |-> f[name]]
  PROVE  /\ GoType([kind |-> k, fields |-> f]) <=> \A name \in DOMAIN Fields[k] : GoField(Fields[k][name], f[name])
         /\ SoundType([kind |-> k, fields |-> f]) <=> \A name \in DOMAIN Fields[k] : SoundField(Fields[k][name], f[name])
         /\ SettledType([kind |-> k, fields |-> f]) <=> \A name \in DOMAIN Fields[k] : Settled(Fields[k][name], f[name])
         /\ FilledType([kind |-> k, fields |-> f]) =
              [kind |-> k, fields |-> [name \in DOMAIN Fields[k] |-> FilledField(Fields[k][name], f[name])]]
<1> DEFINE t == [kind |-> k, fields |-> f]
<1>1. t.kind = k /\ t.fields = f /\ t = [kind |-> t.kind, fields |-> t.fields]
  OBVIOUS
<1> HIDE DEF t
<1>2. /\ GoType(t) <=> \A name \in DOMAIN Fields[k] : GoField(Fields[k][name], f[name])
      /\ SoundType(t) <=> \A name \in DOMAIN Fields[k] : SoundField(Fields[k][name], f[name])
      /\ SettledType(t) <=> \A name \in DOMAIN Fields[k] : Settled(Fields[k][name], f[name])
      /\ FilledType(t) =
           [kind |-> k, fields |-> [name \in DOMAIN Fields[k] |-> FilledField(Fields[k][name], f[name])]]
  BY <1>1 DEF GoType, FieldsOf, SoundType, SettledType, FilledType
<1>3. QED
  BY <1>2 DEF t

LEMMA TypeParts ==
  ASSUME NEW t, GoType(t)
  PROVE  /\ t.kind \in DOMAIN Fields /\ t = [kind |-> t.kind, fields |-> t.fields]
         /\ DOMAIN t.fields = DOMAIN Fields[t.kind] /\ t.fields = [name \in DOMAIN t.fields |-> t.fields[name]]
         /\ \A name \in DOMAIN Fields[t.kind] : GoField(Fields[t.kind][name], t.fields[name])
         /\ t # Failed
BY TypeShape DEF GoType, FieldsOf

(* What Go reads of an object that says its type.                          *)
LEMMA ObjectRead ==
  ASSUME NEW k \in DOMAIN Fields, NEW given, Lookup(given, "$type") = String(k),
         NEW v, v = [name \in DOMAIN Fields[k] |-> ReadField(Fields[k][name], Lookup(given, name))]
  PROVE  UnmarshalType(Object(given)) = IF Failed \in RangeOf(v) THEN Failed ELSE [kind |-> k, fields |-> v]
<1> DEFINE json == Object(given)
<1>1. "object" \in DOMAIN json /\ json.object = given /\ String(k).string = k
  BY Shapes
<1>2. String(k) \in {String(i) : i \in DOMAIN Fields}
  OBVIOUS
<1> HIDE DEF json
<1>3. UnmarshalType(json) = IF Failed \in RangeOf(v) THEN Failed ELSE [kind |-> k, fields |-> v]
  BY <1>1, <1>2, Zenon DEF UnmarshalType
<1>4. QED
  BY <1>3 DEF json

LEMMA MarshalLookup ==
  ASSUME NEW t, t.kind \in DOMAIN Fields
  PROVE  \E given : /\ MarshalJSON(t) = Object(given) /\ Lookup(given, "$type") = String(t.kind)
                    /\ \A name \in DOMAIN Fields[t.kind] :
                         Lookup(given, name) = SentField(Fields[t.kind][name], t.fields[name])
                    /\ given = [name \in DOMAIN given |-> given[name]] /\ "$type" \in DOMAIN given
                    /\ \A name \in DOMAIN given \ {"$type"} :
                         /\ name \in DOMAIN Fields[t.kind]
                         /\ given[name] = WriteField(Fields[t.kind][name], t.fields[name])
<1> DEFINE fields == Fields[t.kind]
           given == [name \in Written(fields, t.fields) \cup {"$type"} |->
                       IF name = "$type" THEN String(t.kind) ELSE WriteField(fields[name], t.fields[name])]
<1>1. MarshalJSON(t) = Object(given)
  BY DEF MarshalJSON
<1>2. Lookup(given, "$type") = String(t.kind) /\ "$type" \in DOMAIN given
  BY DEF Lookup
<1>3. ASSUME NEW name \in DOMAIN fields
      PROVE  Lookup(given, name) = SentField(fields[name], t.fields[name])
  <2>1. name # "$type"
    BY Entries
  <2>2. name \in DOMAIN given <=> ~(fields[name].omitempty /\ IsEmpty(fields[name], t.fields[name]))
    BY <2>1 DEF Written
  <2>3. name \in DOMAIN given => given[name] = WriteField(fields[name], t.fields[name])
    BY <2>1
  <2> HIDE DEF given
  <2>4. QED
    BY <2>2, <2>3 DEF Lookup, SentField
<1>4. \A name \in DOMAIN given \ {"$type"} :
        name \in DOMAIN fields /\ given[name] = WriteField(fields[name], t.fields[name])
  BY DEF Written
<1>5. given = [name \in DOMAIN given |-> given[name]]
  OBVIOUS
<1> HIDE DEF given
<1>6. QED
  BY <1>1, <1>2, <1>3, <1>4, <1>5

(* Go reads the types that it writes, and fills what they lack.            *)
LEMMA TypeBack ==
  ASSUME NEW t, GoType(t), SoundType(t)
  PROVE  UnmarshalType(MarshalJSON(t)) = FilledType(t)
<1> DEFINE k == t.kind
           full == [name \in DOMAIN Fields[k] |-> FilledField(Fields[k][name], t.fields[name])]
<1>1. PICK given : /\ MarshalJSON(t) = Object(given) /\ Lookup(given, "$type") = String(k)
                   /\ \A name \in DOMAIN Fields[k] : Lookup(given, name) = SentField(Fields[k][name], t.fields[name])
  BY TypeParts, MarshalLookup
<1>2. ASSUME NEW name \in DOMAIN Fields[k]
      PROVE  ReadField(Fields[k][name], Lookup(given, name)) = full[name] /\ full[name] # Failed
  <2> DEFINE f == Fields[k][name]
             v == t.fields[name]
  <2>1. Entry(f) /\ GoField(f, v) /\ SoundField(f, v) /\ Lookup(given, name) = SentField(f, v)
    BY <1>1, TypeParts, Entries DEF SoundType
  <2>2. full[name] = FilledField(f, v)
    OBVIOUS
  <2> HIDE DEF f, v, full
  <2>3. ReadField(f, SentField(f, v)) = FilledField(f, v) /\ FilledField(f, v) # Failed
    BY <2>1, FieldBack, FieldFill
  <2>4. QED
    BY <2>1, <2>2, <2>3 DEF f
<1>3. full = [name \in DOMAIN Fields[k] |-> ReadField(Fields[k][name], Lookup(given, name))]
      /\ Failed \notin RangeOf(full)
  BY <1>2 DEF RangeOf
<1>4. FilledType(t) = [kind |-> k, fields |-> full]
  BY DEF FilledType
<1>5. k \in DOMAIN Fields
  BY TypeParts
<1> HIDE DEF full, k
<1>6. UnmarshalType(Object(given)) = [kind |-> k, fields |-> full]
  BY <1>1, <1>3, <1>5, ObjectRead
<1>7. QED
  BY <1>1, <1>4, <1>6

LEMMA TypeFill ==
  ASSUME NEW t, GoType(t), SoundType(t)
  PROVE  /\ GoType(FilledType(t)) /\ SoundType(FilledType(t)) /\ FilledType(FilledType(t)) = FilledType(t)
         /\ FilledType(t) # Failed
<1> DEFINE k == t.kind
           full == [name \in DOMAIN Fields[k] |-> FilledField(Fields[k][name], t.fields[name])]
<1>1. ASSUME NEW name \in DOMAIN Fields[k]
      PROVE  /\ GoField(Fields[k][name], full[name]) /\ SoundField(Fields[k][name], full[name])
             /\ FilledField(Fields[k][name], full[name]) = full[name]
  <2> DEFINE f == Fields[k][name]
             v == t.fields[name]
  <2>1. Entry(f) /\ GoField(f, v) /\ SoundField(f, v)
    BY TypeParts, Entries DEF SoundType
  <2>2. full[name] = FilledField(f, v)
    OBVIOUS
  <2> HIDE DEF f, v, full
  <2>3. /\ GoField(f, FilledField(f, v)) /\ SoundField(f, FilledField(f, v))
        /\ FilledField(f, FilledField(f, v)) = FilledField(f, v)
    BY <2>1, FieldFill
  <2>4. QED
    BY <2>2, <2>3 DEF f
<1>2. FilledType(t) = [kind |-> k, fields |-> full]
  BY DEF FilledType
<1>3. DOMAIN full = DOMAIN Fields[k] /\ full = [name \in DOMAIN full |-> full[name]]
  OBVIOUS
<1>4. [name \in DOMAIN Fields[k] |-> FilledField(Fields[k][name], full[name])] = full
  BY <1>1
<1>5. k \in DOMAIN Fields
  BY TypeParts
<1> HIDE DEF full, k
<1>6. /\ GoType([kind |-> k, fields |-> full]) /\ SoundType([kind |-> k, fields |-> full])
  BY <1>1, <1>3, <1>5, TypeOf
<1>7. FilledType([kind |-> k, fields |-> full]) = [kind |-> k, fields |-> full]
  BY <1>3, <1>4, <1>5, TypeOf
<1>8. QED
  BY <1>2, <1>6, <1>7, TypeShape

(* What Go reads is a type, and its slices and maps are settled.           *)
LEMMA TypeRead ==
  ASSUME NEW j, JsonType(j), UnmarshalType(j) # Failed
  PROVE  GoType(UnmarshalType(j)) /\ SettledType(UnmarshalType(j))
<1>1. "object" \in DOMAIN j
  <2>1. "object" \notin DOMAIN Null /\ Lookup(<<>>, "$type") = Missing
    BY Shapes DEF Lookup
  <2>2. ASSUME NEW k PROVE String(k) # Missing
    BY Shapes
  <2>3. UnmarshalType(Null) = Failed
    BY <2>1, <2>2, Zenon DEF UnmarshalType
  <2>4. QED
    BY <2>3 DEF JsonType
<1> DEFINE given == j.object
<1>2. j = Object(given) /\ Inside(j) = given /\ \A x \in RangeOf(given) : JsonField(x)
  BY <1>1, Shapes, Held DEF JsonType, Container, Inside, Holds
<1>3. PICK k \in DOMAIN Fields : Lookup(given, "$type") = String(k)
  BY <1>1, Zenon DEF UnmarshalType
<1> DEFINE v == [name \in DOMAIN Fields[k] |-> ReadField(Fields[k][name], Lookup(given, name))]
<1>4. v = [name \in DOMAIN Fields[k] |-> ReadField(Fields[k][name], Lookup(given, name))]
      /\ DOMAIN v = DOMAIN Fields[k] /\ v = [name \in DOMAIN v |-> v[name]]
  OBVIOUS
<1>5. ASSUME NEW name \in DOMAIN Fields[k], Failed \notin RangeOf(v)
      PROVE  GoField(Fields[k][name], v[name]) /\ Settled(Fields[k][name], v[name])
  <2> DEFINE f == Fields[k][name]
             x == Lookup(given, name)
  <2>1. Entry(f)
    BY Entries
  <2>2. v[name] = ReadField(f, x) /\ v[name] # Failed
    BY <1>5 DEF RangeOf
  <2>3. x = Missing \/ JsonField(x)
    BY <1>2 DEF Lookup, RangeOf
  <2> HIDE DEF f, x, v
  <2>4. GoField(f, ReadField(f, x)) /\ Settled(f, ReadField(f, x))
    BY <2>1, <2>2, <2>3, FieldRead, ReadSettled
  <2>5. QED
    BY <2>2, <2>4 DEF f
<1> HIDE DEF v, given
<1>6. UnmarshalType(Object(given)) = IF Failed \in RangeOf(v) THEN Failed ELSE [kind |-> k, fields |-> v]
  BY <1>3, <1>4, ObjectRead
<1>7. Failed \notin RangeOf(v) /\ UnmarshalType(j) = [kind |-> k, fields |-> v]
  BY <1>2, <1>6
<1>8. GoType([kind |-> k, fields |-> v]) /\ SettledType([kind |-> k, fields |-> v])
  BY <1>4, <1>5, <1>7, TypeOf
<1>9. QED
  BY <1>7, <1>8

(* What Go reads of a type that it read and wrote, it writes as before.    *)
LEMMA TypeStable ==
  ASSUME NEW t, GoType(t), SettledType(t), NEW u, u = UnmarshalType(MarshalJSON(t)), u # Failed
  PROVE  MarshalJSON(u) = MarshalJSON(t)
<1> DEFINE k == t.kind
           fields == Fields[k]
<1>1. PICK given : /\ MarshalJSON(t) = Object(given) /\ Lookup(given, "$type") = String(k)
                   /\ \A name \in DOMAIN Fields[k] : Lookup(given, name) = SentField(Fields[k][name], t.fields[name])
  BY TypeParts, MarshalLookup
<1> DEFINE v == [name \in DOMAIN Fields[k] |-> ReadField(Fields[k][name], Lookup(given, name))]
<1>2. v = [name \in DOMAIN Fields[k] |-> ReadField(Fields[k][name], Lookup(given, name))]
  OBVIOUS
<1>3. k \in DOMAIN Fields
  BY TypeParts
<1>4. Failed \notin RangeOf(v) /\ u = [kind |-> k, fields |-> v]
  <2> HIDE DEF v, k
  <2>1. UnmarshalType(Object(given)) = IF Failed \in RangeOf(v) THEN Failed ELSE [kind |-> k, fields |-> v]
    BY <1>1, <1>2, <1>3, ObjectRead
  <2>2. QED
    BY <1>1, <2>1
<1>5. ASSUME NEW name \in DOMAIN fields
      PROVE  /\ SentField(fields[name], v[name]) = SentField(fields[name], t.fields[name])
             /\ WriteField(fields[name], v[name]) # Missing
             /\ WriteField(fields[name], t.fields[name]) # Missing
  <2> DEFINE f == fields[name]
             x == t.fields[name]
             y == v[name]
  <2>1. Entry(f) /\ GoField(f, x) /\ Settled(f, x)
    BY TypeParts, Entries DEF SettledType
  <2>2. y = ReadField(f, SentField(f, x)) /\ y # Failed
    BY <1>1, <1>4 DEF RangeOf
  <2> HIDE DEF f, x, y
  <2>3. SentField(f, y) = SentField(f, x)
    BY <2>1, <2>2, FieldStable
  <2>4. WriteField(f, x) # Missing /\ (SentField(f, x) = Missing \/ JsonField(SentField(f, x)))
    BY <2>1, FieldMadeByGo, MadeFieldIsJson DEF SentField
  <2>5. GoField(f, y)
    BY <2>1, <2>2, <2>4, FieldRead
  <2>6. WriteField(f, y) # Missing
    BY <2>1, <2>5, FieldMadeByGo
  <2>7. QED
    BY <2>3, <2>4, <2>6 DEF f, x, y
<1> HIDE DEF v, fields
<1>6. \A name \in DOMAIN fields :
        /\ name \in Written(fields, v) <=> name \in Written(fields, t.fields)
        /\ name \in Written(fields, v) => WriteField(fields[name], v[name]) = WriteField(fields[name], t.fields[name])
  BY <1>5 DEF SentField, Written
<1>7. Written(fields, v) \subseteq DOMAIN fields /\ Written(fields, t.fields) \subseteq DOMAIN fields
  BY DEF Written
<1>8. Written(fields, v) = Written(fields, t.fields)
  BY <1>6, <1>7
<1>9. \A name \in Written(fields, v) : WriteField(fields[name], v[name]) = WriteField(fields[name], t.fields[name])
  BY <1>6, <1>7
<1>10. u.kind = k /\ u.fields = v
  BY <1>4
<1> HIDE DEF k
<1>11. MarshalJSON(u) = Object([name \in Written(fields, v) \cup {"$type"} |->
                                  IF name = "$type" THEN String(k) ELSE WriteField(fields[name], v[name])])
  BY <1>10 DEF MarshalJSON, fields
<1>12. MarshalJSON(t) = Object([name \in Written(fields, t.fields) \cup {"$type"} |->
                                  IF name = "$type" THEN String(k) ELSE WriteField(fields[name], t.fields[name])])
  BY DEF MarshalJSON, fields, k
<1>13. QED
  <2> HIDE DEF Written
  <2> QED
    BY <1>8, <1>9, <1>11, <1>12

LEMMA TsMarshalLookup ==
  ASSUME NEW t, "$type" \notin DOMAIN t.fields
  PROVE  \E given : /\ writeTypesJson(t) = Object(given) /\ Lookup(given, "$type") = String(t.kind)
                    /\ \A name \in DOMAIN t.fields : Lookup(given, name) = TsSentField(t.fields[name])
                    /\ given = [name \in DOMAIN given |-> given[name]] /\ "$type" \in DOMAIN given
                    /\ \A name \in DOMAIN given \ {"$type"} :
                         /\ name \in DOMAIN t.fields /\ t.fields[name] # Null
                         /\ given[name] = ReplacedField(t.fields[name])
<1> DEFINE given == [name \in {n \in DOMAIN t.fields : t.fields[n] # Null} \cup {"$type"} |->
                       IF name = "$type" THEN String(t.kind) ELSE ReplacedField(t.fields[name])]
<1>1. writeTypesJson(t) = Object(given)
  BY DEF writeTypesJson
<1>2. Lookup(given, "$type") = String(t.kind) /\ "$type" \in DOMAIN given
  BY DEF Lookup
<1>3. ASSUME NEW name \in DOMAIN t.fields
      PROVE  Lookup(given, name) = TsSentField(t.fields[name])
  <2>1. name \in DOMAIN given <=> t.fields[name] # Null
    OBVIOUS
  <2>2. name \in DOMAIN given => given[name] = ReplacedField(t.fields[name])
    OBVIOUS
  <2> HIDE DEF given
  <2>3. QED
    BY <2>1, <2>2 DEF Lookup, TsSentField
<1>4. \A name \in DOMAIN given \ {"$type"} :
        name \in DOMAIN t.fields /\ t.fields[name] # Null /\ given[name] = ReplacedField(t.fields[name])
  OBVIOUS
<1>5. given = [name \in DOMAIN given |-> given[name]]
  OBVIOUS
<1> HIDE DEF given
<1>6. QED
  BY <1>1, <1>2, <1>3, <1>4, <1>5

(* The TypeScript declarations are Go's, but for the kind of a built-in.   *)
LEMMA TsParts ==
  ASSUME NEW t, TsType(t)
  PROVE  /\ t.kind \in DOMAIN Fields /\ t = [kind |-> t.kind, fields |-> t.fields]
         /\ DOMAIN t.fields = DOMAIN Fields[t.kind]
         /\ t.fields = [name \in DOMAIN t.fields |-> t.fields[name]]
         /\ "$type" \notin DOMAIN t.fields
         /\ \A name \in DOMAIN t.fields :
              Entry(TsFields[t.kind][name]) /\ TsField(TsFields[t.kind][name], t.fields[name])
         /\ t.kind # "BuiltInType" => TsFields[t.kind] = Fields[t.kind]
<1>1. DOMAIN TsFields = DOMAIN Fields /\ (t.kind # "BuiltInType" /\ t.kind \in DOMAIN Fields => TsFields[t.kind] = Fields[t.kind])
  BY DEF TsFields
<1>2. t.kind \in DOMAIN Fields /\ t = [kind |-> t.kind, fields |-> t.fields]
  BY <1>1 DEF TsType
<1>3. CASE t.kind = "BuiltInType"
  <2>1. TsFields[t.kind] = [kind |-> IntField] /\ Fields[t.kind] = [kind |-> StringField]
    BY <1>3 DEF TsFields, Fields, BuiltInTypeFields
  <2>2. DOMAIN TsFields[t.kind] = {"kind"} /\ DOMAIN Fields[t.kind] = {"kind"}
        /\ TsFields[t.kind]["kind"] = IntField
    BY <2>1
  <2>3. Entry(IntField)
    BY LeafEntries DEF Entry
  <2>4. QED
    BY <1>2, <1>3, <2>2, <2>3 DEF TsType, FieldsOf
<1>4. CASE t.kind # "BuiltInType"
  <2>1. TsFields[t.kind] = Fields[t.kind]
    BY <1>1, <1>2, <1>4
  <2>2. \A name \in DOMAIN Fields[t.kind] : Entry(Fields[t.kind][name]) /\ name # "$type"
    BY <1>2, Entries
  <2>3. QED
    BY <1>2, <2>1, <2>2 DEF TsType, FieldsOf
<1>5. QED
  BY <1>3, <1>4

(* Go reads the types that TypeScript writes: filled, they are the same.   *)
LEMMA TsTypeBack ==
  ASSUME NEW t, TsType(t), SoundType(t), FitsType(t), t.kind # "BuiltInType",
         NEW u, u = UnmarshalType(writeTypesJson(t))
  PROVE  /\ GoType(u) /\ SoundType(u) /\ u # Failed
         /\ FilledType(u) = FilledType(t)
<1> DEFINE k == t.kind
           fields == Fields[k]
<1>1. PICK given : /\ writeTypesJson(t) = Object(given) /\ Lookup(given, "$type") = String(k)
                   /\ \A name \in DOMAIN t.fields : Lookup(given, name) = TsSentField(t.fields[name])
  <2>1. "$type" \notin DOMAIN t.fields
    BY TsParts
  <2>2. QED
    BY <2>1, TsMarshalLookup
<1> DEFINE v == [name \in DOMAIN Fields[k] |-> ReadField(Fields[k][name], Lookup(given, name))]
<1>2. v = [name \in DOMAIN Fields[k] |-> ReadField(Fields[k][name], Lookup(given, name))]
      /\ DOMAIN v = DOMAIN Fields[k] /\ v = [name \in DOMAIN v |-> v[name]]
  OBVIOUS
<1>3. k \in DOMAIN Fields /\ DOMAIN t.fields = DOMAIN fields
  BY TsParts
<1>4. ASSUME NEW name \in DOMAIN fields
      PROVE  /\ GoField(fields[name], v[name]) /\ SoundField(fields[name], v[name])
             /\ FilledField(fields[name], v[name]) = FilledField(fields[name], t.fields[name])
             /\ v[name] # Failed
  <2> DEFINE f == fields[name]
             x == t.fields[name]
             y == v[name]
  <2>1. Entry(f) /\ TsField(f, x) /\ SoundField(f, x) /\ FitsField(f, x)
    BY <1>3, TsParts DEF SoundType, FitsType
  <2>2. y = ReadField(f, TsSentField(x))
    BY <1>1, <1>3
  <2> HIDE DEF f, x, y
  <2>3. GoField(f, y) /\ SoundField(f, y) /\ FilledField(f, y) = FilledField(f, x) /\ y # Failed
    BY <2>1, <2>2, TsFieldBack
  <2>4. QED
    BY <2>3 DEF f, x, y
<1> HIDE DEF v, k
<1>5. UnmarshalType(Object(given)) = IF Failed \in RangeOf(v) THEN Failed ELSE [kind |-> k, fields |-> v]
  BY <1>1, <1>2, <1>3, ObjectRead
<1>6. u = [kind |-> k, fields |-> v]
  BY <1>1, <1>2, <1>4, <1>5 DEF RangeOf
<1>7. GoType([kind |-> k, fields |-> v]) /\ SoundType([kind |-> k, fields |-> v])
  BY <1>2, <1>3, <1>4, TypeOf
<1>8. FilledType([kind |-> k, fields |-> v]) = [kind |-> k, fields |-> [name \in DOMAIN fields |-> FilledField(fields[name], v[name])]]
  BY <1>2, <1>3, TypeOf
<1>9. FilledType(t) = [kind |-> k, fields |-> [name \in DOMAIN fields |-> FilledField(fields[name], t.fields[name])]]
  BY DEF FilledType, k
<1>10. [name \in DOMAIN fields |-> FilledField(fields[name], v[name])]
       = [name \in DOMAIN fields |-> FilledField(fields[name], t.fields[name])]
  BY <1>4
<1>11. QED
  BY <1>6, <1>7, <1>8, <1>9, <1>10, TypeShape

(* What a program writes for a type.                                       *)
MadeType(j) ==
  /\ Holds(j, "object") /\ FieldsOf(j.object, j.object)
  /\ "$type" \in DOMAIN j.object /\ Holds(j.object["$type"], "string")
  /\ \A name \in DOMAIN j.object :
       MadeField(j.object[name]) /\ name \notin {"$ref", "relativePath"}

LEMMA Made ==
  ASSUME NEW given, given = [name \in DOMAIN given |-> given[name]],
         NEW k, "$type" \in DOMAIN given, Lookup(given, "$type") = String(k),
         \A name \in DOMAIN given \ {"$type"} : MadeField(given[name]) /\ name \notin {"$ref", "relativePath"}
  PROVE  MadeType(Object(given))
<1>1. given["$type"] = String(k)
  BY DEF Lookup
<1>2. Holds(String(k), "string") /\ DOMAIN String(k) = {"string"}
  BY DEF String, Holds, Only
<1>3. MadeField(String(k))
  BY <1>2 DEF MadeField, MadeLeaf, JsonLeaf
<1>4. Object(given).object = given /\ Holds(Object(given), "object")
  BY DEF Object, Holds, Only
<1>5. QED
  BY <1>1, <1>2, <1>3, <1>4 DEF MadeType, FieldsOf

LEMMA TypeMadeByGo ==
  ASSUME NEW t, GoType(t)
  PROVE  MadeType(MarshalJSON(t))
<1> DEFINE k == t.kind
<1>1. PICK given :
        /\ MarshalJSON(t) = Object(given) /\ Lookup(given, "$type") = String(t.kind)
        /\ given = [name \in DOMAIN given |-> given[name]] /\ "$type" \in DOMAIN given
        /\ \A name \in DOMAIN given \ {"$type"} :
             /\ name \in DOMAIN Fields[t.kind]
             /\ given[name] = WriteField(Fields[t.kind][name], t.fields[name])
  BY TypeParts, MarshalLookup
<1>2. ASSUME NEW name \in DOMAIN given \ {"$type"}
      PROVE  MadeField(given[name]) /\ name \notin {"$ref", "relativePath"}
  <2> DEFINE f == Fields[t.kind][name]
             v == t.fields[name]
  <2>1. Entry(f) /\ GoField(f, v) /\ name \notin {"$ref", "relativePath"} /\ given[name] = WriteField(f, v)
    BY <1>1, <1>2, TypeParts, Entries
  <2> HIDE DEF f, v
  <2>2. QED
    BY <2>1, FieldMadeByGo
<1>3. QED
  BY <1>1, <1>2, Made

LEMMA TypeMadeByTs ==
  ASSUME NEW t, TsType(t)
  PROVE  MadeType(writeTypesJson(t))
<1>1. PICK given :
        /\ writeTypesJson(t) = Object(given) /\ Lookup(given, "$type") = String(t.kind)
        /\ given = [name \in DOMAIN given |-> given[name]] /\ "$type" \in DOMAIN given
        /\ \A name \in DOMAIN given \ {"$type"} :
             /\ name \in DOMAIN t.fields /\ t.fields[name] # Null
             /\ given[name] = ReplacedField(t.fields[name])
  <2>1. "$type" \notin DOMAIN t.fields
    BY TsParts
  <2>2. QED
    BY <2>1, TsMarshalLookup
<1>2. ASSUME NEW name \in DOMAIN given \ {"$type"}
      PROVE  MadeField(given[name]) /\ name \notin {"$ref", "relativePath"}
  <2> DEFINE f == TsFields[t.kind][name]
             v == t.fields[name]
  <2>1. Entry(f) /\ TsField(f, v) /\ v # Null /\ given[name] = ReplacedField(v)
    BY <1>1, <1>2, TsParts
  <2>2. name \notin {"$ref", "relativePath"}
    BY <1>1, <1>2, TsParts, Entries
  <2> HIDE DEF f, v
  <2>3. QED
    BY <2>1, <2>2, FieldMadeByTs
<1>3. QED
  BY <1>1, <1>2, Made

LEMMA MadeTypeIsJson ==
  ASSUME NEW j, MadeType(j)
  PROVE  JsonType(j)
<1>1. Inside(j) = j.object /\ DOMAIN j = {"object"}
  BY Held DEF MadeType, Inside
<1>2. Lookup(j.object, "relativePath") = Missing /\ "string" \notin DOMAIN Missing
  BY Shapes DEF MadeType, Lookup
<1>3. Container(j)
  BY <1>1, <1>2 DEF MadeType, Container
<1>4. \A v \in RangeOf(j.object) : JsonField(v)
  BY MadeFieldIsJson DEF MadeType, RangeOf
<1>5. QED
  BY <1>1, <1>3, <1>4 DEF MadeType, JsonType

-----------------------------------------------------------------------------
(* Types that have their references, plain paths and exact numbers.        *)
LEMMA Inwards ==
  ASSUME NEW types, NEW t \in RangeOf(types), NEW name \in DOMAIN t.fields
  PROVE  /\ t.fields[name] \in PartsOf(types)
         /\ \A w \in RangeOf(Inside(t.fields[name])) :
              w \in PartsOf(types) /\ \A u \in RangeOf(Inside(w)) : u \in PartsOf(types)
<1> DEFINE items == UNION {RangeOf(Inside(v)) : v \in RangeOf(t.fields)}
<1>1. Values(t) = RangeOf(t.fields) \cup items \cup UNION {RangeOf(Inside(w)) : w \in items}
  BY DEF Values
<1>2. Values(t) \subseteq PartsOf(types)
  BY DEF PartsOf
<1>3. t.fields[name] \in RangeOf(t.fields)
  BY DEF RangeOf
<1>4. \A w \in RangeOf(Inside(t.fields[name])) : w \in items
  BY <1>3
<1> HIDE DEF items
<1>5. \A w \in items : \A u \in RangeOf(Inside(w)) : u \in Values(t)
  BY <1>1
<1>6. QED
  BY <1>1, <1>2, <1>3, <1>4, <1>5

LEMMA SoundTypes ==
  ASSUME NEW types, WellFormed(types), Exact(PartsOf(types)), NEW t \in RangeOf(types),
         t.kind \in DOMAIN Fields, DOMAIN t.fields = DOMAIN Fields[t.kind],
         \A name \in DOMAIN t.fields :
           GoField(Fields[t.kind][name], t.fields[name]) \/ TsField(Fields[t.kind][name], t.fields[name])
  PROVE  SoundType(t)
<1>1. \A v \in PartsOf(types) : PlainLeaf(v)
  BY DEF WellFormed, PlainPaths, Exact, PlainLeaf
<1>2. ASSUME NEW name \in DOMAIN Fields[t.kind] PROVE SoundField(Fields[t.kind][name], t.fields[name])
  <2> DEFINE f == Fields[t.kind][name]
             v == t.fields[name]
  <2>1. Entry(f) /\ (GoField(f, v) \/ TsField(f, v))
    BY Entries
  <2>2. /\ f.holds = "reference" /\ ~f.omitempty => v # Null
        /\ f.holds \in {"array", "object"} /\ v # Null =>
             \A w \in RangeOf(v[f.holds]) : w # Null /\ ("object" \in DOMAIN w => w.object.type # Null)
    BY DEF WellFormed, HasReferences
  <2>3. /\ v \in PartsOf(types)
        /\ \A w \in RangeOf(Inside(v)) : w \in PartsOf(types) /\ \A u \in RangeOf(Inside(w)) : u \in PartsOf(types)
    BY Inwards
  <2> SUFFICES SoundField(f, v)
    OBVIOUS
  <2> HIDE DEF f, v
  <2>4. CASE LeafEntry(f)
    <3>1. PlainLeaf(v)
      BY <1>1, <2>3
    <3>2. SoundLeaf(f, v)
      BY <2>2, <3>1 DEF SoundLeaf
    <3>3. QED
      BY <2>4, <3>2, LeafField
  <2>5. CASE CollectionEntry(f) /\ v # Null
    <3> DEFINE items == f.items
    <3>1. ItemEntry(items) /\ f.holds \in {"array", "object"}
      BY <2>5 DEF CollectionEntry, ItemEntry
    <3>2. Inside(v) = v[f.holds]
      <4>1. Holds(v, f.holds)
        BY <2>1, <2>5, <3>1 DEF GoField, TsField
      <4>2. DOMAIN v = {f.holds}
        BY <4>1 DEF Holds
      <4>3. QED
        BY <3>1, <4>2 DEF Inside
    <3>3. ASSUME NEW x \in DOMAIN v[f.holds] PROVE SoundItem(items, v[f.holds][x])
      <4> DEFINE w == v[f.holds][x]
      <4>1. w \in RangeOf(v[f.holds])
        BY DEF RangeOf
      <4>2. w # Null /\ ("object" \in DOMAIN w => w.object.type # Null) /\ w \in PartsOf(types)
            /\ \A u \in RangeOf(Inside(w)) : u \in PartsOf(types)
        BY <2>2, <2>3, <2>5, <3>1, <3>2, <4>1
      <4>3. GoItem(items, w) \/ TsItem(items, w)
        BY <2>1, <2>5, <3>1 DEF GoField, TsField
      <4> SUFFICES SoundItem(items, w)
        OBVIOUS
      <4> HIDE DEF w, items
      <4>4. CASE items = Reference
        BY <1>1, <4>2, <4>4 DEF SoundItem, SoundLeaf
      <4>5. CASE items # Reference
        <5>1. TableEntry(items)
          BY <3>1, <4>5 DEF ItemEntry
        <5>2 DOMAIN w = {"object"} /\ DOMAIN w.object = DOMAIN items /\ Inside(w) = w.object
          <6>1. Holds(w, "object") /\ DOMAIN w.object = DOMAIN items
            BY <4>3, <4>5 DEF GoItem, TsItem, FieldsOf
          <6>2. DOMAIN w = {"object"}
            BY <6>1 DEF Holds
          <6>3. QED
            BY <6>1, <6>2 DEF Inside
        <5>3. ASSUME NEW n \in DOMAIN items PROVE SoundLeaf(items[n], w.object[n])
          <6>1. PlainLeaf(w.object[n])
            BY <1>1, <4>2, <5>2 DEF RangeOf
          <6>2. items[n].holds = "reference" => w.object[n] # Null
            BY <4>2, <5>1, <5>2 DEF TableEntry
          <6>3. QED
            BY <6>1, <6>2 DEF SoundLeaf
        <5>4. QED
          BY <4>5, <5>3 DEF SoundItem
      <4>6. QED
        BY <4>4, <4>5
    <3>4. QED
      BY <3>1, <3>3 DEF SoundField
  <2>6. CASE CollectionEntry(f) /\ v = Null
    BY <2>6 DEF SoundField, CollectionEntry
  <2>7. QED
    BY <2>1, <2>4, <2>5, <2>6 DEF Entry
<1>3. QED
  BY <1>2 DEF SoundType

LEMMA FitsTypes ==
  ASSUME NEW types, \A v \in PartsOf(types) : "number" \in DOMAIN v => v.number \in Int64,
         NEW t \in RangeOf(types), TsType(t), t.kind # "BuiltInType"
  PROVE  FitsType(t)
<1>1. \A v \in PartsOf(types) : FitsLeaf(v)
  BY DEF FitsLeaf
<1>2. ASSUME NEW name \in DOMAIN Fields[t.kind] PROVE FitsField(Fields[t.kind][name], t.fields[name])
  <2> DEFINE f == Fields[t.kind][name]
             v == t.fields[name]
  <2>1. Entry(f) /\ TsField(f, v) /\ name \in DOMAIN t.fields
    BY TsParts, Entries
  <2>2. /\ v \in PartsOf(types)
        /\ \A w \in RangeOf(Inside(v)) : w \in PartsOf(types) /\ \A u \in RangeOf(Inside(w)) : u \in PartsOf(types)
    BY <2>1, Inwards
  <2> SUFFICES FitsField(f, v)
    OBVIOUS
  <2> HIDE DEF f, v
  <2>3. CASE LeafEntry(f)
    BY <1>1, <2>2, <2>3, LeafField
  <2>4. CASE CollectionEntry(f) /\ v # Null
    <3> DEFINE items == f.items
    <3>1. ItemEntry(items) /\ f.holds \in {"array", "object"}
      BY <2>4 DEF CollectionEntry, ItemEntry
    <3>2. Inside(v) = v[f.holds]
      <4>1. Holds(v, f.holds)
        BY <2>1, <2>4, <3>1 DEF GoField, TsField
      <4>2. DOMAIN v = {f.holds}
        BY <4>1 DEF Holds
      <4>3. QED
        BY <3>1, <4>2 DEF Inside
    <3>3. ASSUME NEW x \in DOMAIN v[f.holds] PROVE FitsItem(items, v[f.holds][x])
      <4> DEFINE w == v[f.holds][x]
      <4>1. w \in RangeOf(v[f.holds])
        BY DEF RangeOf
      <4>2. \A u \in RangeOf(Inside(w)) : u \in PartsOf(types)
        BY <2>2, <3>2, <4>1
      <4>3. TsItem(items, w)
        BY <2>1, <2>4, <3>1 DEF TsField
      <4> SUFFICES FitsItem(items, w)
        OBVIOUS
      <4> HIDE DEF w, items
      <4>4. CASE items # Reference
        <5>1 DOMAIN w = {"object"} /\ DOMAIN w.object = DOMAIN items /\ Inside(w) = w.object
          <6>1. Holds(w, "object") /\ DOMAIN w.object = DOMAIN items
            BY <4>3, <4>4 DEF GoItem, TsItem, FieldsOf
          <6>2. DOMAIN w = {"object"}
            BY <6>1 DEF Holds
          <6>3. QED
            BY <6>1, <6>2 DEF Inside
        <5>2. \A n \in DOMAIN items : FitsLeaf(w.object[n])
          BY <1>1, <4>2, <5>1 DEF RangeOf
        <5>3. QED
          BY <5>2 DEF FitsItem
      <4>5. QED
        BY <4>4 DEF FitsItem
    <3>4. QED
      BY <3>1, <3>3 DEF FitsField
  <2>5. CASE CollectionEntry(f) /\ v = Null
    BY <2>5 DEF FitsField, CollectionEntry
  <2>6. QED
    BY <2>1, <2>3, <2>4, <2>5 DEF Entry
<1>3. QED
  BY <1>2 DEF FitsType

-----------------------------------------------------------------------------
(* What TypeScript reads and writes again.                                 *)
IsText(inner) ==
  "$ref" \in DOMAIN inner /\ "prefix" \in DOMAIN inner["$ref"] /\ inner["$ref"].prefix = <<"">>

LEMMA Revive ==
  ASSUME NEW j, Holds(j, "object") \/ Holds(j, "array"), NEW inner
  PROVE  /\ Failed \in RangeOf(inner) => Reviver(j, inner) = Failed
         /\ Failed \notin RangeOf(inner) =>
              /\ Holds(j, "object") /\ IsText(inner) => Reviver(j, inner) = TypeReference(inner["$ref"].index)
              /\ Holds(j, "object") /\ ~IsText(inner) => Reviver(j, inner) = Object(inner)
              /\ Holds(j, "array") => Reviver(j, inner) = Array(inner)
              /\ Reviver(j, inner) \notin {Null, Failed}
<1>1. Failed \in RangeOf(inner) => Reviver(j, inner) = Failed
  BY DEF Reviver
<1>2. CASE Failed \notin RangeOf(inner) /\ Holds(j, "object")
  <2>1. DOMAIN j = {"object"}
    BY <1>2 DEF Holds
  <2>2. j # Null
    BY <2>1, Apart
  <2>3. Reviver(j, inner) = LET text == Lookup(inner, "$ref")
                            IN  IF "prefix" \in DOMAIN text /\ text.prefix = <<"">>
                                THEN TypeReference(text.index) ELSE Object(inner)
    BY <1>2, <2>1, <2>2 DEF Reviver
  <2>4. "prefix" \notin DOMAIN Missing
    BY Shapes
  <2>5. ASSUME NEW i PROVE TypeReference(i) \notin {Null, Failed}
    BY DEF TypeReference, Null, Failed
  <2>6. QED
    BY <1>2, <2>1, <2>3, <2>4, <2>5, Apart DEF Lookup, IsText, Holds
<1>3. CASE Failed \notin RangeOf(inner) /\ Holds(j, "array")
  <2>1. DOMAIN j = {"array"}
    BY <1>3 DEF Holds
  <2>2. j # Null
    BY <2>1, Apart
  <2>3. Reviver(j, inner) = Array(inner)
    BY <1>3, <2>1, <2>2 DEF Reviver
  <2>4. QED
    BY <1>3, <2>1, <2>3, Apart DEF Holds
<1>4. QED
  BY <1>1, <1>2, <1>3

LEMMA Replace ==
  ASSUME NEW inner, NEW outer, outer = [n \in DOMAIN inner |-> outer[n]], \A n \in DOMAIN inner : inner[n] # Null
  PROVE  /\ Replacer(Object(inner), outer) = Object(outer)
         /\ Replacer(Array(inner), outer) = Array(outer)
         /\ \A i : Replacer(TypeReference(i), outer) = Object(Only("$ref", RefText(<<"">>, i)))
<1>1. Replacer(Object(inner), outer) = Object(outer)
  <2> DEFINE v == Object(inner)
  <2>1. DOMAIN v = {"object"} /\ v.object = inner
    BY Shapes
  <2>2. {n \in DOMAIN inner : inner[n] # Null} = DOMAIN inner
    OBVIOUS
  <2> HIDE DEF v
  <2>3. Replacer(v, outer) = Object([n \in DOMAIN inner |-> outer[n]])
    BY <2>1, <2>2 DEF Replacer
  <2>4. QED
    BY <2>3 DEF v
<1>2. Replacer(Array(inner), outer) = Array(outer)
  <2> DEFINE v == Array(inner)
  <2>1. DOMAIN v = {"array"}
    BY Shapes
  <2> HIDE DEF v
  <2>2. Replacer(v, outer) = Array(outer)
    BY <2>1 DEF Replacer
  <2>3. QED
    BY <2>2 DEF v
<1>3. ASSUME NEW i PROVE Replacer(TypeReference(i), outer) = Object(Only("$ref", RefText(<<"">>, i)))
  <2> DEFINE v == TypeReference(i)
  <2>1. DOMAIN v = {"ref"} /\ v.ref = i
    BY Shapes
  <2> HIDE DEF v
  <2>2. Replacer(v, outer) = ReferenceJson(v)
    BY <2>1 DEF Replacer
  <2>3. ReferenceJson(v) = Object(Only("$ref", RefText(<<"">>, i)))
    BY <2>1 DEF ReferenceJson
  <2>4. QED
    BY <2>2, <2>3 DEF v
<1>4. QED
  BY <1>1, <1>2, <1>3

(* A JSON leaf, at any level.                                              *)
LEMMA LeafRevived ==
  ASSUME NEW j, JsonLeaf(j), NEW x, x = RevivedLeaf(j)
  PROVE  /\ RevivedRef(j) = x /\ RevivedItem(j) = x /\ RevivedField(j) = x
         /\ x # Null
         /\ j = Null => x = Failed
         /\ j # Null => /\ JsonLeaf(x) /\ x # Failed
                        /\ "string" \in DOMAIN x => x = j
                        /\ ("number" \in DOMAIN j => Float64(j.number) = j.number) => x = j
<1>1. DOMAIN j \in {{"null"}, {"string"}, {"boolean"}, {"number"}, {"prefix", "index"}}
  BY Shapes DEF JsonLeaf, Holds
<1>2. Inside(j) = <<>>
  BY LeafShape
<1>3. Each(j, RevivedLeaf) = <<>> /\ Each(j, RevivedRef) = <<>> /\ Each(j, RevivedItem) = <<>>
  BY <1>2 DEF Each
<1>4. RevivedRef(j) = x /\ RevivedItem(j) = x /\ RevivedField(j) = x
  BY <1>3 DEF RevivedRef, RevivedItem, RevivedField, RevivedLeaf
<1>5. x = IF j = Null THEN Failed ELSE IF "number" \in DOMAIN j THEN Number(Float64(j.number)) ELSE j
  <2>1. RangeOf(<<>>) = {}
    BY DEF RangeOf
  <2>2. QED
    BY <1>1, <2>1 DEF RevivedLeaf, Reviver
<1>6. CASE j = Null
  BY <1>4, <1>5, <1>6, Apart
<1>7. CASE j # Null /\ "number" \in DOMAIN j
  <2> DEFINE n == Float64(j.number)
  <2>1. x = Number(n) /\ DOMAIN x = {"number"} /\ x = Only("number", x["number"])
    BY <1>5, <1>7 DEF Number, Only
  <2>2. JsonLeaf(x)
    BY <2>1 DEF JsonLeaf, Holds
  <2>3. x # Null /\ x # Failed
    BY <2>1, Apart
  <2>4. n = j.number => x = j
    <3>1. Holds(j, "number")
      BY <1>1, <1>7, Shapes DEF JsonLeaf, Holds
    <3>2. QED
      BY <2>1, <3>1, Held
  <2>5. QED
    BY <1>4, <1>7, <2>1, <2>2, <2>3, <2>4
<1>8. CASE j # Null /\ "number" \notin DOMAIN j
  BY <1>4, <1>5, <1>8, LeafShape
<1>9. QED
  BY <1>6, <1>7, <1>8

LEMMA LeafReplaced ==
  ASSUME NEW x, JsonLeaf(x)
  PROVE  ReplacedRef(x) = x /\ ReplacedItem(x) = x /\ ReplacedField(x) = x
<1>1. "object" \notin DOMAIN x /\ "array" \notin DOMAIN x /\ "ref" \notin DOMAIN x
  BY LeafShape
<1>2. \A outer : Replacer(x, outer) = x
  BY <1>1 DEF Replacer
<1>3. QED
  BY <1>2 DEF ReplacedRef, ReplacedItem, ReplacedField

(* The text of a reference is read at any level: TypeScript makes an       *)
(* object of its own of it, unless it names another file.                  *)
LEMMA TextRevived ==
  ASSUME NEW j, MadeText(j), NEW x, x = RevivedRef(j)
  PROVE  /\ RevivedItem(j) = x /\ RevivedField(j) = x
         /\ ReplacedRef(x) = j /\ ReplacedItem(x) = j /\ ReplacedField(x) = j
         /\ x \notin {Null, Failed} /\ "prefix" \notin DOMAIN x
         /\ \A i : j = Object(Only("$ref", RefText(<<"">>, i))) => x = TypeReference(i)
         /\ \A p, i : j = Object(Only("$ref", RefText(p, i))) /\ p # <<"">> => x = j
<1>0. PICK p, i : j = Object(Only("$ref", RefText(p, i))) /\ PathText(p) /\ i \in Int
  BY DEF MadeText
<1> DEFINE text == RefText(p, i)
           given == Only("$ref", text)
<1>1. DOMAIN j = {"object"} /\ j.object = given /\ Inside(j) = given /\ Holds(j, "object")
  BY <1>0, Shapes DEF Inside, Holds, Object, Only
<1>3. DOMAIN text = {"prefix", "index"} /\ text.prefix = p /\ text.index = i /\ text = RefText(p, i)
  BY DEF RefText
<1>2. JsonLeaf(text) /\ "number" \notin DOMAIN text /\ text # Null /\ text # Failed
  <2> HIDE DEF text
  <2>1. text # Null /\ text # Failed
    BY <1>3, Apart
  <2>2. QED
    BY <1>0, <1>3, <2>1 DEF JsonLeaf
<1>4. DOMAIN given = {"$ref"} /\ given["$ref"] = text /\ given = [n \in DOMAIN given |-> given[n]]
  BY DEF Only
<1> HIDE DEF text
<1>5. /\ RevivedLeaf(text) = text /\ RevivedRef(text) = text /\ RevivedItem(text) = text
      /\ ReplacedRef(text) = text /\ ReplacedItem(text) = text
  BY <1>2, LeafRevived, LeafReplaced
<1> HIDE DEF given
<1>6. Each(j, RevivedLeaf) = given /\ Each(j, RevivedRef) = given /\ Each(j, RevivedItem) = given
  BY <1>1, <1>4, <1>5 DEF Each
<1>7. Failed \notin RangeOf(given) /\ (IsText(given) <=> p = <<"">>)
  BY <1>2, <1>3, <1>4 DEF RangeOf, IsText
<1>8. /\ p = <<"">> => Reviver(j, given) = TypeReference(i)
      /\ p # <<"">> => Reviver(j, given) = j
      /\ Reviver(j, given) \notin {Null, Failed}
  <2>1. j = Object(given)
    BY <1>1, Shapes, Held
  <2>2. QED
    BY <1>1, <1>3, <1>4, <1>7, <2>1, Revive
<1>9. x = Reviver(j, given) /\ RevivedItem(j) = x /\ RevivedField(j) = x
  BY <1>6 DEF RevivedRef, RevivedItem, RevivedField
<1>10. \A q, n : j = Object(Only("$ref", RefText(q, n))) => q = p /\ n = i
  <2>1. ASSUME NEW q, NEW n, j = Object(Only("$ref", RefText(q, n))) PROVE q = p /\ n = i
    <3>1. j.object["$ref"] = RefText(q, n)
      BY <2>1, Shapes
    <3>2. text = RefText(q, n)
      BY <1>1, <1>4, <3>1
    <3>3. QED
      BY <1>3, <3>2, Shapes
  <2>2. QED
    BY <2>1
<1>11. CASE p = <<"">>
  <2>0. x = TypeReference(i) /\ x \notin {Null, Failed}
    BY <1>8, <1>9, <1>11, Zenon
  <2>1. DOMAIN x = {"ref"} /\ x.ref = i /\ x = TypeReference(i) /\ x \notin {Null, Failed}
    BY <2>0, Shapes
  <2>2. \A outer : Replacer(x, outer) = ReferenceJson(x)
    BY <2>1 DEF Replacer
  <2>3. ReferenceJson(x) = j
    BY <1>0, <1>11, <2>1 DEF ReferenceJson
  <2>4. QED
    BY <1>9, <1>10, <1>11, <2>1, <2>2, <2>3 DEF ReplacedRef, ReplacedItem, ReplacedField
<1>12. CASE p # <<"">>
  <2>0. x = j
    BY <1>8, <1>9, <1>12
  <2>1. Inside(x) = given /\ Each(x, ReplacedRef) = given /\ Each(x, ReplacedItem) = given /\ x = Object(given)
    BY <1>1, <1>4, <1>5, <2>0, Held DEF Each
  <2>2. Replacer(Object(given), given) = Object(given)
    <3>1. \A n \in DOMAIN given : given[n] # Null
      BY <1>2, <1>4
    <3>2. QED
      BY <1>4, <3>1, Replace
  <2>3. RevivedItem(j) = x /\ RevivedField(j) = x /\ x \notin {Null, Failed}
    BY <1>8, <1>9, Zenon
  <2>6. "prefix" \notin DOMAIN x
    BY <1>1, <2>0
  <2>4. ReplacedRef(x) = j /\ ReplacedItem(x) = j /\ ReplacedField(x) = j
    BY <2>0, <2>1, <2>2 DEF ReplacedRef, ReplacedItem, ReplacedField
  <2>5. QED
    BY <1>10, <1>12, <2>0, <2>3, <2>4, <2>6
<1>13. QED
  BY <1>11, <1>12

(* TypeScript writes what programs write as it has read it.                *)
LEMMA MadeLeafKept ==
  ASSUME NEW j, MadeLeaf(j), NEW x, x = RevivedRef(j)
  PROVE  /\ RevivedItem(j) = x /\ RevivedField(j) = x /\ x # Null /\ "prefix" \notin DOMAIN x
         /\ x # Failed => ReplacedRef(x) = j /\ ReplacedItem(x) = j /\ ReplacedField(x) = j
<1>1. CASE MadeText(j)
  BY <1>1, TextRevived
<1>2. CASE JsonLeaf(j) /\ "prefix" \notin DOMAIN j /\ ("number" \in DOMAIN j => Float64(j.number) = j.number)
  <2> DEFINE y == RevivedLeaf(j)
  <2>1. /\ RevivedRef(j) = y /\ RevivedItem(j) = y /\ RevivedField(j) = y /\ y # Null
        /\ j = Null => y = Failed
        /\ j # Null => y = j
    BY <1>2, LeafRevived
  <2>2. "prefix" \notin DOMAIN Failed
    BY Shapes
  <2>3. ReplacedRef(j) = j /\ ReplacedItem(j) = j /\ ReplacedField(j) = j
    BY <1>2, LeafReplaced
  <2> HIDE DEF y
  <2>4. QED
    BY <1>2, <2>1, <2>2, <2>3
<1>3. QED
  BY <1>1, <1>2 DEF MadeLeaf

LEMMA Content ==
  ASSUME NEW j, Holds(j, "object") \/ Holds(j, "array")
  PROVE  /\ Holds(j, "object") => Inside(j) = j.object /\ j = Object(Inside(j)) /\ DOMAIN j = {"object"}
         /\ Holds(j, "array") => Inside(j) = j.array /\ j = Array(Inside(j)) /\ DOMAIN j = {"array"}
<1>1. CASE Holds(j, "object")
  <2>1. DOMAIN j = {"object"} /\ j = Object(j.object)
    BY <1>1, Held
  <2>2. Inside(j) = j.object
    BY <2>1 DEF Inside
  <2>3. QED
    BY <2>1, <2>2 DEF Holds
<1>2. CASE Holds(j, "array")
  <2>1. DOMAIN j = {"array"} /\ j = Array(j.array)
    BY <1>2, Held
  <2>2. Inside(j) = j.array
    BY <2>1 DEF Inside
  <2>3. QED
    BY <2>1, <2>2 DEF Holds
<1>3. QED
  BY <1>1, <1>2

LEMMA Nowhere ==
  /\ "prefix" \notin DOMAIN Failed /\ Failed # Null
  /\ \A m : /\ "prefix" \notin DOMAIN Object(m) /\ Object(m) # Null
            /\ "prefix" \notin DOMAIN Array(m) /\ Array(m) # Null
BY DEF Failed, Null, Object, Array

LEMMA MadeItemKept ==
  ASSUME NEW j, MadeItem(j), NEW x, x = RevivedItem(j)
  PROVE  /\ x # Null /\ "prefix" \notin DOMAIN x
         /\ x # Failed => ReplacedItem(x) = j
<1>1. CASE j = Null
  <2>1. JsonLeaf(j) /\ "prefix" \notin DOMAIN Failed
    BY <1>1, Shapes DEF JsonLeaf
  <2> DEFINE y == RevivedLeaf(j)
  <2>2. RevivedItem(j) = y /\ y = Failed
    BY <1>1, <2>1, LeafRevived
  <2> HIDE DEF y
  <2>3. QED
    BY <2>1, <2>2, Apart
<1>2. CASE MadeText(j)
  <2> DEFINE y == RevivedRef(j)
  <2>1. RevivedItem(j) = y /\ y # Null /\ "prefix" \notin DOMAIN y /\ ReplacedItem(y) = j
    BY <1>2, TextRevived
  <2> HIDE DEF y
  <2>2. QED
    BY <2>1
<1>3. CASE MadeObject(j)
  <2> DEFINE m == j.object
             inner == Each(j, RevivedRef)
             outer == Each(Object(inner), ReplacedRef)
  <2>1. Holds(j, "object") /\ Inside(j) = m /\ m = [n \in DOMAIN m |-> m[n]] /\ j = Object(m)
    <3>1. Holds(j, "object") /\ m = [n \in DOMAIN m |-> m[n]]
      BY <1>3 DEF MadeObject, FieldsOf
    <3>2. QED
      BY <3>1, Content
  <2>2. inner = [n \in DOMAIN m |-> inner[n]] /\ DOMAIN inner = DOMAIN m
        /\ \A n \in DOMAIN m : inner[n] = RevivedRef(m[n])
    BY <2>1 DEF Each
  <2>3. Inside(Object(inner)) = inner
    BY Shapes DEF Inside
  <2>4. outer = [n \in DOMAIN inner |-> outer[n]] /\ \A n \in DOMAIN inner : outer[n] = ReplacedRef(inner[n])
    BY <2>3 DEF Each
  <2>5. RevivedItem(j) = Reviver(j, inner) /\ ReplacedItem(Object(inner)) = Replacer(Object(inner), outer)
    BY DEF RevivedItem, ReplacedItem
  <2> HIDE DEF m, inner, outer
  <2>6. ASSUME NEW n \in DOMAIN m
        PROVE  /\ inner[n] # Null /\ "prefix" \notin DOMAIN inner[n]
               /\ inner[n] # Failed => outer[n] = m[n]
    <3>1. MadeLeaf(m[n])
      BY <1>3 DEF MadeObject, m
    <3> DEFINE y == RevivedRef(m[n])
    <3>2. y # Null /\ "prefix" \notin DOMAIN y /\ (y # Failed => ReplacedRef(y) = m[n])
      BY <3>1, MadeLeafKept
    <3>3. inner[n] = y /\ outer[n] = ReplacedRef(inner[n])
      BY <2>2, <2>4
    <3> HIDE DEF y
    <3>4. QED
      BY <3>2, <3>3
  <2>7. ~IsText(inner)
    BY <2>2, <2>6 DEF IsText
  <2>8. CASE Failed \in RangeOf(inner)
    <3>1. x = Failed
      BY <2>1, <2>5, <2>8, Revive
    <3>2. QED
      BY <3>1, Nowhere
  <2>9. CASE Failed \notin RangeOf(inner)
    <3>1. x = Object(inner)
      BY <2>1, <2>5, <2>7, <2>9, Revive
    <3>2. outer = m
      BY <2>1, <2>2, <2>4, <2>6, <2>9 DEF RangeOf
    <3>3. \A n \in DOMAIN inner : inner[n] # Null
      BY <2>2, <2>6
    <3>4. Replacer(Object(inner), outer) = Object(outer)
      BY <2>4, <3>3, Replace
    <3>5. ReplacedItem(x) = j
      BY <2>1, <2>5, <3>1, <3>2, <3>4
    <3>6. QED
      BY <3>1, <3>5, Nowhere
  <2>10. QED
    BY <2>8, <2>9
<1>4. QED
  BY <1>1, <1>2, <1>3 DEF MadeItem

LEMMA MadeFieldKept ==
  ASSUME NEW j, MadeField(j), NEW x, x = RevivedField(j)
  PROVE  /\ x # Null
         /\ x # Failed => ReplacedField(x) = j
<1>1. CASE MadeLeaf(j)
  <2> DEFINE y == RevivedRef(j)
  <2>1. RevivedField(j) = y /\ y # Null /\ (y # Failed => ReplacedField(y) = j)
    BY <1>1, MadeLeafKept
  <2> HIDE DEF y
  <2>2. QED
    BY <2>1
<1>2. CASE MadeWhole(j)
  <2> DEFINE m == Inside(j)
             inner == Each(j, RevivedItem)
  <2>1. (Holds(j, "object") \/ Holds(j, "array")) /\ m = [n \in DOMAIN m |-> m[n]]
    BY <1>2 DEF MadeWhole, FieldsOf
  <2>2. inner = [n \in DOMAIN m |-> inner[n]] /\ DOMAIN inner = DOMAIN m
        /\ \A n \in DOMAIN m : inner[n] = RevivedItem(m[n])
    BY DEF Each
  <2>3. RevivedField(j) = Reviver(j, inner)
    BY DEF RevivedField
  <2>4. /\ Holds(j, "object") => j = Object(m)
        /\ Holds(j, "array") => j = Array(m)
    BY <2>1, Content
  <2> HIDE DEF m, inner
  <2>5. ASSUME NEW n \in DOMAIN m
        PROVE  /\ inner[n] # Null /\ "prefix" \notin DOMAIN inner[n]
               /\ inner[n] # Failed => ReplacedItem(inner[n]) = m[n]
    <3>1. MadeItem(m[n])
      BY <1>2 DEF MadeWhole, m
    <3> DEFINE y == RevivedItem(m[n])
    <3>2. y # Null /\ "prefix" \notin DOMAIN y /\ (y # Failed => ReplacedItem(y) = m[n])
      BY <3>1, MadeItemKept
    <3>3. inner[n] = y
      BY <2>2
    <3> HIDE DEF y
    <3>4. QED
      BY <3>2, <3>3
  <2>6. ~IsText(inner)
    BY <2>2, <2>5 DEF IsText
  <2>7. CASE Failed \in RangeOf(inner)
    <3>1. x = Failed
      BY <2>1, <2>3, <2>7, Revive
    <3>2. QED
      BY <3>1, Apart
  <2>8. CASE Failed \notin RangeOf(inner)
    <3>1. \A n \in DOMAIN inner : inner[n] # Null /\ ReplacedItem(inner[n]) = m[n]
      BY <2>2, <2>5, <2>8 DEF RangeOf
    <3>2. /\ Holds(j, "object") => x = Object(inner)
          /\ Holds(j, "array") => x = Array(inner)
      BY <2>1, <2>3, <2>6, <2>8, Revive
    <3>3. Inside(x) = inner
      BY <2>1, <3>2, Shapes DEF Inside
    <3>4. Each(x, ReplacedItem) = m
      BY <2>1, <2>2, <3>1, <3>3 DEF Each
    <3>5. ReplacedField(x) = Replacer(x, m)
      BY <3>4 DEF ReplacedField
    <3>6. m = [n \in DOMAIN inner |-> m[n]]
      BY <2>1, <2>2
    <3>7. Replacer(Object(inner), m) = Object(m) /\ Replacer(Array(inner), m) = Array(m)
      BY <3>1, <3>6, Replace
    <3>8. ReplacedField(x) = j
      BY <2>1, <2>4, <3>2, <3>5, <3>7
    <3>9. QED
      BY <2>1, <3>2, <3>8, Apart
  <2>9. QED
    BY <2>7, <2>8
<1>3. QED
  BY <1>1, <1>2 DEF MadeField

(* The fields of a type that TypeScript reads.                             *)
LEMMA TsRead ==
  ASSUME NEW j, Holds(j, "object"), "$type" \in DOMAIN j.object, Holds(j.object["$type"], "string"),
         "$ref" \notin DOMAIN j.object,
         NEW inner, inner = [n \in DOMAIN j.object |-> RevivedField(j.object[n])]
  PROVE  /\ Failed \in RangeOf(inner) => readTypesJson(j) = Failed
         /\ Failed \notin RangeOf(inner) =>
              /\ readTypesJson(j) = [kind |-> j.object["$type"].string,
                                     fields |-> [name \in DOMAIN j.object \ {"$type"} |-> inner[name]]]
              /\ readTypesJson(j) # Failed
<1>1. Inside(j) = j.object
  <2>1. DOMAIN j = {"object"}
    BY DEF Holds
  <2>2. QED
    BY <2>1 DEF Inside
<1>2. Each(j, RevivedField) = inner /\ DOMAIN inner = DOMAIN j.object
  BY <1>1 DEF Each
<1>3. inner["$type"] = j.object["$type"]
  <2> DEFINE s == j.object["$type"]
             y == RevivedLeaf(s)
  <2>1. JsonLeaf(s)
    BY DEF JsonLeaf
  <2>2. s # Null /\ "number" \notin DOMAIN s
    BY Shapes DEF Holds
  <2>3. inner["$type"] = RevivedField(s)
    BY <1>2
  <2> HIDE DEF s
  <2>4. RevivedField(s) = y /\ y = s
    BY <2>1, <2>2, LeafRevived
  <2>5. QED
    BY <2>3, <2>4 DEF s
<1>4. ~IsText(inner)
  BY <1>2 DEF IsText
<1> HIDE DEF IsText
<1> DEFINE v == Reviver(j, inner)
<1>5. /\ Failed \in RangeOf(inner) => v = Failed
      /\ Failed \notin RangeOf(inner) => v = Object(inner) /\ v # Failed
  BY <1>4, Revive
<1>6. readTypesJson(j) = IF v = Failed THEN Failed
                         ELSE [kind |-> v.object["$type"].string,
                               fields |-> [name \in DOMAIN v.object \ {"$type"} |-> v.object[name]]]
  BY <1>2 DEF readTypesJson
<1>7. Object(inner).object = inner
  BY Shapes
<1> HIDE DEF v
<1>8. CASE Failed \in RangeOf(inner)
  BY <1>5, <1>6, <1>8
<1>9. CASE Failed \notin RangeOf(inner)
  <2>1. v # Failed /\ v.object = inner
    BY <1>5, <1>7, <1>9
  <2>2. readTypesJson(j) = [kind |-> inner["$type"].string,
                            fields |-> [name \in DOMAIN inner \ {"$type"} |-> inner[name]]]
    BY <1>6, <2>1
  <2>3. QED
    BY <1>2, <1>3, <1>9, <2>2, TypeShape
<1>10. QED
  BY <1>8, <1>9

(* What TypeScript reads of a program's type, it writes as it was.         *)
LEMMA MadeTypeKept ==
  ASSUME NEW j, MadeType(j), readTypesJson(j) # Failed
  PROVE  writeTypesJson(readTypesJson(j)) = j
<1> DEFINE m == j.object
           inner == [n \in DOMAIN m |-> RevivedField(m[n])]
           f == [name \in DOMAIN m \ {"$type"} |-> inner[name]]
           k == m["$type"].string
           t == [kind |-> k, fields |-> f]
<1>1. j = Object(m) /\ m = [n \in DOMAIN m |-> m[n]] /\ "$type" \in DOMAIN m /\ m["$type"] = String(k)
  BY Held DEF MadeType, FieldsOf
<1>2. Failed \notin RangeOf(inner) /\ readTypesJson(j) = t
  BY TsRead DEF MadeType
<1>3. t.kind = k /\ t.fields = f
  OBVIOUS
<1>4. ASSUME NEW n \in DOMAIN m PROVE inner[n] # Null /\ ReplacedField(inner[n]) = m[n]
  <2> DEFINE y == RevivedField(m[n])
  <2>1. MadeField(m[n])
    BY DEF MadeType
  <2>2. y # Null /\ (y # Failed => ReplacedField(y) = m[n])
    BY <2>1, MadeFieldKept
  <2>3. inner[n] = y /\ inner[n] # Failed
    BY <1>2 DEF RangeOf
  <2> HIDE DEF y, inner
  <2>4. QED
    BY <2>2, <2>3
<1>5. DOMAIN f = DOMAIN m \ {"$type"} /\ \A n \in DOMAIN f : f[n] = inner[n]
  OBVIOUS
<1> HIDE DEF inner, f, k, m, t
<1>6. {n \in DOMAIN f : f[n] # Null} \cup {"$type"} = DOMAIN m
  BY <1>1, <1>4, <1>5
<1>7. writeTypesJson(t) = Object([name \in {n \in DOMAIN f : f[n] # Null} \cup {"$type"} |->
                                    IF name = "$type" THEN String(k) ELSE ReplacedField(f[name])])
  BY <1>3 DEF writeTypesJson
<1>8. \A name \in DOMAIN m : (IF name = "$type" THEN String(k) ELSE ReplacedField(f[name])) = m[name]
  BY <1>1, <1>4, <1>5
<1>9. [name \in DOMAIN m |-> IF name = "$type" THEN String(k) ELSE ReplacedField(f[name])] = m
  BY <1>1, <1>8
<1>10. QED
  BY <1>1, <1>2, <1>6, <1>7, <1>9

(* What a person wrote is still a type when TypeScript has read and        *)
(* written it: nothing else becomes a string or the text of a reference.   *)
Same(x, y, j) ==
  /\ "string" \in DOMAIN y => y = j
  /\ "prefix" \in DOMAIN x => JsonLeaf(x)

LEMMA ReferenceStays ==
  ASSUME NEW i \in Int \cup {Garbled}, NEW x, x = TypeReference(i)
  PROVE  \A y \in {ReplacedRef(x), ReplacedItem(x), ReplacedField(x)} :
           /\ JsonRef(y) /\ JsonItem(y) /\ JsonField(y) /\ "string" \notin DOMAIN y
<1> DEFINE text == RefText(<<"">>, i)
           given == Only("$ref", text)
           y == Object(given)
<1>1. DOMAIN x = {"ref"} /\ x.ref = i
  BY Shapes
<1>2. \A outer : Replacer(x, outer) = ReferenceJson(x)
  BY <1>1 DEF Replacer
<1>3. ReferenceJson(x) = y
  BY <1>1 DEF ReferenceJson
<1>4. ReplacedRef(x) = y /\ ReplacedItem(x) = y /\ ReplacedField(x) = y
  BY <1>2, <1>3 DEF ReplacedRef, ReplacedItem, ReplacedField
<1>5. DOMAIN text = {"prefix", "index"} /\ text.prefix = <<"">> /\ text.index = i /\ text = RefText(text.prefix, text.index)
  BY DEF RefText
<1>6. Holds(y, "object") /\ DOMAIN y = {"object"} /\ y.object = given
  BY DEF Object, Holds, Only
<1>7. DOMAIN given = {"$ref"} /\ given["$ref"] = text /\ given = [n \in DOMAIN given |-> given[n]]
  BY DEF Only
<1> HIDE DEF text, given, y
<1>8. JsonLeaf(text)
  BY <1>5, Paths DEF JsonLeaf
<1>9. Inside(y) = given /\ RangeOf(given) = {text}
  BY <1>6, <1>7, Content DEF RangeOf
<1>10. Container(y)
  <2>1. Lookup(given, "relativePath") = Missing /\ "string" \notin DOMAIN Missing
    BY <1>7, Shapes DEF Lookup
  <2>2. QED
    BY <1>6, <1>7, <1>9, <2>1 DEF Container, FieldsOf
<1>11. JsonRef(y) /\ JsonItem(y) /\ JsonField(y)
  BY <1>8, <1>9, <1>10 DEF JsonRef, JsonItem, JsonField
<1>12. QED
  BY <1>4, <1>6, <1>11

LEMMA ContainerStays ==
  ASSUME NEW j, Container(j), NEW inner, DOMAIN inner = DOMAIN Inside(j), Failed \notin RangeOf(inner),
         NEW x, x = Reviver(j, inner),
         NEW outer, outer = [n \in DOMAIN inner |-> outer[n]],
         \A n \in DOMAIN inner : inner[n] # Null /\ Same(inner[n], outer[n], Inside(j)[n])
  PROVE  /\ x # Null /\ "prefix" \notin DOMAIN x
         /\ \/ \E i \in Int \cup {Garbled} : x = TypeReference(i)
            \/ /\ Inside(x) = inner /\ Container(Replacer(x, outer)) /\ Inside(Replacer(x, outer)) = outer
               /\ "string" \notin DOMAIN Replacer(x, outer)
<1>1. Holds(j, "object") \/ Holds(j, "array")
  BY DEF Container
<1>2. x # Null
  BY <1>1, Revive
<1>3. Replacer(Object(inner), outer) = Object(outer) /\ Replacer(Array(inner), outer) = Array(outer)
  BY Replace
<1>4. CASE Holds(j, "object") /\ IsText(inner)
  <2>1. x = TypeReference(inner["$ref"].index)
    BY <1>4, Revive
  <2>2. JsonLeaf(inner["$ref"]) /\ "prefix" \in DOMAIN inner["$ref"]
    BY <1>4 DEF IsText, Same
  <2>3. inner["$ref"].index \in Int \cup {Garbled}
    BY <2>2, Shapes DEF JsonLeaf, Holds
  <2>4. "prefix" \notin DOMAIN x
    BY <2>1, Shapes
  <2>5. QED
    BY <1>2, <2>1, <2>3, <2>4
<1>5. CASE Holds(j, "object") /\ ~IsText(inner)
  <2> DEFINE y == Object(outer)
  <2>1. x = Object(inner) /\ Replacer(x, outer) = y
    BY <1>3, <1>5, Revive
  <2>2. Inside(x) = inner /\ "prefix" \notin DOMAIN x
    BY <2>1, Shapes DEF Inside
  <2>3. Holds(y, "object") /\ DOMAIN y = {"object"} /\ y.object = outer
    BY DEF Object, Holds, Only
  <2> HIDE DEF y
  <2>4. Inside(y) = outer
    BY <2>3 DEF Inside
  <2>5. "string" \in DOMAIN Lookup(outer, "relativePath") => PathText(Lookup(outer, "relativePath").string)
    <3>1. "string" \notin DOMAIN Missing
      BY Shapes
    <3>2. j.object = Inside(j) /\ "object" \in DOMAIN j
      BY <1>5, Content
    <3>3. CASE "relativePath" \in DOMAIN outer /\ "string" \in DOMAIN outer["relativePath"]
      <4>1. outer["relativePath"] = Inside(j)["relativePath"] /\ "relativePath" \in DOMAIN Inside(j)
        BY <3>3 DEF Same
      <4>2. QED
        BY <3>2, <3>3, <4>1 DEF Container, Lookup
    <3>4. QED
      BY <3>1, <3>3 DEF Lookup
  <2>6. Container(y)
    BY <2>3, <2>4, <2>5 DEF Container, FieldsOf
  <2>7. QED
    BY <1>2, <2>1, <2>2, <2>3, <2>4, <2>6
<1>6. CASE Holds(j, "array")
  <2> DEFINE y == Array(outer)
  <2>1. x = Array(inner) /\ Replacer(x, outer) = y
    BY <1>3, <1>6, Revive
  <2>2. Inside(x) = inner /\ "prefix" \notin DOMAIN x
    BY <2>1, Shapes DEF Inside
  <2>3. Holds(y, "array") /\ DOMAIN y = {"array"} /\ y.array = outer
    BY DEF Array, Holds, Only
  <2> HIDE DEF y
  <2>4. Inside(y) = outer
    BY <2>3 DEF Inside
  <2>5. Container(y)
    BY <2>3, <2>4 DEF Container, FieldsOf
  <2>6. QED
    BY <1>2, <2>1, <2>2, <2>3, <2>4, <2>5
<1>7. QED
  BY <1>1, <1>4, <1>5, <1>6

LEMMA RefStays ==
  ASSUME NEW j, JsonRef(j), NEW x, x = RevivedRef(j), x # Failed, NEW y, y = ReplacedRef(x)
  PROVE  JsonRef(y) /\ x # Null /\ Same(x, y, j)
<1>1. CASE JsonLeaf(j)
  <2>1. x # Null /\ JsonLeaf(x) /\ ("string" \in DOMAIN x => x = j)
    BY <1>1, LeafRevived
  <2>2. y = x
    BY <2>1, LeafReplaced
  <2>3. QED
    BY <2>1, <2>2 DEF JsonRef, Same
<1>2. CASE ~JsonLeaf(j)
  <2> DEFINE inner == Each(j, RevivedLeaf)
             outer == inner
  <2>1. Container(j) /\ \A v \in RangeOf(Inside(j)) : JsonLeaf(v)
    BY <1>2 DEF JsonRef
  <2>2. inner = [n \in DOMAIN inner |-> inner[n]] /\ DOMAIN inner = DOMAIN Inside(j)
        /\ (\A n \in DOMAIN inner : inner[n] = RevivedLeaf(Inside(j)[n]))
        /\ x = Reviver(j, inner)
    BY DEF Each, RevivedRef
  <2>3. outer = [n \in DOMAIN inner |-> outer[n]] /\ outer = inner
    BY <2>2
  <2> HIDE DEF inner, outer
  <2>4. ASSUME NEW n \in DOMAIN inner, inner[n] # Failed
        PROVE  JsonLeaf(outer[n]) /\ inner[n] # Null /\ Same(inner[n], outer[n], Inside(j)[n])
    <3> DEFINE u == inner[n]
               v == outer[n]
               w == Inside(j)[n]
    <3>1. JsonLeaf(w)
      BY <2>1, <2>2 DEF RangeOf
    <3>2. u = RevivedLeaf(w) /\ v = u /\ u # Failed
      BY <2>2, <2>3, <2>4
    <3> HIDE DEF u, v, w
    <3>3. JsonLeaf(v) /\ u # Null /\ Same(u, v, w)
      BY <3>1, <3>2, LeafRevived DEF Same
    <3>4. QED
      BY <3>3 DEF u, v, w
  <2>5. Failed \notin RangeOf(inner)
    <3>1. Holds(j, "object") \/ Holds(j, "array")
      BY <2>1 DEF Container
    <3>2. QED
      BY <2>2, <3>1, Revive
  <2>6. \A n \in DOMAIN inner : JsonLeaf(outer[n]) /\ inner[n] # Null /\ Same(inner[n], outer[n], Inside(j)[n])
    BY <2>4, <2>5 DEF RangeOf
  <2>7. x # Null /\ "prefix" \notin DOMAIN x
        /\ \/ \E i \in Int \cup {Garbled} : x = TypeReference(i)
           \/ /\ Inside(x) = inner /\ Container(Replacer(x, outer)) /\ Inside(Replacer(x, outer)) = outer
              /\ "string" \notin DOMAIN Replacer(x, outer)
    BY <2>1, <2>2, <2>3, <2>5, <2>6, ContainerStays
  <2>8. CASE \E i \in Int \cup {Garbled} : x = TypeReference(i)
    BY <2>7, <2>8, ReferenceStays DEF Same
  <2>9. CASE /\ Inside(x) = inner /\ Container(Replacer(x, outer)) /\ Inside(Replacer(x, outer)) = outer
             /\ "string" \notin DOMAIN Replacer(x, outer)
    <3>1. y = Replacer(x, outer)
      BY <2>3, <2>9 DEF ReplacedRef
    <3>2. \A v \in RangeOf(Inside(y)) : JsonLeaf(v)
      BY <2>3, <2>6, <2>9, <3>1 DEF RangeOf
    <3>3. QED
      BY <2>7, <2>9, <3>1, <3>2 DEF JsonRef, Same
  <2>10. QED
    BY <2>7, <2>8, <2>9
<1>3. QED
  BY <1>1, <1>2

LEMMA ItemStays ==
  ASSUME NEW j, JsonItem(j), NEW x, x = RevivedItem(j), x # Failed, NEW y, y = ReplacedItem(x)
  PROVE  JsonItem(y) /\ x # Null /\ Same(x, y, j)
<1>1. CASE JsonLeaf(j)
  <2>1. x # Null /\ JsonLeaf(x) /\ ("string" \in DOMAIN x => x = j)
    BY <1>1, LeafRevived
  <2>2. y = x
    BY <2>1, LeafReplaced
  <2>3. QED
    BY <2>1, <2>2 DEF JsonItem, Same
<1>2. CASE ~JsonLeaf(j)
  <2> DEFINE inner == Each(j, RevivedRef)
             outer == [n \in DOMAIN inner |-> ReplacedRef(inner[n])]
  <2>1. Container(j) /\ \A v \in RangeOf(Inside(j)) : JsonRef(v)
    BY <1>2 DEF JsonItem
  <2>2. inner = [n \in DOMAIN inner |-> inner[n]] /\ DOMAIN inner = DOMAIN Inside(j)
        /\ (\A n \in DOMAIN inner : inner[n] = RevivedRef(Inside(j)[n]))
        /\ x = Reviver(j, inner)
    BY DEF Each, RevivedItem
  <2>3. outer = [n \in DOMAIN inner |-> outer[n]] /\ \A n \in DOMAIN inner : outer[n] = ReplacedRef(inner[n])
    OBVIOUS
  <2> HIDE DEF inner, outer
  <2>4. ASSUME NEW n \in DOMAIN inner, inner[n] # Failed
        PROVE  JsonRef(outer[n]) /\ inner[n] # Null /\ Same(inner[n], outer[n], Inside(j)[n])
    <3> DEFINE u == inner[n]
               v == outer[n]
               w == Inside(j)[n]
    <3>1. JsonRef(w)
      BY <2>1, <2>2 DEF RangeOf
    <3>2. u = RevivedRef(w) /\ v = ReplacedRef(u) /\ u # Failed
      BY <2>2, <2>3, <2>4
    <3> HIDE DEF u, v, w
    <3>3. JsonRef(v) /\ u # Null /\ Same(u, v, w)
      BY <3>1, <3>2, RefStays
    <3>4. QED
      BY <3>3 DEF u, v, w
  <2>5. Failed \notin RangeOf(inner)
    <3>1. Holds(j, "object") \/ Holds(j, "array")
      BY <2>1 DEF Container
    <3>2. QED
      BY <2>2, <3>1, Revive
  <2>6. \A n \in DOMAIN inner : JsonRef(outer[n]) /\ inner[n] # Null /\ Same(inner[n], outer[n], Inside(j)[n])
    BY <2>4, <2>5 DEF RangeOf
  <2>7. x # Null /\ "prefix" \notin DOMAIN x
        /\ \/ \E i \in Int \cup {Garbled} : x = TypeReference(i)
           \/ /\ Inside(x) = inner /\ Container(Replacer(x, outer)) /\ Inside(Replacer(x, outer)) = outer
              /\ "string" \notin DOMAIN Replacer(x, outer)
    BY <2>1, <2>2, <2>3, <2>5, <2>6, ContainerStays
  <2>8. CASE \E i \in Int \cup {Garbled} : x = TypeReference(i)
    BY <2>7, <2>8, ReferenceStays DEF Same
  <2>9. CASE /\ Inside(x) = inner /\ Container(Replacer(x, outer)) /\ Inside(Replacer(x, outer)) = outer
             /\ "string" \notin DOMAIN Replacer(x, outer)
    <3>1. y = Replacer(x, outer)
      BY <2>3, <2>9 DEF ReplacedItem, Each
    <3>2. \A v \in RangeOf(Inside(y)) : JsonRef(v)
      BY <2>3, <2>6, <2>9, <3>1 DEF RangeOf
    <3>3. QED
      BY <2>7, <2>9, <3>1, <3>2 DEF JsonItem, Same
  <2>10. QED
    BY <2>7, <2>8, <2>9
<1>3. QED
  BY <1>1, <1>2

LEMMA FieldStays ==
  ASSUME NEW j, JsonField(j), NEW x, x = RevivedField(j), x # Failed, NEW y, y = ReplacedField(x)
  PROVE  JsonField(y) /\ x # Null /\ Same(x, y, j)
<1>1. CASE JsonLeaf(j)
  <2>1. x # Null /\ JsonLeaf(x) /\ ("string" \in DOMAIN x => x = j)
    BY <1>1, LeafRevived
  <2>2. y = x
    BY <2>1, LeafReplaced
  <2>3. QED
    BY <2>1, <2>2 DEF JsonField, Same
<1>2. CASE ~JsonLeaf(j)
  <2> DEFINE inner == Each(j, RevivedItem)
             outer == [n \in DOMAIN inner |-> ReplacedItem(inner[n])]
  <2>1. Container(j) /\ \A v \in RangeOf(Inside(j)) : JsonItem(v)
    BY <1>2 DEF JsonField
  <2>2. inner = [n \in DOMAIN inner |-> inner[n]] /\ DOMAIN inner = DOMAIN Inside(j)
        /\ (\A n \in DOMAIN inner : inner[n] = RevivedItem(Inside(j)[n]))
        /\ x = Reviver(j, inner)
    BY DEF Each, RevivedField
  <2>3. outer = [n \in DOMAIN inner |-> outer[n]] /\ \A n \in DOMAIN inner : outer[n] = ReplacedItem(inner[n])
    OBVIOUS
  <2> HIDE DEF inner, outer
  <2>4. ASSUME NEW n \in DOMAIN inner, inner[n] # Failed
        PROVE  JsonItem(outer[n]) /\ inner[n] # Null /\ Same(inner[n], outer[n], Inside(j)[n])
    <3> DEFINE u == inner[n]
               v == outer[n]
               w == Inside(j)[n]
    <3>1. JsonItem(w)
      BY <2>1, <2>2 DEF RangeOf
    <3>2. u = RevivedItem(w) /\ v = ReplacedItem(u) /\ u # Failed
      BY <2>2, <2>3, <2>4
    <3> HIDE DEF u, v, w
    <3>3. JsonItem(v) /\ u # Null /\ Same(u, v, w)
      BY <3>1, <3>2, ItemStays
    <3>4. QED
      BY <3>3 DEF u, v, w
  <2>5. Failed \notin RangeOf(inner)
    <3>1. Holds(j, "object") \/ Holds(j, "array")
      BY <2>1 DEF Container
    <3>2. QED
      BY <2>2, <3>1, Revive
  <2>6. \A n \in DOMAIN inner : JsonItem(outer[n]) /\ inner[n] # Null /\ Same(inner[n], outer[n], Inside(j)[n])
    BY <2>4, <2>5 DEF RangeOf
  <2>7. x # Null /\ "prefix" \notin DOMAIN x
        /\ \/ \E i \in Int \cup {Garbled} : x = TypeReference(i)
           \/ /\ Inside(x) = inner /\ Container(Replacer(x, outer)) /\ Inside(Replacer(x, outer)) = outer
              /\ "string" \notin DOMAIN Replacer(x, outer)
    BY <2>1, <2>2, <2>3, <2>5, <2>6, ContainerStays
  <2>8. CASE \E i \in Int \cup {Garbled} : x = TypeReference(i)
    BY <2>7, <2>8, ReferenceStays DEF Same
  <2>9. CASE /\ Inside(x) = inner /\ Container(Replacer(x, outer)) /\ Inside(Replacer(x, outer)) = outer
             /\ "string" \notin DOMAIN Replacer(x, outer)
    <3>1. y = Replacer(x, outer)
      BY <2>3, <2>9 DEF ReplacedField, Each
    <3>2. \A v \in RangeOf(Inside(y)) : JsonItem(v)
      BY <2>3, <2>6, <2>9, <3>1 DEF RangeOf
    <3>3. QED
      BY <2>7, <2>9, <3>1, <3>2 DEF JsonField, Same
  <2>10. QED
    BY <2>7, <2>8, <2>9
<1>3. QED
  BY <1>1, <1>2

LEMMA TypeStays ==
  ASSUME NEW j, JsonType(j), readTypesJson(j) # Failed
  PROVE  JsonType(writeTypesJson(readTypesJson(j)))
<1> DEFINE m == j.object
           inner == [n \in DOMAIN m |-> RevivedField(m[n])]
           f == [name \in DOMAIN m \ {"$type"} |-> inner[name]]
           k == m["$type"].string
           t == [kind |-> k, fields |-> f]
           S == {n \in DOMAIN f : f[n] # Null} \cup {"$type"}
           given == [name \in S |-> IF name = "$type" THEN String(k) ELSE ReplacedField(f[name])]
           y == Object(given)
<1>1. j # Null
  <2>1. Reviver(Null, Each(Null, RevivedField)) = Failed
    BY DEF Reviver
  <2>2. readTypesJson(Null) = Failed
    BY <2>1 DEF readTypesJson
  <2>3. QED
    BY <2>2
<1>2. /\ Container(j) /\ Holds(j, "object") /\ "$type" \in DOMAIN m /\ Holds(m["$type"], "string")
      /\ "$ref" \notin DOMAIN m /\ \A v \in RangeOf(m) : JsonField(v)
  BY <1>1, Shapes DEF JsonType, Container, Holds
<1>3. Failed \notin RangeOf(inner) /\ readTypesJson(j) = t
  BY <1>2, TsRead
<1>4. writeTypesJson(t) = y
  BY DEF writeTypesJson
<1>5. ASSUME NEW name \in S \ {"$type"}
      PROVE  /\ name \in DOMAIN m /\ JsonField(given[name])
             /\ "string" \in DOMAIN given[name] => given[name] = m[name]
  <2> DEFINE u == m[name]
             v == inner[name]
             w == given[name]
  <2>1. name \in DOMAIN m /\ v = RevivedField(u) /\ w = ReplacedField(v) /\ v # Failed
    BY <1>3 DEF RangeOf
  <2>2. JsonField(u)
    BY <1>2, <2>1 DEF RangeOf
  <2> HIDE DEF u, v, w
  <2>3. JsonField(w) /\ Same(v, w, u)
    BY <2>1, <2>2, FieldStays
  <2>4. QED
    BY <2>1, <2>3 DEF Same, u, w
<1>6. DOMAIN given = S /\ given["$type"] = String(k) /\ "$type" \in S /\ given = [n \in DOMAIN given |-> given[n]]
  OBVIOUS
<1>7. Holds(y, "object") /\ DOMAIN y = {"object"} /\ y.object = given
  BY DEF Object, Holds, Only
<1>8. Holds(String(k), "string") /\ DOMAIN String(k) = {"string"}
  BY DEF String, Holds, Only
<1> HIDE DEF m, inner, f, k, t, S, given, y
<1>9. Inside(y) = given
  BY <1>7 DEF Inside
<1>10. JsonField(String(k))
  BY <1>8 DEF JsonField, JsonLeaf
<1>11. "string" \in DOMAIN Lookup(given, "relativePath") => PathText(Lookup(given, "relativePath").string)
  <2>1. "string" \notin DOMAIN Missing
    BY Shapes
  <2>2. CASE "relativePath" \in S /\ "string" \in DOMAIN given["relativePath"]
    <3>1. given["relativePath"] = m["relativePath"] /\ "relativePath" \in DOMAIN m
      BY <1>5, <2>2
    <3>2. "object" \in DOMAIN j
      BY <1>2, Content
    <3>3. QED
      BY <1>2, <1>6, <2>2, <3>1, <3>2 DEF Container, Lookup, m
  <2>3. QED
    BY <1>6, <2>1, <2>2 DEF Lookup
<1>12. Container(y)
  BY <1>6, <1>7, <1>9, <1>11 DEF Container, FieldsOf
<1>13. \A v \in RangeOf(given) : JsonField(v)
  BY <1>5, <1>6, <1>10 DEF RangeOf
<1>14. "$ref" \notin S
  BY <1>2, <1>5
<1>15. JsonType(y)
  BY <1>6, <1>7, <1>8, <1>12, <1>13, <1>14 DEF JsonType
<1>16. QED
  BY <1>3, <1>4, <1>15

-----------------------------------------------------------------------------
(* Arrays of types.                                                        *)
LoadArray(a) == [i \in DOMAIN a |-> UnmarshalType(a[i])]

LEMMA Documented ==
  ASSUME NEW a, NEW by, NEW c, c = Document(a, by)
  PROVE  /\ "array" \in DOMAIN c /\ c.array = a /\ c.by = by /\ c = Document(c.array, c.by)
         /\ c \notin {Absent, Empty, Page}
         /\ Elements(c) = a /\ loadTypesFromFile(c) = LoadArray(a)
         /\ Loads(c) <=> Failed \notin RangeOf(LoadArray(a))
         /\ TsReadTypes(c) = [i \in DOMAIN a |-> readTypesJson(a[i])]
         /\ TsLoads(c) <=> Failed \notin RangeOf([i \in DOMAIN a |-> readTypesJson(a[i])])
<1>1. "array" \in DOMAIN c /\ c.array = a /\ c.by = by /\ c = Document(c.array, c.by)
  BY DEF Document
<1>2. c \notin {Absent, Empty, Page}
  BY <1>1 DEF Absent, Empty, Page
<1>3. Elements(c) = a
  BY <1>1 DEF Elements
<1>4. QED
  BY <1>1, <1>2, <1>3 DEF loadTypesFromFile, LoadArray, Loads, TsReadTypes, TsLoads

LEMMA Blank ==
  \A c \in {Absent, Empty, Page} : "array" \notin DOMAIN c /\ ~Loads(c) /\ ~TsLoads(c)
BY DEF Absent, Empty, Page, Loads, TsLoads

(* What the tool has written stays what it is when it is converted.        *)
LEMMA ArrayStable ==
  ASSUME NEW a, \A j \in RangeOf(a) : JsonType(j), Failed \notin RangeOf(LoadArray(a)),
         NEW c, c = WriteTypes(LoadArray(a)), Failed \notin RangeOf(LoadArray(c))
  PROVE  WriteTypes(LoadArray(c)) = c
<1>1. DOMAIN LoadArray(a) = DOMAIN a /\ DOMAIN c = DOMAIN a /\ DOMAIN LoadArray(c) = DOMAIN a
  BY DEF LoadArray, WriteTypes
<1>2. ASSUME NEW i \in DOMAIN a PROVE MarshalJSON(LoadArray(c)[i]) = c[i]
  <2> DEFINE t == LoadArray(a)[i]
             u == LoadArray(c)[i]
  <2>1. t = UnmarshalType(a[i]) /\ t # Failed /\ JsonType(a[i])
    BY <1>1 DEF LoadArray, RangeOf
  <2>2. GoType(t) /\ SettledType(t)
    <3> HIDE DEF t
    <3>1. QED
      BY <2>1, TypeRead
  <2>3. c[i] = MarshalJSON(t)
    BY <1>1 DEF WriteTypes
  <2>4. u = UnmarshalType(c[i]) /\ u # Failed
    BY <1>1 DEF LoadArray, RangeOf
  <2> HIDE DEF t, u
  <2>5. MarshalJSON(u) = MarshalJSON(t)
    BY <2>2, <2>3, <2>4, TypeStable
  <2>6. QED
    BY <2>3, <2>5 DEF u
<1>3. c = [i \in DOMAIN a |-> c[i]]
  BY <1>1 DEF WriteTypes
<1>4. QED
  BY <1>1, <1>2, <1>3 DEF WriteTypes

(* TypeScript writes what programs have written as it has read it.         *)
LEMMA ArrayKept ==
  ASSUME NEW a, a = [i \in DOMAIN a |-> a[i]], \A j \in RangeOf(a) : MadeType(j),
         NEW types, types = [i \in DOMAIN a |-> readTypesJson(a[i])], Failed \notin RangeOf(types)
  PROVE  TsWriteTypes(types) = a
<1>1. ASSUME NEW i \in DOMAIN a PROVE writeTypesJson(types[i]) = a[i]
  <2>1. MadeType(a[i]) /\ readTypesJson(a[i]) # Failed
    BY DEF RangeOf
  <2>2. QED
    BY <2>1, MadeTypeKept
<1>2. QED
  BY <1>1 DEF TsWriteTypes

LEMMA ArrayStays ==
  ASSUME NEW a, \A j \in RangeOf(a) : JsonType(j),
         NEW types, types = [i \in DOMAIN a |-> readTypesJson(a[i])], Failed \notin RangeOf(types)
  PROVE  \A j \in RangeOf(TsWriteTypes(types)) : JsonType(j)
<1>1. ASSUME NEW i \in DOMAIN a PROVE JsonType(writeTypesJson(types[i]))
  <2>1. JsonType(a[i]) /\ readTypesJson(a[i]) # Failed
    BY DEF RangeOf
  <2>2. QED
    BY <2>1, TypeStays
<1>2. QED
  BY <1>1 DEF TsWriteTypes, RangeOf

LEMMA ArrayRead ==
  ASSUME NEW a, \A j \in RangeOf(a) : JsonType(j), Failed \notin RangeOf(LoadArray(a))
  PROVE  \A t \in RangeOf(LoadArray(a)) : GoType(t) /\ SettledType(t)
<1>1. ASSUME NEW i \in DOMAIN a PROVE GoType(UnmarshalType(a[i])) /\ SettledType(UnmarshalType(a[i]))
  <2>1. JsonType(a[i]) /\ UnmarshalType(a[i]) # Failed
    BY DEF RangeOf, LoadArray
  <2>2. QED
    BY <2>1, TypeRead
<1>2. QED
  BY <1>1 DEF RangeOf, LoadArray

LEMMA ArrayWritten ==
  ASSUME NEW types, \A t \in RangeOf(types) : GoType(t)
  PROVE  /\ \A j \in RangeOf(WriteTypes(types)) : MadeType(j) /\ JsonType(j)
         /\ DOMAIN WriteTypes(types) = DOMAIN types
         /\ WriteTypes(types) = [i \in DOMAIN WriteTypes(types) |-> WriteTypes(types)[i]]
<1>1. ASSUME NEW i \in DOMAIN types PROVE MadeType(MarshalJSON(types[i])) /\ JsonType(MarshalJSON(types[i]))
  BY TypeMadeByGo, MadeTypeIsJson DEF RangeOf
<1>2. QED
  BY <1>1 DEF WriteTypes, RangeOf

LEMMA TsArrayWritten ==
  ASSUME NEW types, \A t \in RangeOf(types) : TsType(t)
  PROVE  /\ \A j \in RangeOf(TsWriteTypes(types)) : MadeType(j) /\ JsonType(j)
         /\ DOMAIN TsWriteTypes(types) = DOMAIN types
         /\ TsWriteTypes(types) = [i \in DOMAIN TsWriteTypes(types) |-> TsWriteTypes(types)[i]]
<1>1. ASSUME NEW i \in DOMAIN types PROVE MadeType(writeTypesJson(types[i])) /\ JsonType(writeTypesJson(types[i]))
  BY TypeMadeByTs, MadeTypeIsJson DEF RangeOf
<1>2. QED
  BY <1>1 DEF TsWriteTypes, RangeOf

(* Go loads what it has written, if nothing is missing and nothing is      *)
(* rounded.                                                                *)
LEMMA ArrayBack ==
  ASSUME NEW types, \A t \in RangeOf(types) : GoType(t), WellFormed(types), Exact(PartsOf(types)),
         NEW by
  PROVE  LoadsTo(Document(WriteTypes(types), by), types)
<1> DEFINE a == WriteTypes(types)
           d == Document(a, by)
<1>1. DOMAIN a = DOMAIN types /\ DOMAIN LoadArray(a) = DOMAIN types
  BY DEF WriteTypes, LoadArray
<1>2. ASSUME NEW i \in DOMAIN types
      PROVE  /\ LoadArray(a)[i] = FilledType(types[i]) /\ LoadArray(a)[i] # Failed
             /\ FilledType(LoadArray(a)[i]) = FilledType(types[i])
  <2> DEFINE t == types[i]
  <2>1. GoType(t) /\ t \in RangeOf(types)
    BY DEF RangeOf
  <2>2. SoundType(t)
    BY <2>1, TypeParts, SoundTypes
  <2>3. LoadArray(a)[i] = UnmarshalType(MarshalJSON(t))
    BY <1>1 DEF LoadArray, WriteTypes
  <2> HIDE DEF t
  <2>4. UnmarshalType(MarshalJSON(t)) = FilledType(t) /\ FilledType(t) # Failed
        /\ FilledType(FilledType(t)) = FilledType(t)
    BY <2>1, <2>2, TypeBack, TypeFill
  <2>5. QED
    BY <2>3, <2>4 DEF t
<1>3. loadTypesFromFile(d) = LoadArray(a) /\ (Loads(d) <=> Failed \notin RangeOf(LoadArray(a)))
  BY Documented
<1> HIDE DEF a, d
<1>4. Failed \notin RangeOf(LoadArray(a))
  BY <1>1, <1>2 DEF RangeOf
<1>5. Filled(LoadArray(a)) = Filled(types)
  BY <1>1, <1>2 DEF Filled
<1>6. LoadsTo(d, types)
  BY <1>3, <1>4, <1>5 DEF LoadsTo
<1>7. QED
  BY <1>6 DEF d, a

-----------------------------------------------------------------------------
(* The inductive invariant.  Files hold types that Go may read, whoever    *)
(* wrote them, and the tool has read types of its own.                     *)
ContentOK(c) ==
  \/ c \in {Absent, Empty, Page}
  \/ c = Document(c.array, c.by) /\ \A j \in RangeOf(c.array) : JsonType(j)

FilesOK == DOMAIN files = Path /\ \A p \in Path : ContentOK(files[p])

ToolOK == tool # Idle => tool.output \in Path /\ \A t \in RangeOf(tool.types) : GoType(t) /\ SettledType(t)

OriginOK ==
  /\ origin.by \in {"nobody", "go", "ts", "person"} /\ spoiled \in BOOLEAN
  /\ origin.by = "nobody" => tool = Idle /\ \A p \in Path : files[p] = Absent
  /\ origin.by = "go" => origin.what \in GoTypes
  /\ origin.by = "ts" => origin.what \in TsTypes

(* Of what a program wrote, every file has the program's array, or the one *)
(* that the tool makes of it: neither TypeScript nor a second run of the   *)
(* tool makes another.                                                     *)
FirstArray == IF origin.by = "go" THEN WriteTypes(origin.what) ELSE TsWriteTypes(origin.what)

ToolArray == WriteTypes(LoadArray(FirstArray))

Readable == Failed \notin RangeOf(LoadArray(FirstArray))

CopyOf(c) ==
  \/ c.array = FirstArray /\ c.by # "tool"
  \/ c.array = ToolArray /\ Readable

Copies ==
  origin.by \in {"go", "ts"} =>
    /\ \A p \in Path : "array" \in DOMAIN files[p] => CopyOf(files[p])
    /\ tool # Idle => tool.types \in {LoadArray(FirstArray), LoadArray(ToolArray)} /\ Readable

(* The first file is there unless a run is under way that replaces it.     *)
FirstKept ==
  origin.by # "nobody" /\ ~spoiled /\ ~(tool # Idle /\ tool.output = First) => "array" \in DOMAIN files[First]

Inv == FilesOK /\ ToolOK /\ OriginOK /\ Copies /\ FirstKept

LEMMA Busy ==
  /\ \A a, b, c : [types |-> a, output |-> b, format |-> c] # Idle
  /\ "array" \notin DOMAIN Absent /\ "array" \notin DOMAIN Empty /\ "array" \notin DOMAIN Page
BY DEF Idle, Absent, Empty, Page

LEMMA FirstMade ==
  ASSUME OriginOK, origin.by \in {"go", "ts"}
  PROVE  /\ \A j \in RangeOf(FirstArray) : MadeType(j) /\ JsonType(j)
         /\ FirstArray = [i \in DOMAIN FirstArray |-> FirstArray[i]]
<1> DEFINE types == origin.what
<1>1. CASE origin.by = "go"
  <2>1. \A t \in RangeOf(types) : GoType(t)
    BY <1>1, GoTypesAssumption DEF OriginOK
  <2>2. FirstArray = WriteTypes(types)
    BY <1>1 DEF FirstArray
  <2> HIDE DEF types
  <2>3. QED
    BY <2>1, <2>2, ArrayWritten
<1>2. CASE origin.by = "ts"
  <2>1. \A t \in RangeOf(types) : TsType(t)
    BY <1>2, TsTypesAssumption DEF OriginOK
  <2>2. FirstArray = TsWriteTypes(types)
    BY <1>2 DEF FirstArray
  <2> HIDE DEF types
  <2>3. QED
    BY <2>1, <2>2, TsArrayWritten
<1>3. QED
  BY <1>1, <1>2

LEMMA ToolMade ==
  ASSUME OriginOK, origin.by \in {"go", "ts"}, Readable
  PROVE  /\ \A j \in RangeOf(ToolArray) : MadeType(j) /\ JsonType(j)
         /\ ToolArray = [i \in DOMAIN ToolArray |-> ToolArray[i]]
<1> DEFINE types == LoadArray(FirstArray)
<1>1. \A t \in RangeOf(types) : GoType(t)
  BY FirstMade, ArrayRead DEF Readable
<1>2. ToolArray = WriteTypes(types)
  BY DEF ToolArray
<1> HIDE DEF types
<1>3. QED
  BY <1>1, <1>2, ArrayWritten

LEMMA InitInv == Init => Inv
<1> SUFFICES ASSUME Init PROVE Inv
  OBVIOUS
<1>1. FilesOK
  BY DEF Init, FilesOK, ContentOK
<1>2. ToolOK
  BY DEF Init, ToolOK
<1>3. OriginOK
  BY DEF Init, OriginOK
<1>4. Copies /\ FirstKept
  BY DEF Init, Copies, FirstKept
<1>5. QED
  BY <1>1, <1>2, <1>3, <1>4 DEF Inv

LEMMA WriteInv ==
  ASSUME Inv, NEW by \in {"go", "ts", "person"}, NEW what, NEW array, Write(by, what, array),
         \A j \in RangeOf(array) : JsonType(j),
         by = "go" => what \in GoTypes /\ array = WriteTypes(what),
         by = "ts" => what \in TsTypes /\ array = TsWriteTypes(what)
  PROVE  Inv'
<1>1. origin.by = "nobody" /\ origin' = [by |-> by, what |-> what] /\ UNCHANGED <<tool, spoiled>>
      /\ files' = [files EXCEPT ![First] = Document(array, by)]
  BY DEF Write
<1>2. origin'.by = by /\ origin'.what = what
  BY <1>1
<1>3. tool = Idle /\ \A p \in Path : files[p] = Absent
  BY <1>1 DEF Inv, OriginOK
<1>4. DOMAIN files' = Path /\ files'[First] = Document(array, by)
      /\ \A p \in Path : p # First => files'[p] = Absent
  BY <1>1, <1>3, FirstAssumption DEF Inv, FilesOK
<1>5. ContentOK(files'[First]) /\ files'[First].array = array /\ files'[First].by = by
      /\ "array" \in DOMAIN files'[First]
  <2> DEFINE d == Document(array, by)
  <2>1. d = Document(d.array, d.by) /\ d.array = array /\ d.by = by /\ "array" \in DOMAIN d
    BY DEF Document
  <2>2. files'[First] = d
    BY <1>4
  <2> HIDE DEF d
  <2>3. ContentOK(d)
    BY <2>1 DEF ContentOK
  <2>4. ContentOK(files'[First])
    BY <2>2, <2>3 DEF ContentOK
  <2>5. QED
    BY <2>1, <2>2, <2>4
<1>6. FilesOK'
  BY <1>4, <1>5 DEF FilesOK, ContentOK
<1>7. ToolOK'
  BY <1>1, <1>3 DEF ToolOK
<1>8. OriginOK'
  BY <1>1, <1>2 DEF Inv, OriginOK
<1>9. Copies'
  <2>1. by \in {"go", "ts"} => FirstArray' = array
    BY <1>2 DEF FirstArray
  <2>2. by \in {"go", "ts"} => CopyOf(files[First])'
    BY <1>5, <2>1 DEF CopyOf
  <2>3. \A p \in Path : p # First => "array" \notin DOMAIN files'[p]
    BY <1>4, Busy
  <2>4. QED
    BY <1>1, <1>2, <1>3, <2>2, <2>3 DEF Copies
<1>10. FirstKept'
  BY <1>5 DEF FirstKept
<1>11. QED
  BY <1>6, <1>7, <1>8, <1>9, <1>10 DEF Inv

(* A file that can be loaded is one, and holds types.                      *)
LEMMA Loaded ==
  ASSUME FilesOK, NEW input \in Path, Loads(files[input]) \/ TsLoads(files[input])
  PROVE  /\ "array" \in DOMAIN files[input]
         /\ \A j \in RangeOf(files[input].array) : JsonType(j)
         /\ loadTypesFromFile(files[input]) = LoadArray(files[input].array)
         /\ TsReadTypes(files[input]) = [i \in DOMAIN files[input].array |-> readTypesJson(files[input].array[i])]
<1> DEFINE c == files[input]
<1>1. "array" \in DOMAIN c
  BY DEF Loads, TsLoads
<1>2. c \notin {Absent, Empty, Page}
  BY <1>1, Busy
<1>3. ContentOK(c)
  BY DEF FilesOK
<1> HIDE DEF c
<1>4. \A j \in RangeOf(c.array) : JsonType(j)
  BY <1>2, <1>3 DEF ContentOK
<1>5. Elements(c) = c.array
  BY <1>1 DEF Elements
<1>6. loadTypesFromFile(c) = LoadArray(c.array) /\ TsReadTypes(c) = [i \in DOMAIN c.array |-> readTypesJson(c.array[i])]
  BY <1>5 DEF loadTypesFromFile, LoadArray, TsReadTypes
<1>7. QED
  BY <1>1, <1>4, <1>6 DEF c

LEMMA SameHistory ==
  ASSUME UNCHANGED origin
  PROVE  FirstArray' = FirstArray /\ ToolArray' = ToolArray /\ Readable' = Readable
BY DEF FirstArray, ToolArray, Readable

LEMMA ConvertInv ==
  ASSUME Inv, NEW input \in Path, NEW output \in Path, NEW format, Convert(input, output, format)
  PROVE  Inv'
<1> DEFINE a == files[input].array
<1>1. /\ tool = Idle /\ Loads(files[input]) /\ UNCHANGED <<origin, spoiled>>
      /\ tool' = [types |-> loadTypesFromFile(files[input]), output |-> output, format |-> format]
      /\ files' = [files EXCEPT ![output] = Empty]
  BY DEF Convert
<1>2. /\ "array" \in DOMAIN files[input] /\ \A j \in RangeOf(a) : JsonType(j)
      /\ loadTypesFromFile(files[input]) = LoadArray(a)
  BY <1>1, Loaded DEF Inv
<1>3. tool' # Idle /\ tool'.types = LoadArray(a) /\ tool'.output = output
  BY <1>1, <1>2, Busy
<1>4. Failed \notin RangeOf(LoadArray(a))
  BY <1>1, <1>2 DEF Loads
<1>5. \A t \in RangeOf(LoadArray(a)) : GoType(t) /\ SettledType(t)
  BY <1>2, <1>4, ArrayRead
<1>6. DOMAIN files' = Path /\ files'[output] = Empty /\ \A p \in Path : p # output => files'[p] = files[p]
  BY <1>1 DEF Inv, FilesOK
<1>7. FilesOK'
  BY <1>6 DEF Inv, FilesOK, ContentOK
<1>8. ToolOK'
  BY <1>3, <1>5 DEF ToolOK
<1>9. OriginOK'
  <2>1. origin.by # "nobody"
    BY <1>2, Busy DEF Inv, OriginOK
  <2>2. QED
    BY <1>1, <2>1 DEF Inv, OriginOK
<1>10. Copies'
  <2> SUFFICES ASSUME origin.by \in {"go", "ts"} PROVE Copies'
    BY <1>1 DEF Copies
  <2>1. ASSUME NEW p \in Path, "array" \in DOMAIN files'[p] PROVE CopyOf(files[p])'
    <3>1. files'[p] = files[p]
      BY <1>6, <2>1, Busy
    <3>2. CopyOf(files[p])
      BY <2>1, <3>1 DEF Inv, Copies
    <3>3. QED
      BY <1>1, <3>1, <3>2, SameHistory DEF CopyOf
  <2>2. CopyOf(files[input])
    BY <1>2 DEF Inv, Copies
  <2>3. LoadArray(a) \in {LoadArray(FirstArray), LoadArray(ToolArray)} /\ Readable
    BY <1>4, <2>2 DEF CopyOf, Readable
  <2>4. QED
    BY <1>1, <1>3, <2>1, <2>3, SameHistory DEF Copies
<1>11. FirstKept'
  BY <1>1, <1>3, <1>6, FirstAssumption DEF Inv, FirstKept
<1>12. QED
  BY <1>7, <1>8, <1>9, <1>10, <1>11 DEF Inv

LEMMA FinishInv == Inv /\ Finish => Inv'
<1> SUFFICES ASSUME Inv, Finish PROVE Inv'
  OBVIOUS
<1> DEFINE o == tool.output
           c == WriteTypes(tool.types)
           d == files'[o]
<1>1. tool # Idle /\ tool' = Idle /\ UNCHANGED origin /\ spoiled' = (spoiled \/ tool.format # "json")
  BY DEF Finish
<1>2. o \in Path /\ \A t \in RangeOf(tool.types) : GoType(t) /\ SettledType(t)
  BY <1>1 DEF Inv, ToolOK
<1>3. DOMAIN files' = Path /\ \A p \in Path : p # o => files'[p] = files[p]
  BY <1>2 DEF Finish, Inv, FilesOK
<1>4. d = CASE tool.format = "json" -> Document(c, "tool")
            [] tool.format = "markdown" -> Page
            [] OTHER -> files[o]
  BY <1>2 DEF Finish, Inv, FilesOK
<1>5. tool.format = "json" => d = Document(c, "tool")
  BY <1>4
<1>6. tool.format # "json" => d \in {Page, files[o]}
  BY <1>4
<1>7. \A j \in RangeOf(c) : JsonType(j)
  <2> DEFINE types == tool.types
  <2>1. \A t \in RangeOf(types) : GoType(t)
    BY <1>2
  <2> HIDE DEF types
  <2>2. \A j \in RangeOf(WriteTypes(types)) : JsonType(j)
    BY <2>1, ArrayWritten
  <2>3. QED
    BY <2>2 DEF types
<1>8. tool.format = "json" => d = Document(d.array, d.by) /\ d.array = c /\ d.by = "tool" /\ "array" \in DOMAIN d
  BY <1>5 DEF Document
<1> HIDE DEF c, d, o
<1>9. FilesOK'
  <2>1. ContentOK(d)
    <3>1. CASE tool.format = "json"
      BY <1>7, <1>8, <3>1 DEF ContentOK
    <3>2. CASE tool.format # "json"
      BY <1>2, <1>6, <3>2 DEF ContentOK, Inv, FilesOK
    <3>3. QED
      BY <3>1, <3>2
  <2>2. \A p \in Path : p # o => ContentOK(files'[p])
    BY <1>3 DEF Inv, FilesOK
  <2>3. QED
    BY <1>3, <2>1, <2>2 DEF FilesOK, ContentOK, d
<1>10. ToolOK' /\ OriginOK'
  <2>1. origin.by # "nobody"
    BY <1>1 DEF Inv, OriginOK
  <2>2. QED
    BY <1>1, <2>1 DEF Inv, OriginOK, ToolOK
<1>11. Copies'
  <2> SUFFICES ASSUME origin.by \in {"go", "ts"} PROVE Copies'
    BY <1>1 DEF Copies
  <2>1. Readable /\ tool.types \in {LoadArray(FirstArray), LoadArray(ToolArray)}
    BY <1>1 DEF Inv, Copies
  <2>2. c = ToolArray
    <3>1. CASE tool.types = LoadArray(FirstArray)
      BY <3>1 DEF c, ToolArray
    <3>2. CASE tool.types = LoadArray(ToolArray)
      <4> DEFINE a == FirstArray
      <4>1. \A j \in RangeOf(a) : JsonType(j)
        BY FirstMade DEF Inv
      <4>2. Failed \notin RangeOf(LoadArray(a))
        BY <2>1 DEF Readable
      <4>3. Failed \notin RangeOf(LoadArray(ToolArray))
        BY <1>2, <3>2, TypeParts
      <4>4. ToolArray = WriteTypes(LoadArray(a))
        BY DEF ToolArray
      <4> HIDE DEF a
      <4>5. WriteTypes(LoadArray(ToolArray)) = ToolArray
        BY <4>1, <4>2, <4>3, <4>4, ArrayStable
      <4>6. QED
        BY <3>2, <4>5 DEF c
    <3>3. QED
      BY <2>1, <3>1, <3>2
  <2>3. ASSUME NEW p \in Path, "array" \in DOMAIN files'[p] PROVE CopyOf(files[p])'
    <3>1. CASE files'[p] = files[p]
      <4>1. CopyOf(files[p])
        BY <2>3, <3>1 DEF Inv, Copies
      <4>2. QED
        BY <1>1, <3>1, <4>1, SameHistory DEF CopyOf
    <3>2. CASE files'[p] # files[p]
      <4>1. p = o /\ files'[p] = d /\ d # Page
        BY <1>3, <2>3, <3>2, Busy DEF d
      <4>2. tool.format = "json"
        BY <1>6, <3>2, <4>1
      <4>3. files'[p].array = ToolArray
        BY <1>8, <2>2, <4>1, <4>2
      <4>4. QED
        BY <1>1, <2>1, <4>3, SameHistory DEF CopyOf
    <3>3. QED
      BY <3>1, <3>2
  <2>4. QED
    BY <1>1, <2>3 DEF Copies
<1>12. FirstKept'
  <2> SUFFICES ASSUME ~spoiled' PROVE "array" \in DOMAIN files'[First]
    BY <1>1 DEF FirstKept
  <2>1. ~spoiled /\ tool.format = "json" /\ origin.by # "nobody"
    BY <1>1 DEF Inv, OriginOK
  <2>2. CASE o = First
    BY <1>8, <2>1, <2>2 DEF d
  <2>3. CASE o # First
    BY <1>3, <2>1, <2>3, FirstAssumption DEF Inv, FirstKept, o
  <2>4. QED
    BY <2>2, <2>3
<1>13. QED
  BY <1>9, <1>10, <1>11, <1>12 DEF Inv

LEMMA KilledInv == Inv /\ Killed => Inv'
<1> SUFFICES ASSUME Inv, Killed PROVE Inv'
  OBVIOUS
<1>1. tool # Idle /\ tool' = Idle /\ UNCHANGED <<files, origin>> /\ spoiled' = TRUE
  BY DEF Killed
<1>2. FilesOK'
  BY <1>1 DEF Inv, FilesOK
<1>3. ToolOK' /\ OriginOK' /\ FirstKept'
  BY <1>1 DEF Inv, OriginOK, ToolOK, FirstKept
<1>4. Copies'
  BY <1>1, SameHistory DEF Inv, Copies, CopyOf
<1>5. QED
  BY <1>2, <1>3, <1>4 DEF Inv

LEMMA TsConvertInv ==
  ASSUME Inv, NEW input \in Path, NEW output \in Path, TsConvert(input, output)
  PROVE  Inv'
<1> DEFINE a == files[input].array
           types == TsReadTypes(files[input])
           c == TsWriteTypes(types)
<1>1. /\ tool = Idle /\ TsLoads(files[input]) /\ UNCHANGED <<tool, origin, spoiled>>
      /\ files' = [files EXCEPT ![output] = Document(c, "ts")]
  BY DEF TsConvert
<1>2. /\ "array" \in DOMAIN files[input] /\ \A j \in RangeOf(a) : JsonType(j)
      /\ types = [i \in DOMAIN a |-> readTypesJson(a[i])]
  BY <1>1, Loaded DEF Inv
<1>3. Failed \notin RangeOf(types)
  BY <1>1 DEF TsLoads
<1> HIDE DEF types
<1>4. \A j \in RangeOf(c) : JsonType(j)
  <2> HIDE DEF a
  <2>1. QED
    BY <1>2, <1>3, ArrayStays
<1>5. DOMAIN files' = Path /\ files'[output] = Document(c, "ts") /\ \A p \in Path : p # output => files'[p] = files[p]
  BY <1>1 DEF Inv, FilesOK
<1> DEFINE d == files'[output]
<1>6. d = Document(d.array, d.by) /\ d.array = c /\ d.by = "ts" /\ "array" \in DOMAIN d
  BY <1>5 DEF Document
<1> HIDE DEF d, c
<1>7. FilesOK'
  <2>1. ContentOK(d)
    BY <1>4, <1>6 DEF ContentOK
  <2>2. \A p \in Path : p # output => ContentOK(files'[p])
    BY <1>5 DEF Inv, FilesOK
  <2>3. QED
    BY <1>5, <2>1, <2>2 DEF FilesOK, ContentOK, d
<1>8. ToolOK' /\ OriginOK'
  <2>1. origin.by # "nobody"
    BY <1>2, Busy DEF Inv, OriginOK
  <2>2. QED
    BY <1>1, <2>1 DEF Inv, OriginOK, ToolOK
<1>9. Copies'
  <2> SUFFICES ASSUME origin.by \in {"go", "ts"} PROVE Copies'
    BY <1>1 DEF Copies
  <2>1. CopyOf(files[input])
    BY <1>2 DEF Inv, Copies
  <2>2. (a = FirstArray \/ (a = ToolArray /\ Readable))
    BY <2>1 DEF CopyOf
  <2>3. (\A j \in RangeOf(a) : MadeType(j)) /\ a = [i \in DOMAIN a |-> a[i]]
    <3> HIDE DEF a
    <3>1. CASE a = FirstArray
      BY <3>1, FirstMade DEF Inv
    <3>2. CASE a = ToolArray /\ Readable
      BY <3>2, ToolMade DEF Inv
    <3>3. QED
      BY <2>2, <3>1, <3>2
  <2>4. c = a
    <3> HIDE DEF a
    <3>1. QED
      BY <1>2, <1>3, <2>3, ArrayKept DEF c
  <2>5. CopyOf(files[output])'
    BY <1>1, <1>6, <2>2, <2>4, SameHistory DEF CopyOf, d
  <2>6. ASSUME NEW p \in Path, "array" \in DOMAIN files'[p], p # output PROVE CopyOf(files[p])'
    <3>1. files'[p] = files[p]
      BY <1>5, <2>6
    <3>2. CopyOf(files[p])
      BY <2>6, <3>1 DEF Inv, Copies
    <3>3. QED
      BY <1>1, <3>1, <3>2, SameHistory DEF CopyOf
  <2>7. QED
    BY <1>1, <2>5, <2>6 DEF Copies
<1>10. FirstKept'
  BY <1>1, <1>5, <1>6, FirstAssumption DEF Inv, FirstKept, d
<1>11. QED
  BY <1>7, <1>8, <1>9, <1>10 DEF Inv

LEMMA StutterInv == Inv /\ UNCHANGED vars => Inv'
<1> SUFFICES ASSUME Inv, UNCHANGED vars PROVE Inv'
  OBVIOUS
<1>1. UNCHANGED <<files, tool, origin, spoiled>>
  BY DEF vars
<1>2. FilesOK' /\ ToolOK' /\ OriginOK' /\ FirstKept'
  BY <1>1 DEF Inv, FilesOK, ToolOK, OriginOK, FirstKept
<1>3. Copies'
  BY <1>1, SameHistory DEF Inv, Copies, CopyOf
<1>4. QED
  BY <1>2, <1>3 DEF Inv

LEMMA StepInv == Inv /\ [Next]_vars => Inv'
<1> SUFFICES ASSUME Inv, [Next]_vars PROVE Inv'
  OBVIOUS
<1>1. ASSUME NEW types \in GoTypes, Write("go", types, WriteTypes(types)) PROVE Inv'
  <2>1. \A t \in RangeOf(types) : GoType(t)
    BY GoTypesAssumption
  <2> DEFINE array == WriteTypes(types)
  <2>2. \A j \in RangeOf(array) : JsonType(j)
    BY <2>1, ArrayWritten
  <2>3. Write("go", types, array) /\ array = WriteTypes(types)
    BY <1>1
  <2> HIDE DEF array
  <2>4. QED
    BY <2>2, <2>3, WriteInv
<1>2. ASSUME NEW types \in TsTypes, Write("ts", types, TsWriteTypes(types)) PROVE Inv'
  <2>1. \A t \in RangeOf(types) : TsType(t)
    BY TsTypesAssumption
  <2> DEFINE array == TsWriteTypes(types)
  <2>2. \A j \in RangeOf(array) : JsonType(j)
    BY <2>1, TsArrayWritten
  <2>3. Write("ts", types, array) /\ array = TsWriteTypes(types)
    BY <1>2
  <2> HIDE DEF array
  <2>4. QED
    BY <2>2, <2>3, WriteInv
<1>3. ASSUME NEW text \in Texts, Write("person", text, text) PROVE Inv'
  BY <1>3, TextsAssumption, WriteInv
<1>4. QED
  BY <1>1, <1>2, <1>3, ConvertInv, TsConvertInv, FinishInv, KilledInv, StutterInv DEF Next

(* The inductive invariant of the files and of the run that is under way.  *)
THEOREM Invariance == Spec => []Inv
<1>1. Init => Inv
  BY InitInv
<1>2. Inv /\ [Next]_vars => Inv'
  BY StepInv
<1>3. QED
  BY <1>1, <1>2, PTL DEF Spec

-----------------------------------------------------------------------------
(* Of the types a program wrote: what Go reads of the first array and of   *)
(* the one the tool makes of it.                                           *)
LEMMA FirstReadByGo ==
  ASSUME OriginOK, Sound
  PROVE  /\ DOMAIN LoadArray(FirstArray) = DOMAIN origin.what
         /\ \A i \in DOMAIN origin.what :
              /\ GoType(LoadArray(FirstArray)[i]) /\ SoundType(LoadArray(FirstArray)[i])
              /\ FilledType(LoadArray(FirstArray)[i]) = FilledType(origin.what[i])
<1> DEFINE types == origin.what
           x == LoadArray(FirstArray)
<1>1. WellFormed(types) /\ Exact(PartsOf(types)) /\ origin.by \in {"go", "ts"}
  BY DEF Sound
<1>2. CASE origin.by = "go"
  <2>1. \A t \in RangeOf(types) : GoType(t)
    BY <1>2, GoTypesAssumption DEF OriginOK
  <2>2. x = [i \in DOMAIN types |-> UnmarshalType(MarshalJSON(types[i]))]
    BY <1>2 DEF FirstArray, WriteTypes, LoadArray
  <2> HIDE DEF types, x
  <2>3. ASSUME NEW i \in DOMAIN types
        PROVE  GoType(x[i]) /\ SoundType(x[i]) /\ FilledType(x[i]) = FilledType(types[i])
    <3> DEFINE t == types[i]
    <3>1. GoType(t) /\ t \in RangeOf(types) /\ x[i] = UnmarshalType(MarshalJSON(t))
      BY <2>1, <2>2 DEF RangeOf
    <3> HIDE DEF t
    <3>2. SoundType(t)
      BY <1>1, <3>1, TypeParts, SoundTypes
    <3>3. x[i] = FilledType(t)
      BY <3>1, <3>2, TypeBack
    <3>4. GoType(x[i]) /\ SoundType(x[i]) /\ FilledType(x[i]) = FilledType(t)
      BY <3>1, <3>2, <3>3, TypeFill
    <3>5. QED
      BY <3>4 DEF t
  <2>4. DOMAIN x = DOMAIN types
    BY <2>2
  <2>5. QED
    BY <2>3, <2>4 DEF types, x
<1>3. CASE origin.by = "ts"
  <2>1. \A t \in RangeOf(types) : TsType(t) /\ t.kind # "BuiltInType"
    BY <1>3, TsTypesAssumption DEF OriginOK, Sound
  <2>2. x = [i \in DOMAIN types |-> UnmarshalType(writeTypesJson(types[i]))]
    BY <1>3 DEF FirstArray, TsWriteTypes, LoadArray
  <2>3. \A v \in PartsOf(types) : "number" \in DOMAIN v => v.number \in Int64
    BY <1>3 DEF Sound
  <2> HIDE DEF types, x
  <2>4. ASSUME NEW i \in DOMAIN types
        PROVE  GoType(x[i]) /\ SoundType(x[i]) /\ FilledType(x[i]) = FilledType(types[i])
    <3> DEFINE t == types[i]
    <3>1. TsType(t) /\ t \in RangeOf(types) /\ x[i] = UnmarshalType(writeTypesJson(t)) /\ t.kind # "BuiltInType"
      BY <2>1, <2>2 DEF RangeOf
    <3> HIDE DEF t
    <3>2. t.kind \in DOMAIN Fields /\ DOMAIN t.fields = DOMAIN Fields[t.kind]
          /\ \A name \in DOMAIN t.fields : TsField(Fields[t.kind][name], t.fields[name])
      BY <3>1, TsParts
    <3>3. SoundType(t)
      BY <1>1, <3>1, <3>2, SoundTypes
    <3>4. FitsType(t)
      BY <2>3, <3>1, FitsTypes
    <3>5. GoType(x[i]) /\ SoundType(x[i]) /\ FilledType(x[i]) = FilledType(t)
      BY <3>1, <3>3, <3>4, TsTypeBack
    <3>6. QED
      BY <3>5 DEF t
  <2>5. DOMAIN x = DOMAIN types
    BY <2>2
  <2>6. QED
    BY <2>4, <2>5 DEF types, x
<1>4. QED
  BY <1>1, <1>2, <1>3

LEMMA LoadedTwice ==
  ASSUME NEW a, NEW types, DOMAIN LoadArray(a) = DOMAIN types,
         \A i \in DOMAIN types : GoType(LoadArray(a)[i]) /\ SoundType(LoadArray(a)[i])
                                 /\ FilledType(LoadArray(a)[i]) = FilledType(types[i]),
         NEW b, b = a \/ b = WriteTypes(LoadArray(a))
  PROVE  /\ Failed \notin RangeOf(LoadArray(b)) /\ Filled(LoadArray(b)) = Filled(types)
         /\ DOMAIN LoadArray(b) = DOMAIN types
         /\ \A i \in DOMAIN types : LoadArray(b)[i] \in {LoadArray(a)[i], FilledType(LoadArray(a)[i])}
<1>1. CASE b = a
  <2>1. \A i \in DOMAIN types : LoadArray(a)[i] # Failed
    BY TypeParts
  <2> DEFINE x == LoadArray(a)
  <2>2. DOMAIN x = DOMAIN types /\ \A i \in DOMAIN types : x[i] # Failed /\ FilledType(x[i]) = FilledType(types[i])
    BY <2>1
  <2>3. x = LoadArray(b)
    BY <1>1
  <2> HIDE DEF x
  <2>4. Failed \notin RangeOf(x) /\ Filled(x) = Filled(types)
    BY <2>2 DEF RangeOf, Filled
  <2>5. QED
    BY <2>2, <2>3, <2>4 DEF x
<1>2. CASE b = WriteTypes(LoadArray(a))
  <2> DEFINE x == LoadArray(a)
             y == LoadArray(b)
  <2>1. DOMAIN x = DOMAIN types /\ y = [i \in DOMAIN types |-> UnmarshalType(MarshalJSON(x[i]))]
    BY <1>2 DEF LoadArray, WriteTypes
  <2>2. \A i \in DOMAIN types : GoType(x[i]) /\ SoundType(x[i]) /\ FilledType(x[i]) = FilledType(types[i])
    OBVIOUS
  <2> HIDE DEF x, y
  <2>3. ASSUME NEW i \in DOMAIN types
        PROVE  y[i] = FilledType(x[i]) /\ y[i] # Failed /\ FilledType(y[i]) = FilledType(types[i])
    <3> DEFINE t == x[i]
    <3>1. GoType(t) /\ SoundType(t) /\ FilledType(t) = FilledType(types[i]) /\ y[i] = UnmarshalType(MarshalJSON(t))
      BY <2>1, <2>2
    <3> HIDE DEF t
    <3>2. y[i] = FilledType(t) /\ y[i] # Failed /\ FilledType(y[i]) = FilledType(t)
      BY <3>1, TypeBack, TypeFill
    <3>3. QED
      BY <3>1, <3>2 DEF t
  <2>4. DOMAIN y = DOMAIN types
    BY <2>1
  <2>5. Failed \notin RangeOf(y) /\ Filled(y) = Filled(types)
    BY <2>3, <2>4 DEF RangeOf, Filled
  <2>6. QED
    BY <2>3, <2>4, <2>5 DEF x, y
<1>3. QED
  BY <1>1, <1>2

LEMMA DocumentOf ==
  ASSUME FilesOK, NEW c \in Documents
  PROVE  c = Document(c.array, c.by) /\ \E p \in Path : c = files[p] /\ "array" \in DOMAIN files[p]
<1>1. PICK p \in Path : c = files[p] /\ "array" \in DOMAIN files[p]
  BY DEF Documents
<1>2. c \notin {Absent, Empty, Page}
  BY <1>1, Busy
<1>3. ContentOK(c)
  BY <1>1 DEF FilesOK
<1>4. QED
  BY <1>1, <1>2, <1>3 DEF ContentOK

LEMMA GoReadsNow == Inv => GoReadsWhatWasWritten
<1> SUFFICES ASSUME Inv, Sound, NEW d \in Documents PROVE LoadsTo(d, origin.what)
  BY DEF GoReadsWhatWasWritten
<1> DEFINE b == d.array
           a == FirstArray
           types == origin.what
<1>1. d = Document(b, d.by) /\ \E p \in Path : d = files[p] /\ "array" \in DOMAIN files[p]
  BY DocumentOf DEF Inv
<1>2. CopyOf(d)
  BY <1>1 DEF Inv, Copies, Sound
<1>3. b = a \/ b = WriteTypes(LoadArray(a))
  BY <1>2 DEF CopyOf, ToolArray
<1>4. DOMAIN LoadArray(a) = DOMAIN types
      /\ \A i \in DOMAIN types : GoType(LoadArray(a)[i]) /\ SoundType(LoadArray(a)[i])
                                 /\ FilledType(LoadArray(a)[i]) = FilledType(types[i])
  BY FirstReadByGo DEF Inv
<1> HIDE DEF a, b, types
<1>5. Failed \notin RangeOf(LoadArray(b)) /\ Filled(LoadArray(b)) = Filled(types)
  BY <1>3, <1>4, LoadedTwice
<1>6. Loads(d) /\ loadTypesFromFile(d) = LoadArray(b)
  <2> DEFINE by == d.by
  <2>1. d = Document(b, by)
    BY <1>1
  <2> HIDE DEF by
  <2>2. loadTypesFromFile(d) = LoadArray(b) /\ (Loads(d) <=> Failed \notin RangeOf(LoadArray(b)))
    BY <2>1, Documented
  <2>3. QED
    BY <1>5, <2>2
<1>7. QED
  BY <1>5, <1>6 DEF LoadsTo, types

(* Go reads what a program wrote from every file there is, for all lists   *)
(* of types and all paths (TypesFile's GoReadsWhatWasWritten).             *)
THEOREM GoReads == Spec => []GoReadsWhatWasWritten
<1>1. Inv => GoReadsWhatWasWritten
  BY GoReadsNow
<1>2. QED
  BY <1>1, Invariance, PTL

LEMMA NeverLostNow == Inv => NeverLost
<1> SUFFICES ASSUME Inv, Sound, tool = Idle, ~spoiled PROVE Loads(files[First])
  BY DEF NeverLost
<1>1. origin.by # "nobody"
  BY DEF Sound
<1>2. "array" \in DOMAIN files[First]
  BY <1>1 DEF Inv, FirstKept
<1>3. files[First] \in Documents
  BY <1>2, FirstAssumption DEF Documents
<1>4. QED
  BY <1>3, GoReadsNow DEF GoReadsWhatWasWritten, LoadsTo

(* Conversions in place lose nothing (TypesFile's NeverLost).              *)
THEOREM NothingIsLost == Spec => []NeverLost
<1>1. Inv => NeverLost
  BY NeverLostNow
<1>2. QED
  BY <1>1, Invariance, PTL

LEMMA CanonicalNow == Inv => ToolFilesCanonical
<1> SUFFICES ASSUME Inv, origin.by \in {"go", "ts"}, NEW d \in Documents, NEW e \in Documents,
                    d.by = "tool", e.by = "tool"
             PROVE  d = e
  BY DEF ToolFilesCanonical
<1>1. ASSUME NEW c \in Documents, c.by = "tool" PROVE c = Document(ToolArray, "tool")
  <2>1. c = Document(c.array, c.by) /\ \E p \in Path : c = files[p] /\ "array" \in DOMAIN files[p]
    BY DocumentOf DEF Inv
  <2>2. CopyOf(c)
    BY <2>1 DEF Inv, Copies
  <2>3. c.array = ToolArray
    BY <1>1, <2>2 DEF CopyOf
  <2>4. QED
    BY <1>1, <2>1, <2>3
<1>2. QED
  BY <1>1

(* However often a file is converted, the tool writes one text (TypesFile's*)
(* ToolFilesCanonical).                                                    *)
THEOREM OneText == Spec => []ToolFilesCanonical
<1>1. Inv => ToolFilesCanonical
  BY CanonicalNow
<1>2. QED
  BY <1>1, Invariance, PTL

LEMMA ConversionStep ==
  ASSUME Inv, [Next]_vars, tool # Idle, spoiled' = FALSE, WellFormed(tool.types), Exact(PartsOf(tool.types)),
         ~UNCHANGED vars
  PROVE  LoadsTo(files'[tool.output], tool.types)
<1>1. Finish
  <2>1. origin.by # "nobody"
    BY DEF Inv, OriginOK
  <2>2. \A by, what, array : ~Write(by, what, array)
    BY <2>1 DEF Write
  <2>3. \A input, output, format : ~Convert(input, output, format) /\ ~TsConvert(input, output)
    BY DEF Convert, TsConvert
  <2>4. ~Killed
    BY DEF Killed
  <2>5. QED
    BY <2>2, <2>3, <2>4 DEF Next
<1> DEFINE types == tool.types
           d == files'[tool.output]
<1>2. tool.output \in Path /\ \A t \in RangeOf(types) : GoType(t)
  BY DEF Inv, ToolOK
<1>3. tool.format = "json"
  BY <1>1 DEF Finish
<1>4. d = Document(WriteTypes(types), "tool")
  BY <1>1, <1>2, <1>3 DEF Finish, Inv, FilesOK
<1> HIDE DEF types, d
<1>5. WellFormed(types) /\ Exact(PartsOf(types))
  BY DEF types
<1>6. LoadsTo(Document(WriteTypes(types), "tool"), types)
  BY <1>2, <1>5, ArrayBack
<1>7. LoadsTo(d, types)
  BY <1>4, <1>6
<1>8. QED
  BY <1>7 DEF d, types

(* A conversion preserves what it has loaded (TypesFile's action property  *)
(* ConversionPreserves).                                                   *)
THEOREM ConversionsPreserve == Spec => ConversionPreserves
<1>1. Inv /\ [Next]_vars =>
        [tool # Idle /\ spoiled' = FALSE /\ WellFormed(tool.types) /\ Exact(PartsOf(tool.types))
           => LoadsTo(files'[tool.output], tool.types)]_vars
  BY ConversionStep
<1>2. QED
  BY <1>1, Invariance, PTL DEF Spec, ConversionPreserves

-----------------------------------------------------------------------------
(* What TypeScript reads of what was written, up to fields that say        *)
(* nothing.                                                                *)
LEMMA SaysMore ==
  ASSUME NEW v, DOMAIN v \notin {{"string"}, {"boolean"}, {"null"}}, "object" \in DOMAIN v => DOMAIN v.object # {}
  PROVE  ~SaysNothing(v)
<1>1. v # Null
  BY Shapes
<1>2. v # String("")
  BY Shapes
<1>3. v # Boolean(FALSE)
  <2>1. DOMAIN Boolean(FALSE) = {"boolean"}
    BY DEF Boolean
  <2>2. QED
    BY <2>1, Zenon
<1>4. QED
  BY <1>1, <1>2, <1>3, Zenon DEF SaysNothing

LEMMA TrimmedPlain ==
  ASSUME NEW v, "object" \notin DOMAIN v, "array" \notin DOMAIN v, "relativePath" \notin DOMAIN v
  PROVE  TrimmedRef(v) = v /\ TrimmedItem(v) = v /\ TrimmedField(v) = v
<1>1. \A inner : Trim(v, inner) = v
  BY DEF Trim
<1>2. QED
  BY <1>1 DEF TrimmedRef, TrimmedItem, TrimmedField

LEMMA TrimmedCross ==
  ASSUME NEW v, GoReference(v), "relativePath" \in DOMAIN v, NEW j, j = ReferenceJson(v)
  PROVE  /\ TrimmedRef(v) = j /\ TrimmedItem(v) = j /\ TrimmedField(v) = j
         /\ TrimmedRef(j) = j /\ TrimmedItem(j) = j /\ TrimmedField(j) = j
         /\ ~SaysNothing(v) /\ ~SaysNothing(j)
<1>1. DOMAIN v = {"relativePath", "ref"}
  BY References
<1>2. \A inner : Trim(v, inner) = j
  BY <1>1 DEF Trim
<1>3. TrimmedRef(v) = j /\ TrimmedItem(v) = j /\ TrimmedField(v) = j
  BY <1>2 DEF TrimmedRef, TrimmedItem, TrimmedField
<1> DEFINE text == RefText(v.relativePath, v.ref)
           given == Only("$ref", text)
<1>4. DOMAIN j = {"object"} /\ j.object = given /\ Inside(j) = given /\ j = Object(given)
  <2>1. j = Object(given)
    BY DEF ReferenceJson
  <2> HIDE DEF given
  <2>2. QED
    BY <2>1, Shapes DEF Inside
<1>5. DOMAIN text = {"prefix", "index"}
  BY DEF RefText
<1>6. DOMAIN given = {"$ref"} /\ given["$ref"] = text /\ given = [n \in {"$ref"} |-> given[n]]
  BY DEF Only
<1> HIDE DEF text
<1>7. TrimmedRef(text) = text /\ TrimmedItem(text) = text /\ ~SaysNothing(text)
  <2>1. "object" \notin DOMAIN text /\ "array" \notin DOMAIN text /\ "relativePath" \notin DOMAIN text
        /\ DOMAIN text \notin {{"string"}, {"boolean"}, {"null"}}
    BY <1>5
  <2>2. QED
    BY <2>1, TrimmedPlain, SaysMore
<1> HIDE DEF given
<1>8. Each(j, TrimmedRef) = given /\ Each(j, TrimmedItem) = given
  BY <1>4, <1>6, <1>7 DEF Each
<1>9. {n \in DOMAIN j.object : ~SaysNothing(j.object[n])} = {"$ref"}
  BY <1>4, <1>6, <1>7
<1>10. Trim(j, given) = j
  <2>1. Trim(j, given) = Object([n \in {m \in DOMAIN j.object : ~SaysNothing(j.object[m])} |-> given[n]])
    BY <1>4 DEF Trim
  <2>2. [n \in {m \in DOMAIN j.object : ~SaysNothing(j.object[m])} |-> given[n]] = given
    BY <1>6, <1>9
  <2>3. QED
    BY <1>4, <2>1, <2>2
<1>11. TrimmedRef(j) = j /\ TrimmedItem(j) = j /\ TrimmedField(j) = j
  BY <1>4, <1>8, <1>10 DEF TrimmedRef, TrimmedItem, TrimmedField
<1>12. ~SaysNothing(v)
  <2>1. DOMAIN v \notin {{"string"}, {"boolean"}, {"null"}} /\ "object" \notin DOMAIN v
    BY <1>1
  <2>2. QED
    BY <2>1, SaysMore
<1>13. ~SaysNothing(j)
  <2>1. DOMAIN j \notin {{"string"}, {"boolean"}, {"null"}} /\ DOMAIN j.object # {}
    BY <1>4, <1>6
  <2>2. QED
    BY <2>1, SaysMore
<1>14. QED
  BY <1>3, <1>11, <1>12, <1>13

(* The leaves: both programs write the same, and TypeScript reads it back, *)
(* but for a reference to another file, which it leaves as text.           *)
LeafReads(v, j) ==
  LET y == RevivedRef(j)
  IN  /\ RevivedItem(j) = y /\ RevivedField(j) = y
      /\ y # Null /\ y # Failed /\ "prefix" \notin DOMAIN y
      /\ TrimmedRef(y) = TrimmedRef(v) /\ TrimmedItem(y) = TrimmedItem(v) /\ TrimmedField(y) = TrimmedField(v)
      /\ (SaysNothing(y) <=> SaysNothing(v))

LEMMA LeafReadByTs ==
  ASSUME NEW f, LeafEntry(f), NEW v, GoLeaf(f, v) \/ TsLeaf(f, v), v # Null, PlainLeaf(v),
         NEW j, j = WriteLeaf(v) \/ j = ReplacedRef(v)
  PROVE  LeafReads(v, j)
<1> DEFINE y == RevivedRef(j)
<1>1. CASE GoReference(v)
  <2>1. j = ReferenceJson(v)
    BY <1>1, ReplacedLeaf DEF WriteLeaf, GoReference
  <2>2. MadeText(j)
    BY <1>1, <2>1, MadeReference
  <2>3. RevivedItem(j) = y /\ RevivedField(j) = y /\ y # Null /\ y # Failed /\ "prefix" \notin DOMAIN y
    BY <2>2, TextRevived
  <2>4. CASE "relativePath" \in DOMAIN v
    <3>1. j = Object(Only("$ref", RefText(v.relativePath, v.ref))) /\ v.relativePath # <<"">>
      BY <2>1, <2>4 DEF ReferenceJson, PlainLeaf
    <3>2. y = j
      <4>1. \A p, i : j = Object(Only("$ref", RefText(p, i))) /\ p # <<"">> => y = j
        BY <2>2, TextRevived
      <4>2. QED
        BY <3>1, <4>1
    <3>3. /\ TrimmedRef(j) = TrimmedRef(v) /\ TrimmedItem(j) = TrimmedItem(v) /\ TrimmedField(j) = TrimmedField(v)
          /\ ~SaysNothing(v) /\ ~SaysNothing(j)
      BY <1>1, <2>1, <2>4, TrimmedCross
    <3> HIDE DEF y
    <3>4. QED
      BY <2>3, <3>2, <3>3 DEF LeafReads, y
  <2>5. CASE "relativePath" \notin DOMAIN v
    <3>1. v = TypeReference(v.ref)
      BY <1>1, <2>5 DEF GoReference
    <3>2. j = Object(Only("$ref", RefText(<<"">>, v.ref)))
      BY <2>1, <2>5 DEF ReferenceJson
    <3>3. y = TypeReference(v.ref)
      BY <2>2, <3>2, TextRevived
    <3>4. y = v
      BY <3>1, <3>3
    <3> HIDE DEF y
    <3>5. QED
      BY <2>3, <3>4 DEF LeafReads, y
  <2>6. QED
    BY <2>4, <2>5
<1>2. CASE ~GoReference(v)
  <2>1. \/ DOMAIN v = {"string"} /\ v = String(v.string)
        \/ DOMAIN v = {"boolean"} /\ v = Boolean(v.boolean)
        \/ DOMAIN v = {"number"} /\ v = Number(v.number)
    BY <1>2, Leaves
  <2>2. "number" \in DOMAIN v => Float64(v.number) = v.number
    BY DEF PlainLeaf
  <2>3. "ref" \notin DOMAIN v
    BY <2>1
  <2>4. j = v
    BY <2>1, <2>2, <2>3, ReplacedLeaf DEF WriteLeaf, IsReference
  <2>5. JsonLeaf(j)
    <3>1. Holds(v, "string") \/ Holds(v, "boolean") \/ Holds(v, "number")
      BY <2>1, Shapes DEF Holds, String, Boolean, Number, Only
    <3>2. QED
      BY <2>4, <3>1 DEF JsonLeaf
  <2>6. RevivedItem(j) = RevivedLeaf(j) /\ RevivedField(j) = RevivedLeaf(j) /\ y = RevivedLeaf(j)
        /\ RevivedLeaf(j) = j /\ RevivedLeaf(j) # Failed /\ j # Null
    BY <2>2, <2>4, <2>5, LeafRevived
  <2>7. "prefix" \notin DOMAIN v
    BY <2>1
  <2> HIDE DEF y
  <2>8. y = v /\ RevivedItem(j) = y /\ RevivedField(j) = y /\ y # Null /\ y # Failed /\ "prefix" \notin DOMAIN y
    BY <2>4, <2>6, <2>7
  <2>9. QED
    BY <2>8 DEF LeafReads, y
<1>3. QED
  BY <1>1, <1>2

Live(m) == {n \in DOMAIN m : ~SaysNothing(m[n])}

LEMMA TrimmedObject ==
  ASSUME NEW m, NEW v, v = Object(m)
  PROVE  /\ TrimmedItem(v) = Object([n \in Live(m) |-> TrimmedRef(m[n])])
         /\ TrimmedField(v) = Object([n \in Live(m) |-> TrimmedItem(m[n])])
<1>1. DOMAIN v = {"object"} /\ v.object = m /\ Inside(v) = m
  BY Shapes DEF Inside
<1>2. \A inner : Trim(v, inner) = Object([n \in Live(m) |-> inner[n]])
  BY <1>1 DEF Trim, Live
<1>3. Each(v, TrimmedRef) = [n \in DOMAIN m |-> TrimmedRef(m[n])]
      /\ Each(v, TrimmedItem) = [n \in DOMAIN m |-> TrimmedItem(m[n])]
  BY <1>1 DEF Each
<1>4. /\ [n \in Live(m) |-> [x \in DOMAIN m |-> TrimmedRef(m[x])][n]] = [n \in Live(m) |-> TrimmedRef(m[n])]
      /\ [n \in Live(m) |-> [x \in DOMAIN m |-> TrimmedItem(m[x])][n]] = [n \in Live(m) |-> TrimmedItem(m[n])]
  BY DEF Live
<1>5. QED
  BY <1>2, <1>3, <1>4 DEF TrimmedItem, TrimmedField

LEMMA TrimmedArray ==
  ASSUME NEW m, NEW v, v = Array(m)
  PROVE  TrimmedField(v) = Array([n \in DOMAIN m |-> TrimmedItem(m[n])])
<1>1. DOMAIN v = {"array"} /\ Inside(v) = m
  BY Shapes DEF Inside
<1>2. \A inner : Trim(v, inner) = Array(inner)
  BY <1>1 DEF Trim
<1>3. Each(v, TrimmedItem) = [n \in DOMAIN m |-> TrimmedItem(m[n])]
  BY <1>1 DEF Each
<1>4. QED
  BY <1>2, <1>3 DEF TrimmedField

(* The items: of an object's fields some are left out, which say nothing.  *)
ItemReads(w, j) ==
  LET y == RevivedItem(j)
  IN  /\ y # Null /\ y # Failed /\ "prefix" \notin DOMAIN y
      /\ TrimmedItem(y) = TrimmedItem(w) /\ (SaysNothing(y) <=> SaysNothing(w))

LEMMA TableReadByTs ==
  ASSUME NEW m, NEW S, S \subseteq DOMAIN m, "type" \in S, "$ref" \notin S,
         NEW given, given = [n \in S |-> given[n]], \A n \in S : LeafReads(m[n], given[n]),
         \A n \in DOMAIN m : n \notin S => SaysNothing(m[n])
  PROVE  ItemReads(Object(m), Object(given))
<1> DEFINE j == Object(given)
           inner == [n \in S |-> RevivedRef(given[n])]
           y == RevivedItem(j)
<1>1. DOMAIN j = {"object"} /\ j.object = given /\ Inside(j) = given /\ Holds(j, "object") /\ DOMAIN given = S
  BY Shapes DEF Inside, Holds, Object, Only
<1>2. y = Reviver(j, inner)
  <2> HIDE DEF j
  <2>1. Each(j, RevivedRef) = inner
    BY <1>1 DEF Each
  <2>2. QED
    BY <2>1 DEF RevivedItem
<1>3. ASSUME NEW n \in S
      PROVE  /\ inner[n] # Failed /\ TrimmedRef(inner[n]) = TrimmedRef(m[n])
             /\ (SaysNothing(inner[n]) <=> SaysNothing(m[n]))
  BY DEF LeafReads
<1>4. Failed \notin RangeOf(inner) /\ ~IsText(inner)
  BY <1>3 DEF RangeOf, IsText
<1>5. DOMAIN inner = S
  OBVIOUS
<1> HIDE DEF inner
<1>6. y = Object(inner)
  <2> HIDE DEF j
  <2>1. QED
    BY <1>1, <1>2, <1>4, Revive
<1> HIDE DEF y
<1>7. Live(inner) = Live(m)
  BY <1>3, <1>5 DEF Live
<1>8. [n \in Live(inner) |-> TrimmedRef(inner[n])] = [n \in Live(m) |-> TrimmedRef(m[n])]
  BY <1>3, <1>5, <1>7 DEF Live
<1>9. TrimmedItem(y) = TrimmedItem(Object(m))
  BY <1>6, <1>8, TrimmedObject
<1>10. y # Null /\ y # Failed /\ DOMAIN y = {"object"} /\ y.object = inner
  BY <1>6, Shapes, Apart
<1>11. ~SaysNothing(y)
  BY <1>5, <1>10, SaysMore
<1>12. ~SaysNothing(Object(m))
  <2> DEFINE w == Object(m)
  <2>1. DOMAIN w = {"object"} /\ w.object = m
    BY Shapes
  <2> HIDE DEF w
  <2>2. ~SaysNothing(w)
    BY <2>1, SaysMore
  <2>3. QED
    BY <2>2 DEF w
<1>13. QED
  BY <1>9, <1>10, <1>11, <1>12 DEF ItemReads, y

LEMMA ZeroSaysNothing ==
  ASSUME NEW f, LeafEntry(f), f.omitempty, NEW v, v = Null \/ IsEmpty(f, v), GoLeaf(f, v) \/ TsLeaf(f, v)
  PROVE  SaysNothing(v)
<1>1. f.zero \in {Null, String(""), Boolean(FALSE)}
  BY LeafZero
<1>2. v = Null \/ v = f.zero
  BY Leaves DEF IsEmpty
<1>3. QED
  BY <1>1, <1>2, Zenon DEF SaysNothing

LEMMA LeafThere ==
  ASSUME NEW f, LeafEntry(f), NEW v, GoLeaf(f, v), SoundLeaf(f, v), ~(f.omitempty /\ IsEmpty(f, v))
  PROVE  v # Null
<1>1. CASE f.omitempty
  <2>1. f.zero # Null => f.holds \in {"string", "boolean"}
    BY <1>1 DEF LeafEntry
  <2>2. f.zero # Null => DOMAIN v = {f.holds}
    BY <2>1 DEF GoLeaf, Holds
  <2>3. f.zero # Null => v # Null
    BY <2>1, <2>2, Apart
  <2>4. QED
    BY <1>1, <2>3 DEF IsEmpty
<1>2. CASE ~f.omitempty
  BY <1>2, Apart DEF LeafEntry, GoLeaf, SoundLeaf, Holds, Null
<1>3. QED
  BY <1>1, <1>2

LEMMA ItemReadByTs ==
  ASSUME NEW items, ItemEntry(items), NEW w, SoundItem(items, w),
         NEW j, \/ GoItem(items, w) /\ j = WriteItem(items, w)
                \/ TsItem(items, w) /\ j = ReplacedItem(w)
  PROVE  ItemReads(w, j)
<1>1. CASE items = Reference
  <2>1. LeafEntry(Reference) /\ (GoLeaf(Reference, w) \/ TsLeaf(Reference, w)) /\ PlainLeaf(w) /\ w # Null
    BY <1>1, TheReference DEF GoItem, TsItem, SoundItem, SoundLeaf
  <2>2. j = WriteLeaf(w) \/ j = ReplacedRef(w)
    BY <1>1, <2>1, ReplacedLeaf DEF WriteItem
  <2>3. LeafReads(w, j)
    BY <2>1, <2>2, LeafReadByTs
  <2>4. QED
    BY <2>3 DEF LeafReads, ItemReads
<1>2. CASE items # Reference
  <2> DEFINE m == w.object
  <2>1. TableEntry(items) /\ Holds(w, "object") /\ FieldsOf(m, items)
        /\ \A name \in DOMAIN items : SoundLeaf(items[name], m[name])
    BY <1>2 DEF ItemEntry, GoItem, TsItem, SoundItem
  <2>2. w = Object(m) /\ DOMAIN m = DOMAIN items /\ m = [n \in DOMAIN m |-> m[n]]
    BY <2>1, Held DEF FieldsOf
  <2>3. \A name \in DOMAIN items : LeafEntry(items[name]) /\ name # "$ref"
    BY <2>1 DEF TableEntry
  <2>4. "type" \in DOMAIN items /\ items["type"] = Reference
    BY <2>1 DEF TableEntry
  <2>5. CASE GoItem(items, w) /\ j = WriteItem(items, w)
    <3> DEFINE T == Written(items, m)
               given == [n \in T |-> WriteLeaf(m[n])]
    <3>1. j = Object(given)
      BY <1>2, <2>5 DEF WriteItem
    <3>2. T \subseteq DOMAIN m /\ "$ref" \notin T
      BY <2>2, <2>3 DEF Written
    <3>3. \A name \in DOMAIN items : GoLeaf(items[name], m[name])
      BY <1>2, <2>5 DEF GoItem
    <3>4. "type" \in T
      BY <2>4, TheReference DEF Written
    <3>5. ASSUME NEW n \in T PROVE LeafReads(m[n], given[n])
      <4> DEFINE f == items[n]
                 v == m[n]
      <4>1. n \in DOMAIN items /\ LeafEntry(f) /\ GoLeaf(f, v) /\ SoundLeaf(f, v) /\ ~(f.omitempty /\ IsEmpty(f, v))
        BY <2>1, <2>3, <3>3 DEF Written
      <4>2. given[n] = WriteLeaf(v)
        OBVIOUS
      <4> HIDE DEF f, v
      <4>3. v # Null
        BY <4>1, LeafThere
      <4>4. LeafReads(v, WriteLeaf(v))
        BY <4>1, <4>3, LeafReadByTs DEF SoundLeaf
      <4>5. QED
        BY <4>2, <4>4 DEF v
    <3>6. ASSUME NEW n \in DOMAIN m, n \notin T PROVE SaysNothing(m[n])
      <4>1. items[n].omitempty /\ IsEmpty(items[n], m[n]) /\ LeafEntry(items[n]) /\ GoLeaf(items[n], m[n])
        BY <2>2, <2>3, <3>3, <3>6 DEF Written
      <4>2. QED
        BY <4>1, ZeroSaysNothing
    <3>7. given = [n \in T |-> given[n]]
      OBVIOUS
    <3> HIDE DEF T, given, m
    <3>8. ItemReads(Object(m), Object(given))
      BY <3>2, <3>4, <3>5, <3>6, <3>7, TableReadByTs
    <3>9. QED
      BY <2>2, <3>1, <3>8
  <2>6. CASE TsItem(items, w) /\ j = ReplacedItem(w)
    <3> DEFINE T == {n \in DOMAIN m : m[n] # Null}
               given == [n \in T |-> ReplacedRef(m[n])]
    <3>1. j = Object(given)
      BY <2>1, <2>6, ReplacedObject
    <3>2. T \subseteq DOMAIN m /\ "$ref" \notin T
      BY <2>2, <2>3
    <3>3. \A name \in DOMAIN items : TsLeaf(items[name], m[name])
      BY <1>2, <2>6 DEF TsItem
    <3>4. "type" \in T
      BY <2>1, <2>2, <2>4, TheReference DEF SoundLeaf
    <3>5. ASSUME NEW n \in T PROVE LeafReads(m[n], given[n])
      <4> DEFINE f == items[n]
                 v == m[n]
      <4>1. LeafEntry(f) /\ TsLeaf(f, v) /\ PlainLeaf(v) /\ v # Null /\ given[n] = ReplacedRef(v)
        BY <2>1, <2>2, <2>3, <3>3 DEF SoundLeaf
      <4> HIDE DEF f, v
      <4>2. LeafReads(v, ReplacedRef(v))
        BY <4>1, LeafReadByTs
      <4>3. QED
        BY <4>1, <4>2 DEF v
    <3>6. ASSUME NEW n \in DOMAIN m, n \notin T PROVE SaysNothing(m[n])
      BY <3>6 DEF SaysNothing
    <3>7. given = [n \in T |-> given[n]]
      OBVIOUS
    <3> HIDE DEF T, given, m
    <3>8. ItemReads(Object(m), Object(given))
      BY <3>2, <3>4, <3>5, <3>6, <3>7, TableReadByTs
    <3>9. QED
      BY <2>2, <3>1, <3>8
  <2>7. QED
    BY <2>5, <2>6
<1>3. QED
  BY <1>1, <1>2

FieldReads(v, j) ==
  LET y == RevivedField(j)
  IN  /\ y # Null /\ y # Failed
      /\ TrimmedField(y) = TrimmedField(v) /\ (SaysNothing(y) <=> SaysNothing(v))

LEMMA WholeSays ==
  ASSUME NEW f, CollectionEntry(f), NEW m
  PROVE  SaysNothing(Whole(f, m)) <=> (f.holds = "object" /\ DOMAIN m = {})
<1> DEFINE w == Whole(f, m)
<1>1. f.holds \in {"array", "object"} /\ DOMAIN w = {f.holds} /\ (f.holds = "object" => w.object = m)
  BY Wholes
<1> HIDE DEF w
<1>2. CASE f.holds = "object" /\ DOMAIN m = {}
  <2>1. "object" \in DOMAIN w /\ DOMAIN w.object = {}
    BY <1>1, <1>2
  <2>2. SaysNothing(w)
    BY <2>1, Zenon DEF SaysNothing
  <2>3. QED
    BY <1>2, <2>2 DEF w
<1>3. CASE ~(f.holds = "object" /\ DOMAIN m = {})
  <2>1. DOMAIN w \notin {{"string"}, {"boolean"}, {"null"}} /\ ("object" \in DOMAIN w => DOMAIN w.object # {})
    BY <1>1, <1>3
  <2>2. ~SaysNothing(w)
    BY <2>1, SaysMore
  <2>3. QED
    BY <1>3, <2>2 DEF w
<1>4. QED
  BY <1>2, <1>3

LEMMA WholeTrimmed ==
  ASSUME NEW f, CollectionEntry(f), NEW m, NEW n, DOMAIN n = DOMAIN m,
         \A x \in DOMAIN m : TrimmedItem(n[x]) = TrimmedItem(m[x]) /\ (SaysNothing(n[x]) <=> SaysNothing(m[x]))
  PROVE  TrimmedField(Whole(f, n)) = TrimmedField(Whole(f, m))
<1>1. Live(n) = Live(m)
  BY DEF Live
<1>2. [x \in Live(n) |-> TrimmedItem(n[x])] = [x \in Live(m) |-> TrimmedItem(m[x])]
  BY <1>1 DEF Live
<1>3. [x \in DOMAIN n |-> TrimmedItem(n[x])] = [x \in DOMAIN m |-> TrimmedItem(m[x])]
  OBVIOUS
<1>4. CASE f.holds = "object"
  <2>1. Whole(f, n) = Object(n) /\ Whole(f, m) = Object(m)
    BY <1>4, Wholes
  <2>2. QED
    BY <1>2, <2>1, TrimmedObject
<1>5. CASE f.holds = "array"
  <2>1. Whole(f, n) = Array(n) /\ Whole(f, m) = Array(m)
    BY <1>5, Wholes
  <2>2. QED
    BY <1>3, <2>1, TrimmedArray
<1>6. QED
  BY <1>4, <1>5, Wholes

LEMMA WholeReadByTs ==
  ASSUME NEW f, CollectionEntry(f), NEW m, NEW given, DOMAIN given = DOMAIN m,
         \A x \in DOMAIN m : ItemReads(m[x], given[x])
  PROVE  FieldReads(Whole(f, m), Whole(f, given))
<1> DEFINE j == Whole(f, given)
           inner == [x \in DOMAIN m |-> RevivedItem(given[x])]
           y == RevivedField(j)
<1>1. Inside(j) = given /\ (Holds(j, "object") \/ Holds(j, "array")) /\ Holds(j, f.holds)
  <2>1. f.holds \in {"array", "object"} /\ Holds(j, f.holds) /\ Inside(j) = given
    BY Wholes
  <2> HIDE DEF j
  <2>2. QED
    BY <2>1
<1>2. y = Reviver(j, inner)
  <2> HIDE DEF j
  <2>1. Each(j, RevivedItem) = inner
    BY <1>1 DEF Each
  <2>2. QED
    BY <2>1 DEF RevivedField
<1>3. ASSUME NEW x \in DOMAIN m
      PROVE  /\ inner[x] # Failed /\ "prefix" \notin DOMAIN inner[x]
             /\ TrimmedItem(inner[x]) = TrimmedItem(m[x]) /\ (SaysNothing(inner[x]) <=> SaysNothing(m[x]))
  BY DEF ItemReads
<1>4. Failed \notin RangeOf(inner) /\ ~IsText(inner) /\ DOMAIN inner = DOMAIN m
  BY <1>3 DEF RangeOf, IsText
<1> HIDE DEF inner
<1>5. y = Whole(f, inner)
  <2>1. CASE f.holds = "object"
    <3>1. Holds(j, "object") /\ Whole(f, inner) = Object(inner)
      BY <1>1, <2>1, Wholes
    <3> HIDE DEF j
    <3>2. QED
      BY <1>2, <1>4, <3>1, Revive
  <2>2. CASE f.holds = "array"
    <3>1. Holds(j, "array") /\ Whole(f, inner) = Array(inner)
      BY <1>1, <2>2, Wholes
    <3> HIDE DEF j
    <3>2. QED
      BY <1>2, <1>4, <3>1, Revive
  <2>3. QED
    BY <2>1, <2>2, Wholes
<1>6. TrimmedField(Whole(f, inner)) = TrimmedField(Whole(f, m))
  BY <1>3, <1>4, WholeTrimmed
<1>7. SaysNothing(Whole(f, inner)) <=> SaysNothing(Whole(f, m))
  BY <1>4, WholeSays
<1>8. Whole(f, inner) # Null /\ Whole(f, inner) # Failed
  BY Wholes
<1> HIDE DEF y
<1>9. QED
  BY <1>5, <1>6, <1>7, <1>8 DEF FieldReads, y

LEMMA FieldReadByTs ==
  ASSUME NEW f, Entry(f), NEW v, v # Null, SoundField(f, v),
         NEW j, \/ GoField(f, v) /\ j = WriteField(f, v)
                \/ TsField(f, v) /\ j = ReplacedField(v)
  PROVE  FieldReads(v, j)
<1>1. CASE LeafEntry(f)
  <2>1. (GoLeaf(f, v) \/ TsLeaf(f, v)) /\ PlainLeaf(v)
    BY <1>1, LeafField DEF SoundLeaf
  <2>2. j = WriteLeaf(v) \/ j = ReplacedRef(v)
    BY <1>1, <2>1, ReplacedLeaf, LeafFieldWritten
  <2>3. LeafReads(v, j)
    BY <1>1, <2>1, <2>2, LeafReadByTs
  <2>4. QED
    BY <2>3 DEF LeafReads, FieldReads
<1>2. CASE CollectionEntry(f)
  <2> DEFINE m == v[f.holds]
  <2>1. f.holds \in {"array", "object"} /\ ItemEntry(f.items)
    BY <1>2 DEF CollectionEntry, ItemEntry
  <2>2. v = Whole(f, m) /\ m = [x \in DOMAIN m |-> m[x]]
    BY <2>1, WholeOf DEF TsField, GoField, FieldsOf
  <2>3. \A x \in DOMAIN m : SoundItem(f.items, m[x])
    BY <2>1 DEF SoundField
  <2>4. CASE GoField(f, v) /\ j = WriteField(f, v)
    <3> DEFINE given == [x \in DOMAIN m |-> WriteItem(f.items, m[x])]
    <3>1. \A x \in DOMAIN m : GoItem(f.items, m[x])
      BY <2>1, <2>4 DEF GoField
    <3>2. ASSUME NEW x \in DOMAIN m PROVE ItemReads(m[x], given[x])
      <4> DEFINE w == m[x]
                 items == f.items
      <4>1. ItemEntry(items) /\ SoundItem(items, w) /\ GoItem(items, w) /\ given[x] = WriteItem(items, w)
        BY <2>1, <2>3, <3>1
      <4> HIDE DEF w, items
      <4>2. ItemReads(w, WriteItem(items, w))
        BY <4>1, ItemReadByTs
      <4>3. QED
        BY <4>1, <4>2 DEF w
    <3> HIDE DEF m
    <3>3. j = Whole(f, given)
      BY <1>2, <2>2, <2>4, WholeWritten
    <3>4. DOMAIN given = DOMAIN m
      OBVIOUS
    <3> HIDE DEF given
    <3>5. FieldReads(Whole(f, m), Whole(f, given))
      BY <1>2, <3>2, <3>4, WholeReadByTs
    <3>6. QED
      BY <2>2, <3>3, <3>5
  <2>5. CASE TsField(f, v) /\ j = ReplacedField(v)
    <3> DEFINE given == [x \in DOMAIN m |-> ReplacedItem(m[x])]
    <3>1. \A x \in DOMAIN m : TsItem(f.items, m[x])
      BY <2>1, <2>5 DEF TsField
    <3>2. ASSUME NEW x \in DOMAIN m PROVE ItemReads(m[x], given[x]) /\ m[x] # Null
      <4> DEFINE w == m[x]
                 items == f.items
      <4>1. ItemEntry(items) /\ SoundItem(items, w) /\ TsItem(items, w) /\ given[x] = ReplacedItem(w)
        BY <2>1, <2>3, <3>1
      <4> HIDE DEF w, items
      <4>2. ItemReads(w, ReplacedItem(w))
        BY <4>1, ItemReadByTs
      <4>4. w # Null
        BY <4>1, TheReference, Shapes DEF TsItem, Holds, SoundItem, SoundLeaf
      <4>3. QED
        BY <4>1, <4>2, <4>4 DEF w
    <3>7. \A x \in DOMAIN m : m[x] # Null
      BY <3>2
    <3> HIDE DEF m
    <3>3. j = Whole(f, given)
      BY <1>2, <2>2, <2>5, <3>7, ReplacedWhole
    <3>4. DOMAIN given = DOMAIN m
      OBVIOUS
    <3> HIDE DEF given
    <3>5. FieldReads(Whole(f, m), Whole(f, given))
      BY <1>2, <3>2, <3>4, WholeReadByTs
    <3>6. QED
      BY <2>2, <3>3, <3>5
  <2>6. QED
    BY <2>4, <2>5
<1>3. QED
  BY <1>1, <1>2 DEF Entry

(* Whole types.                                                            *)
LEMMA PartsReadByTs ==
  ASSUME NEW t, t = [kind |-> t.kind, fields |-> t.fields], "$type" \notin DOMAIN t.fields, "$ref" \notin DOMAIN t.fields,
         NEW given, given = [n \in DOMAIN given |-> given[n]], "$type" \in DOMAIN given, given["$type"] = String(t.kind),
         \A n \in DOMAIN given \ {"$type"} : n \in DOMAIN t.fields /\ FieldReads(t.fields[n], given[n]),
         \A n \in DOMAIN t.fields : n \notin DOMAIN given => SaysNothing(t.fields[n])
  PROVE  /\ readTypesJson(Object(given)) # Failed
         /\ TrimmedType(readTypesJson(Object(given))) = TrimmedType(t)
<1> DEFINE j == Object(given)
           inner == [n \in DOMAIN given |-> RevivedField(given[n])]
           S == DOMAIN given \ {"$type"}
           g == [n \in S |-> inner[n]]
           m == t.fields
           r == [kind |-> t.kind, fields |-> g]
<1>1. Holds(j, "object") /\ j.object = given
  BY Shapes DEF Holds, Object, Only
<1>2. Holds(given["$type"], "string") /\ given["$type"].string = t.kind
  BY Shapes DEF Holds, String, Only
<1>3. inner["$type"] # Failed
  <2> DEFINE s == given["$type"]
             y == RevivedLeaf(s)
  <2>1. JsonLeaf(s)
    BY <1>2 DEF JsonLeaf
  <2>2. s # Null
    BY <1>2, Shapes DEF Holds
  <2>3. inner["$type"] = RevivedField(s)
    OBVIOUS
  <2> HIDE DEF s
  <2>4. RevivedField(s) = y /\ y # Failed
    BY <2>1, <2>2, LeafRevived
  <2>5. QED
    BY <2>3, <2>4
<1>4. ASSUME NEW n \in S
      PROVE  /\ n \in DOMAIN m /\ inner[n] # Failed /\ TrimmedField(inner[n]) = TrimmedField(m[n])
             /\ (SaysNothing(inner[n]) <=> SaysNothing(m[n]))
  BY DEF FieldReads
<1>5. Failed \notin RangeOf(inner)
  BY <1>3, <1>4 DEF RangeOf
<1>6. "$ref" \notin DOMAIN given
  <2>1. "$ref" # "$type"
    OBVIOUS
  <2>2. QED
    BY <2>1
<1>7. readTypesJson(j) = r /\ readTypesJson(j) # Failed
  <2>1. "$type" \in DOMAIN j.object /\ Holds(j.object["$type"], "string") /\ "$ref" \notin DOMAIN j.object
        /\ inner = [n \in DOMAIN j.object |-> RevivedField(j.object[n])]
    BY <1>1, <1>2, <1>6
  <2> HIDE DEF inner, j
  <2>2. readTypesJson(j) = [kind |-> j.object["$type"].string,
                            fields |-> [name \in DOMAIN j.object \ {"$type"} |-> inner[name]]]
        /\ readTypesJson(j) # Failed
    <3>1. Failed \notin RangeOf(inner) =>
            /\ readTypesJson(j) = [kind |-> j.object["$type"].string,
                                   fields |-> [name \in DOMAIN j.object \ {"$type"} |-> inner[name]]]
            /\ readTypesJson(j) # Failed
      BY <1>1, <2>1, TsRead
    <3>2. QED
      BY <1>5, <3>1
  <2>3. QED
    BY <1>1, <1>2, <2>2
<1>8. DOMAIN g = S /\ \A n \in S : g[n] = inner[n]
  OBVIOUS
<1>9. \A n \in DOMAIN m : n \notin S => SaysNothing(m[n])
  OBVIOUS
<1> HIDE DEF inner, g, S
<1>10. {n \in DOMAIN g : ~SaysNothing(g[n])} = {n \in DOMAIN m : ~SaysNothing(m[n])}
  BY <1>4, <1>8, <1>9
<1>11. [n \in {x \in DOMAIN g : ~SaysNothing(g[x])} |-> TrimmedField(g[n])] =
         [n \in {x \in DOMAIN m : ~SaysNothing(m[x])} |-> TrimmedField(m[n])]
  BY <1>4, <1>8, <1>9, <1>10
<1>12. TrimmedType(r) = TrimmedType(t)
  BY <1>11 DEF TrimmedType
<1>13. QED
  BY <1>7, <1>12

AllocatedType(t) ==
  \A name \in DOMAIN t.fields :
    Fields[t.kind][name].holds \in {"array", "object"} /\ ~Fields[t.kind][name].omitempty => t.fields[name] # Null

LEMMA FieldThere ==
  ASSUME NEW f, Entry(f), NEW v, GoField(f, v), SoundField(f, v), ~(f.omitempty /\ IsEmpty(f, v)),
         f.holds \in {"array", "object"} /\ ~f.omitempty => v # Null
  PROVE  v # Null
<1>1. CASE LeafEntry(f)
  BY <1>1, LeafField, LeafThere
<1>2. CASE CollectionEntry(f)
  BY <1>2 DEF CollectionEntry, IsEmpty
<1>3. QED
  BY <1>1, <1>2 DEF Entry

LEMMA EmptySaysNothing ==
  ASSUME NEW f, Entry(f), f.omitempty, NEW v, IsEmpty(f, v), GoField(f, v)
  PROVE  SaysNothing(v)
<1>1. CASE LeafEntry(f)
  BY <1>1, LeafField, ZeroSaysNothing
<1>2. CASE CollectionEntry(f)
  <2>1. v = Null \/ ("object" \in DOMAIN v /\ DOMAIN v.object = {})
    BY <1>2 DEF CollectionEntry, IsEmpty
  <2>2. QED
    BY <2>1, Zenon DEF SaysNothing
<1>3. QED
  BY <1>1, <1>2 DEF Entry

LEMMA GoTypeReadByTs ==
  ASSUME NEW t, GoType(t), SoundType(t), AllocatedType(t)
  PROVE  /\ readTypesJson(MarshalJSON(t)) # Failed
         /\ TrimmedType(readTypesJson(MarshalJSON(t))) = TrimmedType(t)
<1> DEFINE k == t.kind
<1>1. /\ k \in DOMAIN Fields /\ t = [kind |-> t.kind, fields |-> t.fields]
      /\ DOMAIN t.fields = DOMAIN Fields[k] /\ \A name \in DOMAIN Fields[k] : GoField(Fields[k][name], t.fields[name])
  BY TypeParts
<1>2. PICK given : /\ MarshalJSON(t) = Object(given) /\ Lookup(given, "$type") = String(k)
                   /\ \A name \in DOMAIN Fields[k] : Lookup(given, name) = SentField(Fields[k][name], t.fields[name])
                   /\ given = [name \in DOMAIN given |-> given[name]] /\ "$type" \in DOMAIN given
                   /\ \A name \in DOMAIN given \ {"$type"} :
                         /\ name \in DOMAIN Fields[k]
                         /\ given[name] = WriteField(Fields[k][name], t.fields[name])
  BY <1>1, MarshalLookup
<1>3. ASSUME NEW n \in DOMAIN Fields[k]
      PROVE  /\ Entry(Fields[k][n]) /\ GoField(Fields[k][n], t.fields[n]) /\ SoundField(Fields[k][n], t.fields[n])
             /\ Fields[k][n].holds \in {"array", "object"} /\ ~Fields[k][n].omitempty => t.fields[n] # Null
             /\ n \notin {"$ref", "$type"}
  BY <1>1, Entries DEF SoundType, AllocatedType
<1>4. ASSUME NEW n \in DOMAIN given \ {"$type"}
      PROVE  n \in DOMAIN t.fields /\ FieldReads(t.fields[n], given[n])
  <2> DEFINE f == Fields[k][n]
             v == t.fields[n]
  <2>1. n \in DOMAIN Fields[k] /\ given[n] = WriteField(f, v) /\ given[n] = SentField(f, v)
    BY <1>2 DEF Lookup
  <2>2. /\ Entry(f) /\ GoField(f, v) /\ SoundField(f, v)
        /\ f.holds \in {"array", "object"} /\ ~f.omitempty => v # Null
    BY <1>3, <2>1
  <2> HIDE DEF f, v, k
  <2>3. WriteField(f, v) # Missing
    BY <2>2, FieldMadeByGo
  <2>4. ~(f.omitempty /\ IsEmpty(f, v))
    BY <2>1, <2>3 DEF SentField
  <2>5. v # Null
    BY <2>2, <2>4, FieldThere
  <2>6. FieldReads(v, WriteField(f, v))
    BY <2>2, <2>5, FieldReadByTs
  <2>7. QED
    BY <1>1, <2>1, <2>6 DEF v
<1>5. ASSUME NEW n \in DOMAIN t.fields, n \notin DOMAIN given PROVE SaysNothing(t.fields[n])
  <2> DEFINE f == Fields[k][n]
             v == t.fields[n]
  <2>1. n \in DOMAIN Fields[k] /\ SentField(f, v) = Missing
    BY <1>1, <1>2, <1>5 DEF Lookup
  <2>2. Entry(f) /\ GoField(f, v)
    BY <1>3, <2>1
  <2> HIDE DEF f, v, k
  <2>3. WriteField(f, v) # Missing
    BY <2>2, FieldMadeByGo
  <2>4. f.omitempty /\ IsEmpty(f, v)
    BY <2>1, <2>3 DEF SentField
  <2>5. SaysNothing(v)
    BY <2>2, <2>4, EmptySaysNothing
  <2>6. QED
    BY <2>5 DEF v
<1>6. given["$type"] = String(k) /\ "$type" \notin DOMAIN t.fields /\ "$ref" \notin DOMAIN t.fields
  BY <1>1, <1>2, <1>3 DEF Lookup
<1>7. /\ readTypesJson(Object(given)) # Failed
      /\ TrimmedType(readTypesJson(Object(given))) = TrimmedType(t)
  BY <1>1, <1>2, <1>4, <1>5, <1>6, PartsReadByTs
<1>8. QED
  BY <1>2, <1>7

LEMMA TsTypeReadByTs ==
  ASSUME NEW t, TsType(t), SoundType(t), t.kind # "BuiltInType"
  PROVE  /\ readTypesJson(writeTypesJson(t)) # Failed
         /\ TrimmedType(readTypesJson(writeTypesJson(t))) = TrimmedType(t)
<1> DEFINE k == t.kind
<1>1. /\ k \in DOMAIN Fields /\ t = [kind |-> t.kind, fields |-> t.fields]
      /\ DOMAIN t.fields = DOMAIN Fields[k] /\ "$type" \notin DOMAIN t.fields
      /\ \A name \in DOMAIN Fields[k] : TsField(Fields[k][name], t.fields[name])
  BY TsParts
<1>2. PICK given : /\ writeTypesJson(t) = Object(given) /\ Lookup(given, "$type") = String(k)
                   /\ \A name \in DOMAIN t.fields : Lookup(given, name) = TsSentField(t.fields[name])
                   /\ given = [name \in DOMAIN given |-> given[name]] /\ "$type" \in DOMAIN given
                   /\ \A name \in DOMAIN given \ {"$type"} :
                         /\ name \in DOMAIN t.fields /\ t.fields[name] # Null
                         /\ given[name] = ReplacedField(t.fields[name])
  BY <1>1, TsMarshalLookup
<1>3. ASSUME NEW n \in DOMAIN Fields[k]
      PROVE  /\ Entry(Fields[k][n]) /\ TsField(Fields[k][n], t.fields[n]) /\ SoundField(Fields[k][n], t.fields[n])
             /\ n \notin {"$ref", "$type"}
  BY <1>1, Entries DEF SoundType
<1>4. ASSUME NEW n \in DOMAIN given \ {"$type"}
      PROVE  n \in DOMAIN t.fields /\ FieldReads(t.fields[n], given[n])
  <2> DEFINE f == Fields[k][n]
             v == t.fields[n]
  <2>1. n \in DOMAIN Fields[k] /\ given[n] = ReplacedField(v) /\ v # Null
    BY <1>1, <1>2
  <2>2. Entry(f) /\ TsField(f, v) /\ SoundField(f, v)
    BY <1>3, <2>1
  <2> HIDE DEF f, v, k
  <2>3. FieldReads(v, ReplacedField(v))
    BY <2>1, <2>2, FieldReadByTs
  <2>4. QED
    BY <1>1, <2>1, <2>3 DEF v
<1>5. ASSUME NEW n \in DOMAIN t.fields, n \notin DOMAIN given PROVE SaysNothing(t.fields[n])
  <2> DEFINE f == Fields[k][n]
             v == t.fields[n]
             j == ReplacedField(v)
  <2>1. n \in DOMAIN Fields[k] /\ TsSentField(v) = Missing
    BY <1>1, <1>2, <1>5 DEF Lookup
  <2>2. Entry(f) /\ TsField(f, v)
    BY <1>3, <2>1
  <2> HIDE DEF f, v, k
  <2>3. v # Null => j # Missing
    <3> SUFFICES ASSUME v # Null PROVE j # Missing
      OBVIOUS
    <3>1. JsonField(j)
      BY <2>2, FieldMadeByTs, MadeFieldIsJson
    <3> HIDE DEF j
    <3>2. Deep(j)
      BY <3>1, Deeper
    <3>3. JsonLeaf(j) \/ Container(j)
      BY <3>2 DEF Deep, Shape
    <3>4. JsonLeaf(j) => j # Missing
      BY LeafShape
    <3>5. Container(j) => j # Missing
      BY Shapes DEF Container, Holds
    <3>6. QED
      BY <3>3, <3>4, <3>5
  <2>4. v = Null
    BY <2>1, <2>3 DEF TsSentField
  <2>5. QED
    BY <2>4 DEF SaysNothing, v
<1>6. given["$type"] = String(k) /\ "$type" \notin DOMAIN t.fields /\ "$ref" \notin DOMAIN t.fields
  BY <1>1, <1>2, <1>3 DEF Lookup
<1>7. /\ readTypesJson(Object(given)) # Failed
      /\ TrimmedType(readTypesJson(Object(given))) = TrimmedType(t)
  BY <1>1, <1>2, <1>4, <1>5, <1>6, PartsReadByTs
<1>8. QED
  BY <1>2, <1>7

(* What Go fills in says nothing.                                          *)
LEMMA LeafFilledSays ==
  ASSUME NEW f, LeafEntry(f), NEW v, SoundLeaf(f, v), GoLeaf(f, v) \/ (TsLeaf(f, v) /\ FitsLeaf(v))
  PROVE  /\ SaysNothing(Fill(f, v)) <=> SaysNothing(v)
         /\ ~SaysNothing(v) => Fill(f, v) = v
<1>1. Fill(f, v) # v => f.omitempty /\ v = Null /\ Fill(f, v) = f.zero
  BY LeafFill DEF FitsLeaf
<1>2. f.omitempty => SaysNothing(f.zero)
  <2>1. f.omitempty => f.zero \in {Null, String(""), Boolean(FALSE)}
    BY LeafZero
  <2>2. QED
    BY <2>1, Zenon DEF SaysNothing
<1>3. SaysNothing(Null)
  BY Zenon DEF SaysNothing
<1>4. QED
  BY <1>1, <1>2, <1>3

LEMMA ItemFilledSays ==
  ASSUME NEW items, ItemEntry(items), NEW w, SoundItem(items, w),
         GoItem(items, w) \/ (TsItem(items, w) /\ FitsItem(items, w))
  PROVE  /\ TrimmedItem(FilledItem(items, w)) = TrimmedItem(w)
         /\ SaysNothing(FilledItem(items, w)) <=> SaysNothing(w)
<1>1. CASE items = Reference
  BY <1>1 DEF FilledItem
<1>2. CASE items # Reference
  <2> DEFINE m == w.object
             g == [name \in DOMAIN items |-> Fill(items[name], m[name])]
  <2>1. TableEntry(items) /\ Holds(w, "object") /\ FieldsOf(m, items)
        /\ \A name \in DOMAIN items : SoundLeaf(items[name], m[name])
    BY <1>2 DEF ItemEntry, GoItem, TsItem, SoundItem
  <2>2. w = Object(m) /\ DOMAIN m = DOMAIN items
    BY <2>1, Held DEF FieldsOf
  <2>3. \A name \in DOMAIN items : LeafEntry(items[name])
    BY <2>1 DEF TableEntry
  <2>4. "type" \in DOMAIN items
    BY <2>1 DEF TableEntry
  <2>5. \A name \in DOMAIN items : GoLeaf(items[name], m[name]) \/ (TsLeaf(items[name], m[name]) /\ FitsLeaf(m[name]))
    BY <1>2 DEF GoItem, TsItem, FitsItem
  <2>6. ASSUME NEW n \in DOMAIN items
        PROVE  /\ SaysNothing(g[n]) <=> SaysNothing(m[n])
               /\ ~SaysNothing(m[n]) => g[n] = m[n]
    <3> DEFINE f == items[n]
               v == m[n]
    <3>1. LeafEntry(f) /\ SoundLeaf(f, v) /\ (GoLeaf(f, v) \/ (TsLeaf(f, v) /\ FitsLeaf(v)))
      BY <2>1, <2>3, <2>5
    <3>2. g[n] = Fill(f, v)
      OBVIOUS
    <3> HIDE DEF f, v, g
    <3>3. (SaysNothing(Fill(f, v)) <=> SaysNothing(v)) /\ (~SaysNothing(v) => Fill(f, v) = v)
      BY <3>1, LeafFilledSays
    <3>4. QED
      BY <3>2, <3>3 DEF v
  <2>7. FilledItem(items, w) = Object(g)
    BY <1>2 DEF FilledItem
  <2>8. DOMAIN g = DOMAIN items
    OBVIOUS
  <2> HIDE DEF g, m
  <2>9. Live(g) = Live(m)
    BY <2>2, <2>6, <2>8 DEF Live
  <2>10. [n \in Live(g) |-> TrimmedRef(g[n])] = [n \in Live(m) |-> TrimmedRef(m[n])]
    BY <2>2, <2>6, <2>8, <2>9 DEF Live
  <2>11. TrimmedItem(Object(g)) = TrimmedItem(Object(m))
    BY <2>10, TrimmedObject
  <2>12. ASSUME NEW x, DOMAIN x = DOMAIN items PROVE ~SaysNothing(Object(x))
    <3> DEFINE o == Object(x)
    <3>1. DOMAIN o = {"object"} /\ o.object = x
      BY Shapes
    <3> HIDE DEF o
    <3>2. ~SaysNothing(o)
      BY <2>4, <2>12, <3>1, SaysMore
    <3>3. QED
      BY <3>2 DEF o
  <2>13. QED
    BY <2>2, <2>7, <2>8, <2>11, <2>12
<1>3. QED
  BY <1>1, <1>2

LEMMA FieldFilledSays ==
  ASSUME NEW f, Entry(f), NEW v, SoundField(f, v), GoField(f, v) \/ (TsField(f, v) /\ FitsField(f, v)),
         f.holds \in {"array", "object"} /\ ~f.omitempty => v # Null
  PROVE  /\ SaysNothing(FilledField(f, v)) <=> SaysNothing(v)
         /\ ~SaysNothing(v) => TrimmedField(FilledField(f, v)) = TrimmedField(v)
<1>1. CASE LeafEntry(f)
  <2>1. SoundLeaf(f, v) /\ (GoLeaf(f, v) \/ (TsLeaf(f, v) /\ FitsLeaf(v)))
    BY <1>1, LeafField
  <2>2. GoLeaf(f, Fill(f, v))
    BY <1>1, <2>1, LeafFill DEF FitsLeaf
  <2>3. FilledField(f, v) = Fill(f, v)
    BY <1>1, <2>2, LeafFieldFilled
  <2>4. QED
    BY <1>1, <2>1, <2>3, LeafFilledSays
<1>2. CASE CollectionEntry(f)
  <2>1. f.holds \in {"array", "object"} /\ ItemEntry(f.items)
    BY <1>2 DEF CollectionEntry, ItemEntry
  <2>2. CASE v = Null
    <3>1. f.omitempty
      BY <1>2, <2>1, <2>2 DEF CollectionEntry
    <3>2. FilledField(f, v) = v
      BY <1>2, <2>2, <3>1, WholeFilled
    <3>3. QED
      BY <3>2
  <2>3. CASE v # Null
    <3> DEFINE m == v[f.holds]
               g == [x \in DOMAIN m |-> FilledItem(f.items, m[x])]
    <3>1. v = Whole(f, m) /\ m = [x \in DOMAIN m |-> m[x]]
      BY <2>1, <2>3, WholeOf DEF TsField, GoField, FieldsOf
    <3>2. ASSUME NEW x \in DOMAIN m
          PROVE  TrimmedItem(g[x]) = TrimmedItem(m[x]) /\ (SaysNothing(g[x]) <=> SaysNothing(m[x]))
      <4> DEFINE w == m[x]
                 items == f.items
      <4>1. ItemEntry(items) /\ SoundItem(items, w) /\ (GoItem(items, w) \/ (TsItem(items, w) /\ FitsItem(items, w)))
        BY <2>1, <2>3 DEF TsField, GoField, SoundField, FitsField
      <4>2. g[x] = FilledItem(items, w)
        OBVIOUS
      <4> HIDE DEF w, items, g
      <4>3. TrimmedItem(FilledItem(items, w)) = TrimmedItem(w) /\ (SaysNothing(FilledItem(items, w)) <=> SaysNothing(w))
        BY <4>1, ItemFilledSays
      <4>4. QED
        BY <4>2, <4>3 DEF w
    <3>3. DOMAIN g = DOMAIN m
      OBVIOUS
    <3> HIDE DEF m
    <3>4. CASE f.omitempty /\ DOMAIN m = {}
      <4>1. FilledField(f, v) = Null /\ f.holds = "object"
        BY <1>2, <3>1, <3>4, WholeFilled
      <4>2. SaysNothing(v)
        BY <1>2, <3>1, <3>4, <4>1, WholeSays
      <4>3. SaysNothing(Null)
        BY Zenon DEF SaysNothing
      <4>4. QED
        BY <4>1, <4>2, <4>3
    <3>5. CASE ~(f.omitempty /\ DOMAIN m = {})
      <4>1. FilledField(f, v) = Whole(f, g)
        BY <1>2, <3>1, <3>5, WholeFilled
      <4> HIDE DEF g
      <4>2. TrimmedField(Whole(f, g)) = TrimmedField(Whole(f, m))
        BY <1>2, <3>2, <3>3, WholeTrimmed
      <4>3. SaysNothing(Whole(f, g)) <=> SaysNothing(Whole(f, m))
        BY <1>2, <3>3, WholeSays
      <4>4. QED
        BY <3>1, <4>1, <4>2, <4>3
    <3>6. QED
      BY <3>4, <3>5
  <2>4. QED
    BY <2>2, <2>3
<1>3. QED
  BY <1>1, <1>2 DEF Entry

LEMMA TypeFilledSays ==
  ASSUME NEW t, SoundType(t), AllocatedType(t),
         GoType(t) \/ (TsType(t) /\ FitsType(t) /\ t.kind # "BuiltInType")
  PROVE  TrimmedType(FilledType(t)) = TrimmedType(t)
<1> DEFINE k == t.kind
           m == t.fields
           g == [name \in DOMAIN Fields[k] |-> FilledField(Fields[k][name], m[name])]
<1>1. k \in DOMAIN Fields /\ DOMAIN m = DOMAIN Fields[k]
  BY TypeParts, TsParts
<1>2. \A n \in DOMAIN Fields[k] : GoField(Fields[k][n], m[n]) \/ (TsField(Fields[k][n], m[n]) /\ FitsField(Fields[k][n], m[n]))
  <2>1. CASE GoType(t)
    BY <2>1, TypeParts
  <2>2. CASE TsType(t) /\ FitsType(t) /\ t.kind # "BuiltInType"
    BY <2>2, TsParts DEF FitsType
  <2>3. QED
    BY <2>1, <2>2
<1>3. ASSUME NEW n \in DOMAIN Fields[k]
      PROVE  /\ SaysNothing(g[n]) <=> SaysNothing(m[n])
             /\ ~SaysNothing(m[n]) => TrimmedField(g[n]) = TrimmedField(m[n])
  <2> DEFINE f == Fields[k][n]
             v == m[n]
  <2>1. /\ Entry(f) /\ SoundField(f, v) /\ (GoField(f, v) \/ (TsField(f, v) /\ FitsField(f, v)))
        /\ f.holds \in {"array", "object"} /\ ~f.omitempty => v # Null
    BY <1>1, <1>2, Entries DEF SoundType, AllocatedType
  <2>2. g[n] = FilledField(f, v)
    OBVIOUS
  <2> HIDE DEF f, v, g
  <2>3. (SaysNothing(FilledField(f, v)) <=> SaysNothing(v))
        /\ (~SaysNothing(v) => TrimmedField(FilledField(f, v)) = TrimmedField(v))
    BY <2>1, FieldFilledSays
  <2>4. QED
    BY <2>2, <2>3 DEF v
<1>4. FilledType(t) = [kind |-> k, fields |-> g] /\ DOMAIN g = DOMAIN m
  BY <1>1 DEF FilledType
<1> HIDE DEF g, m, k
<1>5. {n \in DOMAIN g : ~SaysNothing(g[n])} = {n \in DOMAIN m : ~SaysNothing(m[n])}
  BY <1>1, <1>3, <1>4
<1>6. [n \in {x \in DOMAIN g : ~SaysNothing(g[x])} |-> TrimmedField(g[n])] =
         [n \in {x \in DOMAIN m : ~SaysNothing(m[x])} |-> TrimmedField(m[n])]
  BY <1>1, <1>3, <1>4, <1>5
<1>7. TrimmedType([kind |-> k, fields |-> g]) = TrimmedType(t)
  BY <1>6 DEF TrimmedType, k, m
<1>8. QED
  BY <1>4, <1>7

(* What Go reads of what was allocated is allocated.                       *)
LEMMA ReadAllocated ==
  ASSUME NEW x, GoType(x), SettledType(x), NEW t, AllocatedType(t), t.kind \in DOMAIN Fields,
         DOMAIN t.fields = DOMAIN Fields[t.kind],
         \A n \in DOMAIN t.fields : GoField(Fields[t.kind][n], t.fields[n]) \/ TsField(Fields[t.kind][n], t.fields[n]),
         FilledType(x) = FilledType(t)
  PROVE  AllocatedType(x)
<1> DEFINE k == t.kind
<1>1. FilledType(x).kind = x.kind /\ FilledType(t).kind = k
  BY DEF FilledType
<1>2. x.kind = k
  BY <1>1
<1>3. DOMAIN x.fields = DOMAIN Fields[k]
  BY <1>2, TypeParts
<1>4. \A n \in DOMAIN Fields[k] : FilledField(Fields[k][n], x.fields[n]) = FilledField(Fields[k][n], t.fields[n])
  <2>1. \A n \in DOMAIN Fields[k] : FilledType(x).fields[n] = FilledField(Fields[k][n], x.fields[n])
    BY <1>2 DEF FilledType
  <2>2. \A n \in DOMAIN Fields[k] : FilledType(t).fields[n] = FilledField(Fields[k][n], t.fields[n])
    BY DEF FilledType
  <2>3. QED
    BY <2>1, <2>2
<1>5. ASSUME NEW n \in DOMAIN Fields[k], Fields[k][n].holds \in {"array", "object"}, ~Fields[k][n].omitempty,
             x.fields[n] = Null
      PROVE  FALSE
  <2> DEFINE f == Fields[k][n]
             v == t.fields[n]
             m == v[f.holds]
  <2>1. CollectionEntry(f)
    BY <1>5, Entries, LeafField DEF Entry
  <2>2. f.absent = Null
    BY <1>2, <1>5 DEF SettledType, Settled
  <2>3. v # Null /\ (GoField(f, v) \/ TsField(f, v))
    BY <1>5 DEF AllocatedType
  <2>4. FilledField(f, v) = FilledField(f, Null)
    BY <1>4, <1>5
  <2>5. v = Whole(f, m)
    BY <1>5, <2>3, WholeOf DEF GoField, TsField
  <2>6. ~f.omitempty
    BY <1>5
  <2> HIDE DEF f, v, m
  <2>7. FilledField(f, v) = Whole(f, [y \in DOMAIN m |-> FilledItem(f.items, m[y])])
    BY <2>1, <2>5, <2>6, WholeFilled
  <2>8. FilledField(f, v) # Null
    BY <2>1, <2>7, Wholes
  <2>9. FilledField(f, Null) = Null
    BY <2>1, <2>2, WholeFilled
  <2>10. QED
    BY <2>4, <2>8, <2>9
<1>6. QED
  BY <1>2, <1>3, <1>5 DEF AllocatedType

LEMMA FirstTypes ==
  ASSUME OriginOK, Sound, origin.by = "go" => Allocated(origin.what), NEW t \in RangeOf(origin.what)
  PROVE  /\ SoundType(t) /\ AllocatedType(t) /\ t.kind \in DOMAIN Fields /\ DOMAIN t.fields = DOMAIN Fields[t.kind]
         /\ \A n \in DOMAIN t.fields : GoField(Fields[t.kind][n], t.fields[n]) \/ TsField(Fields[t.kind][n], t.fields[n])
         /\ origin.by = "go" => GoType(t)
         /\ origin.by = "ts" => TsType(t) /\ FitsType(t) /\ t.kind # "BuiltInType"
<1> DEFINE types == origin.what
<1>1. WellFormed(types) /\ Exact(PartsOf(types)) /\ origin.by \in {"go", "ts"}
  BY DEF Sound
<1>2. CASE origin.by = "go"
  <2>1. GoType(t) /\ Allocated(types)
    BY <1>2, GoTypesAssumption DEF OriginOK
  <2>2. t.kind \in DOMAIN Fields /\ DOMAIN t.fields = DOMAIN Fields[t.kind]
        /\ \A n \in DOMAIN t.fields : GoField(Fields[t.kind][n], t.fields[n])
    BY <2>1, TypeParts
  <2>3. SoundType(t)
    <3> HIDE DEF types
    <3>1. t \in RangeOf(types)
      BY DEF types
    <3>2. QED
      BY <1>1, <2>2, <3>1, SoundTypes
  <2>4. AllocatedType(t)
    BY <2>1 DEF Allocated, AllocatedType
  <2>5. QED
    BY <1>2, <2>1, <2>2, <2>3, <2>4
<1>3. CASE origin.by = "ts"
  <2>1. TsType(t) /\ t.kind # "BuiltInType"
    BY <1>3, TsTypesAssumption DEF OriginOK, Sound
  <2>2. t.kind \in DOMAIN Fields /\ DOMAIN t.fields = DOMAIN Fields[t.kind]
        /\ \A n \in DOMAIN t.fields : TsField(Fields[t.kind][n], t.fields[n])
    BY <2>1, TsParts
  <2>3. \A v \in PartsOf(types) : "number" \in DOMAIN v => v.number \in Int64
    BY <1>3 DEF Sound
  <2>4. SoundType(t) /\ FitsType(t)
    <3> HIDE DEF types
    <3>1. t \in RangeOf(types)
      BY DEF types
    <3>2. SoundType(t)
      BY <1>1, <2>2, <3>1, SoundTypes
    <3>3. FitsType(t)
      BY <2>1, <2>3, <3>1, FitsTypes
    <3>4. QED
      BY <3>2, <3>3
  <2>5. AllocatedType(t)
    BY <2>2, Apart DEF AllocatedType, TsField, Holds
  <2>6. QED
    BY <1>3, <2>1, <2>2, <2>4, <2>5
<1>4. QED
  BY <1>1, <1>2, <1>3

LEMMA FirstReadByTs ==
  ASSUME OriginOK, Sound, origin.by = "go" => Allocated(origin.what)
  PROVE  /\ DOMAIN FirstArray = DOMAIN origin.what
         /\ \A i \in DOMAIN origin.what :
              /\ readTypesJson(FirstArray[i]) # Failed
              /\ TrimmedType(readTypesJson(FirstArray[i])) = TrimmedType(origin.what[i])
<1> DEFINE types == origin.what
           a == FirstArray
<1>1. origin.by \in {"go", "ts"}
  BY DEF Sound
<1>2. /\ DOMAIN a = DOMAIN types
      /\ origin.by = "go" => \A i \in DOMAIN types : a[i] = MarshalJSON(types[i])
      /\ origin.by = "ts" => \A i \in DOMAIN types : a[i] = writeTypesJson(types[i])
  BY <1>1 DEF FirstArray, WriteTypes, TsWriteTypes
<1>3. ASSUME NEW i \in DOMAIN types
      PROVE  readTypesJson(a[i]) # Failed /\ TrimmedType(readTypesJson(a[i])) = TrimmedType(types[i])
  <2> DEFINE t == types[i]
  <2>1. t \in RangeOf(origin.what)
    BY DEF RangeOf
  <2>2. /\ SoundType(t) /\ AllocatedType(t) /\ (origin.by = "go" => GoType(t))
        /\ origin.by = "ts" => TsType(t) /\ t.kind # "BuiltInType"
    BY <2>1, FirstTypes
  <2>3. (origin.by = "go" => a[i] = MarshalJSON(t)) /\ (origin.by = "ts" => a[i] = writeTypesJson(t))
    BY <1>2
  <2> HIDE DEF t, a
  <2>4. origin.by = "go" => readTypesJson(a[i]) # Failed /\ TrimmedType(readTypesJson(a[i])) = TrimmedType(t)
    BY <2>2, <2>3, GoTypeReadByTs
  <2>5. origin.by = "ts" => readTypesJson(a[i]) # Failed /\ TrimmedType(readTypesJson(a[i])) = TrimmedType(t)
    BY <2>2, <2>3, TsTypeReadByTs
  <2>6. QED
    BY <1>1, <2>4, <2>5 DEF t
<1>4. QED
  BY <1>2, <1>3

LEMMA ToolReadByTs ==
  ASSUME OriginOK, Sound, Readable, origin.by = "go" => Allocated(origin.what)
  PROVE  /\ DOMAIN ToolArray = DOMAIN origin.what
         /\ \A i \in DOMAIN origin.what :
              /\ readTypesJson(ToolArray[i]) # Failed
              /\ TrimmedType(readTypesJson(ToolArray[i])) = TrimmedType(origin.what[i])
<1> DEFINE types == origin.what
           x == LoadArray(FirstArray)
           a == ToolArray
<1>1. origin.by \in {"go", "ts"}
  BY DEF Sound
<1>2. DOMAIN x = DOMAIN types
      /\ \A i \in DOMAIN types : GoType(x[i]) /\ SoundType(x[i]) /\ FilledType(x[i]) = FilledType(types[i])
  BY FirstReadByGo
<1>3. \A u \in RangeOf(x) : SettledType(u)
  BY <1>1, FirstMade, ArrayRead DEF Readable
<1>4. DOMAIN a = DOMAIN types /\ \A i \in DOMAIN types : a[i] = MarshalJSON(x[i])
  BY <1>2 DEF ToolArray, WriteTypes
<1>5. ASSUME NEW i \in DOMAIN types
      PROVE  readTypesJson(a[i]) # Failed /\ TrimmedType(readTypesJson(a[i])) = TrimmedType(types[i])
  <2> DEFINE t == types[i]
             u == x[i]
  <2>1. t \in RangeOf(origin.what) /\ u \in RangeOf(x)
    BY <1>2 DEF RangeOf
  <2>2. /\ SoundType(t) /\ AllocatedType(t) /\ t.kind \in DOMAIN Fields /\ DOMAIN t.fields = DOMAIN Fields[t.kind]
        /\ \A n \in DOMAIN t.fields : GoField(Fields[t.kind][n], t.fields[n]) \/ TsField(Fields[t.kind][n], t.fields[n])
        /\ GoType(t) \/ (TsType(t) /\ FitsType(t) /\ t.kind # "BuiltInType")
    BY <1>1, <2>1, FirstTypes
  <2>3. GoType(u) /\ SoundType(u) /\ SettledType(u) /\ FilledType(u) = FilledType(t) /\ a[i] = MarshalJSON(u)
    BY <1>2, <1>3, <1>4, <2>1
  <2> HIDE DEF t, u, a, x
  <2>4. AllocatedType(u)
    BY <2>2, <2>3, ReadAllocated
  <2>5. readTypesJson(a[i]) # Failed /\ TrimmedType(readTypesJson(a[i])) = TrimmedType(u)
    BY <2>3, <2>4, GoTypeReadByTs
  <2>6. TrimmedType(FilledType(u)) = TrimmedType(u)
    BY <2>3, <2>4, TypeFilledSays
  <2>7. TrimmedType(FilledType(t)) = TrimmedType(t)
    BY <2>2, TypeFilledSays
  <2>8. QED
    BY <2>3, <2>5, <2>6, <2>7 DEF t
<1>6. QED
  BY <1>4, <1>5

LEMMA TsReadsNow == Inv => TsReadsWhatWasWritten
<1> SUFFICES ASSUME Inv, Sound, origin.by = "go" => Allocated(origin.what), NEW d \in Documents
             PROVE  TsLoads(d) /\ TrimmedTypes(TsReadTypes(d)) = TrimmedTypes(origin.what)
  BY DEF TsReadsWhatWasWritten
<1> DEFINE b == d.array
           by == d.by
           types == origin.what
           r == [i \in DOMAIN b |-> readTypesJson(b[i])]
<1>1. d = Document(b, by) /\ \E p \in Path : d = files[p] /\ "array" \in DOMAIN files[p]
  BY DocumentOf DEF Inv
<1>2. CopyOf(d)
  BY <1>1 DEF Inv, Copies, Sound
<1>3. b = FirstArray \/ (b = ToolArray /\ Readable)
  BY <1>2 DEF CopyOf
<1>4. /\ DOMAIN b = DOMAIN types
      /\ \A i \in DOMAIN types : readTypesJson(b[i]) # Failed /\ TrimmedType(readTypesJson(b[i])) = TrimmedType(types[i])
  <2>1. CASE b = FirstArray
    BY <2>1, FirstReadByTs DEF Inv
  <2>2. CASE b = ToolArray /\ Readable
    BY <2>2, ToolReadByTs DEF Inv
  <2>3. QED
    BY <1>3, <2>1, <2>2
<1> HIDE DEF b, by, types
<1>5. Failed \notin RangeOf(r) /\ TrimmedTypes(r) = TrimmedTypes(types)
  BY <1>4 DEF RangeOf, TrimmedTypes
<1>6. TsReadTypes(d) = r /\ (TsLoads(d) <=> Failed \notin RangeOf(r))
  BY <1>1, Documented
<1>7. QED
  BY <1>5, <1>6 DEF types

(* TypeScript reads what a program wrote from every file there is          *)
(* (TypesFile's TsReadsWhatWasWritten).                                    *)
THEOREM TsReads == Spec => []TsReadsWhatWasWritten
<1>1. Inv => TsReadsWhatWasWritten
  BY TsReadsNow
<1>2. QED
  BY <1>1, Invariance, PTL
==============================================================================
