----------------------------- MODULE FoldLemmas ------------------------------
(***************************************************************************)
(* What SumFunctionOnSet and FlattenSeq, the two folds that Topology is    *)
(* built from, compute. Both are recursive functions. The induction        *)
(* theorems of the library take an operator as a parameter; here an        *)
(* induction is over the set of the numbers that have the property, so     *)
(* that the statement stays first-order.                                   *)
(***************************************************************************)
EXTENDS Integers, SequencesExt, FiniteSetTheorems, WellFoundedInduction, TLAPS

\* A set of natural numbers that holds 0 and is closed under successor holds them all.
LEMMA SetInduction ==
  ASSUME NEW T, 0 \in T, \A n \in Nat : n \in T => n + 1 \in T
  PROVE  \A n \in Nat : n \in T
<1> DEFINE R == OpToRel(<, Nat)
           Bad == Nat \ T
<1>1. IsWellFoundedOn(R, Nat)
  BY NatLessThanWellFounded
<1>2. ASSUME Bad # {} PROVE FALSE
  <2>1. \E x \in Bad : \A y \in Bad : ~ (<<y, x>> \in R)
    <3> HIDE DEF R
    <3>1. Bad \subseteq Nat
      OBVIOUS
    <3> HIDE DEF Bad
    <3> QED BY <1>1, <1>2, <3>1, WFMin
  <2>2. PICK x \in Bad : \A y \in Bad : ~ (<<y, x>> \in R)
    BY <2>1
  <2>3. \A y \in Bad : ~(y < x)
    BY <2>2 DEF OpToRel
  <2>4. x # 0 /\ x \in Nat
    OBVIOUS
  <2>5. x - 1 \in Nat /\ x - 1 < x /\ (x - 1) + 1 = x
    BY <2>4
  <2>6. x - 1 \notin Bad
    BY <2>3, <2>5
  <2> QED BY <2>5, <2>6
<1> QED BY <1>2

\* The same for a property that is only followed up to a bound.
LEMMA BoundedInduction ==
  ASSUME NEW T, NEW m \in Nat, 0 \in T, \A n \in 0..(m - 1) : n \in T => n + 1 \in T
  PROVE  \A n \in 0..m : n \in T
<1> DEFINE U == {n \in Nat : n <= m => n \in T}
<1>1. 0 \in U
  OBVIOUS
<1>2. \A n \in Nat : n \in U => n + 1 \in U
  OBVIOUS
<1>3. \A n \in Nat : n \in U
  <2> HIDE DEF U
  <2> QED BY <1>1, <1>2, SetInduction
<1> QED BY <1>3
-----------------------------------------------------------------------------
(***************************************************************************)
(* Sums. Pick and SumsUp name the parts of the library's definition: the   *)
(* element that is taken next, and the equation of the recursive function. *)
(***************************************************************************)
Pick(s) == CHOOSE x \in s : TRUE
Total(f, g, s) == IF s = {} THEN 0 ELSE f[Pick(s)] + g[s \ {Pick(s)}]
SumsUp(f, g, S) == g = [s \in SUBSET S |-> Total(f, g, s)]

\* Taking an element out of a finite set.
LEMMA PickFacts ==
  ASSUME NEW s, IsFiniteSet(s), s # {}
  PROVE  /\ Pick(s) \in s
         /\ IsFiniteSet(s \ {Pick(s)})
         /\ Cardinality(s) \in Nat \ {0}
         /\ Cardinality(s \ {Pick(s)}) = Cardinality(s) - 1
<1>1. Pick(s) \in s
  BY DEF Pick
<1>2. Cardinality(s) \in Nat /\ Cardinality(s) # 0
  BY FS_CardinalityType, FS_EmptySet
<1> QED BY <1>1, <1>2, FS_RemoveElement

\* The function the library chooses to add the values up exists.
LEMMA SumsUpExists ==
  ASSUME NEW f, NEW S, IsFiniteSet(S)
  PROVE  \E g : SumsUp(f, g, S)
<1> DEFINE Small(g, n) == \A s \in SUBSET S : Cardinality(s) <= n => g[s] = Total(f, g, s)
           T == {n \in Nat : \E g : g = [s \in SUBSET S |-> g[s]] /\ Small(g, n)}
<1>1. \A s \in SUBSET S : IsFiniteSet(s) /\ Cardinality(s) \in Nat
  BY FS_Subset, FS_CardinalityType
<1>2. 0 \in T
  <2> DEFINE g == [s \in SUBSET S |-> 0]
  <2>1. ASSUME NEW s \in SUBSET S, Cardinality(s) <= 0 PROVE g[s] = Total(f, g, s)
    <3>1. s = {}
      BY <1>1, <2>1, FS_EmptySet
    <3> QED BY <3>1 DEF Total
  <2>2. g = [s \in SUBSET S |-> g[s]] /\ Small(g, 0)
    BY <2>1
  <2> HIDE DEF g
  <2> QED BY <2>2
<1>3. ASSUME NEW n \in Nat, n \in T PROVE n + 1 \in T
  <2>1. PICK g : g = [s \in SUBSET S |-> g[s]] /\ Small(g, n)
    BY <1>3
  <2> DEFINE h == [s \in SUBSET S |-> Total(f, g, s)]
  <2>2. ASSUME NEW s \in SUBSET S, Cardinality(s) <= n + 1 PROVE h[s] = Total(f, h, s)
    <3>1. CASE s = {}
      BY <3>1 DEF Total
    <3>2. CASE s # {}
      <4> DEFINE t == s \ {Pick(s)}
      <4>1. t \in SUBSET S /\ Cardinality(t) <= n
        BY <1>1, <2>2, <3>2, PickFacts
      <4>2. g[t] = Total(f, g, t) /\ h[t] = Total(f, g, t)
        BY <2>1, <4>1
      <4>3. h[s] = Total(f, g, s)
        OBVIOUS
      <4> HIDE DEF h
      <4> QED BY <3>2, <4>2, <4>3 DEF Total
    <3> QED BY <3>1, <3>2
  <2>3. h = [s \in SUBSET S |-> h[s]]
    OBVIOUS
  <2>4. Small(h, n + 1)
    BY <2>2
  <2> HIDE DEF h, Small
  <2> QED BY <2>3, <2>4
<1>4. Cardinality(S) \in T
  <2> HIDE DEF T
  <2> QED BY <1>1, <1>2, <1>3, SetInduction
<1>5. PICK g : g = [s \in SUBSET S |-> g[s]] /\ Small(g, Cardinality(S))
  BY <1>4
<1>6. \A s \in SUBSET S : g[s] = Total(f, g, s)
  BY <1>5, FS_Subset
<1>7. [s \in SUBSET S |-> g[s]] = [s \in SUBSET S |-> Total(f, g, s)]
  BY <1>6
<1> QED BY <1>5, <1>7 DEF SumsUp

\* It is unique, also on a part of the set.
LEMMA SumsUpUnique ==
  ASSUME NEW f, NEW S, IsFiniteSet(S), NEW R, R \subseteq S,
         NEW g, SumsUp(f, g, S), NEW h, SumsUp(f, h, R)
  PROVE  \A s : s \subseteq R => g[s] = h[s]
<1> DEFINE T == {n \in Nat : \A s \in SUBSET R : Cardinality(s) = n => g[s] = h[s]}
<1>1. \A s \in SUBSET R : IsFiniteSet(s) /\ Cardinality(s) \in Nat
  BY FS_Subset, FS_CardinalityType
<1>2. \A s \in SUBSET R : g[s] = Total(f, g, s) /\ h[s] = Total(f, h, s)
  BY DEF SumsUp
<1>3. 0 \in T
  <2>1. \A s \in SUBSET R : Cardinality(s) = 0 => s = {}
    BY <1>1, FS_EmptySet
  <2> QED BY <1>2, <2>1 DEF Total
<1>4. ASSUME NEW n \in Nat, n \in T PROVE n + 1 \in T
  <2>1. ASSUME NEW s \in SUBSET R, Cardinality(s) = n + 1 PROVE g[s] = h[s]
    <3>1. s # {}
      BY <2>1, FS_EmptySet
    <3>2. s \ {Pick(s)} \in SUBSET R /\ Cardinality(s \ {Pick(s)}) = n
      BY <1>1, <2>1, <3>1, PickFacts
    <3>3. g[s \ {Pick(s)}] = h[s \ {Pick(s)}]
      BY <1>4, <3>2
    <3> QED BY <1>2, <3>1, <3>3 DEF Total
  <2> QED BY <2>1
<1>5. \A n \in Nat : n \in T
  <2> HIDE DEF T
  <2> QED BY <1>3, <1>4, SetInduction
<1> QED BY <1>1, <1>5

\* The library's sum is a value of that function.
LEMMA SumDef ==
  ASSUME NEW f, NEW S, IsFiniteSet(S), NEW g, SumsUp(f, g, S)
  PROVE  SumFunctionOnSet(f, S) = g[S]
<1> DEFINE Iter == CHOOSE h : h = [s \in SUBSET S |->
                     IF s = {} THEN 0
                     ELSE f[CHOOSE x \in s : TRUE] + h[s \ {CHOOSE x \in s : TRUE}]]
<1>1. SumFunctionOnSet(f, S) = Iter[S]
  BY DEF SumFunctionOnSet, FoldFunctionOnSet, MapThenFoldSet
<1>2. SumsUp(f, Iter, S)
  <2>1. g = [s \in SUBSET S |->
               IF s = {} THEN 0
               ELSE f[CHOOSE x \in s : TRUE] + g[s \ {CHOOSE x \in s : TRUE}]]
    BY DEF SumsUp, Total, Pick
  <2>2. Iter = [s \in SUBSET S |->
               IF s = {} THEN 0
               ELSE f[CHOOSE x \in s : TRUE] + Iter[s \ {CHOOSE x \in s : TRUE}]]
    BY <2>1
  <2> HIDE DEF Iter
  <2> QED BY <2>2 DEF SumsUp, Total, Pick
<1> HIDE DEF Iter
<1>3. Iter[S] = g[S]
  BY <1>2, SumsUpUnique
<1> QED BY <1>1, <1>3

\* Nothing to add.
LEMMA SumEmpty ==
  ASSUME NEW f
  PROVE  SumFunctionOnSet(f, {}) = 0
<1>1. IsFiniteSet({})
  BY FS_EmptySet
<1>2. PICK g : SumsUp(f, g, {})
  BY <1>1, SumsUpExists
<1>3. g[{}] = 0
  BY <1>2 DEF SumsUp, Total
<1> QED BY <1>1, <1>2, <1>3, SumDef

\* The element that is taken first.
LEMMA SumPick ==
  ASSUME NEW f, NEW S, IsFiniteSet(S), S # {}
  PROVE  SumFunctionOnSet(f, S) = f[Pick(S)] + SumFunctionOnSet(f, S \ {Pick(S)})
<1> DEFINE R == S \ {Pick(S)}
<1>1. R \subseteq S /\ IsFiniteSet(R)
  BY FS_Subset
<1>2. PICK g : SumsUp(f, g, S)
  BY SumsUpExists
<1>3. PICK h : SumsUp(f, h, R)
  BY <1>1, SumsUpExists
<1> HIDE DEF R
<1>4. g[R] = h[R]
  BY <1>1, <1>2, <1>3, SumsUpUnique
<1>5. g[S] = f[Pick(S)] + g[R]
  BY <1>2 DEF SumsUp, Total, R
<1>6. SumFunctionOnSet(f, S) = g[S]
  BY <1>2, SumDef
<1>7. SumFunctionOnSet(f, R) = h[R]
  BY <1>1, <1>3, SumDef
<1> QED BY <1>4, <1>5, <1>6, <1>7 DEF R

\* A sum of natural numbers is one.
LEMMA SumIsNat ==
  ASSUME NEW f, NEW S, IsFiniteSet(S), \A x \in S : f[x] \in Nat
  PROVE  SumFunctionOnSet(f, S) \in Nat
<1> DEFINE Sum(s) == SumFunctionOnSet(f, s)
           T == {n \in Nat : \A s : s \subseteq S /\ Cardinality(s) = n => Sum(s) \in Nat}
<1>1. \A s : s \subseteq S => IsFiniteSet(s) /\ Cardinality(s) \in Nat
  BY FS_Subset, FS_CardinalityType
<1>2. 0 \in T
  <2>1. \A s : s \subseteq S /\ Cardinality(s) = 0 => s = {}
    BY <1>1, FS_EmptySet
  <2> QED BY <2>1, SumEmpty
<1>3. ASSUME NEW n \in Nat, n \in T PROVE n + 1 \in T
  <2>1. ASSUME NEW s, s \subseteq S, Cardinality(s) = n + 1 PROVE Sum(s) \in Nat
    <3>1. s # {} /\ IsFiniteSet(s)
      BY <1>1, <2>1, FS_EmptySet
    <3>2. Pick(s) \in s /\ Sum(s) = f[Pick(s)] + Sum(s \ {Pick(s)})
      BY <3>1, PickFacts, SumPick
    <3>3. s \ {Pick(s)} \subseteq S /\ Cardinality(s \ {Pick(s)}) = n
      BY <2>1, <3>1, PickFacts
    <3> HIDE DEF Sum
    <3>4. Sum(s \ {Pick(s)}) \in Nat
      BY <1>3, <3>3
    <3> QED BY <2>1, <3>2, <3>4
  <2> QED BY <2>1
<1>4. \A n \in Nat : n \in T
  <2> HIDE DEF T
  <2> QED BY <1>2, <1>3, SetInduction
<1> QED BY <1>1, <1>4

\* Every element may be taken out of a sum first.
LEMMA SumElement ==
  ASSUME NEW f, NEW S, IsFiniteSet(S), \A x \in S : f[x] \in Nat
  PROVE  \A x \in S : SumFunctionOnSet(f, S) = f[x] + SumFunctionOnSet(f, S \ {x})
<1> DEFINE Sum(s) == SumFunctionOnSet(f, s)
           Good(s) == \A x \in s : Sum(s) = f[x] + Sum(s \ {x})
           T == {n \in Nat : \A s : s \subseteq S /\ Cardinality(s) = n => Good(s)}
<1>1. \A s : s \subseteq S => IsFiniteSet(s) /\ Cardinality(s) \in Nat
  BY FS_Subset, FS_CardinalityType
<1>2. \A s : s \subseteq S => Sum(s) \in Nat
  BY <1>1, SumIsNat
<1>3. 0 \in T
  <2>1. \A s : s \subseteq S /\ Cardinality(s) = 0 => s = {}
    BY <1>1, FS_EmptySet
  <2> QED BY <2>1, SumEmpty
<1>4. ASSUME NEW n \in Nat, n \in T PROVE n + 1 \in T
  <2>1. ASSUME NEW s, s \subseteq S, Cardinality(s) = n + 1 PROVE Good(s)
    <3> DEFINE p == Pick(s)
    <3>1. s # {} /\ IsFiniteSet(s)
      BY <1>1, <2>1, FS_EmptySet
    <3>2. p \in s /\ Sum(s) = f[p] + Sum(s \ {p})
      BY <3>1, PickFacts, SumPick
    <3> HIDE DEF p
    <3>3. \A x \in s : s \ {x} \subseteq S /\ Cardinality(s \ {x}) = n
      <4>1. \A x \in s : Cardinality(s \ {x}) = Cardinality(s) - 1
        BY <3>1, FS_RemoveElement
      <4> QED BY <2>1, <4>1
    <3> HIDE DEF Sum
    <3>4. \A x \in s : Good(s \ {x})
      BY <1>4, <3>3
    <3>5. ASSUME NEW x \in s, x # p PROVE Sum(s) = f[x] + Sum(s \ {x})
      <4>1. Sum(s \ {p}) = f[x] + Sum((s \ {p}) \ {x})
        BY <3>2, <3>4, <3>5
      <4>2. Sum(s \ {x}) = f[p] + Sum((s \ {x}) \ {p})
        BY <3>2, <3>4, <3>5
      <4>3. (s \ {x}) \ {p} = (s \ {p}) \ {x}
        OBVIOUS
      <4>4. Sum(s \ {x}) = f[p] + Sum((s \ {p}) \ {x})
        BY <4>2, <4>3
      <4>5. Sum((s \ {p}) \ {x}) \in Nat
        BY <1>2, <2>1
      <4>6. f[x] \in Nat /\ f[p] \in Nat
        BY <2>1, <3>2
      <4> QED BY <3>2, <4>1, <4>4, <4>5, <4>6
    <3> QED BY <3>2, <3>5
  <2> QED BY <2>1
<1>5. \A n \in Nat : n \in T
  <2> HIDE DEF T
  <2> QED BY <1>3, <1>4, SetInduction
<1>6. Good(S)
  BY <1>1, <1>5
<1> QED BY <1>6
-----------------------------------------------------------------------------
(***************************************************************************)
(* Sums over the first numbers: how many replicas the data centres before  *)
(* a position have.                                                        *)
(***************************************************************************)
UpTo(f, k) == SumFunctionOnSet(f, 1..k)
NatsUpTo(f, n) == \A i \in 1..n : f[i] \in Nat

\* One more position adds its value.
LEMMA UpToStep ==
  ASSUME NEW f, NEW n \in Nat, NatsUpTo(f, n)
  PROVE  /\ UpTo(f, 0) = 0
         /\ \A k \in 0..n : UpTo(f, k) \in Nat
         /\ \A k \in 1..n : f[k] \in Nat /\ UpTo(f, k) = UpTo(f, k - 1) + f[k]
<1>1. UpTo(f, 0) = 0
  <2>1. 1..0 = {}
    OBVIOUS
  <2> QED BY <2>1, SumEmpty DEF UpTo
<1>2. \A k \in 0..n : IsFiniteSet(1..k) /\ \A x \in 1..k : f[x] \in Nat
  BY FS_Interval DEF NatsUpTo
<1>3. \A k \in 0..n : UpTo(f, k) \in Nat
  BY <1>2, SumIsNat DEF UpTo
<1>4. ASSUME NEW k \in 1..n PROVE UpTo(f, k) = UpTo(f, k - 1) + f[k]
  <2>1. SumFunctionOnSet(f, 1..k) = f[k] + SumFunctionOnSet(f, (1..k) \ {k})
    <3>1. k \in 1..k /\ k \in 0..n
      OBVIOUS
    <3> QED BY <1>2, <3>1, SumElement
  <2>2. (1..k) \ {k} = 1..(k - 1)
    OBVIOUS
  <2>3. UpTo(f, k) = f[k] + UpTo(f, k - 1)
    BY <2>1, <2>2 DEF UpTo
  <2>4. UpTo(f, k - 1) \in Nat /\ f[k] \in Nat
    BY <1>2, <1>3
  <2> QED BY <2>3, <2>4
<1> QED BY <1>1, <1>3, <1>4 DEF NatsUpTo

\* The sums grow.
LEMMA UpToMonotone ==
  ASSUME NEW f, NEW n \in Nat, NatsUpTo(f, n)
  PROVE  \A i, j \in 0..n : i <= j => UpTo(f, i) <= UpTo(f, j)
<1>1. ASSUME NEW i \in 0..n PROVE \A j \in 0..n : i <= j => UpTo(f, i) <= UpTo(f, j)
  <2> DEFINE T == {j \in Nat : i <= j => UpTo(f, i) <= UpTo(f, j)}
  <2>1. 0 \in T
    <3>1. UpTo(f, i) \in Nat
      BY UpToStep
    <3> QED BY <3>1
  <2>2. ASSUME NEW j \in 0..(n - 1), j \in T PROVE j + 1 \in T
    <3>1. UpTo(f, j + 1) = UpTo(f, j) + f[j + 1] /\ f[j + 1] \in Nat
      <4>1. j + 1 \in 1..n /\ (j + 1) - 1 = j
        OBVIOUS
      <4> QED BY <4>1, UpToStep
    <3>2. UpTo(f, i) \in Nat /\ UpTo(f, j) \in Nat
      BY UpToStep
    <3>3. CASE i <= j
      <4>1. UpTo(f, i) <= UpTo(f, j)
        BY <2>2, <3>3
      <4>2. UpTo(f, i) <= UpTo(f, j + 1)
        BY <3>1, <3>2, <4>1
      <4> QED BY <4>2
    <3>4. CASE ~(i <= j)
      <4>1. i <= j + 1 => i = j + 1
        BY <3>4
      <4>2. UpTo(f, j + 1) \in Nat
        BY <3>1, <3>2
      <4>3. i <= j + 1 => UpTo(f, i) <= UpTo(f, j + 1)
        BY <3>2, <4>1, <4>2
      <4> QED BY <4>3
    <3> QED BY <3>3, <3>4
  <2>3. \A j \in 0..n : j \in T
    <3> HIDE DEF T
    <3> QED BY <2>1, <2>2, BoundedInduction
  <2> QED BY <2>3
<1> QED BY <1>1

\* Every number below the sum falls into the range of one of the positions.
LEMMA UpToCovers ==
  ASSUME NEW f, NEW n \in Nat, NatsUpTo(f, n), NEW m \in Nat, m < UpTo(f, n)
  PROVE  \E d \in 1..n : UpTo(f, d - 1) <= m /\ m < UpTo(f, d - 1) + f[d]
<1> DEFINE Found(k) == \E d \in 1..k : UpTo(f, d - 1) <= m /\ m < UpTo(f, d - 1) + f[d]
           T == {k \in Nat : m < UpTo(f, k) => Found(k)}
<1>1. 0 \in T
  BY UpToStep
<1>2. ASSUME NEW k \in 0..(n - 1), k \in T PROVE k + 1 \in T
  <2>1. k + 1 \in 1..n /\ (k + 1) - 1 = k /\ k \in 0..n
    OBVIOUS
  <2>2. /\ UpTo(f, k) \in Nat /\ f[k + 1] \in Nat
        /\ UpTo(f, k + 1) = UpTo(f, k) + f[k + 1]
    BY <2>1, UpToStep
  <2>3. CASE m < UpTo(f, k)
    BY <1>2, <2>3
  <2>4. CASE ~(m < UpTo(f, k))
    <3>1. m < UpTo(f, k + 1) =>
            UpTo(f, (k + 1) - 1) <= m /\ m < UpTo(f, (k + 1) - 1) + f[k + 1]
      BY <2>1, <2>2, <2>4
    <3> QED BY <3>1
  <2> QED BY <2>3, <2>4
<1>3. \A k \in 0..n : k \in T
  <2> HIDE DEF T
  <2> QED BY <1>1, <1>2, BoundedInduction
<1> QED BY <1>3

\* Larger values give larger sums.
LEMMA UpToCompare ==
  ASSUME NEW f, NEW g, NEW n \in Nat, NatsUpTo(f, n), NatsUpTo(g, n),
         \A i \in 1..n : f[i] <= g[i]
  PROVE  \A k \in 0..n : UpTo(f, k) <= UpTo(g, k)
<1> DEFINE T == {k \in Nat : UpTo(f, k) <= UpTo(g, k)}
<1>1. 0 \in T
  BY UpToStep
<1>2. ASSUME NEW k \in 0..(n - 1), k \in T PROVE k + 1 \in T
  <2>1. k + 1 \in 1..n /\ (k + 1) - 1 = k /\ k \in 0..n
    OBVIOUS
  <2>2. /\ UpTo(f, k) \in Nat /\ f[k + 1] \in Nat
        /\ UpTo(f, k + 1) = UpTo(f, k) + f[k + 1]
    BY <2>1, UpToStep
  <2>3. /\ UpTo(g, k) \in Nat /\ g[k + 1] \in Nat
        /\ UpTo(g, k + 1) = UpTo(g, k) + g[k + 1]
    BY <2>1, UpToStep
  <2>4. f[k + 1] <= g[k + 1]
    BY <2>1
  <2>5. UpTo(f, k) <= UpTo(g, k)
    BY <1>2
  <2>6. UpTo(f, k + 1) <= UpTo(g, k + 1)
    BY <2>2, <2>3, <2>4, <2>5
  <2> QED BY <2>6
<1>3. \A k \in 0..n : k \in T
  <2> HIDE DEF T
  <2> QED BY <1>1, <1>2, BoundedInduction
<1> QED BY <1>3
-----------------------------------------------------------------------------
(***************************************************************************)
(* Flattening a sequence of sequences. Flattens is the equation of the     *)
(* library's recursive function. HoldsOf says that seq consists of the     *)
(* elements of the first m sequences in their order: of[k] and at[k] give  *)
(* the sequence and the position in it that the k-th element comes from.   *)
(***************************************************************************)
Flattens(seqs, g, m) ==
  g = [i \in 1..m |-> IF i = 1 THEN seqs[i] ELSE g[i - 1] \o seqs[i]]

Comes(seqs, seq, of, at, m) ==
  /\ of \in [1..Len(seq) -> 1..m] /\ at \in [1..Len(seq) -> Nat]
  /\ \A k \in 1..Len(seq) : at[k] \in 1..Len(seqs[of[k]]) /\ seq[k] = seqs[of[k]][at[k]]
  /\ \A j, k \in 1..Len(seq) :
       j < k => of[j] < of[k] \/ (of[j] = of[k] /\ at[j] < at[k])
  /\ \A d \in 1..m : \A i \in 1..Len(seqs[d]) :
       \E k \in 1..Len(seq) : of[k] = d /\ at[k] = i

HoldsOf(seqs, seq, m) == \E of, at : Comes(seqs, seq, of, at, m)

\* Appending the next sequence.
LEMMA HoldsNext ==
  ASSUME NEW X, NEW seqs \in Seq(Seq(X)), NEW m \in 0..(Len(seqs) - 1),
         NEW seq \in Seq(X), HoldsOf(seqs, seq, m)
  PROVE  HoldsOf(seqs, seq \o seqs[m + 1], m + 1)
<1> DEFINE new == seqs[m + 1]
           L == Len(seq)
           all == seq \o new
<1>1. PICK of, at : Comes(seqs, seq, of, at, m)
  BY DEF HoldsOf
<1>2. m \in Nat /\ m + 1 \in 1..Len(seqs) /\ new \in Seq(X) /\ L \in Nat /\ Len(new) \in Nat
  OBVIOUS
<1>3. /\ Len(all) = L + Len(new)
      /\ \A k \in 1..L : all[k] = seq[k]
      /\ \A k \in 1..Len(new) : all[L + k] = new[k]
  BY <1>2
<1> DEFINE of2 == [k \in 1..Len(all) |-> IF k <= L THEN of[k] ELSE m + 1]
           at2 == [k \in 1..Len(all) |-> IF k <= L THEN at[k] ELSE k - L]
<1>4. \A k \in 1..L : k \in 1..Len(all) /\ of2[k] = of[k] /\ at2[k] = at[k] /\ of[k] \in 1..m
  <2>1. \A k \in 1..L : of[k] \in 1..m
    BY <1>1 DEF Comes
  <2>2. ASSUME NEW k \in 1..L PROVE k \in 1..Len(all) /\ k <= L
    <3> HIDE DEF all, L, new
    <3> QED BY <1>2, <1>3
  <2>3. \A k \in 1..L : of2[k] = of[k] /\ at2[k] = at[k]
    <3> HIDE DEF all, L, new
    <3> QED BY <2>2
  <2> QED BY <2>1, <2>2, <2>3
<1>5. \A k \in 1..Len(all) : k \notin 1..L =>
        of2[k] = m + 1 /\ at2[k] = k - L /\ k - L \in 1..Len(new) /\ k = L + (k - L)
  BY <1>2, <1>3
<1> HIDE DEF all, L, new
<1>6. of2 \in [1..Len(all) -> 1..(m + 1)] /\ at2 \in [1..Len(all) -> Nat]
  <2>1. ASSUME NEW k \in 1..Len(all)
        PROVE  (IF k <= L THEN of[k] ELSE m + 1) \in 1..(m + 1)
               /\ (IF k <= L THEN at[k] ELSE k - L) \in Nat
    <3>0. \A j \in 1..L : of[j] \in 1..m /\ at[j] \in Nat
      BY <1>1 DEF Comes, L
    <3>1. k \in Nat \ {0}
      BY <1>2, <1>3
    <3>2. CASE k <= L
      <4>1. of[k] \in 1..m /\ at[k] \in Nat
        BY <1>2, <3>0, <3>1, <3>2
      <4> QED BY <1>2, <3>2, <4>1
    <3>3. CASE ~(k <= L)
      BY <1>2, <3>1, <3>3
    <3> QED BY <3>2, <3>3
  <2> QED BY <2>1
<1>7. ASSUME NEW k \in 1..Len(all)
      PROVE  at2[k] \in 1..Len(seqs[of2[k]]) /\ all[k] = seqs[of2[k]][at2[k]]
  <2>1. CASE k \in 1..L
    <3>1. of2[k] = of[k] /\ at2[k] = at[k]
      BY <1>4, <2>1
    <3> HIDE DEF of2, at2
    <3> QED BY <1>1, <1>3, <2>1, <3>1 DEF Comes, L
  <2>2. CASE k \notin 1..L
    <3>1. of2[k] = m + 1 /\ at2[k] = k - L /\ k - L \in 1..Len(new) /\ k = L + (k - L)
      BY <1>5, <2>2
    <3> HIDE DEF of2, at2
    <3>2. all[L + (k - L)] = new[k - L]
      BY <1>3, <3>1
    <3> QED BY <3>1, <3>2 DEF new
  <2> QED BY <2>1, <2>2
<1>8. ASSUME NEW j \in 1..Len(all), NEW k \in 1..Len(all), j < k
      PROVE  of2[j] < of2[k] \/ (of2[j] = of2[k] /\ at2[j] < at2[k])
  <2> HIDE DEF of2, at2
  <2>1. CASE k \in 1..L
    <3>1. j \in 1..L
      BY <1>2, <1>8, <2>1
    <3> QED BY <1>1, <1>4, <1>8, <2>1, <3>1 DEF Comes, L
  <2>2. CASE k \notin 1..L /\ j \in 1..L
    <3>1. of2[j] \in 1..m /\ of2[k] = m + 1
      BY <1>4, <1>5, <2>2
    <3> QED BY <1>2, <3>1
  <2>3. CASE k \notin 1..L /\ j \notin 1..L
    <3>1. of2[j] = m + 1 /\ of2[k] = m + 1 /\ at2[j] = j - L /\ at2[k] = k - L
      BY <1>5, <2>3
    <3> QED BY <1>2, <1>8, <3>1
  <2> QED BY <2>1, <2>2, <2>3
<1>9. ASSUME NEW d \in 1..(m + 1), NEW i \in 1..Len(seqs[d])
      PROVE  \E k \in 1..Len(all) : of2[k] = d /\ at2[k] = i
  <2> HIDE DEF of2, at2
  <2>1. CASE d = m + 1
    <3>1. i \in 1..Len(new)
      BY <2>1 DEF new
    <3>2. L + i \in 1..Len(all) /\ L + i \notin 1..L /\ (L + i) - L = i
      BY <1>2, <1>3, <3>1
    <3> QED BY <1>5, <2>1, <3>2
  <2>2. CASE d # m + 1
    <3>1. d \in 1..m
      BY <1>2, <2>2
    <3>2. PICK k \in 1..L : of[k] = d /\ at[k] = i
      BY <1>1, <3>1 DEF Comes, L
    <3> QED BY <1>4, <3>2
  <2> QED BY <2>1, <2>2
<1> HIDE DEF of2, at2
<1>10. Comes(seqs, all, of2, at2, m + 1)
  BY <1>6, <1>7, <1>8, <1>9 DEF Comes
<1> QED BY <1>10 DEF HoldsOf, all, new

\* The recursive function exists.
LEMMA FlattensExists ==
  ASSUME NEW seqs, NEW n \in Nat
  PROVE  \E g : Flattens(seqs, g, n)
<1> DEFINE T == {m \in Nat : \E g : Flattens(seqs, g, m)}
<1>1. 0 \in T
  <2> DEFINE g == [i \in 1..0 |-> 0]
  <2>1. Flattens(seqs, g, 0)
    BY DEF Flattens
  <2> QED BY <2>1
<1>2. ASSUME NEW m \in Nat, m \in T PROVE m + 1 \in T
  <2>1. PICK g : Flattens(seqs, g, m)
    BY <1>2
  <2> DEFINE h == [i \in 1..(m + 1) |->
                     IF i = 1 THEN seqs[i] ELSE g[i - 1] \o seqs[i]]
  <2>2. ASSUME NEW i \in 1..m PROVE h[i] = g[i]
    <3>1. g[i] = [j \in 1..m |-> IF j = 1 THEN seqs[j] ELSE g[j - 1] \o seqs[j]][i]
      BY <2>1, Zenon DEF Flattens
    <3> QED BY <3>1
  <2>3. ASSUME NEW i \in 1..(m + 1), i # 1 PROVE g[i - 1] = h[i - 1]
    <3>1. i - 1 \in 1..m
      BY <2>3
    <3> HIDE DEF h
    <3> QED BY <2>2, <3>1
  <2>4. h = [i \in 1..(m + 1) |-> IF i = 1 THEN seqs[i] ELSE h[i - 1] \o seqs[i]]
    <3>1. ASSUME NEW i \in 1..(m + 1)
          PROVE  (IF i = 1 THEN seqs[i] ELSE g[i - 1] \o seqs[i])
                   = (IF i = 1 THEN seqs[i] ELSE h[i - 1] \o seqs[i])
      <4> HIDE DEF h
      <4> QED BY <2>3
    <3>2. [i \in 1..(m + 1) |-> IF i = 1 THEN seqs[i] ELSE g[i - 1] \o seqs[i]]
            = [i \in 1..(m + 1) |-> IF i = 1 THEN seqs[i] ELSE h[i - 1] \o seqs[i]]
      <4> HIDE DEF h
      <4> QED BY <3>1
    <3> QED BY <3>2, Zenon
  <2> HIDE DEF h
  <2>5. Flattens(seqs, h, m + 1)
    BY <2>4 DEF Flattens
  <2> QED BY <2>5
<1>3. \A m \in Nat : m \in T
  <2> HIDE DEF T
  <2> QED BY <1>1, <1>2, SetInduction
<1> QED BY <1>3

(***************************************************************************)
(* FlattenSeq keeps every element of every sequence, once and in order:    *)
(* RolloutPlan and SeedsStep lose no node and swap none.                   *)
(***************************************************************************)
LEMMA FlattenFacts ==
  ASSUME NEW X, NEW seqs \in Seq(Seq(X))
  PROVE  FlattenSeq(seqs) \in Seq(X) /\ HoldsOf(seqs, FlattenSeq(seqs), Len(seqs))
<1>1. HoldsOf(seqs, <<>>, 0)
  <2>1. Comes(seqs, <<>>, [k \in 1..0 |-> 0], [k \in 1..0 |-> 0], 0)
    BY DEF Comes
  <2> QED BY <2>1 DEF HoldsOf
<1>2. CASE Len(seqs) = 0
  <2>1. seqs = <<>> /\ FlattenSeq(seqs) = seqs
    BY <1>2 DEF FlattenSeq
  <2>2. HoldsOf(seqs, FlattenSeq(seqs), Len(seqs))
    BY <1>1, <1>2, <2>1
  <2>3. <<>> \in Seq(X)
    OBVIOUS
  <2>4. FlattenSeq(seqs) = <<>>
    BY <2>1
  <2>5. FlattenSeq(seqs) \in Seq(X)
    BY <2>3, <2>4
  <2> QED BY <2>2, <2>5
<1>3. CASE Len(seqs) # 0
  <2> DEFINE n == Len(seqs)
             F == CHOOSE g : g = [i \in 1..Len(seqs) |->
                                    IF i = 1 THEN seqs[i] ELSE g[i - 1] \o seqs[i]]
  <2>1. FlattenSeq(seqs) = F[n]
    BY <1>3 DEF FlattenSeq
  <2>2. F = [i \in 1..n |-> IF i = 1 THEN seqs[i] ELSE F[i - 1] \o seqs[i]]
    <3>1. \E g : g = [i \in 1..Len(seqs) |->
                         IF i = 1 THEN seqs[i] ELSE g[i - 1] \o seqs[i]]
      <4>1. Len(seqs) \in Nat
        OBVIOUS
      <4>2. \E g : Flattens(seqs, g, Len(seqs))
        BY <4>1, FlattensExists
      <4> QED BY <4>2 DEF Flattens
    <3> QED BY <3>1
  <2> HIDE DEF F
  <2>3. \A i \in 1..n : F[i] = IF i = 1 THEN seqs[i] ELSE F[i - 1] \o seqs[i]
    <3>1. \A i \in 1..n : F[i] = [j \in 1..n |->
            IF j = 1 THEN seqs[j] ELSE F[j - 1] \o seqs[j]][i]
      BY <2>2, Zenon
    <3> QED BY <3>1
  <2> DEFINE T == {i \in Nat : i # 0 => F[i] \in Seq(X) /\ HoldsOf(seqs, F[i], i)}
  <2>4. 0 \in T
    OBVIOUS
  <2>5. ASSUME NEW i \in 0..(n - 1), i \in T PROVE i + 1 \in T
    <3>1. i + 1 \in 1..n /\ seqs[i + 1] \in Seq(X) /\ i \in 0..(Len(seqs) - 1)
      OBVIOUS
    <3>2. CASE i = 0
      <4>1. F[i + 1] = seqs[i + 1] /\ <<>> \o seqs[i + 1] = seqs[i + 1] /\ <<>> \in Seq(X)
        BY <2>3, <3>1, <3>2
      <4>2. HoldsOf(seqs, <<>> \o seqs[i + 1], i + 1)
        BY <1>1, <3>1, <3>2, <4>1, HoldsNext
      <4>3. F[i + 1] \in Seq(X) /\ HoldsOf(seqs, F[i + 1], i + 1)
        BY <3>1, <4>1, <4>2
      <4> QED BY <4>3
    <3>3. CASE i # 0
      <4>1. F[i] \in Seq(X) /\ HoldsOf(seqs, F[i], i)
        BY <2>5, <3>3
      <4>2. F[i + 1] = F[i] \o seqs[i + 1]
        <5>1. i + 1 # 1 /\ (i + 1) - 1 = i
          BY <3>3
        <5> QED BY <2>3, <3>1, <5>1
      <4>3. F[i + 1] \in Seq(X) /\ HoldsOf(seqs, F[i + 1], i + 1)
        BY <3>1, <4>1, <4>2, HoldsNext
      <4> QED BY <4>3
    <3> QED BY <3>2, <3>3
  <2>6. \A i \in 0..n : i \in T
    <3>1. n \in Nat
      OBVIOUS
    <3> HIDE DEF T, n
    <3> QED BY <2>4, <2>5, <3>1, BoundedInduction
  <2> QED BY <1>3, <2>1, <2>6
<1> QED BY <1>2, <1>3
=============================================================================
