------------------------------ MODULE FiniteSums ------------------------------
(***************************************************************************)
(* What SumFunction computes on a finite set, for every set and every      *)
(* function with natural values: the totals that the accounts of this      *)
(* project are stated with.                                                *)
(*                                                                         *)
(* The sum is a fold: a recursive function on the subsets of the domain    *)
(* that takes an arbitrary element first.  Induction is on the size of a   *)
(* subset, and is stated with a set (SetInduction) in place of a predicate *)
(* parameter: every set of numbers that has 0 and each successor of its    *)
(* members has them all, since otherwise there is a least one it lacks.    *)
(***************************************************************************)
EXTENDS Integers, FiniteSets, Functions, WellFoundedInduction, FiniteSetTheorems, TLAPS

\* A set of numbers that is not empty has a least one.
LEMMA LeastNumber ==
    ASSUME NEW T, T \subseteq Nat, T # {}
    PROVE  \E n \in T : \A m \in T : ~(m < n)
<1> DEFINE R == OpToRel(<, Nat)
<1>1. \E n \in T : \A m \in T : <<m, n>> \notin R
    BY NatLessThanWellFounded, WFMin
<1>2. \A m, n \in Nat : m < n => <<m, n>> \in R
    BY DEF OpToRel
<1> HIDE DEF R
<1> QED
    BY <1>1, <1>2

\* Induction over the natural numbers, with a set in place of a predicate.
LEMMA SetInduction ==
    ASSUME NEW S, 0 \in S, \A n \in Nat : n \in S => n + 1 \in S
    PROVE  Nat \subseteq S
<1> DEFINE T == Nat \ S
<1> SUFFICES ASSUME T # {} PROVE FALSE
    OBVIOUS
<1>1. PICK n \in T : \A m \in T : ~(m < n)
    BY LeastNumber
<1>2. n # 0 /\ n - 1 \in Nat /\ n - 1 < n /\ n = (n - 1) + 1
    BY <1>1
<1>3. n - 1 \in S
    BY <1>1, <1>2
<1> QED
    BY <1>1, <1>2, <1>3

\* The element a fold takes first, and the equation the folded function satisfies.
AnyOf(s) == CHOOSE x \in s : TRUE
SumStep(f, g, s) == IF s = {} THEN 0 ELSE f[AnyOf(s)] + g[s \ {AnyOf(s)}]
IsSum(f, D, g) == g = [s \in SUBSET D |-> SumStep(f, g, s)]
\* The subsets of at most n elements, along which the inductions go.
SubsetsUpTo(D, n) == {s \in SUBSET D : Cardinality(s) <= n}

\* The library's sum is the solution of that equation, applied to the whole set.
LEMMA SumDefined ==
    ASSUME NEW f, NEW D
    PROVE  SumFunctionOnSet(f, D) = (CHOOSE g : IsSum(f, D, g))[D]
BY Zenon DEF SumFunctionOnSet, FoldFunctionOnSet, MapThenFoldSet, IsSum, SumStep, AnyOf

\* Removing an element from a subset of n + 1 elements leaves one of n.
LEMMA SubsetsUpToFacts ==
    ASSUME NEW D, IsFiniteSet(D)
    PROVE  /\ SubsetsUpTo(D, Cardinality(D)) = SUBSET D
           /\ \A s \in SUBSET D : IsFiniteSet(s) /\ Cardinality(s) \in Nat
           /\ \A s \in SubsetsUpTo(D, 0) : s = {}
           /\ \A n \in Nat : /\ {} \in SubsetsUpTo(D, n)
                             /\ SubsetsUpTo(D, n) \subseteq SubsetsUpTo(D, n + 1)
                             /\ \A s \in SubsetsUpTo(D, n + 1) :
                                    \A x \in s : s \ {x} \in SubsetsUpTo(D, n)
<1>1. \A s \in SUBSET D : IsFiniteSet(s) /\ Cardinality(s) <= Cardinality(D)
    BY FS_Subset
<1>2. \A s \in SUBSET D : Cardinality(s) \in Nat
    BY <1>1, FS_CardinalityType
<1>3. SubsetsUpTo(D, Cardinality(D)) = SUBSET D
    BY <1>1 DEF SubsetsUpTo
<1>4. \A s \in SUBSET D : Cardinality(s) <= 0 => s = {}
    BY <1>1, <1>2, FS_EmptySet
<1>5. ASSUME NEW n \in Nat
      PROVE  /\ {} \in SubsetsUpTo(D, n)
             /\ SubsetsUpTo(D, n) \subseteq SubsetsUpTo(D, n + 1)
             /\ \A s \in SubsetsUpTo(D, n + 1) : \A x \in s : s \ {x} \in SubsetsUpTo(D, n)
  <2>1. Cardinality({}) = 0
    BY FS_EmptySet
  <2>2. ASSUME NEW s \in SUBSET D, NEW x \in s, Cardinality(s) <= n + 1
        PROVE  Cardinality(s \ {x}) <= n
    <3>1. Cardinality(s \ {x}) = Cardinality(s) - 1
      BY <1>1, FS_RemoveElement
    <3> QED
      BY <1>2, <2>2, <3>1
  <2> QED
    BY <1>2, <2>1, <2>2 DEF SubsetsUpTo
<1> QED
    BY <1>1, <1>2, <1>3, <1>4, <1>5 DEF SubsetsUpTo

\* A set that is not empty has the element taken first.
LEMMA AnyOfIn == \A s : s # {} => AnyOf(s) \in s
BY DEF AnyOf

\* The equation has a solution: one on the subsets of n elements extends to n + 1.
LEMMA SumExists ==
    ASSUME NEW D, IsFiniteSet(D), NEW f, \A x \in D : f[x] \in Nat
    PROVE  \E g : IsSum(f, D, g)
<1> DEFINE P(n) == \E g : g = [s \in SubsetsUpTo(D, n) |-> SumStep(f, g, s)]
           S == {n \in Nat : P(n)}
<1>1. 0 \in S
  <2> DEFINE g == [s \in SubsetsUpTo(D, 0) |-> 0]
  <2>1. g = [s \in SubsetsUpTo(D, 0) |-> SumStep(f, g, s)]
    BY SubsetsUpToFacts DEF SumStep
  <2> QED
    BY <2>1
<1>2. ASSUME NEW n \in Nat, n \in S PROVE n + 1 \in S
  <2>1. PICK g : g = [s \in SubsetsUpTo(D, n) |-> SumStep(f, g, s)]
    BY <1>2
  <2> DEFINE h == [s \in SubsetsUpTo(D, n + 1) |-> SumStep(f, g, s)]
  <2>2. \A s \in SubsetsUpTo(D, n) : h[s] = g[s]
    BY <2>1, SubsetsUpToFacts
  <2>3. ASSUME NEW s \in SubsetsUpTo(D, n + 1) PROVE SumStep(f, g, s) = SumStep(f, h, s)
    <3>1. CASE s = {}
      BY <3>1 DEF SumStep
    <3>2. CASE s # {}
      <4>1. s \ {AnyOf(s)} \in SubsetsUpTo(D, n)
        BY <3>2, AnyOfIn, SubsetsUpToFacts
      <4> QED
        BY <2>2, <3>2, <4>1 DEF SumStep
    <3> QED
      BY <3>1, <3>2
  <2>4. h = [s \in SubsetsUpTo(D, n + 1) |-> SumStep(f, h, s)]
    BY <2>3
  <2>5. P(n + 1)
    BY <2>4
  <2> HIDE DEF P
  <2> QED
    BY <2>5
<1> HIDE DEF S
<1>3. Cardinality(D) \in S
    BY <1>1, <1>2, SetInduction, FS_CardinalityType
<1>4. P(Cardinality(D))
    BY <1>3 DEF S
<1>5. PICK g : g = [s \in SubsetsUpTo(D, Cardinality(D)) |-> SumStep(f, g, s)]
    BY <1>4
<1>6. g = [s \in SUBSET D |-> SumStep(f, g, s)]
    BY <1>5, SubsetsUpToFacts
<1> QED
    BY <1>6 DEF IsSum

\* The equation, read off a solution.
LEMMA SumUnfolds ==
    ASSUME NEW D, NEW f, NEW g, IsSum(f, D, g)
    PROVE  /\ g[{}] = 0
           /\ \A s \in SUBSET D : s # {} => g[s] = f[AnyOf(s)] + g[s \ {AnyOf(s)}]
<1>1. \A s \in SUBSET D : g[s] = SumStep(f, g, s)
    BY DEF IsSum
<1> QED
    BY <1>1 DEF SumStep

\* Sums of natural numbers are natural numbers.
LEMMA SumIsNumber ==
    ASSUME NEW D, IsFiniteSet(D), NEW f, \A x \in D : f[x] \in Nat, NEW g, IsSum(f, D, g)
    PROVE  \A s \in SUBSET D : g[s] \in Nat
<1> DEFINE S == {n \in Nat : \A s \in SubsetsUpTo(D, n) : g[s] \in Nat}
<1>0. g[{}] \in Nat
    BY SumUnfolds
<1>0a. \A s \in SUBSET D : s # {} => g[s] = f[AnyOf(s)] + g[s \ {AnyOf(s)}]
    BY SumUnfolds
<1>1. 0 \in S
    BY <1>0, SubsetsUpToFacts
<1>2. ASSUME NEW n \in Nat, n \in S PROVE n + 1 \in S
  <2>1. ASSUME NEW s \in SubsetsUpTo(D, n + 1), s # {} PROVE g[s] \in Nat
    <3>1. AnyOf(s) \in s /\ s \in SUBSET D
      BY <2>1, AnyOfIn DEF SubsetsUpTo
    <3>2. s \ {AnyOf(s)} \in SubsetsUpTo(D, n)
      BY <3>1, SubsetsUpToFacts
    <3>3. g[s \ {AnyOf(s)}] \in Nat /\ f[AnyOf(s)] \in Nat
      BY <1>2, <3>1, <3>2
    <3>4. g[s] = f[AnyOf(s)] + g[s \ {AnyOf(s)}]
      BY <1>0a, <2>1, <3>1
    <3> QED
      BY <3>3, <3>4
  <2>2. \A s \in SubsetsUpTo(D, n + 1) : g[s] \in Nat
    BY <1>0, <2>1
  <2> QED
    BY <2>2
<1> HIDE DEF S
<1>3. Cardinality(D) \in S
    BY <1>1, <1>2, SetInduction, FS_CardinalityType
<1>4. SubsetsUpTo(D, Cardinality(D)) = SUBSET D
    BY SubsetsUpToFacts
<1> QED
    BY <1>3, <1>4 DEF S

\* Functions that agree on a set have the same sums on it, in a larger set too.
LEMMA SumIsUnique ==
    ASSUME NEW D, IsFiniteSet(D), NEW f, NEW g, IsSum(f, D, g),
           NEW E, NEW e, NEW h, IsSum(e, E, h), D \subseteq E, \A x \in D : f[x] = e[x]
    PROVE  \A s \in SUBSET D : g[s] = h[s]
<1> DEFINE S == {n \in Nat : \A s \in SubsetsUpTo(D, n) : g[s] = h[s]}
<1>0. g[{}] = h[{}]
    BY SumUnfolds
<1>1. 0 \in S
    BY <1>0, SubsetsUpToFacts
<1>2. ASSUME NEW n \in Nat, n \in S PROVE n + 1 \in S
  <2>1. ASSUME NEW s \in SubsetsUpTo(D, n + 1), s # {} PROVE g[s] = h[s]
    <3>1. AnyOf(s) \in s /\ s \in SUBSET D /\ s \in SUBSET E
      BY <2>1, AnyOfIn DEF SubsetsUpTo
    <3>2. s \ {AnyOf(s)} \in SubsetsUpTo(D, n)
      BY <3>1, SubsetsUpToFacts
    <3>3. g[s \ {AnyOf(s)}] = h[s \ {AnyOf(s)}] /\ f[AnyOf(s)] = e[AnyOf(s)]
      BY <1>2, <3>1, <3>2
    <3>4. g[s] = f[AnyOf(s)] + g[s \ {AnyOf(s)}] /\ h[s] = e[AnyOf(s)] + h[s \ {AnyOf(s)}]
      BY <2>1, <3>1, SumUnfolds
    <3> QED
      BY <3>3, <3>4
  <2>2. \A s \in SubsetsUpTo(D, n + 1) : g[s] = h[s]
    BY <1>0, <2>1
  <2> QED
    BY <2>2
<1> HIDE DEF S
<1>3. Cardinality(D) \in S
    BY <1>1, <1>2, SetInduction, FS_CardinalityType
<1>4. SubsetsUpTo(D, Cardinality(D)) = SUBSET D
    BY SubsetsUpToFacts
<1> QED
    BY <1>3, <1>4 DEF S

\* The element taken first does not matter.
LEMMA SumTakesAny ==
    ASSUME NEW D, IsFiniteSet(D), NEW f, \A x \in D : f[x] \in Nat, NEW g, IsSum(f, D, g)
    PROVE  \A s \in SUBSET D : \A x \in s : g[s] = f[x] + g[s \ {x}]
<1> DEFINE S == {n \in Nat : \A s \in SubsetsUpTo(D, n) : \A x \in s : g[s] = f[x] + g[s \ {x}]}
<1>0. \A s \in SUBSET D : s # {} => g[s] = f[AnyOf(s)] + g[s \ {AnyOf(s)}]
    BY SumUnfolds
<1>1. 0 \in S
    BY SubsetsUpToFacts
<1>2. ASSUME NEW n \in Nat, n \in S PROVE n + 1 \in S
  <2>1. ASSUME NEW s \in SubsetsUpTo(D, n + 1), NEW x \in s PROVE g[s] = f[x] + g[s \ {x}]
    <3> DEFINE y == AnyOf(s)
    <3>0. y \in s /\ s \in SUBSET D /\ s # {}
      BY AnyOfIn DEF SubsetsUpTo
    <3>1. y \in s /\ s \in SUBSET D /\ g[s] = f[y] + g[s \ {y}]
      BY <1>0, <3>0
    <3> HIDE DEF y
    <3>2. CASE x = y
      BY <3>1, <3>2
    <3>3. CASE x # y
      <4>1. s \ {y} \in SubsetsUpTo(D, n) /\ s \ {x} \in SubsetsUpTo(D, n)
        BY <3>1, SubsetsUpToFacts
      <4>2. g[s \ {y}] = f[x] + g[(s \ {y}) \ {x}] /\ g[s \ {x}] = f[y] + g[(s \ {x}) \ {y}]
        BY <1>2, <3>1, <3>3, <4>1
      <4>3. (s \ {y}) \ {x} = (s \ {x}) \ {y}
        OBVIOUS
      <4>4. g[(s \ {x}) \ {y}] \in Nat /\ f[x] \in Nat /\ f[y] \in Nat
        BY <3>1, SumIsNumber
      <4> DEFINE rest == g[(s \ {x}) \ {y}]
                 fx == f[x]
                 fy == f[y]
      <4>5. g[s] = fy + (fx + rest) /\ g[s \ {x}] = fy + rest
        BY <3>1, <4>2, <4>3
      <4>6. rest \in Nat /\ fx \in Nat /\ fy \in Nat
        BY <4>4
      <4> HIDE DEF rest, fx, fy
      <4>7. g[s] = fx + (fy + rest)
        BY <4>5, <4>6
      <4> QED
        BY <4>5, <4>7 DEF fx
    <3> QED
      BY <3>2, <3>3
  <2> QED
    BY <2>1
<1> HIDE DEF S
<1>3. Cardinality(D) \in S
    BY <1>1, <1>2, SetInduction, FS_CardinalityType
<1>4. SubsetsUpTo(D, Cardinality(D)) = SUBSET D
    BY SubsetsUpToFacts
<1> QED
    BY <1>3, <1>4 DEF S

\* Zeros add up to 0.
LEMMA SumOfZeros ==
    ASSUME NEW D, IsFiniteSet(D), NEW f, \A x \in D : f[x] = 0, NEW g, IsSum(f, D, g)
    PROVE  g[D] = 0
<1> DEFINE S == {n \in Nat : \A s \in SubsetsUpTo(D, n) : g[s] = 0}
<1>0. g[{}] = 0
    BY SumUnfolds
<1>0a. \A s \in SUBSET D : s # {} => g[s] = f[AnyOf(s)] + g[s \ {AnyOf(s)}]
    BY SumUnfolds
<1>1. 0 \in S
    BY <1>0, SubsetsUpToFacts
<1>2. ASSUME NEW n \in Nat, n \in S PROVE n + 1 \in S
  <2>1. ASSUME NEW s \in SubsetsUpTo(D, n + 1), s # {} PROVE g[s] = 0
    <3>1. AnyOf(s) \in s /\ s \in SUBSET D
      BY <2>1, AnyOfIn DEF SubsetsUpTo
    <3>2. s \ {AnyOf(s)} \in SubsetsUpTo(D, n)
      BY <3>1, SubsetsUpToFacts
    <3>3. g[s \ {AnyOf(s)}] = 0 /\ f[AnyOf(s)] = 0
      BY <1>2, <3>1, <3>2
    <3>4. g[s] = f[AnyOf(s)] + g[s \ {AnyOf(s)}]
      BY <1>0a, <2>1, <3>1
    <3> QED
      BY <3>3, <3>4
  <2>2. \A s \in SubsetsUpTo(D, n + 1) : g[s] = 0
    BY <1>0, <2>1
  <2> QED
    BY <2>2
<1> HIDE DEF S
<1>3. Cardinality(D) \in S
    BY <1>1, <1>2, SetInduction, FS_CardinalityType
<1>4. SubsetsUpTo(D, Cardinality(D)) = SUBSET D
    BY SubsetsUpToFacts
<1> QED
    BY <1>3, <1>4 DEF S

\* The library's sum is that of a solution.
LEMMA TotalIsSum ==
    ASSUME NEW D, IsFiniteSet(D), NEW f, \A x \in D : f[x] \in Nat
    PROVE  \E g : IsSum(f, D, g) /\ SumFunctionOnSet(f, D) = g[D]
<1> DEFINE g == CHOOSE g : IsSum(f, D, g)
<1>1. IsSum(f, D, g)
    BY SumExists
<1> QED
    BY <1>1, SumDefined

\* Nothing adds up to 0.
LEMMA SumEmpty == \A f : SumFunctionOnSet(f, {}) = 0
<1> SUFFICES ASSUME NEW f PROVE SumFunctionOnSet(f, {}) = 0
    OBVIOUS
<1>1. PICK g : IsSum(f, {}, g) /\ SumFunctionOnSet(f, {}) = g[{}]
    BY TotalIsSum, FS_EmptySet
<1> QED
    BY <1>1, SumUnfolds

\* A sum is a natural number.
LEMMA SumType ==
    ASSUME NEW D, IsFiniteSet(D), NEW f, \A x \in D : f[x] \in Nat
    PROVE  SumFunctionOnSet(f, D) \in Nat
<1>1. PICK g : IsSum(f, D, g) /\ SumFunctionOnSet(f, D) = g[D]
    BY TotalIsSum
<1> QED
    BY <1>1, SumIsNumber

\* A sum depends on the values on its set only.
LEMMA SumAgrees ==
    ASSUME NEW D, IsFiniteSet(D), NEW f, \A x \in D : f[x] \in Nat,
           NEW e, \A x \in D : e[x] = f[x]
    PROVE  SumFunctionOnSet(e, D) = SumFunctionOnSet(f, D)
<1>1. PICK g : IsSum(f, D, g) /\ SumFunctionOnSet(f, D) = g[D]
    BY TotalIsSum
<1>2. \A x \in D : e[x] \in Nat
    OBVIOUS
<1>3. PICK h : IsSum(e, D, h) /\ SumFunctionOnSet(e, D) = h[D]
    BY <1>2, TotalIsSum
<1>4. \A s \in SUBSET D : g[s] = h[s]
    BY <1>1, <1>3, SumIsUnique
<1> QED
    BY <1>1, <1>3, <1>4

\* An element contributes its value.
LEMMA SumRemove ==
    ASSUME NEW D, IsFiniteSet(D), NEW f, \A x \in D : f[x] \in Nat, NEW x \in D
    PROVE  SumFunctionOnSet(f, D) = f[x] + SumFunctionOnSet(f, D \ {x})
<1> DEFINE E == D \ {x}
<1>0. IsFiniteSet(E) /\ E \subseteq D /\ \A y \in E : f[y] \in Nat
    BY FS_RemoveElement
<1>1. PICK g : IsSum(f, D, g) /\ SumFunctionOnSet(f, D) = g[D]
    BY TotalIsSum
<1> HIDE DEF E
<1>2. PICK h : IsSum(f, E, h) /\ SumFunctionOnSet(f, E) = h[E]
    BY <1>0, TotalIsSum
<1>3. \A s \in SUBSET E : h[s] = g[s]
    BY <1>0, <1>1, <1>2, SumIsUnique
<1>4. IsSum(f, D, g) /\ D \in SUBSET D
    BY <1>1
<1>5. g[D] = f[x] + g[E]
    BY <1>4, SumTakesAny DEF E
<1>6. h[E] = g[E]
    BY <1>3
<1> QED
    BY <1>1, <1>2, <1>5, <1>6 DEF E

\* A new element adds its value.
LEMMA SumInsert ==
    ASSUME NEW D, IsFiniteSet(D), NEW x, x \notin D, NEW f, \A y \in D \cup {x} : f[y] \in Nat
    PROVE  SumFunctionOnSet(f, D \cup {x}) = f[x] + SumFunctionOnSet(f, D)
<1> DEFINE E == D \cup {x}
<1>1. IsFiniteSet(E) /\ x \in E /\ E \ {x} = D /\ \A y \in E : f[y] \in Nat
    BY FS_AddElement
<1> HIDE DEF E
<1>2. SumFunctionOnSet(f, E) = f[x] + SumFunctionOnSet(f, E \ {x})
    BY <1>1, SumRemove
<1> QED
    BY <1>1, <1>2 DEF E

\* A changed value changes the sum by as much.
LEMMA SumChange ==
    ASSUME NEW D, IsFiniteSet(D), NEW x \in D, NEW f, \A y \in D : f[y] \in Nat,
           NEW e, \A y \in D : e[y] \in Nat, \A y \in D \ {x} : e[y] = f[y]
    PROVE  SumFunctionOnSet(e, D) + f[x] = SumFunctionOnSet(f, D) + e[x]
<1> DEFINE E == D \ {x}
<1>1. IsFiniteSet(E) /\ (\A y \in E : f[y] \in Nat) /\ \A y \in E : e[y] = f[y]
    BY FS_RemoveElement
<1>2. SumFunctionOnSet(f, D) = f[x] + SumFunctionOnSet(f, E)
    BY SumRemove
<1>3. SumFunctionOnSet(e, D) = e[x] + SumFunctionOnSet(e, E)
    BY SumRemove
<1> HIDE DEF E
<1>4. SumFunctionOnSet(e, E) = SumFunctionOnSet(f, E) /\ SumFunctionOnSet(f, E) \in Nat
    BY <1>1, SumAgrees, SumType
<1>5. f[x] \in Nat /\ e[x] \in Nat
    OBVIOUS
<1> QED
    BY <1>2, <1>3, <1>4, <1>5

(***************************************************************************)
(* The same facts about SumFunction, for functions given by their sets.    *)
(***************************************************************************)
\* A total is a natural number, and 0 for no entries.
LEMMA TotalType ==
    ASSUME NEW D, IsFiniteSet(D), NEW f \in [D -> Nat]
    PROVE  SumFunction(f) \in Nat /\ (D = {} => SumFunction(f) = 0)
BY SumType, SumEmpty DEF SumFunction

LEMMA TotalOfZeros ==
    ASSUME NEW D, IsFiniteSet(D), NEW f \in [D -> Nat], \A x \in D : f[x] = 0
    PROVE  SumFunction(f) = 0
<1>1. PICK g : IsSum(f, D, g) /\ SumFunctionOnSet(f, D) = g[D]
    BY TotalIsSum
<1> QED
    BY <1>1, SumOfZeros DEF SumFunction

\* A total changes by what one entry changes.
LEMMA TotalChange ==
    ASSUME NEW D, IsFiniteSet(D), NEW f \in [D -> Nat], NEW e \in [D -> Nat], NEW x \in D,
           \A y \in D \ {x} : e[y] = f[y]
    PROVE  SumFunction(e) + f[x] = SumFunction(f) + e[x]
BY SumChange DEF SumFunction

\* A new entry adds its value.
LEMMA TotalInsert ==
    ASSUME NEW D, IsFiniteSet(D), NEW x, x \notin D, NEW E, E = D \cup {x},
           NEW f \in [D -> Nat], NEW e \in [E -> Nat], \A y \in D : e[y] = f[y]
    PROVE  SumFunction(e) = SumFunction(f) + e[x]
<1>1. SumFunctionOnSet(e, E) = e[x] + SumFunctionOnSet(e, D)
    BY SumInsert
<1>2. SumFunctionOnSet(e, D) = SumFunctionOnSet(f, D) /\ SumFunctionOnSet(f, D) \in Nat
    BY SumAgrees, SumType
<1>3. e[x] \in Nat /\ DOMAIN e = E /\ DOMAIN f = D
    OBVIOUS
<1> QED
    BY <1>1, <1>2, <1>3 DEF SumFunction
=============================================================================
