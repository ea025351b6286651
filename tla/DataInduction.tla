--------------------------- MODULE DataInduction ----------------------------
(***************************************************************************)
(* Induction over numbers and finite sets, and what it shows of sums over  *)
(* finite sets.  The induction rules are stated with a set in place of a   *)
(* predicate: what is to be shown of all is that they are in the set.      *)
(***************************************************************************)
EXTENDS Integers, FiniteSets, Functions, FiniteSetTheorems, TLAPS

\* A set that holds the empty set, and with a subset of S the subset with one
\* element more, holds S: a minimal subset that it misses would have to be
\* empty.
LEMMA FiniteSetInduction ==
  ASSUME NEW S, IsFiniteSet(S), NEW I, {} \in I,
         \A T \in SUBSET S : \A x \in S \ T : T \in I => T \cup {x} \in I
  PROVE  S \in I
<1>1. SUFFICES ASSUME S \notin I PROVE FALSE
  OBVIOUS
<1> DEFINE Bad == {T \in SUBSET S : T \notin I}
<1>2. Bad # {} /\ Bad \subseteq FiniteSubsetsOf(S)
  BY <1>1, FS_Subset DEF FiniteSubsetsOf
<1>3. PICK B \in Bad : \A y \in Bad : ~(<<y, B>> \in StrictSubsetOrdering(S))
  <2> HIDE DEF Bad
  <2> QED BY <1>2, FS_StrictSubsetOrderingWellFounded, WFMin
<1>4. PICK x : x \in B
  OBVIOUS
<1>5. B \ {x} \notin Bad
  BY <1>3, <1>4 DEF StrictSubsetOrdering
<1>6. B \ {x} \in I /\ B = (B \ {x}) \cup {x}
  BY <1>4, <1>5
<1>7. QED BY <1>4, <1>6

\* A set of numbers that holds 0, and with a number the next one.
LEMMA NatSetInduction ==
  ASSUME NEW S, 0 \in S, \A n \in Nat : n \in S => n + 1 \in S
  PROVE  \A n \in Nat : n \in S
<1>1. SUFFICES ASSUME NEW c \in Nat, c \notin S PROVE FALSE
  OBVIOUS
<1> DEFINE T == {0..n : n \in Nat \ S}
<1>2. T # {} /\ T \subseteq FiniteSubsetsOf(Nat)
  <2>1. 0..c \in T
    BY <1>1
  <2>2. ASSUME NEW n \in Nat PROVE 0..n \in FiniteSubsetsOf(Nat)
    BY FS_Interval DEF FiniteSubsetsOf
  <2>3. QED BY <2>1, <2>2
<1> HIDE DEF T
<1>3. PICK x \in T : \A y \in T : ~(<<y, x>> \in StrictSubsetOrdering(Nat))
  BY <1>2, FS_StrictSubsetOrderingWellFounded, WFMin
<1>4. PICK m \in Nat \ S : x = 0..m
  BY DEF T
<1>5. m # 0 /\ m - 1 \in Nat /\ m - 1 \notin S
  <2>1. m # 0
    OBVIOUS
  <2>2. m - 1 \in Nat /\ (m - 1) + 1 = m
    BY <2>1
  <2>3. QED BY <2>1, <2>2
<1>6. 0..(m - 1) \in T
  BY <1>5 DEF T
<1>7. <<0..(m - 1), 0..m>> \in StrictSubsetOrdering(Nat)
  <2>1. m \in 0..m /\ m \notin 0..(m - 1)
    BY <1>5
  <2>2. QED BY <1>4, <1>5, <2>1 DEF StrictSubsetOrdering
<1>8. QED BY <1>3, <1>4, <1>6, <1>7

\* The values a function takes on a finite set are finitely many.
LEMMA FiniteImage ==
  ASSUME NEW S, IsFiniteSet(S), NEW f
  PROVE  IsFiniteSet({f[x] : x \in S})
<1> DEFINE g == [x \in S |-> f[x]]
           T == {f[x] : x \in S}
<1>1. g \in Surjection(S, T)
  BY DEF Surjection
<1> HIDE DEF g, T
<1>2. IsFiniteSet(T)
  BY <1>1, FS_Surjection
<1>3. QED BY <1>2 DEF T

\* A finite set of integers that is not empty has a greatest element.
LEMMA FiniteMaximum ==
  ASSUME NEW S \in SUBSET Int, IsFiniteSet(S), S # {}
  PROVE  \E x \in S : \A y \in S : x >= y
<1> DEFINE I == {T \in SUBSET S : T = {} \/ \E x \in T : \A y \in T : x >= y}
<1>1. {} \in I
  OBVIOUS
<1>2. ASSUME NEW T \in SUBSET S, NEW z \in S \ T, T \in I
      PROVE  T \cup {z} \in I
  <2>1. CASE T = {}
    BY <2>1
  <2>2. CASE T # {}
    <3>1. PICK x \in T : \A y \in T : x >= y
      BY <1>2, <2>2
    <3>2. CASE x >= z
      BY <3>1, <3>2
    <3>3. CASE ~(x >= z)
      <4>1. \A y \in T \cup {z} : z >= y
        BY <3>1, <3>3
      <4>2. QED BY <4>1
    <3>4. QED BY <3>2, <3>3
  <2>3. QED BY <2>1, <2>2
<1>3. S \in I
  <2> HIDE DEF I
  <2> QED BY <1>1, <1>2, FiniteSetInduction
<1>4. QED BY <1>3

(***************************************************************************)
(* A function on 0..n can be defined step by step from its value at 0.     *)
(***************************************************************************)
RecursionUpTo(n, base, step, g) ==
  g = [k \in 0..n |-> IF k = 0 THEN base ELSE step[k][g[k - 1]]]

LEMMA NatRecursion ==
  ASSUME NEW n \in Nat, NEW V, NEW base \in V, NEW step \in [1..n -> [V -> V]]
  PROVE  \E g \in [0..n -> V] : RecursionUpTo(n, base, step, g)
<1> DEFINE Solves(g, m) == \A k \in 0..m : g[k] = IF k = 0 THEN base ELSE step[k][g[k - 1]]
           I == {m \in Nat : m <= n => \E g \in [0..m -> V] : Solves(g, m)}
<1>1. 0 \in I
  <2> DEFINE g == [k \in 0..0 |-> base]
  <2>1. g \in [0..0 -> V] /\ Solves(g, 0)
    OBVIOUS
  <2>2. QED BY <2>1
<1>2. ASSUME NEW m \in Nat, m \in I PROVE m + 1 \in I
  <2>1. SUFFICES ASSUME m + 1 <= n PROVE \E g \in [0..(m + 1) -> V] : Solves(g, m + 1)
    OBVIOUS
  <2>2. PICK g \in [0..m -> V] : Solves(g, m)
    BY <1>2, <2>1
  <2> DEFINE h == [k \in 0..(m + 1) |-> IF k = m + 1 THEN step[m + 1][g[m]] ELSE g[k]]
  <2>3. g[m] \in V /\ step[m + 1] \in [V -> V] /\ step[m + 1][g[m]] \in V
    BY <2>1
  <2>4. h \in [0..(m + 1) -> V]
    <3>1. ASSUME NEW k \in 0..(m + 1) PROVE h[k] \in V
      <4>1. k = m + 1 \/ k \in 0..m
        OBVIOUS
      <4>2. QED BY <2>3, <4>1
    <3>2. QED BY <3>1
  <2>5. \A k \in 0..m : h[k] = g[k]
    OBVIOUS
  <2>6. ASSUME NEW k \in 0..(m + 1) PROVE h[k] = IF k = 0 THEN base ELSE step[k][h[k - 1]]
    <3>1. CASE k = m + 1
      <4>1. k - 1 = m /\ m \in 0..m /\ k # 0
        BY <3>1
      <4>2. h[k - 1] = g[m] /\ h[k] = step[k][g[m]]
        BY <2>5, <3>1, <4>1
      <4>3. QED BY <4>1, <4>2
    <3>2. CASE k \in 0..m
      <4>1. k = 0 \/ k - 1 \in 0..m
        BY <3>2
      <4>2. h[k] = g[k] /\ (k # 0 => h[k - 1] = g[k - 1])
        BY <2>5, <3>2, <4>1
      <4>3. QED BY <2>2, <3>2, <4>1, <4>2
    <3>3. QED BY <3>1, <3>2
  <2>7. QED BY <2>4, <2>6
<1>3. n \in I
  <2> HIDE DEF I
  <2> QED BY <1>1, <1>2, NatSetInduction
<1>4. PICK g \in [0..n -> V] : Solves(g, n)
  BY <1>3
<1>5. g = [k \in 0..n |-> IF k = 0 THEN base ELSE step[k][g[k - 1]]]
  BY <1>4
<1>6. QED BY <1>5 DEF RecursionUpTo

(***************************************************************************)
(* A function on the subsets of a finite set can be defined by taking out  *)
(* one chosen element at a time.                                           *)
(***************************************************************************)
Recursion(S, base, pick, step, g) ==
  \A T \in SUBSET S :
    g[T] = IF T = {} THEN base ELSE step[pick[T]][g[T \ {pick[T]}]]

LEMMA FiniteSetRecursion ==
  ASSUME NEW S, IsFiniteSet(S), NEW V, NEW base \in V,
         NEW pick, \A T \in SUBSET S : T # {} => pick[T] \in T,
         NEW step \in [S -> [V -> V]]
  PROVE  \E g \in [SUBSET S -> V] : Recursion(S, base, pick, step, g)
<1> DEFINE Small(k) == {T \in SUBSET S : Cardinality(T) <= k}
           Solves(g, k) ==
             \A T \in Small(k) :
               g[T] = IF T = {} THEN base ELSE step[pick[T]][g[T \ {pick[T]}]]
           I == {k \in Nat : \E g \in [Small(k) -> V] : Solves(g, k)}
<1>1. \A T \in SUBSET S : IsFiniteSet(T) /\ Cardinality(T) \in Nat
  BY FS_Subset, FS_CardinalityType
<1>2. 0 \in I
  <2> DEFINE g == [T \in Small(0) |-> base]
  <2>1. \A T \in Small(0) : T = {}
    BY <1>1, FS_EmptySet
  <2>2. g \in [Small(0) -> V] /\ Solves(g, 0)
    BY <2>1
  <2>3. QED BY <2>2
<1>3. ASSUME NEW k \in Nat, k \in I PROVE k + 1 \in I
  <2>1. PICK g \in [Small(k) -> V] : Solves(g, k)
    BY <1>3
  <2>2. ASSUME NEW T \in Small(k + 1), T # {}
        PROVE  T \ {pick[T]} \in Small(k) /\ pick[T] \in S
    <3>1. T \in SUBSET S /\ Cardinality(T) <= k + 1
      OBVIOUS
    <3>2. pick[T] \in T
      BY <2>2, <3>1
    <3>3. Cardinality(T \ {pick[T]}) = Cardinality(T) - 1
      BY <1>1, <3>1, <3>2, FS_RemoveElement
    <3>4. QED BY <1>1, <3>1, <3>2, <3>3
  <2> DEFINE h == [T \in Small(k + 1) |->
                    IF T = {} THEN base ELSE step[pick[T]][g[T \ {pick[T]}]]]
  <2>3. ASSUME NEW T \in Small(k) PROVE T \in Small(k + 1) /\ h[T] = g[T]
    <3>1. T \in Small(k + 1)
      BY <1>1
    <3>2. h[T] = IF T = {} THEN base ELSE step[pick[T]][g[T \ {pick[T]}]]
      BY <3>1
    <3>3. g[T] = IF T = {} THEN base ELSE step[pick[T]][g[T \ {pick[T]}]]
      BY <2>1
    <3>4. QED BY <3>1, <3>2, <3>3
  <2>4. h \in [Small(k + 1) -> V]
    BY <2>1, <2>2
  <2>5. Solves(h, k + 1)
    <3>1. SUFFICES ASSUME NEW T \in Small(k + 1)
                   PROVE  h[T] = IF T = {} THEN base
                                 ELSE step[pick[T]][h[T \ {pick[T]}]]
      OBVIOUS
    <3>2. h[T] = IF T = {} THEN base ELSE step[pick[T]][g[T \ {pick[T]}]]
      OBVIOUS
    <3>3. CASE T = {}
      BY <3>2, <3>3
    <3>4. CASE T # {}
      <4>1. h[T \ {pick[T]}] = g[T \ {pick[T]}]
        BY <2>2, <2>3, <3>4
      <4>2. QED BY <3>2, <3>4, <4>1
    <3>5. QED BY <3>3, <3>4
  <2>6. \E f \in [Small(k + 1) -> V] : Solves(f, k + 1)
    <3> HIDE DEF h, Small, Solves
    <3> QED BY <2>4, <2>5
  <2>7. k + 1 \in Nat
    OBVIOUS
  <2>8. QED
    <3> HIDE DEF Small, Solves
    <3> QED BY <2>6, <2>7
<1>4. PICK g \in [Small(Cardinality(S)) -> V] : Solves(g, Cardinality(S))
  <2> HIDE DEF I
  <2>1. Cardinality(S) \in I
    BY <1>1, <1>2, <1>3, NatSetInduction
  <2>2. QED BY <2>1 DEF I
<1>5. Small(Cardinality(S)) = SUBSET S
  BY FS_Subset
<1>6. QED BY <1>4, <1>5 DEF Recursion

(***************************************************************************)
(* Sums of a function's values over a finite set, as the community module  *)
(* defines them: one element chosen and taken out at a time.               *)
(***************************************************************************)


\* The recursion that SumFunctionOnSet solves on the subsets of S.
SumsOn(f, S, g) ==
  g = [T \in SUBSET S |->
        IF T = {} THEN 0
        ELSE f[CHOOSE y \in T : TRUE] + g[T \ {CHOOSE y \in T : TRUE}]]

LEMMA SumIsChosen ==
  ASSUME NEW f, NEW S
  PROVE  SumFunctionOnSet(f, S) = (CHOOSE g : SumsOn(f, S, g))[S]
BY DEF SumFunctionOnSet, FoldFunctionOnSet, MapThenFoldSet, SumsOn

\* The recursion has a solution, with values in Int.
LEMMA SumsExist ==
  ASSUME NEW S, IsFiniteSet(S), NEW f, \A x \in S : f[x] \in Int
  PROVE  \E g \in [SUBSET S -> Int] : SumsOn(f, S, g)
<1> DEFINE pick == [T \in SUBSET S |-> CHOOSE y \in T : TRUE]
           step == [x \in S |-> [v \in Int |-> f[x] + v]]
           zero == 0
           Z == Int
<1>1. \A T \in SUBSET S : T # {} => pick[T] \in T
  OBVIOUS
<1>2. step \in [S -> [Z -> Z]] /\ zero \in Z
  OBVIOUS
<1>3. PICK g \in [SUBSET S -> Z] : Recursion(S, zero, pick, step, g)
  <2> HIDE DEF pick, step, zero, Z
  <2> QED BY <1>1, <1>2, FiniteSetRecursion
<1>4. ASSUME NEW T \in SUBSET S, T # {}
      PROVE  step[pick[T]][g[T \ {pick[T]}]]
               = f[CHOOSE y \in T : TRUE] + g[T \ {CHOOSE y \in T : TRUE}]
  <2>1. pick[T] = (CHOOSE y \in T : TRUE) /\ pick[T] \in S
    BY <1>1, <1>4
  <2>2. g[T \ {pick[T]}] \in Int
    OBVIOUS
  <2>3. step[pick[T]][g[T \ {pick[T]}]] = f[pick[T]] + g[T \ {pick[T]}]
    <3> HIDE DEF pick
    <3> QED BY <2>1, <2>2
  <2>4. QED BY <2>1, <2>3
<1>5. g = [T \in SUBSET S |-> IF T = {} THEN 0 ELSE step[pick[T]][g[T \ {pick[T]}]]]
  <2> HIDE DEF pick, step
  <2> QED BY <1>3 DEF Recursion
<1>6. SumsOn(f, S, g)
  <2> HIDE DEF pick, step
  <2> QED BY <1>4, <1>5 DEF SumsOn
<1>7. QED BY <1>6

\* Solutions on two sets agree on the subsets of both.
LEMMA SumsAgree ==
  ASSUME NEW S, IsFiniteSet(S), NEW R, R \subseteq S, NEW f,
         NEW g, SumsOn(f, S, g), NEW h, SumsOn(f, R, h)
  PROVE  \A T \in SUBSET R : h[T] = g[T]
<1> DEFINE I == {k \in Nat : \A T \in SUBSET R : Cardinality(T) <= k => h[T] = g[T]}
<1>1. \A T \in SUBSET R : IsFiniteSet(T) /\ Cardinality(T) \in Nat
  BY FS_Subset, FS_CardinalityType
<1>2. 0 \in I
  <2>1. ASSUME NEW T \in SUBSET R, Cardinality(T) <= 0 PROVE h[T] = g[T]
    <3>1. T = {}
      BY <1>1, <2>1, FS_EmptySet
    <3>2. QED BY <3>1 DEF SumsOn
  <2>2. QED BY <2>1
<1>3. ASSUME NEW k \in Nat, k \in I PROVE k + 1 \in I
  <2>1. ASSUME NEW T \in SUBSET R, Cardinality(T) <= k + 1 PROVE h[T] = g[T]
    <3>1. CASE T = {}
      BY <3>1 DEF SumsOn
    <3>2. CASE T # {}
      <4> DEFINE c == CHOOSE y \in T : TRUE
      <4>1. c \in T
        BY <3>2
      <4>2. Cardinality(T \ {c}) = Cardinality(T) - 1
        BY <1>1, <4>1, FS_RemoveElement
      <4>3. Cardinality(T \ {c}) <= k /\ T \ {c} \in SUBSET R
        BY <1>1, <2>1, <4>2
      <4>4. h[T \ {c}] = g[T \ {c}]
        BY <1>3, <4>3
      <4>5. h[T] = f[c] + h[T \ {c}] /\ g[T] = f[c] + g[T \ {c}]
        BY <3>2 DEF SumsOn
      <4>6. QED BY <4>4, <4>5
    <3>3. QED BY <3>1, <3>2
  <2>2. QED BY <2>1
<1>4. \A k \in Nat : k \in I
  <2> HIDE DEF I
  <2> QED BY <1>2, <1>3, NatSetInduction
<1>5. ASSUME NEW T \in SUBSET R PROVE h[T] = g[T]
  <2>1. Cardinality(T) \in I
    BY <1>1, <1>4
  <2>2. QED BY <1>1, <2>1
<1>6. QED BY <1>5

\* The sum over a subset R is the value at R of the solution on S.
LEMMA SumIsSolution ==
  ASSUME NEW S, IsFiniteSet(S), NEW f, \A x \in S : f[x] \in Int,
         NEW g, SumsOn(f, S, g), NEW R \in SUBSET S
  PROVE  SumFunctionOnSet(f, R) = g[R]
<1>1. IsFiniteSet(R)
  BY FS_Subset
<1>2. \E h : SumsOn(f, R, h)
  BY <1>1, SumsExist
<1> DEFINE h == CHOOSE k : SumsOn(f, R, k)
<1>3. SumsOn(f, R, h)
  BY <1>2
<1>4. SumFunctionOnSet(f, R) = h[R]
  BY SumIsChosen
<1> HIDE DEF h
<1>5. h[R] = g[R]
  <2>1. R \subseteq S /\ R \in SUBSET R
    OBVIOUS
  <2>2. QED BY <1>3, <2>1, SumsAgree
<1>6. QED BY <1>4, <1>5

\* Nothing sums to 0.
LEMMA SumOfNothing ==
  ASSUME NEW f
  PROVE  SumFunctionOnSet(f, {}) = 0
<1>1. IsFiniteSet({}) /\ \A x \in {} : f[x] \in Int
  BY FS_EmptySet
<1>2. PICK g : SumsOn(f, {}, g)
  BY <1>1, SumsExist
<1>3. SumFunctionOnSet(f, {}) = g[{}]
  BY <1>1, <1>2, SumIsSolution
<1>4. QED BY <1>2, <1>3 DEF SumsOn

\* The sum over a finite set of integers is an integer.
LEMMA SumIsInteger ==
  ASSUME NEW S, IsFiniteSet(S), NEW f, \A x \in S : f[x] \in Int
  PROVE  SumFunctionOnSet(f, S) \in Int
<1>1. PICK g \in [SUBSET S -> Int] : SumsOn(f, S, g)
  BY SumsExist
<1>2. QED BY <1>1, SumIsSolution

\* Any element can be taken out first.
LEMMA SumWithElement ==
  ASSUME NEW S, IsFiniteSet(S), NEW f, \A x \in S : f[x] \in Int,
         NEW e \in S
  PROVE  SumFunctionOnSet(f, S) = f[e] + SumFunctionOnSet(f, S \ {e})
<1>1. PICK g \in [SUBSET S -> Int] : SumsOn(f, S, g)
  BY SumsExist
<1> DEFINE I == {k \in Nat : \A T \in SUBSET S : Cardinality(T) <= k =>
                                \A x \in T : g[T] = f[x] + g[T \ {x}]}
<1>2. \A T \in SUBSET S : IsFiniteSet(T) /\ Cardinality(T) \in Nat
  BY FS_Subset, FS_CardinalityType
<1>3. 0 \in I
  <2>1. \A T \in SUBSET S : Cardinality(T) <= 0 => T = {}
    BY <1>2, FS_EmptySet
  <2>2. QED BY <2>1
<1>4. ASSUME NEW k \in Nat, k \in I PROVE k + 1 \in I
  <2>1. ASSUME NEW T \in SUBSET S, Cardinality(T) <= k + 1, NEW x \in T
        PROVE  g[T] = f[x] + g[T \ {x}]
    <3> DEFINE c == CHOOSE y \in T : TRUE
    <3>1. c \in T
      OBVIOUS
    <3>2. g[T] = f[c] + g[T \ {c}]
      BY <1>1 DEF SumsOn
    <3> HIDE DEF c
    <3>3. CASE x = c
      BY <3>2, <3>3
    <3>4. CASE x # c
      <4>1. /\ Cardinality(T \ {c}) = Cardinality(T) - 1
            /\ Cardinality(T \ {x}) = Cardinality(T) - 1
        BY <1>2, <3>1, FS_RemoveElement
      <4>2. Cardinality(T \ {c}) <= k /\ Cardinality(T \ {x}) <= k
        BY <1>2, <2>1, <4>1
      <4>3. g[T \ {c}] = f[x] + g[(T \ {c}) \ {x}]
        BY <1>4, <3>4, <4>2
      <4>4. g[T \ {x}] = f[c] + g[(T \ {x}) \ {c}]
        BY <1>4, <3>1, <3>4, <4>2
      <4>5. (T \ {c}) \ {x} = (T \ {x}) \ {c}
        OBVIOUS
      <4>6. f[x] \in Int /\ f[c] \in Int /\ g[(T \ {x}) \ {c}] \in Int
        BY <3>1
      <4>7. /\ g[T] = f[c] + (f[x] + g[(T \ {x}) \ {c}])
            /\ f[x] + g[T \ {x}] = f[x] + (f[c] + g[(T \ {x}) \ {c}])
        BY <3>2, <4>3, <4>4, <4>5
      <4>8. QED BY <4>6, <4>7
    <3>5. QED BY <3>3, <3>4
  <2>2. QED BY <2>1
<1>5. \A k \in Nat : k \in I
  <2> HIDE DEF I
  <2> QED BY <1>3, <1>4, NatSetInduction
<1>6. g[S] = f[e] + g[S \ {e}]
  <2>1. Cardinality(S) \in I /\ S \in SUBSET S
    BY <1>2, <1>5
  <2>2. QED BY <1>2, <2>1
<1>7. SumFunctionOnSet(f, S) = g[S] /\ SumFunctionOnSet(f, S \ {e}) = g[S \ {e}]
  BY <1>1, SumIsSolution
<1>8. QED BY <1>6, <1>7

\* The sum looks at no value outside the set.
LEMMA SumOfEqualValues ==
  ASSUME NEW S, IsFiniteSet(S), NEW f, NEW h,
         \A x \in S : f[x] \in Int /\ h[x] = f[x]
  PROVE  SumFunctionOnSet(f, S) = SumFunctionOnSet(h, S)
<1> DEFINE I == {T \in SUBSET S : SumFunctionOnSet(f, T) = SumFunctionOnSet(h, T)}
<1>1. {} \in I
  BY SumOfNothing
<1>2. ASSUME NEW T \in SUBSET S, NEW x \in S \ T, T \in I
      PROVE  T \cup {x} \in I
  <2>1. IsFiniteSet(T \cup {x}) /\ (T \cup {x}) \ {x} = T
    BY FS_Subset
  <2>2. /\ SumFunctionOnSet(f, T \cup {x}) = f[x] + SumFunctionOnSet(f, T)
        /\ SumFunctionOnSet(h, T \cup {x}) = h[x] + SumFunctionOnSet(h, T)
    <3> DEFINE U == T \cup {x}
    <3>1. IsFiniteSet(U) /\ x \in U /\ \A y \in U : f[y] \in Int /\ h[y] \in Int
      BY <2>1
    <3>2. /\ SumFunctionOnSet(f, U) = f[x] + SumFunctionOnSet(f, U \ {x})
          /\ SumFunctionOnSet(h, U) = h[x] + SumFunctionOnSet(h, U \ {x})
      <4> HIDE DEF U
      <4> QED BY <3>1, SumWithElement
    <3>3. QED BY <2>1, <3>2
  <2>3. QED BY <1>2, <2>2
<1>3. S \in I
  <2> HIDE DEF I
  <2> QED BY <1>1, <1>2, FiniteSetInduction
<1>4. QED BY <1>3

\* A sum of natural numbers is one.
LEMMA SumIsNatural ==
  ASSUME NEW S, IsFiniteSet(S), NEW f, \A x \in S : f[x] \in Nat
  PROVE  SumFunctionOnSet(f, S) \in Nat
<1> DEFINE I == {T \in SUBSET S : SumFunctionOnSet(f, T) \in Nat}
<1>1. {} \in I
  BY SumOfNothing
<1>2. ASSUME NEW T \in SUBSET S, NEW x \in S \ T, T \in I
      PROVE  T \cup {x} \in I
  <2> DEFINE U == T \cup {x}
  <2>1. IsFiniteSet(U) /\ x \in U /\ U \ {x} = T /\ \A y \in U : f[y] \in Int
    BY FS_Subset
  <2>2. SumFunctionOnSet(f, U) = f[x] + SumFunctionOnSet(f, T)
    <3> HIDE DEF U
    <3> QED BY <2>1, SumWithElement
  <2>3. f[x] \in Nat /\ SumFunctionOnSet(f, T) \in Nat
    BY <1>2
  <2>4. SumFunctionOnSet(f, U) \in Nat
    <3> HIDE DEF U
    <3> QED BY <2>2, <2>3
  <2>5. QED BY <2>4
<1>3. S \in I
  <2> HIDE DEF I
  <2> QED BY <1>1, <1>2, FiniteSetInduction
<1>4. QED BY <1>3
=============================================================================
