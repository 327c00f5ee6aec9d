------------------------------ MODULE SetFacts ------------------------------
(***************************************************************************)
(* Facts about sets that the libraries of the models rest on.              *)
(*                                                                         *)
(* Greatest and least elements of bounded sets of integers, which the      *)
(* operators Max and Min choose.  They are used throughout the models to   *)
(* say "the newest frame such that" and "the earliest frame such that".    *)
(*                                                                         *)
(* Sums over finite sets.  SumFunctionOnSet is a fold, a function defined  *)
(* by recursion on the subsets of its index set; what it returns is shown  *)
(* with a smallest counterexample, because the subsets of a finite set are *)
(* well-founded by inclusion.                                              *)
(***************************************************************************)
EXTENDS Integers, FiniteSetsExt, FiniteSetTheorems, WellFoundedInduction, TLAPS

-----------------------------------------------------------------------------
(* Greatest and least elements. *)

\* Every set of naturals that is not empty has a least element.
LEMMA NatLeast ==
  ASSUME NEW S \in SUBSET Nat, S # {}
  PROVE  \E x \in S : \A y \in S : x <= y
<1>1. PICK x \in S : \A y \in S : ~ (<<y, x>> \in OpToRel(<, Nat))
  BY WFMin, NatLessThanWellFounded
<1>2. ASSUME NEW y \in S PROVE x <= y
  <2>1. ~ (y < x)
    BY <1>1 DEF OpToRel
  <2>2. QED
    BY <2>1
<1>3. QED
  BY <1>2

\* A bounded set of integers that is not empty has a least and a greatest
\* element, so Min and Max choose them.
LEMMA IntervalMin ==
  ASSUME NEW a \in Int, NEW b \in Int, NEW S \in SUBSET (a .. b), S # {}
  PROVE  Min(S) \in S /\ \A y \in S : Min(S) <= y
<1> DEFINE T == {x - a : x \in S}
<1>1. T \in SUBSET Nat /\ T # {}
  <2>1. \A x \in S : x \in Int /\ a <= x /\ x <= b
    OBVIOUS
  <2>2. \A x \in S : x - a \in Nat
    BY <2>1
  <2>3. QED
    BY <2>2
<1>2. PICK t \in T : \A u \in T : t <= u
  BY <1>1, NatLeast
<1>3. PICK x \in S : t = x - a
  BY <1>2
<1>4. ASSUME NEW y \in S PROVE x <= y
  <2>1. y - a \in T
    OBVIOUS
  <2>2. t <= y - a
    BY <1>2, <2>1
  <2>3. QED
    BY <1>3, <2>2
<1>5. QED
  BY <1>4, Zenon DEF Min

\* The greatest element of a nonempty interval is its upper end.
LEMMA IntervalMax ==
  ASSUME NEW a \in Int, NEW b \in Int, NEW S \in SUBSET (a .. b), S # {}
  PROVE  Max(S) \in S /\ \A y \in S : y <= Max(S)
<1> DEFINE T == {b - x : x \in S}
<1>1. T \in SUBSET Nat /\ T # {}
  <2>1. \A x \in S : x \in Int /\ a <= x /\ x <= b
    OBVIOUS
  <2>2. \A x \in S : b - x \in Nat
    BY <2>1
  <2>3. QED
    BY <2>2
<1>2. PICK t \in T : \A u \in T : t <= u
  BY <1>1, NatLeast
<1>3. PICK x \in S : t = b - x
  BY <1>2
<1>4. ASSUME NEW y \in S PROVE y <= x
  <2>1. b - y \in T
    OBVIOUS
  <2>2. t <= b - y
    BY <1>2, <2>1
  <2>3. QED
    BY <1>3, <2>2
<1>5. QED
  BY <1>4 DEF Max

\* The case of two elements, with the value spelt out.
LEMMA PairMax ==
  ASSUME NEW a \in Int, NEW b \in Int
  PROVE  Max({a, b}) = IF a <= b THEN b ELSE a
<1>1. {a, b} \in SUBSET ((IF a <= b THEN a ELSE b) .. (IF a <= b THEN b ELSE a))
  OBVIOUS
<1>2. Max({a, b}) \in {a, b} /\ \A y \in {a, b} : y <= Max({a, b})
  BY <1>1, IntervalMax
<1>3. QED
  BY <1>2

\* The smaller of two integers.
LEMMA PairMin ==
  ASSUME NEW a \in Int, NEW b \in Int
  PROVE  Min({a, b}) = IF a <= b THEN a ELSE b
<1>1. {a, b} \in SUBSET ((IF a <= b THEN a ELSE b) .. (IF a <= b THEN b ELSE a))
  OBVIOUS
<1>2. Min({a, b}) \in {a, b} /\ \A y \in {a, b} : Min({a, b}) <= y
  BY <1>1, IntervalMin
<1>3. QED
  BY <1>2

-----------------------------------------------------------------------------
(* Sums. *)

\* A family of subsets of a finite set that is not empty has a least element.
LEMMA LeastSubset ==
  ASSUME NEW S, IsFiniteSet(S), NEW B \in SUBSET (SUBSET S), B # {}
  PROVE  \E T \in B : \A U \in B : U \subseteq T => U = T
<1>1. IsWellFoundedOn(StrictSubsetOrdering(S), SUBSET S)
  BY FS_StrictSubsetOrderingWellFounded, FS_FiniteSubsetsOfFinite
<1>2. PICK T \in B : \A U \in B : ~ (<<U, T>> \in StrictSubsetOrdering(S))
  BY <1>1, WFMin
<1>3. ASSUME NEW U \in B, U \subseteq T, U # T PROVE FALSE
  <2>1. <<U, T>> \in (SUBSET S) \X (SUBSET S)
    OBVIOUS
  <2>2. <<U, T>> \in StrictSubsetOrdering(S)
    BY <1>3, <2>1 DEF StrictSubsetOrdering
  <2>3. QED
    BY <1>2, <2>2
<1>4. QED
  BY <1>3

\* The element a fold takes first.
FirstOf(S) == CHOOSE x \in S : TRUE

\* It is one of them.
LEMMA FirstIn ==
  ASSUME NEW S, S # {}
  PROVE  FirstOf(S) \in S
BY DEF FirstOf

\* h sums f over each subset of S.
Sums(f, S, h) ==
  h = [T \in SUBSET S |-> IF T = {} THEN 0 ELSE f[FirstOf(T)] + h[T \ {FirstOf(T)}]]

\* The sum is the value of a function that solves the equation, if there is one.
LEMMA SumDefined ==
  ASSUME NEW f, NEW S
  PROVE  SumFunctionOnSet(f, S) = (CHOOSE h : Sums(f, S, h))[S]
BY Zenon DEF SumFunctionOnSet, FoldFunctionOnSet, MapThenFoldSet, Sums, FirstOf

\* Two solutions agree on the sets they share.
LEMMA SumsAgree ==
  ASSUME NEW f, NEW R, NEW S, IsFiniteSet(S), NEW g, Sums(f, R, g), NEW h, Sums(f, S, h)
  PROVE  \A T \in (SUBSET R) \cap (SUBSET S) : g[T] = h[T]
<1> DEFINE B == {T \in (SUBSET R) \cap (SUBSET S) : g[T] # h[T]}
<1>1. SUFFICES ASSUME B # {} PROVE FALSE
  OBVIOUS
<1>2. PICK T \in B : \A U \in B : U \subseteq T => U = T
  <2>1. B \in SUBSET (SUBSET S)
    OBVIOUS
  <2> HIDE DEF B
  <2>2. QED
    BY <1>1, <2>1, LeastSubset
<1>3. CASE T = {}
  BY <1>3 DEF Sums
<1>4. CASE T # {}
  <2>1. FirstOf(T) \in T
    BY <1>4, FirstIn
  <2> DEFINE U == T \ {FirstOf(T)}
  <2>2. U \in (SUBSET R) \cap (SUBSET S) /\ U \subseteq T /\ U # T
    BY <2>1
  <2>3. g[U] = h[U]
    BY <1>2, <2>2
  <2>4. g[T] = f[FirstOf(T)] + g[U] /\ h[T] = f[FirstOf(T)] + h[U]
    BY <1>4 DEF Sums
  <2>5. QED
    BY <2>3, <2>4
<1>5. QED
  BY <1>3, <1>4

\* Over a finite set there is a solution.
LEMMA SumsExist ==
  ASSUME NEW f, NEW S, IsFiniteSet(S)
  PROVE  \E h : Sums(f, S, h)
<1> DEFINE B == {T \in SUBSET S : ~ \E h : Sums(f, T, h)}
<1>1. SUFFICES ASSUME B # {} PROVE FALSE
  OBVIOUS
<1>2. PICK T \in B : \A U \in B : U \subseteq T => U = T
  <2>1. B \in SUBSET (SUBSET S)
    OBVIOUS
  <2> HIDE DEF B
  <2>2. QED
    BY <1>1, <2>1, LeastSubset
<1> DEFINE G(U) == CHOOSE g : Sums(f, U, g)
<1>3. \A U \in SUBSET T : U # T => Sums(f, U, G(U))
  BY <1>2
<1> DEFINE value(U) == IF U = {} THEN 0 ELSE f[FirstOf(U)] + G(U \ {FirstOf(U)})[U \ {FirstOf(U)}]
           h == [U \in SUBSET T |-> value(U)]
<1>4. ASSUME NEW U \in SUBSET T, U # T PROVE h[U] = G(U)[U]
  <2>1. CASE U = {}
    <3>1. Sums(f, U, G(U))
      BY <1>3, <1>4
    <3> HIDE DEF G
    <3>2. G(U)[U] = 0
      BY <2>1, <3>1 DEF Sums
    <3>3. QED
      BY <2>1, <3>2
  <2>2. CASE U # {}
    <3> DEFINE V == U \ {FirstOf(U)}
    <3>1. V \in SUBSET T /\ V # T /\ V \in SUBSET U
      BY <1>4
    <3>2. Sums(f, U, G(U)) /\ Sums(f, V, G(V))
      BY <1>3, <1>4, <3>1
    <3>3. IsFiniteSet(V)
      BY <3>1, FS_Subset
    <3>4. G(U)[V] = G(V)[V]
      <4> HIDE DEF G, V
      <4>1. V \in (SUBSET U) \cap (SUBSET V)
        BY <3>1
      <4>2. QED
        BY <3>2, <3>3, <4>1, SumsAgree
    <3>5. G(U)[U] = f[FirstOf(U)] + G(U)[V]
      <4> HIDE DEF G
      <4>1. QED
        BY <2>2, <3>2 DEF Sums
    <3>6. QED
      BY <2>2, <3>4, <3>5
  <2>3. QED
    BY <2>1, <2>2
<1>5. ASSUME NEW U \in SUBSET T, U # {}
      PROVE  h[U] = f[FirstOf(U)] + h[U \ {FirstOf(U)}]
  <2> DEFINE V == U \ {FirstOf(U)}
  <2>1. FirstOf(U) \in U
    BY <1>5, FirstIn
  <2>2. V \in SUBSET T /\ V # T
    BY <2>1
  <2>3. h[V] = G(V)[V]
    BY <1>4, <2>2
  <2>4. h[U] = f[FirstOf(U)] + G(V)[V]
    BY <1>5
  <2>5. QED
    BY <2>3, <2>4
<1>6. Sums(f, T, h)
  <2>1. h[{}] = 0
    OBVIOUS
  <2>2. h = [U \in SUBSET T |-> h[U]]
    OBVIOUS
  <2> HIDE DEF h
  <2>3. \A U \in SUBSET T : h[U] = IF U = {} THEN 0 ELSE f[FirstOf(U)] + h[U \ {FirstOf(U)}]
    BY <1>5, <2>1
  <2>4. QED
    BY <2>2, <2>3 DEF Sums
<1>7. QED
  BY <1>2, <1>6

\* The equation of the sum: nothing sums to 0, and the first element comes on
\* top of the sum of the others.
LEMMA SumEquation ==
  ASSUME NEW f, NEW S, IsFiniteSet(S)
  PROVE  SumFunctionOnSet(f, S) =
           IF S = {} THEN 0 ELSE f[FirstOf(S)] + SumFunctionOnSet(f, S \ {FirstOf(S)})
<1> DEFINE R == S \ {FirstOf(S)}
           G(U) == CHOOSE g : Sums(f, U, g)
<1>1. IsFiniteSet(R) /\ R \in (SUBSET R) \cap (SUBSET S)
  BY FS_Subset
<1>2. Sums(f, S, G(S)) /\ Sums(f, R, G(R))
  <2>1. (\E h : Sums(f, S, h)) /\ (\E h : Sums(f, R, h))
    BY <1>1, SumsExist
  <2>2. QED
    BY <2>1
<1>3. SumFunctionOnSet(f, S) = G(S)[S] /\ SumFunctionOnSet(f, R) = G(R)[R]
  BY SumDefined
<1>4. G(R)[R] = G(S)[R]
  <2> HIDE DEF R, G
  <2>1. QED
    BY <1>1, <1>2, SumsAgree
<1>5. G(S)[S] = IF S = {} THEN 0 ELSE f[FirstOf(S)] + G(S)[R]
  <2> HIDE DEF G
  <2>1. QED
    BY <1>2 DEF Sums
<1>6. QED
  BY <1>3, <1>4, <1>5

\* Numbers sum to a number.
LEMMA SumType ==
  ASSUME NEW S, IsFiniteSet(S), NEW f, \A x \in S : f[x] \in Int
  PROVE  \A T \in SUBSET S : SumFunctionOnSet(f, T) \in Int
<1> DEFINE B == {T \in SUBSET S : SumFunctionOnSet(f, T) \notin Int}
<1>1. SUFFICES ASSUME B # {} PROVE FALSE
  OBVIOUS
<1>2. PICK T \in B : \A U \in B : U \subseteq T => U = T
  <2>1. B \in SUBSET (SUBSET S)
    OBVIOUS
  <2> HIDE DEF B
  <2>2. QED
    BY <1>1, <2>1, LeastSubset
<1>3. IsFiniteSet(T)
  BY FS_Subset
<1>4. CASE T = {}
  <2>1. SumFunctionOnSet(f, T) = 0
    BY <1>3, <1>4, SumEquation
  <2>2. QED
    BY <2>1
<1>5. CASE T # {}
  <2>1. FirstOf(T) \in T
    BY <1>5, FirstIn
  <2>2. SumFunctionOnSet(f, T \ {FirstOf(T)}) \in Int
    BY <1>2, <2>1
  <2>3. QED
    BY <1>3, <1>5, <2>1, <2>2, SumEquation
<1>6. QED
  BY <1>4, <1>5

\* Zeros sum to zero.
LEMMA SumZero ==
  ASSUME NEW S, IsFiniteSet(S), NEW f, \A x \in S : f[x] = 0
  PROVE  SumFunctionOnSet(f, S) = 0
<1> DEFINE B == {T \in SUBSET S : SumFunctionOnSet(f, T) # 0}
<1>1. SUFFICES ASSUME B # {} PROVE FALSE
  OBVIOUS
<1>2. PICK T \in B : \A U \in B : U \subseteq T => U = T
  <2>1. B \in SUBSET (SUBSET S)
    OBVIOUS
  <2> HIDE DEF B
  <2>2. QED
    BY <1>1, <2>1, LeastSubset
<1>3. IsFiniteSet(T)
  BY FS_Subset
<1>4. CASE T = {}
  <2>1. SumFunctionOnSet(f, T) = 0
    BY <1>3, <1>4, SumEquation
  <2>2. QED
    BY <2>1
<1>5. CASE T # {}
  <2>1. FirstOf(T) \in T
    BY <1>5, FirstIn
  <2>2. SumFunctionOnSet(f, T \ {FirstOf(T)}) = 0
    BY <1>2, <2>1
  <2>3. QED
    BY <1>3, <1>5, <2>1, <2>2, SumEquation
<1>6. QED
  BY <1>4, <1>5

\* When one summand changes, the sum changes by as much.
LEMMA SumChange ==
  ASSUME NEW S, IsFiniteSet(S), NEW m \in S,
         NEW f, \A x \in S : f[x] \in Int,
         NEW g, \A x \in S : g[x] \in Int,
         \A x \in S : x # m => g[x] = f[x]
  PROVE  SumFunctionOnSet(g, S) = SumFunctionOnSet(f, S) + (g[m] - f[m])
<1> DEFINE Right(T) == SumFunctionOnSet(g, T) =
                         SumFunctionOnSet(f, T) + (IF m \in T THEN g[m] - f[m] ELSE 0)
           B == {T \in SUBSET S : ~ Right(T)}
<1>1. SUFFICES ASSUME B # {} PROVE FALSE
  <2>1. Right(S)
    BY <1>1
  <2>2. QED
    BY <2>1
<1>2. PICK T \in B : \A U \in B : U \subseteq T => U = T
  <2>1. B \in SUBSET (SUBSET S)
    OBVIOUS
  <2> HIDE DEF B
  <2>2. QED
    BY <1>1, <2>1, LeastSubset
<1>3. IsFiniteSet(T)
  BY FS_Subset
<1>4. CASE T = {}
  <2>1. SumFunctionOnSet(f, T) = 0 /\ SumFunctionOnSet(g, T) = 0
    BY <1>3, <1>4, SumEquation
  <2>2. QED
    BY <1>4, <2>1
<1>5. CASE T # {}
  <2> DEFINE x == FirstOf(T)
             U == T \ {x}
  <2>1. x \in T /\ x \in S
    BY <1>5, FirstIn
  <2>2. Right(U)
    BY <1>2, <2>1
  <2>3. SumFunctionOnSet(f, U) \in Int /\ SumFunctionOnSet(g, U) \in Int
    BY SumType
  <2>4. SumFunctionOnSet(f, T) = f[x] + SumFunctionOnSet(f, U)
        /\ SumFunctionOnSet(g, T) = g[x] + SumFunctionOnSet(g, U)
    BY <1>3, <1>5, SumEquation
  <2>5. f[x] \in Int /\ g[x] \in Int /\ f[m] \in Int /\ g[m] \in Int
    BY <2>1
  <2>6. CASE x = m
    <3>1. m \notin U /\ m \in T
      BY <2>1, <2>6
    <3>2. SumFunctionOnSet(g, U) = SumFunctionOnSet(f, U)
      BY <2>2, <2>3, <3>1
    <3>3. Right(T)
      <4> HIDE DEF U, x
      <4>1. QED
        BY <2>3, <2>4, <2>5, <2>6, <3>1, <3>2
    <3>4. QED
      BY <3>3
  <2>7. CASE x # m
    <3>1. g[x] = f[x] /\ (m \in U <=> m \in T)
      BY <2>1, <2>7
    <3>2. Right(T)
      <4> HIDE DEF U, x
      <4>1. QED
        BY <2>2, <2>3, <2>4, <2>5, <3>1
    <3>3. QED
      BY <3>2
  <2>8. QED
    BY <2>6, <2>7
<1>6. QED
  BY <1>4, <1>5

=============================================================================
