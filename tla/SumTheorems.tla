---------------------------- MODULE SumTheorems ----------------------------
(***************************************************************************)
(* What MapThenSumSet computes. It takes the elements of a finite set in   *)
(* an order that CHOOSE fixes; its value does not depend on that order.    *)
(*                                                                         *)
(* The induction rules of the library take a predicate as a parameter.     *)
(* Here they are restated for sets: a set that holds 0 and with n also     *)
(* n + 1 holds every natural number. An induction is then a set of its     *)
(* own, and no rule needs an operator.                                     *)
(***************************************************************************)
EXTENDS Integers, FiniteSets, FiniteSetsExt, FiniteSetTheorems, WellFoundedInduction, TLAPS

-----------------------------------------------------------------------------
(* Induction                                                               *)

(***************************************************************************)
(* Induction over the natural numbers.                                     *)
(***************************************************************************)
LEMMA InductionOnNat ==
    ASSUME NEW T, 0 \in T, \A n \in Nat : n \in T => n + 1 \in T
    PROVE  Nat \subseteq T
<1> SUFFICES ASSUME Nat \ T # {} PROVE FALSE
    OBVIOUS
<1>1. PICK n \in Nat \ T : \A m \in Nat \ T : ~ (<<m, n>> \in OpToRel(<, Nat))
  BY WFMin, NatLessThanWellFounded
<1>2. n # 0 /\ n - 1 \in Nat
  OBVIOUS
<1>3. <<n - 1, n>> \in OpToRel(<, Nat)
  <2>1. <<n - 1, n>> \in Nat \X Nat /\ n - 1 < n
    BY <1>2
  <2> QED
    BY <2>1 DEF OpToRel
<1>4. n - 1 \in T
  BY <1>1, <1>2, <1>3
<1> QED
  BY <1>2, <1>4

(***************************************************************************)
(* Induction over the subsets of a finite set.                             *)
(***************************************************************************)
LEMMA InductionOnSubsets ==
    ASSUME NEW S, IsFiniteSet(S), NEW T, {} \in T,
           \A U \in SUBSET S, x \in S : U \in T /\ x \notin U => U \cup {x} \in T
    PROVE  SUBSET S \subseteq T
<1> SUFFICES ASSUME (SUBSET S) \ T # {} PROVE FALSE
    OBVIOUS
<1>1. IsWellFoundedOn(StrictSubsetOrdering(S), SUBSET S)
  BY FS_StrictSubsetOrderingWellFounded, FS_FiniteSubsetsOfFinite
<1>2. PICK U \in (SUBSET S) \ T :
         \A V \in (SUBSET S) \ T : ~ (<<V, U>> \in StrictSubsetOrdering(S))
  BY <1>1, WFMin
<1>3. PICK x \in U : TRUE
  OBVIOUS
<1>4. U \ {x} \in T
  <2>1. /\ <<U \ {x}, U>> \in (SUBSET S) \X (SUBSET S)
        /\ U \ {x} \subseteq U /\ U \ {x} # U
    OBVIOUS
  <2>2. <<U \ {x}, U>> \in StrictSubsetOrdering(S)
    BY <2>1 DEF StrictSubsetOrdering
  <2> QED
    BY <1>2, <2>1, <2>2
<1>5. U = (U \ {x}) \cup {x}
  OBVIOUS
<1> QED
  BY <1>4, <1>5

(***************************************************************************)
(* A bounded set of natural numbers has a greatest element.                *)
(***************************************************************************)
LEMMA Greatest ==
    ASSUME NEW S, NEW n \in Nat, S \subseteq 0..n, S # {}
    PROVE  \E m \in S : \A x \in S : x <= m
<1> DEFINE T == {d \in Nat : \E x \in S : d = n - x}
<1>1. T # {} /\ T \subseteq Nat
  <2>1. PICK x \in S : TRUE
    OBVIOUS
  <2>2. n - x \in T
    OBVIOUS
  <2> QED
    BY <2>2
<1>2. PICK d \in T : \A e \in T : ~ (<<e, d>> \in OpToRel(<, Nat))
  BY <1>1, WFMin, NatLessThanWellFounded
<1>3. PICK m \in S : d = n - m
  OBVIOUS
<1>4. ASSUME NEW x \in S PROVE x <= m
  <2>1. n - x \in T
    OBVIOUS
  <2>2. ~ (n - x < d)
    <3>1. <<n - x, d>> \in Nat \X Nat
      BY <2>1
    <3> QED
      BY <1>2, <2>1, <3>1 DEF OpToRel
  <2> QED
    BY <1>3, <2>2
<1> QED
  BY <1>4

-----------------------------------------------------------------------------
(* The recursion of MapThenSumSet                                          *)

Chosen(s)      == CHOOSE x \in s : TRUE
Body(f, s, g)  == IF s = {} THEN 0 ELSE f[Chosen(s)] + g[s \ {Chosen(s)}]
IsSum(f, S, g) == g = [s \in SUBSET S |-> Body(f, s, g)]

TotalOf(f, S) == MapThenSumSet(LAMBDA x : f[x], S)

(***************************************************************************)
(* What is left of a subset without one of its elements.                   *)
(***************************************************************************)
LEMMA OneLess ==
    ASSUME NEW S, IsFiniteSet(S), NEW s \in SUBSET S, NEW x \in s
    PROVE  /\ s \ {x} \in SUBSET S
           /\ Cardinality(s) \in Nat /\ Cardinality(s \ {x}) \in Nat
           /\ Cardinality(s) = Cardinality(s \ {x}) + 1
<1>1. IsFiniteSet(s)
  BY FS_Subset
<1>2. Cardinality(s \ {x}) = Cardinality(s) - 1 /\ IsFiniteSet(s \ {x})
  BY <1>1, FS_RemoveElement
<1> QED
  BY <1>1, <1>2, FS_CardinalityType

(***************************************************************************)
(* What CHOOSE takes from a set that is not empty.                         *)
(***************************************************************************)
LEMMA ChosenIn == ASSUME NEW s, s # {} PROVE Chosen(s) \in s
  BY DEF Chosen

(***************************************************************************)
(* Only the empty subset has no elements.                                  *)
(***************************************************************************)
LEMMA NoneLeft ==
    ASSUME NEW S, IsFiniteSet(S), NEW s \in SUBSET S
    PROVE  /\ Cardinality(s) \in Nat /\ Cardinality(s) <= Cardinality(S) /\ Cardinality(S) \in Nat
           /\ Cardinality(s) = 0 <=> s = {}
  BY FS_Subset, FS_EmptySet, FS_CardinalityType

(***************************************************************************)
(* The recursion has a solution.                                           *)
(***************************************************************************)
LEMMA SumExists ==
    ASSUME NEW S, IsFiniteSet(S), NEW f \in [S -> Int]
    PROVE  \E g \in [SUBSET S -> Int] : IsSum(f, S, g)
<1> DEFINE Upto(n, g) == \A s \in SUBSET S : Cardinality(s) <= n => g[s] = Body(f, s, g)
           T == {n \in Nat : \E g \in [SUBSET S -> Int] : Upto(n, g)}
<1>1. 0 \in T
  <2> DEFINE z == [s \in SUBSET S |-> 0]
  <2>1. z \in [SUBSET S -> Int]
    OBVIOUS
  <2>2. Upto(0, z)
    BY NoneLeft DEF Body
  <2> HIDE DEF z
  <2> QED
    BY <2>1, <2>2
<1>2. ASSUME NEW n \in Nat, n \in T PROVE n + 1 \in T
  <2>1. PICK g \in [SUBSET S -> Int] : Upto(n, g)
    BY <1>2
  <2> DEFINE h == [s \in SUBSET S |-> IF Cardinality(s) <= n THEN g[s] ELSE Body(f, s, g)]
  <2>2. ASSUME NEW s \in SUBSET S, s # {}
        PROVE  /\ Chosen(s) \in S /\ s \ {Chosen(s)} \in SUBSET S
               /\ Cardinality(s \ {Chosen(s)}) \in Nat
               /\ Cardinality(s) = Cardinality(s \ {Chosen(s)}) + 1
    BY <2>2, ChosenIn, OneLess
  <2>3. h \in [SUBSET S -> Int]
    <3>1. \A s \in SUBSET S : Body(f, s, g) \in Int
      BY <2>2 DEF Body
    <3> QED
      BY <3>1
  <2>4. ASSUME NEW s \in SUBSET S, Cardinality(s) <= n + 1 PROVE h[s] = Body(f, s, h)
    <3>1. Body(f, s, h) = Body(f, s, g)
      <4>1. CASE s = {}
        BY <4>1 DEF Body
      <4>2. CASE s # {}
        <5>1. Cardinality(s \ {Chosen(s)}) <= n /\ s \ {Chosen(s)} \in SUBSET S
          BY <2>2, <2>4, <4>2
        <5>2. h[s \ {Chosen(s)}] = g[s \ {Chosen(s)}]
          BY <5>1
        <5> QED
          BY <4>2, <5>2 DEF Body
      <4> QED
        BY <4>1, <4>2
    <3>2. h[s] = Body(f, s, g)
      BY <2>1
    <3> QED
      BY <3>1, <3>2
  <2> HIDE DEF h
  <2> QED
    BY <2>3, <2>4
<1>3. Nat \subseteq T
  <2> HIDE DEF T
  <2> QED
    BY <1>1, <1>2, InductionOnNat
<1>4. PICK g \in [SUBSET S -> Int] : Upto(Cardinality(S), g)
  BY <1>3, FS_CardinalityType
<1>5. \A s \in SUBSET S : g[s] = Body(f, s, g)
  BY <1>4, NoneLeft
<1>6. g = [s \in SUBSET S |-> g[s]]
  OBVIOUS
<1>7. IsSum(f, S, g)
  BY <1>5, <1>6 DEF IsSum
<1> QED
  BY <1>7

(***************************************************************************)
(* Two sums agree on the subsets that both have, if their terms do.        *)
(***************************************************************************)
LEMMA SumsAgree ==
    ASSUME NEW S, IsFiniteSet(S), NEW U, NEW f, NEW e, NEW g, NEW h,
           S \subseteq U, \A x \in S : f[x] = e[x],
           IsSum(f, S, g), IsSum(e, U, h)
    PROVE  \A s \in SUBSET S : g[s] = h[s]
<1> DEFINE T == {n \in Nat : \A s \in SUBSET S : Cardinality(s) <= n => g[s] = h[s]}
<1>1. \A s \in SUBSET S : g[s] = Body(f, s, g) /\ h[s] = Body(e, s, h)
  BY DEF IsSum
<1>2. 0 \in T
  <2>1. Body(f, {}, g) = Body(e, {}, h)
    BY DEF Body
  <2>2. \A s \in SUBSET S : Cardinality(s) <= 0 => s = {}
    BY NoneLeft
  <2> QED
    BY <1>1, <2>1, <2>2
<1>3. ASSUME NEW n \in Nat, n \in T PROVE n + 1 \in T
  <2>1. ASSUME NEW s \in SUBSET S, Cardinality(s) <= n + 1 PROVE g[s] = h[s]
    <3>1. CASE s = {}
      BY <1>1, <3>1 DEF Body
    <3>2. CASE s # {}
      <4>1. /\ Chosen(s) \in s /\ s \ {Chosen(s)} \in SUBSET S
            /\ Cardinality(s \ {Chosen(s)}) \in Nat
            /\ Cardinality(s) = Cardinality(s \ {Chosen(s)}) + 1
        BY <3>2, ChosenIn, OneLess
      <4>2. Cardinality(s \ {Chosen(s)}) <= n
        BY <2>1, <4>1
      <4>3. g[s \ {Chosen(s)}] = h[s \ {Chosen(s)}]
        BY <1>3, <4>1, <4>2
      <4>4. f[Chosen(s)] = e[Chosen(s)]
        BY <4>1
      <4> QED
        BY <1>1, <3>2, <4>3, <4>4 DEF Body
    <3> QED
      BY <3>1, <3>2
  <2> QED
    BY <2>1
<1>4. Nat \subseteq T
  <2> HIDE DEF T
  <2> QED
    BY <1>2, <1>3, InductionOnNat
<1>5. Cardinality(S) \in T
  BY <1>4, FS_CardinalityType
<1> QED
  BY <1>5, NoneLeft

(***************************************************************************)
(* A sum is an integer.                                                    *)
(***************************************************************************)
LEMMA SumType ==
    ASSUME NEW S, IsFiniteSet(S), NEW f \in [S -> Int], NEW g, IsSum(f, S, g)
    PROVE  g \in [SUBSET S -> Int]
<1>1. PICK h \in [SUBSET S -> Int] : IsSum(f, S, h)
  BY SumExists
<1>2. \A s \in SUBSET S : g[s] = h[s]
  BY <1>1, SumsAgree
<1>3. g = [s \in SUBSET S |-> Body(f, s, g)]
  BY DEF IsSum
<1>4. g = [s \in SUBSET S |-> g[s]]
  BY <1>3
<1> QED
  BY <1>1, <1>2, <1>4

(***************************************************************************)
(* Any element may be taken first: the order does not matter.              *)
(***************************************************************************)
LEMMA SumStep ==
    ASSUME NEW S, IsFiniteSet(S), NEW f \in [S -> Int], NEW g, IsSum(f, S, g)
    PROVE  \A s \in SUBSET S : \A x \in s : g[s] = f[x] + g[s \ {x}]
<1> DEFINE Any(s) == \A x \in s : g[s] = f[x] + g[s \ {x}]
           T == {n \in Nat : \A s \in SUBSET S : Cardinality(s) <= n => Any(s)}
<1>1. /\ g \in [SUBSET S -> Int]
      /\ \A s \in SUBSET S : s # {} => g[s] = f[Chosen(s)] + g[s \ {Chosen(s)}]
  BY SumType DEF IsSum, Body
<1>2. 0 \in T
  BY NoneLeft
<1>3. ASSUME NEW n \in Nat, n \in T PROVE n + 1 \in T
  <2>1. ASSUME NEW s \in SUBSET S, Cardinality(s) <= n + 1, NEW x \in s
        PROVE  g[s] = f[x] + g[s \ {x}]
    <3> DEFINE c == Chosen(s)
    <3>1. c \in s /\ g[s] = f[c] + g[s \ {c}]
      BY <1>1, ChosenIn
    <3> HIDE DEF c
    <3>2. CASE x = c
      BY <3>1, <3>2
    <3>3. CASE x # c
      <4>1. /\ s \ {c} \in SUBSET S /\ Cardinality(s \ {c}) <= n /\ x \in s \ {c}
            /\ s \ {x} \in SUBSET S /\ Cardinality(s \ {x}) <= n /\ c \in s \ {x}
        BY <2>1, <3>1, <3>3, OneLess
      <4>2. Any(s \ {c}) /\ Any(s \ {x})
        BY <1>3, <4>1
      <4>3. g[s \ {c}] = f[x] + g[(s \ {c}) \ {x}] /\ g[s \ {x}] = f[c] + g[(s \ {x}) \ {c}]
        BY <4>1, <4>2
      <4>4. (s \ {c}) \ {x} = (s \ {x}) \ {c} /\ (s \ {c}) \ {x} \in SUBSET S
        OBVIOUS
      <4> DEFINE rest == g[(s \ {c}) \ {x}]
      <4>5. rest \in Int /\ f[x] \in Int /\ f[c] \in Int
        BY <1>1, <3>1, <4>4
      <4>6. g[s \ {c}] = f[x] + rest /\ g[s \ {x}] = f[c] + rest
        BY <4>3, <4>4
      <4> HIDE DEF rest
      <4> QED
        BY <3>1, <4>5, <4>6
    <3> QED
      BY <3>2, <3>3
  <2> QED
    BY <2>1
<1>4. Nat \subseteq T
  <2> HIDE DEF T
  <2> QED
    BY <1>2, <1>3, InductionOnNat
<1>5. Cardinality(S) \in T
  BY <1>4, FS_CardinalityType
<1> QED
  BY <1>5, NoneLeft

-----------------------------------------------------------------------------
(* Total                                                                   *)

(***************************************************************************)
(* The total of integers is a solution of the recursion.                   *)
(***************************************************************************)
LEMMA TotalIsSum ==
    ASSUME NEW S, IsFiniteSet(S), NEW f \in [S -> Int]
    PROVE  \E g \in [SUBSET S -> Int] : IsSum(f, S, g) /\ TotalOf(f, S) = g[S]
<1> DEFINE iter == CHOOSE g : g = [s \in SUBSET S |->
                                      IF s = {} THEN 0 ELSE f[Chosen(s)] + g[s \ {Chosen(s)}]]
<1>1. IsSum(f, S, iter)
  <2>1. PICK h \in [SUBSET S -> Int] : IsSum(f, S, h)
    BY SumExists
  <2>2. h = [s \in SUBSET S |-> IF s = {} THEN 0 ELSE f[Chosen(s)] + h[s \ {Chosen(s)}]]
    BY <2>1 DEF IsSum, Body
  <2>3. iter = [s \in SUBSET S |->
                   IF s = {} THEN 0 ELSE f[Chosen(s)] + iter[s \ {Chosen(s)}]]
    BY <2>2
  <2> HIDE DEF iter
  <2> QED
    BY <2>3 DEF IsSum, Body
<1>2. TotalOf(f, S) = iter[S]
  BY DEF TotalOf, MapThenSumSet, MapThenFoldSet, Chosen
<1> HIDE DEF iter
<1> QED
  BY <1>1, <1>2, SumType

(***************************************************************************)
(* A total of integers is an integer, and the total of nothing is 0.       *)
(***************************************************************************)
LEMMA TotalType ==
    ASSUME NEW S, IsFiniteSet(S), NEW f \in [S -> Int]
    PROVE  TotalOf(f, S) \in Int /\ (S = {} => TotalOf(f, S) = 0)
<1>1. PICK g \in [SUBSET S -> Int] : IsSum(f, S, g) /\ TotalOf(f, S) = g[S]
  BY TotalIsSum
<1>2. g[S] = Body(f, S, g)
  BY <1>1 DEF IsSum
<1> QED
  BY <1>1, <1>2 DEF Body

(***************************************************************************)
(* One term more.                                                          *)
(***************************************************************************)
LEMMA TotalAdds ==
    ASSUME NEW S, IsFiniteSet(S), NEW f \in [S -> Int], NEW x, x \notin S,
           NEW e \in [S \cup {x} -> Int], \A y \in S : e[y] = f[y]
    PROVE  TotalOf(e, S \cup {x}) = TotalOf(f, S) + e[x]
<1> DEFINE U == S \cup {x}
<1>1. IsFiniteSet(U)
  BY FS_AddElement
<1>2. PICK g \in [SUBSET S -> Int] : IsSum(f, S, g) /\ TotalOf(f, S) = g[S]
  BY TotalIsSum
<1>3. PICK h \in [SUBSET U -> Int] : IsSum(e, U, h) /\ TotalOf(e, U) = h[U]
  BY <1>1, TotalIsSum
<1>4. h[U] = e[x] + h[U \ {x}]
  BY <1>1, <1>3, SumStep
<1>5. U \ {x} = S
  OBVIOUS
<1>6. g[S] = h[S]
  BY <1>2, <1>3, SumsAgree
<1>7. g[S] \in Int /\ e[x] \in Int
  BY <1>2
<1>8. h[U] = e[x] + g[S]
  BY <1>4, <1>5, <1>6
<1> HIDE DEF U
<1>9. TotalOf(e, U) = TotalOf(f, S) + e[x]
  BY <1>2, <1>3, <1>7, <1>8
<1> QED
  BY <1>9 DEF U

(***************************************************************************)
(* Equal terms have equal totals.                                          *)
(***************************************************************************)
LEMMA TotalSame ==
    ASSUME NEW S, IsFiniteSet(S), NEW f \in [S -> Int], NEW e \in [S -> Int],
           \A y \in S : e[y] = f[y]
    PROVE  TotalOf(e, S) = TotalOf(f, S)
<1>1. e = f
  OBVIOUS
<1> QED
  BY <1>1
(***************************************************************************)
(* The terms of some of the elements.                                      *)
(***************************************************************************)
Part(f, U) == [x \in U |-> f[x]]

(***************************************************************************)
(* One term more among some of the elements.                               *)
(***************************************************************************)
LEMMA OneMoreTerm ==
    ASSUME NEW R, NEW f \in [R -> Int], NEW U \in SUBSET R, IsFiniteSet(U), NEW x \in R, x \notin U
    PROVE  /\ TotalOf(Part(f, U \cup {x}), U \cup {x}) = TotalOf(Part(f, U), U) + f[x]
           /\ TotalOf(Part(f, U), U) \in Int
<1>1. PICK g : g = Part(f, U)
  OBVIOUS
<1>2. PICK e : e = Part(f, U \cup {x})
  OBVIOUS
<1>3. g \in [U -> Int] /\ \A y \in U : g[y] = f[y]
  BY <1>1 DEF Part
<1>4. e \in [U \cup {x} -> Int] /\ \A y \in U \cup {x} : e[y] = f[y]
  BY <1>2 DEF Part
<1>5. \A y \in U : e[y] = g[y]
  BY <1>3, <1>4
<1>6. TotalOf(e, U \cup {x}) = TotalOf(g, U) + e[x]
  BY <1>3, <1>4, <1>5, TotalAdds
<1>7. TotalOf(g, U) \in Int
  BY <1>3, TotalType
<1>8. e[x] = f[x]
  BY <1>4
<1> QED
  BY <1>1, <1>2, <1>6, <1>7, <1>8

(***************************************************************************)
(* The image of a finite set is finite.                                    *)
(***************************************************************************)
LEMMA FiniteImage ==
    ASSUME NEW m, NEW U, IsFiniteSet(U), NEW I,
           \A x \in U : m[x] \in I, \A z \in I : \E x \in U : m[x] = z
    PROVE  IsFiniteSet(I)
<1> DEFINE g == [x \in U |-> m[x]]
<1>1. g \in Surjection(U, I)
  BY DEF Surjection
<1> HIDE DEF g
<1> QED
  BY <1>1, FS_Surjection

(***************************************************************************)
(* The total of two sets that share nothing is the sum of their totals.    *)
(***************************************************************************)
LEMMA TotalSplits ==
    ASSUME NEW A, NEW B, IsFiniteSet(A), IsFiniteSet(B), A \cap B = {},
           NEW f \in [A \cup B -> Int]
    PROVE  TotalOf(f, A \cup B) = TotalOf(Part(f, A), A) + TotalOf(Part(f, B), B)
<1> DEFINE Split(U) == TotalOf(Part(f, A \cup U), A \cup U)
                         = TotalOf(Part(f, A), A) + TotalOf(Part(f, U), U)
           T == {U \in SUBSET B : Split(U)}
<1>1. ASSUME NEW U, U \subseteq A \cup B
      PROVE  Part(f, U) \in [U -> Int] /\ \A x \in U : Part(f, U)[x] = f[x]
  BY <1>1 DEF Part
<1>2. {} \in T
  <2>1. A \cup {} = A
    OBVIOUS
  <2>2. TotalOf(Part(f, {}), {}) = 0
    <3>1. Part(f, {}) \in [{} -> Int] /\ IsFiniteSet({})
      BY <1>1, FS_EmptySet
    <3> QED
      BY <3>1, TotalType
  <2>3. TotalOf(Part(f, A), A) \in Int
    BY <1>1, TotalType
  <2>4. Split({})
    BY <2>1, <2>2, <2>3
  <2> QED
    BY <2>4
<1>3. ASSUME NEW U \in SUBSET B, NEW x \in B, U \in T, x \notin U
      PROVE  U \cup {x} \in T
  <2> DEFINE V == U \cup {x}
  <2>1. A \cup V = (A \cup U) \cup {x} /\ x \notin A \cup U
    BY <1>3
  <2>2. IsFiniteSet(U) /\ IsFiniteSet(A \cup U)
    BY FS_Subset, FS_Union
  <2>3. TotalOf(Part(f, V), V) = TotalOf(Part(f, U), U) + f[x] /\ TotalOf(Part(f, U), U) \in Int
    <3>1. U \in SUBSET (A \cup B) /\ x \in A \cup B
      OBVIOUS
    <3> QED
      BY <1>3, <2>2, <3>1, OneMoreTerm
  <2>4. TotalOf(Part(f, (A \cup U) \cup {x}), (A \cup U) \cup {x})
          = TotalOf(Part(f, A \cup U), A \cup U) + f[x]
    <3>1. PICK W : W = A \cup U
      OBVIOUS
    <3>2. W \in SUBSET (A \cup B) /\ x \in A \cup B /\ x \notin W /\ IsFiniteSet(W)
      BY <2>1, <2>2, <3>1
    <3>3. TotalOf(Part(f, W \cup {x}), W \cup {x}) = TotalOf(Part(f, W), W) + f[x]
      BY <3>2, OneMoreTerm
    <3> QED
      BY <3>1, <3>3
  <2>5. TotalOf(Part(f, A), A) \in Int /\ f[x] \in Int
    BY <1>1, TotalType
  <2>6. TotalOf(Part(f, A \cup U), A \cup U) = TotalOf(Part(f, A), A) + TotalOf(Part(f, U), U)
    BY <1>3
  <2>7. TotalOf(Part(f, A \cup V), A \cup V) = TotalOf(Part(f, A \cup U), A \cup U) + f[x]
    BY <2>1, <2>4
  <2>8. Split(V)
    <3> HIDE DEF V
    <3> QED
      BY <2>3, <2>5, <2>6, <2>7
  <2> QED
    BY <2>8
<1>4. SUBSET B \subseteq T
  <2> HIDE DEF T
  <2>1. \A U \in SUBSET B, x \in B : U \in T /\ x \notin U => U \cup {x} \in T
    BY <1>3
  <2>2. PICK X : X = T
    OBVIOUS
  <2>3. {} \in X /\ \A U \in SUBSET B, x \in B : U \in X /\ x \notin U => U \cup {x} \in X
    BY <1>2, <2>1, <2>2
  <2>4. SUBSET B \subseteq X
    BY <2>3, InductionOnSubsets
  <2> QED
    BY <2>2, <2>4
<1>5. Split(B)
  BY <1>4
<1>6. Part(f, A \cup B) = f
  BY DEF Part
<1> QED
  BY <1>5, <1>6

(***************************************************************************)
(* A total does not depend on what its terms are counted by.               *)
(***************************************************************************)
LEMMA TotalMoves ==
    ASSUME NEW S, IsFiniteSet(S), NEW R, NEW m \in [S -> R],
           \A x, y \in S : m[x] = m[y] => x = y,
           \A z \in R : \E x \in S : m[x] = z,
           NEW e \in [S -> Int], NEW f \in [R -> Int], \A x \in S : e[x] = f[m[x]]
    PROVE  TotalOf(e, S) = TotalOf(f, R)
<1> DEFINE Image(U) == {m[x] : x \in U}
           Same(U) == TotalOf(Part(e, U), U) = TotalOf(Part(f, Image(U)), Image(U))
           T == {U \in SUBSET S : Same(U)}
<1>1. {} \in T
  <2>1. Image({}) = {} /\ Part(e, {}) = Part(f, {})
    BY DEF Part
  <2> HIDE DEF Image
  <2> QED
    BY <2>1
<1>2. ASSUME NEW U \in SUBSET S, NEW x \in S, U \in T, x \notin U
      PROVE  U \cup {x} \in T
  <2> DEFINE V == U \cup {x}
             I == Image(U)
             y == m[x]
  <2>1. Image(V) = I \cup {y} /\ y \notin I /\ I \subseteq R /\ y \in R
    BY <1>2
  <2>2. IsFiniteSet(U) /\ IsFiniteSet(I)
    <3>1. IsFiniteSet(U)
      BY FS_Subset
    <3>2. (\A z \in U : m[z] \in I) /\ \A k \in I : \E z \in U : m[z] = k
      OBVIOUS
    <3> HIDE DEF I
    <3>3. PICK J : J = I
      OBVIOUS
    <3>4. (\A z \in U : m[z] \in J) /\ \A k \in J : \E z \in U : m[z] = k
      BY <3>2, <3>3
    <3>5. IsFiniteSet(J)
      BY <3>1, <3>4, FiniteImage
    <3> QED
      BY <3>1, <3>3, <3>5
  <2>3. TotalOf(Part(e, V), V) = TotalOf(Part(e, U), U) + e[x]
    BY <1>2, <2>2, OneMoreTerm
  <2>4. TotalOf(Part(f, I \cup {y}), I \cup {y}) = TotalOf(Part(f, I), I) + f[y]
    <3> HIDE DEF I, y
    <3> QED
      BY <2>1, <2>2, OneMoreTerm
  <2>5. Same(U) /\ e[x] = f[y]
    BY <1>2
  <2>6. Same(V)
    <3> HIDE DEF I, y
    <3> QED
      BY <2>1, <2>3, <2>4, <2>5 DEF I
  <2> QED
    BY <2>6
<1>3. SUBSET S \subseteq T
  <2> HIDE DEF T
  <2> QED
    BY <1>1, <1>2, InductionOnSubsets
<1>4. Same(S)
  BY <1>3
<1>5. Image(S) = R /\ Part(e, S) = e /\ Part(f, R) = f
  BY DEF Part
<1> HIDE DEF Image
<1> QED
  BY <1>4, <1>5

(***************************************************************************)
(* The total of what is owed is the opposite of the total of what is had.  *)
(***************************************************************************)
LEMMA TotalNegated ==
    ASSUME NEW S, IsFiniteSet(S), NEW f \in [S -> Int], NEW e \in [S -> Int],
           \A x \in S : e[x] = - f[x]
    PROVE  TotalOf(e, S) = - TotalOf(f, S)
<1> DEFINE Opposite(U) == TotalOf(Part(e, U), U) = - TotalOf(Part(f, U), U)
           T == {U \in SUBSET S : Opposite(U)}
<1>1. {} \in T
  <2>1. /\ Part(f, {}) \in [{} -> Int] /\ Part(e, {}) \in [{} -> Int] /\ IsFiniteSet({})
    BY FS_EmptySet DEF Part
  <2>2. TotalOf(Part(f, {}), {}) = 0 /\ TotalOf(Part(e, {}), {}) = 0
    BY <2>1, TotalType
  <2> QED
    BY <2>2
<1>2. ASSUME NEW U \in SUBSET S, NEW x \in S, U \in T, x \notin U
      PROVE  U \cup {x} \in T
  <2> DEFINE V == U \cup {x}
  <2>1. IsFiniteSet(U)
    BY FS_Subset
  <2>2. ASSUME NEW g \in [S -> Int]
        PROVE  TotalOf(Part(g, V), V) = TotalOf(Part(g, U), U) + g[x] /\ TotalOf(Part(g, U), U) \in Int
    BY <1>2, <2>1, OneMoreTerm
  <2>3. /\ TotalOf(Part(e, V), V) = TotalOf(Part(e, U), U) + e[x]
        /\ TotalOf(Part(f, V), V) = TotalOf(Part(f, U), U) + f[x]
        /\ TotalOf(Part(f, U), U) \in Int /\ f[x] \in Int /\ e[x] = - f[x]
    BY <2>2
  <2>4. Opposite(U)
    BY <1>2
  <2>5. Opposite(V)
    BY <2>3, <2>4
  <2> QED
    BY <2>5
<1>3. SUBSET S \subseteq T
  <2> HIDE DEF T
  <2> QED
    BY <1>1, <1>2, InductionOnSubsets
<1>4. Opposite(S)
  BY <1>3
<1>5. Part(e, S) = e /\ Part(f, S) = f
  BY DEF Part
<1> QED
  BY <1>4, <1>5

=============================================================================
