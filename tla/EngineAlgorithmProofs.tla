------------------------ MODULE EngineAlgorithmProofs ------------------------
(***************************************************************************)
(* Theorems about three of the engine's algorithms, the calendar, the      *)
(* search of the investment step and the needs that a run derives from     *)
(* what the owner declared: they compute what they are defined to.  And    *)
(* about two evaluations of one moment, before and after the job of a      *)
(* salary reserved what the first of them allowed.                         *)
(***************************************************************************)
EXTENDS HouseholdProofs, SequenceTheorems

-----------------------------------------------------------------------------
(* Years                                                                   *)

YearLength(y) == IF LeapYear(y) THEN 366 ELSE 365

(***************************************************************************)
(* How a quotient grows with its dividend.                                 *)
(***************************************************************************)
LEMMA QuotientStep ==
    ASSUME NEW y \in Int
    PROVE  /\ y \div 4 = (y - 1) \div 4 + IF y % 4 = 0 THEN 1 ELSE 0
           /\ y \div 100 = (y - 1) \div 100 + IF y % 100 = 0 THEN 1 ELSE 0
           /\ y \div 400 = (y - 1) \div 400 + IF y % 400 = 0 THEN 1 ELSE 0
  OBVIOUS

(***************************************************************************)
(* A multiple of 400 is one of 100, which is one of 4.                     *)
(***************************************************************************)
LEMMA Multiples ==
    ASSUME NEW y \in Int
    PROVE  (y % 400 = 0 => y % 100 = 0) /\ (y % 100 = 0 => y % 4 = 0)
  OBVIOUS

(***************************************************************************)
(* The days before a year are counted one year after the other.            *)
(***************************************************************************)
LEMMA YearStep ==
    ASSUME NEW y \in Int
    PROVE  /\ DaysBeforeYear(y) \in Int
           /\ DaysBeforeYear(y + 1) = DaysBeforeYear(y) + YearLength(y)
<1>1. (y + 1) - 1 = y
  OBVIOUS
<1>2. DaysBeforeYear(y + 1) = y * 365 + y \div 4 - y \div 100 + y \div 400
  BY <1>1 DEF DaysBeforeYear
<1>3. /\ y \div 4 \in Int /\ y \div 100 \in Int /\ y \div 400 \in Int
      /\ (y - 1) \div 4 \in Int /\ (y - 1) \div 100 \in Int /\ (y - 1) \div 400 \in Int
  OBVIOUS
<1>4. y * 365 = (y - 1) * 365 + 365
  OBVIOUS
<1> QED
  BY <1>2, <1>3, <1>4, QuotientStep, Multiples DEF DaysBeforeYear, YearLength, LeapYear

(***************************************************************************)
(* The days before a year by quotients.                                    *)
(***************************************************************************)
LEMMA YearOrder ==
    ASSUME NEW p \in Nat \ {0}, NEW q \in Nat \ {0}, p < q
    PROVE  DaysBeforeYear(p) + 365 <= DaysBeforeYear(q)
<1> DEFINE a == p - 1  b == q - 1
<1>1. a \in Nat /\ b \in Nat /\ a + 1 <= b
  OBVIOUS
<1>2. a \div 4 <= b \div 4 /\ a \div 400 <= b \div 400 /\ b \div 100 - a \div 100 <= b \div 4 - a \div 4
  <2> HIDE DEF a, b
  <2> QED
    BY <1>1
<1>3. /\ a \div 4 \in Int /\ a \div 100 \in Int /\ a \div 400 \in Int
      /\ b \div 4 \in Int /\ b \div 100 \in Int /\ b \div 400 \in Int
  OBVIOUS
<1>4. /\ DaysBeforeYear(p) = a * 365 + a \div 4 - a \div 100 + a \div 400
      /\ DaysBeforeYear(q) = b * 365 + b \div 4 - b \div 100 + b \div 400
  BY DEF DaysBeforeYear
<1> HIDE DEF a, b
<1> QED
  BY <1>1, <1>2, <1>3, <1>4

(***************************************************************************)
(* The years that an ordinal may lie in.                                   *)
(***************************************************************************)
Years == 1 .. LastYear
Holds(n, i) ==
  /\ i \in Years \X Years /\ i[1] <= i[2]
  /\ DaysBeforeYear(i[1]) <= n /\ n < DaysBeforeYear(i[2] + 1)

(***************************************************************************)
(* Halving such an interval gives another one, no longer than half of it.  *)
(***************************************************************************)
LEMMA HalveHolds ==
    ASSUME NEW n \in Int, NEW low \in Years, NEW high \in Years, low <= high,
           DaysBeforeYear(low) <= n, n < DaysBeforeYear(high + 1)
    PROVE  \E i, j \in Years :
              /\ Halve(n, <<low, high>>) = <<i, j>>
              /\ Holds(n, <<i, j>>) /\ 2 * (j - i) <= high - low
<1> DEFINE middle == CeilDivide(low + high, 2)
<1>1. low \in Nat \ {0} /\ high \in Nat \ {0} /\ high <= LastYear
  BY DEF Years, LastYear
<1>2. \A y \in Nat \ {0} : DaysBeforeYear(y) \in Int
  BY YearStep
<1>3. CASE low = high
  <2>1. Halve(n, <<low, high>>) = <<low, high>>
    BY <1>1, <1>3 DEF Halve
  <2>2. 2 * (high - low) <= high - low
    BY <1>1, <1>3
  <2> QED
    BY <2>1, <2>2 DEF Holds
<1>4. CASE low < high
  <2>1. /\ middle \in Int /\ low < middle /\ middle <= high
        /\ 2 * (high - middle) <= high - low /\ 2 * (middle - 1 - low) <= high - low
    BY <1>1, <1>4 DEF CeilDivide
  <2>2. Halve(n, <<low, high>>) =
          IF DaysBeforeYear(middle) <= n THEN <<middle, high>> ELSE <<low, middle - 1>>
    BY <1>1, <1>4 DEF Halve
  <2> HIDE DEF middle
  <2>3. middle \in Years /\ middle - 1 \in Years
    <3>1. \A y \in Int : 1 <= y /\ y <= 9999 => y \in Years
      BY DEF Years, LastYear
    <3>2. /\ middle \in Int /\ 1 <= middle /\ middle <= 9999
          /\ middle - 1 \in Int /\ 1 <= middle - 1 /\ middle - 1 <= 9999
      BY <1>1, <2>1 DEF LastYear
    <3> QED
      BY <3>1, <3>2
  <2>4. (middle - 1) + 1 = middle /\ middle \in Nat \ {0}
    BY <1>1, <2>1
  <2>5. CASE DaysBeforeYear(middle) <= n
    <3>1. Halve(n, <<low, high>>) = <<middle, high>>
      BY <2>2, <2>5
    <3>2. Holds(n, <<middle, high>>)
      BY <2>1, <2>3, <2>5 DEF Holds
    <3> QED
      BY <2>1, <2>3, <3>1, <3>2
  <2>6. CASE ~ DaysBeforeYear(middle) <= n
    <3>1. Halve(n, <<low, high>>) = <<low, middle - 1>>
      BY <2>2, <2>6
    <3>2. n < DaysBeforeYear((middle - 1) + 1)
      BY <1>2, <2>4, <2>6
    <3>3. low <= middle - 1
      BY <1>1, <2>1
    <3>4. Holds(n, <<low, middle - 1>>)
      BY <2>3, <3>2, <3>3 DEF Holds
    <3> QED
      BY <2>1, <2>3, <3>1, <3>4
  <2> QED
    BY <2>5, <2>6
<1> QED
  BY <1>1, <1>3, <1>4

(***************************************************************************)
(* The same of an interval.                                                *)
(***************************************************************************)
LEMMA HalvePair ==
    ASSUME NEW n \in Int, NEW i, Holds(n, i)
    PROVE  Holds(n, Halve(n, i)) /\ 2 * (Halve(n, i)[2] - Halve(n, i)[1]) <= i[2] - i[1]
<1>1. PICK low \in Years, high \in Years : i = <<low, high>>
  BY DEF Holds
<1>2. low <= high /\ DaysBeforeYear(low) <= n /\ n < DaysBeforeYear(high + 1)
  BY <1>1 DEF Holds
<1>3. PICK a \in Years, b \in Years :
        /\ Halve(n, <<low, high>>) = <<a, b>>
        /\ Holds(n, <<a, b>>) /\ 2 * (b - a) <= high - low
  BY <1>2, HalveHolds
<1> QED
  BY <1>1, <1>3

(***************************************************************************)
(* Repeating a step any number of times is a function of the number.       *)
(***************************************************************************)
LEMMA HalvingsExist ==
    ASSUME NEW n \in Int, NEW start, Holds(n, start)
    PROVE  \A m \in Nat : \E f :
              /\ f = [k \in 0 .. m |-> IF k = 0 THEN start ELSE Halve(n, f[k - 1])]
              /\ \A k \in 0 .. m : Holds(n, f[k])
<1> DEFINE Solves(m, f) ==
             /\ f = [k \in 0 .. m |-> IF k = 0 THEN start ELSE Halve(n, f[k - 1])]
             /\ \A k \in 0 .. m : Holds(n, f[k])
           T == {m \in Nat : \E f : Solves(m, f)}
<1>1. 0 \in T
  <2> DEFINE f == [k \in 0 .. 0 |-> start]
  <2>1. f = [k \in 0 .. 0 |-> IF k = 0 THEN start ELSE Halve(n, f[k - 1])]
    OBVIOUS
  <2>2. \A k \in 0 .. 0 : Holds(n, f[k])
    OBVIOUS
  <2> QED
    BY <2>1, <2>2
<1>2. ASSUME NEW m \in Nat, m \in T PROVE m + 1 \in T
  <2>1. PICK f : Solves(m, f)
    BY <1>2
  <2> DEFINE h == [k \in 0 .. m + 1 |-> IF k <= m THEN f[k] ELSE Halve(n, f[m])]
  <2>2. \A k \in 0 .. m : f[k] = IF k = 0 THEN start ELSE Halve(n, f[k - 1])
    BY <2>1
  <2>3. \A k \in 0 .. m + 1 : h[k] = IF k = 0 THEN start ELSE Halve(n, h[k - 1])
    <3>1. TAKE k \in 0 .. m + 1
    <3>2. CASE k <= m
      <4>1. h[k] = f[k] /\ (k # 0 => h[k - 1] = f[k - 1])
        BY <3>2
      <4> QED
        BY <2>2, <3>2, <4>1
    <3>3. CASE ~ k <= m
      <4>1. k = m + 1 /\ k - 1 = m /\ k # 0
        BY <3>3
      <4> QED
        BY <4>1
    <3> QED
      BY <3>2, <3>3
  <2>4. h = [k \in 0 .. m + 1 |-> IF k = 0 THEN start ELSE Halve(n, h[k - 1])]
    <3>1. h = [k \in 0 .. m + 1 |-> h[k]]
      OBVIOUS
    <3> HIDE DEF h
    <3> QED
      BY <2>3, <3>1
  <2>5. \A k \in 0 .. m + 1 : Holds(n, h[k])
    <3>1. Holds(n, f[m]) /\ \A k \in 0 .. m : Holds(n, f[k])
      BY <2>1
    <3>2. Holds(n, Halve(n, f[m]))
      BY <3>1, HalvePair
    <3> QED
      BY <3>1, <3>2
  <2> HIDE DEF h
  <2> QED
    BY <2>4, <2>5
<1>3. Nat \subseteq T
  <2> HIDE DEF T
  <2> QED
    BY <1>1, <1>2, InductionOnNat
<1> QED
  BY <1>3

\* The ordinals of the years from the first to the last.
Ordinals == {n \in Int : 0 <= n /\ n < DaysBeforeYear(LastYear + 1)}

(***************************************************************************)
(* The search finds the year of every ordinal: fourteen halvings are       *)
(* enough for 9999 years.                                                  *)
(***************************************************************************)
LEMMA YearFound ==
    ASSUME NEW n \in Ordinals
    PROVE  /\ YearOfOrdinal(n) \in Years
           /\ DaysBeforeYear(YearOfOrdinal(n)) <= n
           /\ n < DaysBeforeYear(YearOfOrdinal(n) + 1)
<1> DEFINE start == <<1, LastYear>>
           search == CHOOSE f : f = [k \in 0 .. 14 |-> IF k = 0 THEN start ELSE Halve(n, f[k - 1])]
           w(k) == search[k][2] - search[k][1]
<1>1. Holds(n, start)
  <2>1. DaysBeforeYear(1) = 0
    BY DEF DaysBeforeYear
  <2> QED
    BY <2>1 DEF Holds, Years, LastYear, Ordinals
<1>2. \E f : /\ f = [k \in 0 .. 14 |-> IF k = 0 THEN start ELSE Halve(n, f[k - 1])]
             /\ \A k \in 0 .. 14 : Holds(n, f[k])
  <2> HIDE DEF start
  <2>1. n \in Int /\ 14 \in Nat
    BY DEF Ordinals
  <2>2. \A m \in Nat : \E f :
           /\ f = [k \in 0 .. m |-> IF k = 0 THEN start ELSE Halve(n, f[k - 1])]
           /\ \A k \in 0 .. m : Holds(n, f[k])
    BY <1>1, <2>1, HalvingsExist
  <2> QED
    BY <2>1, <2>2, Zenon
<1>3. search = [k \in 0 .. 14 |-> IF k = 0 THEN start ELSE Halve(n, search[k - 1])]
  <2> HIDE DEF start
  <2> QED
    BY <1>2
<1>4. YearOfOrdinal(n) = search[14][1]
  BY DEF YearOfOrdinal
<1> HIDE DEF search
<1>5. search[0] = start /\ \A k \in 1 .. 14 : search[k] = Halve(n, search[k - 1])
  <2> HIDE DEF start
  <2> QED
    BY <1>3
<1>6. /\ Holds(n, search[0]) /\ w(0) = 9998
  BY <1>1, <1>5 DEF LastYear
<1>7. ASSUME NEW k \in 1 .. 14, Holds(n, search[k - 1])
      PROVE  Holds(n, search[k]) /\ 2 * w(k) <= w(k - 1) /\ w(k) \in Nat
  <2>1. search[k] = Halve(n, search[k - 1])
    BY <1>5
  <2>2. Holds(n, search[k]) /\ 2 * w(k) <= w(k - 1)
    BY <1>7, <2>1, HalvePair DEF Ordinals
  <2> QED
    BY <2>2 DEF Holds, Years
<1> HIDE DEF w
<1>8. Holds(n, search[5]) /\ w(5) \in Nat /\ w(5) <= 312
  <2>1. Holds(n, search[1]) /\ w(1) \in Nat /\ w(1) <= 4999
    BY <1>6, <1>7
  <2>2. Holds(n, search[2]) /\ w(2) \in Nat /\ w(2) <= 2499
    BY <2>1, <1>7
  <2>3. Holds(n, search[3]) /\ w(3) \in Nat /\ w(3) <= 1249
    BY <2>2, <1>7
  <2>4. Holds(n, search[4]) /\ w(4) \in Nat /\ w(4) <= 624
    BY <2>3, <1>7
  <2> QED
    BY <2>4, <1>7
<1>9. Holds(n, search[10]) /\ w(10) \in Nat /\ w(10) <= 9
  <2>1. Holds(n, search[6]) /\ w(6) \in Nat /\ w(6) <= 156
    BY <1>8, <1>7
  <2>2. Holds(n, search[7]) /\ w(7) \in Nat /\ w(7) <= 78
    BY <2>1, <1>7
  <2>3. Holds(n, search[8]) /\ w(8) \in Nat /\ w(8) <= 39
    BY <2>2, <1>7
  <2>4. Holds(n, search[9]) /\ w(9) \in Nat /\ w(9) <= 19
    BY <2>3, <1>7
  <2> QED
    BY <2>4, <1>7
<1>10. Holds(n, search[14]) /\ w(14) = 0
  <2>1. Holds(n, search[11]) /\ w(11) \in Nat /\ w(11) <= 4
    BY <1>9, <1>7
  <2>2. Holds(n, search[12]) /\ w(12) \in Nat /\ w(12) <= 2
    BY <2>1, <1>7
  <2>3. Holds(n, search[13]) /\ w(13) \in Nat /\ w(13) <= 1
    BY <2>2, <1>7
  <2> QED
    BY <2>3, <1>7
<1>11. search[14][1] = search[14][2]
  BY <1>10 DEF w, Holds, Years
<1> QED
  BY <1>4, <1>10, <1>11 DEF Holds

-----------------------------------------------------------------------------
(* Months                                                                  *)

Lengths(y, m) == [k \in 1 .. m - 1 |-> DaysInGregorianMonth(y, k)]

(***************************************************************************)
(* The lengths of months are numbers of days.                              *)
(***************************************************************************)
LEMMA LengthType ==
    ASSUME NEW y, NEW k
    PROVE  DaysInGregorianMonth(y, k) \in 28 .. 31
  BY DEF DaysInGregorianMonth

(***************************************************************************)
(* The days before a month are the total of the lengths of those before.   *)
(***************************************************************************)
LEMMA DaysAreTotal ==
    ASSUME NEW y, NEW m \in 1 .. 13
    PROVE  DaysBeforeMonth(y, m) = TotalOf(Lengths(y, m), 1 .. m - 1)
<1> DEFINE M == 1 .. m - 1
           f == Lengths(y, m)
           iter == CHOOSE g : g = [s \in SUBSET M |->
                                      IF s = {} THEN 0
                                      ELSE DaysInGregorianMonth(y, Chosen(s)) + g[s \ {Chosen(s)}]]
<1>0. IsFiniteSet(M)
  BY FS_Interval
<1>1. f \in [M -> Int] /\ \A k \in M : f[k] = DaysInGregorianMonth(y, k)
  BY LengthType DEF Lengths
<1>3. DaysBeforeMonth(y, m) = iter[M]
  BY DEF DaysBeforeMonth, MapThenSumSet, MapThenFoldSet, Chosen
<1> HIDE DEF f, M
<1>2. IsSum(f, M, iter)
  <2>0. ASSUME NEW g
        PROVE  IsSum(f, M, g) <=>
                  g = [s \in SUBSET M |->
                          IF s = {} THEN 0
                          ELSE DaysInGregorianMonth(y, Chosen(s)) + g[s \ {Chosen(s)}]]
    <3>1. \A s \in SUBSET M : s # {} => f[Chosen(s)] = DaysInGregorianMonth(y, Chosen(s))
      BY <1>1, ChosenIn
    <3> DEFINE L == [s \in SUBSET M |-> Body(f, s, g)]
               R == [s \in SUBSET M |->
                        IF s = {} THEN 0
                        ELSE DaysInGregorianMonth(y, Chosen(s)) + g[s \ {Chosen(s)}]]
    <3>2. \A s \in SUBSET M : L[s] = R[s]
      BY <3>1 DEF Body
    <3>3. L = R
      <4>1. L = [s \in SUBSET M |-> L[s]] /\ R = [s \in SUBSET M |-> R[s]]
        OBVIOUS
      <4> HIDE DEF L, R
      <4> QED
        BY <3>2, <4>1
    <3> QED
      BY <3>3 DEF IsSum
  <2>1. PICK h \in [SUBSET M -> Int] : IsSum(f, M, h)
    BY <1>0, <1>1, SumExists
  <2>2. h = [s \in SUBSET M |->
                IF s = {} THEN 0
                ELSE DaysInGregorianMonth(y, Chosen(s)) + h[s \ {Chosen(s)}]]
    BY <2>0, <2>1
  <2>3. iter = [s \in SUBSET M |->
                   IF s = {} THEN 0
                   ELSE DaysInGregorianMonth(y, Chosen(s)) + iter[s \ {Chosen(s)}]]
    BY <2>2
  <2> HIDE DEF iter
  <2> QED
    BY <2>0, <2>3
<1> HIDE DEF iter
<1>4. PICK g \in [SUBSET M -> Int] : IsSum(f, M, g) /\ TotalOf(f, M) = g[M]
  BY <1>0, <1>1, TotalIsSum
<1>5. iter[M] = g[M]
  BY <1>0, <1>2, <1>4, SumsAgree
<1> QED
  BY <1>3, <1>4, <1>5 DEF f, M

(***************************************************************************)
(* The days before a month are counted one month after the other.          *)
(***************************************************************************)
LEMMA MonthStep ==
    ASSUME NEW y
    PROVE  /\ DaysBeforeMonth(y, 1) = 0
           /\ \A m \in 1 .. 13 : DaysBeforeMonth(y, m) \in Int
           /\ \A m \in 1 .. 12 :
                 DaysBeforeMonth(y, m + 1) = DaysBeforeMonth(y, m) + DaysInGregorianMonth(y, m)
<1>1. ASSUME NEW m \in 1 .. 13
      PROVE  IsFiniteSet(1 .. m - 1) /\ Lengths(y, m) \in [1 .. m - 1 -> Int]
  BY FS_Interval, LengthType DEF Lengths
<1>2. ASSUME NEW m \in 1 .. 13
      PROVE  DaysBeforeMonth(y, m) \in Int /\ (m = 1 => DaysBeforeMonth(y, m) = 0)
  <2>1. 1 .. m - 1 = {} <=> m = 1
    OBVIOUS
  <2>2. /\ TotalOf(Lengths(y, m), 1 .. m - 1) \in Int
        /\ 1 .. m - 1 = {} => TotalOf(Lengths(y, m), 1 .. m - 1) = 0
    BY <1>1, TotalType
  <2> QED
    BY <2>1, <2>2, DaysAreTotal
<1>3. ASSUME NEW m \in 1 .. 12
      PROVE  DaysBeforeMonth(y, m + 1) = DaysBeforeMonth(y, m) + DaysInGregorianMonth(y, m)
  <2>1. m \in 1 .. 13 /\ m + 1 \in 1 .. 13 /\ (m + 1) - 1 = m
    OBVIOUS
  <2>2. 1 .. m = (1 .. m - 1) \cup {m} /\ m \notin 1 .. m - 1
    OBVIOUS
  <2>3. IsFiniteSet(1 .. m - 1) /\ Lengths(y, m) \in [1 .. m - 1 -> Int]
    BY <1>1, <2>1
  <2>4. Lengths(y, m + 1) \in [(1 .. m - 1) \cup {m} -> Int]
    BY <2>1, <2>2, <1>1
  <2>5. \A k \in 1 .. m - 1 : Lengths(y, m + 1)[k] = Lengths(y, m)[k]
    BY <2>1 DEF Lengths
  <2>6. Lengths(y, m + 1)[m] = DaysInGregorianMonth(y, m)
    BY <2>1 DEF Lengths
  <2>7. TotalOf(Lengths(y, m + 1), (1 .. m - 1) \cup {m})
          = TotalOf(Lengths(y, m), 1 .. m - 1) + Lengths(y, m + 1)[m]
    <3> DEFINE S == 1 .. m - 1
               f == Lengths(y, m)
               e == Lengths(y, m + 1)
    <3>1. IsFiniteSet(S) /\ f \in [S -> Int] /\ m \notin S /\ e \in [S \cup {m} -> Int]
      BY <2>2, <2>3, <2>4
    <3>2. \A k \in S : e[k] = f[k]
      BY <2>5
    <3> HIDE DEF S, f, e
    <3>3. TotalOf(e, S \cup {m}) = TotalOf(f, S) + e[m]
      BY <3>1, <3>2, TotalAdds
    <3> QED
      BY <3>3 DEF S, f, e
  <2>8. /\ DaysBeforeMonth(y, m) = TotalOf(Lengths(y, m), 1 .. m - 1)
        /\ DaysBeforeMonth(y, m + 1) = TotalOf(Lengths(y, m + 1), 1 .. (m + 1) - 1)
    BY <2>1, DaysAreTotal
  <2> QED
    BY <2>1, <2>2, <2>6, <2>7, <2>8
<1> QED
  BY <1>2, <1>3

(***************************************************************************)
(* The days before every month, which add up to the length of the year.    *)
(***************************************************************************)
LEMMA MonthTable ==
    ASSUME NEW y
    PROVE  LET D(m) == DaysBeforeMonth(y, m)
               F == DaysInGregorianMonth(y, 2)
           IN  /\ F = IF LeapYear(y) THEN 29 ELSE 28
               /\ D(1) = 0 /\ D(2) = 31 /\ D(3) = 31 + F /\ D(4) = 62 + F /\ D(5) = 92 + F
               /\ D(6) = 123 + F /\ D(7) = 153 + F /\ D(8) = 184 + F /\ D(9) = 215 + F
               /\ D(10) = 245 + F /\ D(11) = 276 + F /\ D(12) = 306 + F /\ D(13) = 337 + F
               /\ D(13) = YearLength(y)
<1> DEFINE D(m) == DaysBeforeMonth(y, m)
           N(m) == DaysInGregorianMonth(y, m)
<1>1. /\ N(2) = IF LeapYear(y) THEN 29 ELSE 28
      /\ N(1) = 31 /\ N(3) = 31 /\ N(4) = 30 /\ N(5) = 31 /\ N(6) = 30
      /\ N(7) = 31 /\ N(8) = 31 /\ N(9) = 30 /\ N(10) = 31 /\ N(11) = 30 /\ N(12) = 31
  BY DEF DaysInGregorianMonth
<1>2. D(1) = 0
  BY MonthStep
<1>3. \A m \in 1 .. 12 : D(m + 1) = D(m) + N(m)
  BY MonthStep
<1>4. N(2) \in Int
  BY <1>1
<1> HIDE DEF D, N
<1>5. D(2) = 31 /\ D(3) = 31 + N(2)
  BY <1>1, <1>2, <1>3, <1>4
<1>6. D(4) = 62 + N(2) /\ D(5) = 92 + N(2)
  BY <1>1, <1>3, <1>4, <1>5
<1>7. D(6) = 123 + N(2) /\ D(7) = 153 + N(2)
  BY <1>1, <1>3, <1>4, <1>6
<1>8. D(8) = 184 + N(2) /\ D(9) = 215 + N(2)
  BY <1>1, <1>3, <1>4, <1>7
<1>9. D(10) = 245 + N(2) /\ D(11) = 276 + N(2)
  BY <1>1, <1>3, <1>4, <1>8
<1>10. D(12) = 306 + N(2) /\ D(13) = 337 + N(2)
  BY <1>1, <1>3, <1>4, <1>9
<1>11. D(13) = YearLength(y)
  BY <1>1, <1>10 DEF YearLength
<1> QED
  BY <1>1, <1>2, <1>5, <1>6, <1>7, <1>8, <1>9, <1>10, <1>11 DEF D, N

-----------------------------------------------------------------------------
(* Dates                                                                   *)

(***************************************************************************)
(* A day of a year lies in one month.                                      *)
(***************************************************************************)
LEMMA MonthFound ==
    ASSUME NEW y, NEW day \in 0 .. YearLength(y) - 1
    PROVE  \E m \in 1 .. 12 : DaysBeforeMonth(y, m) <= day /\ day < DaysBeforeMonth(y, m + 1)
<1> DEFINE D(m) == DaysBeforeMonth(y, m)
           T == {m \in 1 .. 13 : D(m) <= day}
<1>1. D(1) = 0 /\ D(13) = YearLength(y) /\ \A m \in 1 .. 13 : D(m) \in Int
  BY MonthTable, MonthStep
<1>2. YearLength(y) \in Int /\ day \in Int /\ 0 <= day /\ day < YearLength(y)
  BY DEF YearLength
<1> HIDE DEF D
<1>3. 1 \in T /\ 13 \notin T /\ T \subseteq 0 .. 13
  BY <1>1, <1>2
<1>4. PICK m \in T : \A k \in T : k <= m
  <2> HIDE DEF T
  <2> QED
    BY <1>3, Greatest
<1>5. m \in 1 .. 12 /\ D(m) <= day /\ m + 1 \in 1 .. 13 /\ m + 1 \notin T
  BY <1>3, <1>4
<1>6. day < D(m + 1)
  BY <1>1, <1>2, <1>5
<1> QED
  BY <1>5, <1>6 DEF D

(***************************************************************************)
(* Later months start later.                                               *)
(***************************************************************************)
LEMMA MonthOrder ==
    ASSUME NEW y, NEW a \in 1 .. 13, NEW b \in 1 .. 13, a < b
    PROVE  DaysBeforeMonth(y, a) < DaysBeforeMonth(y, b)
<1> DEFINE D(m) == DaysBeforeMonth(y, m)
           T == {n \in Nat : \A m \in 1 .. 13 : m = a + 1 + n => D(a) < D(m)}
<1>1. \A m \in 1 .. 12 : D(m) \in Int /\ D(m + 1) \in Int /\ D(m) < D(m + 1)
  BY MonthStep, LengthType
<1> HIDE DEF D
<1>2. 0 \in T
  BY <1>1
<1>3. ASSUME NEW n \in Nat, n \in T PROVE n + 1 \in T
  <2>1. ASSUME NEW m \in 1 .. 13, m = a + 1 + (n + 1) PROVE D(a) < D(m)
    <3>1. m - 1 \in 1 .. 12 /\ (m - 1) + 1 = m /\ m - 1 \in 1 .. 13 /\ m - 1 = a + 1 + n
      BY <2>1
    <3>2. D(a) < D(m - 1) /\ D(m - 1) < D(m) /\ D(m - 1) \in Int /\ D(m) \in Int /\ D(a) \in Int
      <4>1. a \in 1 .. 12
        BY <3>1
      <4> QED
        BY <1>1, <1>3, <3>1, <4>1
    <3> QED
      BY <3>2
  <2> QED
    BY <2>1
<1>4. Nat \subseteq T
  <2> HIDE DEF T
  <2> QED
    BY <1>2, <1>3, InductionOnNat
<1>5. b - a - 1 \in T /\ b = a + 1 + (b - a - 1)
  BY <1>4
<1> QED
  BY <1>5 DEF D

\* A date of the calendar.
IsDate(y, m, k) == y \in Years /\ m \in 1 .. 12 /\ k \in 1 .. DaysInGregorianMonth(y, m)

(***************************************************************************)
(* The date of an ordinal is a date, and the ordinal comes back from it.   *)
(***************************************************************************)
LEMMA DateFound ==
    ASSUME NEW n \in Ordinals
    PROVE  \E y, m, k : /\ IsDate(y, m, k) /\ LocalDateFromOrdinal(n) = <<y, m, k>>
                        /\ n = DaysBeforeYear(y) + DaysBeforeMonth(y, m) + k - 1
<1> DEFINE y == YearOfOrdinal(n)
           day == n - DaysBeforeYear(y)
           m == MonthOfDay(y, day)
           k == day - DaysBeforeMonth(y, m) + 1
<1>1. n \in Int /\ y \in Years /\ DaysBeforeYear(y) <= n /\ n < DaysBeforeYear(y + 1)
  BY YearFound DEF Ordinals
<1> HIDE DEF y
<1>2. /\ DaysBeforeYear(y) \in Int /\ YearLength(y) \in Int
      /\ DaysBeforeYear(y + 1) = DaysBeforeYear(y) + YearLength(y)
  BY <1>1, YearStep DEF Years, YearLength
<1>3. day \in 0 .. YearLength(y) - 1
  BY <1>1, <1>2
<1> HIDE DEF day
<1>4. m \in 1 .. 12 /\ DaysBeforeMonth(y, m) <= day /\ day < DaysBeforeMonth(y, m + 1)
  <2>1. \E j \in 1 .. 12 : DaysBeforeMonth(y, j) <= day /\ day < DaysBeforeMonth(y, j + 1)
    BY <1>3, MonthFound
  <2> QED
    BY <2>1, Zenon DEF MonthOfDay
<1> HIDE DEF m
<1>5. /\ DaysBeforeMonth(y, m) \in Int /\ DaysInGregorianMonth(y, m) \in Int
      /\ DaysBeforeMonth(y, m + 1) = DaysBeforeMonth(y, m) + DaysInGregorianMonth(y, m)
  BY <1>4, MonthStep, LengthType
<1>6. day \in Int
  BY <1>3, <1>2
<1>7. IsDate(y, m, k)
  BY <1>1, <1>4, <1>5, <1>6 DEF IsDate
<1>8. LocalDateFromOrdinal(n) = <<y, m, k>>
  BY DEF LocalDateFromOrdinal, DateFrom, DateInYear, DateOfDay, y, day, m
<1>9. n = DaysBeforeYear(y) + DaysBeforeMonth(y, m) + k - 1
  <2>1. n = DaysBeforeYear(y) + day
    BY <1>1, <1>2 DEF day
  <2> QED
    BY <1>2, <1>5, <1>6, <2>1
<1> HIDE DEF k
<1> QED
  BY <1>7, <1>8, <1>9

(***************************************************************************)
(* No two dates have one ordinal.                                          *)
(***************************************************************************)
LEMMA DateUnique ==
    ASSUME NEW y, NEW m, NEW k, IsDate(y, m, k), NEW z, NEW j, NEW i, IsDate(z, j, i),
           DaysBeforeYear(y) + DaysBeforeMonth(y, m) + k - 1
             = DaysBeforeYear(z) + DaysBeforeMonth(z, j) + i - 1
    PROVE  y = z /\ m = j /\ k = i
<1>1. ASSUME NEW u, NEW v, NEW w, IsDate(u, v, w)
      PROVE  /\ u \in Nat \ {0} /\ v \in 1 .. 12 /\ w \in Int
             /\ DaysBeforeYear(u) \in Int /\ DaysBeforeMonth(u, v) \in Int
             /\ 0 <= DaysBeforeMonth(u, v) + w - 1
             /\ DaysBeforeMonth(u, v) + w - 1 < YearLength(u)
             /\ DaysBeforeYear(u + 1) = DaysBeforeYear(u) + YearLength(u) /\ YearLength(u) \in Int
             /\ DaysBeforeMonth(u, v + 1) \in Int
             /\ DaysBeforeMonth(u, v) + w - 1 < DaysBeforeMonth(u, v + 1)
             /\ 1 <= w
  <2>1. /\ u \in Nat \ {0} /\ v \in 1 .. 12 /\ w \in 1 .. DaysInGregorianMonth(u, v)
        /\ DaysInGregorianMonth(u, v) \in Int
    BY <1>1, LengthType DEF IsDate, Years
  <2>2. /\ DaysBeforeYear(u) \in Int
        /\ DaysBeforeYear(u + 1) = DaysBeforeYear(u) + YearLength(u) /\ YearLength(u) \in Int
    BY <2>1, YearStep DEF YearLength
  <2>3. /\ DaysBeforeMonth(u, v) \in Int
        /\ DaysBeforeMonth(u, v + 1) = DaysBeforeMonth(u, v) + DaysInGregorianMonth(u, v)
    BY <2>1, MonthStep
  <2>4. 0 <= DaysBeforeMonth(u, v)
    <3>1. CASE v = 1
      BY <3>1, MonthStep
    <3>2. CASE v # 1
      <4>1. DaysBeforeMonth(u, 1) < DaysBeforeMonth(u, v)
        BY <2>1, <3>2, MonthOrder
      <4> QED
        BY <2>3, <4>1, MonthStep
    <3> QED
      BY <3>1, <3>2
  <2>5. DaysBeforeMonth(u, v + 1) <= YearLength(u)
    <3>1. CASE v = 12
      BY <3>1, <2>2, MonthTable
    <3>2. CASE v # 12
      <4>1. v + 1 \in 1 .. 13 /\ v + 1 < 13
        BY <2>1, <3>2
      <4>2. DaysBeforeMonth(u, v + 1) < DaysBeforeMonth(u, 13)
        BY <4>1, MonthOrder
      <4>3. DaysBeforeMonth(u, 13) = YearLength(u)
        BY MonthTable
      <4> QED
        BY <2>1, <2>2, <2>3, <4>2, <4>3
    <3> QED
      BY <3>1, <3>2
  <2> QED
    BY <2>1, <2>2, <2>3, <2>4, <2>5
<1>2. ASSUME NEW u \in Nat \ {0}, NEW v \in Nat \ {0}, u < v
      PROVE  DaysBeforeYear(u + 1) <= DaysBeforeYear(v)
  <2>1. CASE u + 1 = v
    BY <2>1, YearStep
  <2>2. CASE u + 1 # v
    <3>1. u + 1 \in Nat \ {0} /\ u + 1 < v
      BY <1>2, <2>2
    <3> QED
      BY <3>1, YearOrder, YearStep
  <2> QED
    BY <2>1, <2>2
<1>3. y = z
  <2>1. ~ y < z
    BY <1>1, <1>2
  <2>2. ~ z < y
    BY <1>1, <1>2
  <2>3. y \in Nat /\ z \in Nat
    BY <1>1
  <2> QED
    BY <2>1, <2>2, <2>3
<1>4. DaysBeforeMonth(y, m) + k = DaysBeforeMonth(y, j) + i
  BY <1>1, <1>3
<1>5. ASSUME NEW u \in 1 .. 12, NEW v \in 1 .. 12, u < v
      PROVE  DaysBeforeMonth(y, u + 1) <= DaysBeforeMonth(y, v)
  <2>1. CASE u + 1 = v
    BY <2>1, MonthStep
  <2>2. CASE u + 1 # v
    <3>1. u + 1 \in 1 .. 13 /\ u + 1 < v /\ v \in 1 .. 13
      BY <1>5, <2>2
    <3> QED
      BY <3>1, MonthOrder, MonthStep
  <2> QED
    BY <2>1, <2>2
<1>6. m = j
  <2>1. ~ m < j
    BY <1>1, <1>3, <1>4, <1>5
  <2>2. ~ j < m
    BY <1>1, <1>3, <1>4, <1>5
  <2> QED
    BY <1>1, <2>1, <2>2
<1> QED
  BY <1>1, <1>3, <1>4, <1>6

(***************************************************************************)
(* The calendar counts days: a date comes back from its ordinal, and the   *)
(* next ordinal is that of the next day.                                   *)
(***************************************************************************)
LEMMA NextOrdinal ==
    ASSUME NEW n \in Ordinals, n + 1 \in Ordinals
    PROVE  /\ LocalDateOrdinal(LocalDateFromOrdinal(n)) = n
           /\ LocalDateFromOrdinal(n + 1) = DayAfter(LocalDateFromOrdinal(n))
<1>1. PICK y, m, k : /\ IsDate(y, m, k) /\ LocalDateFromOrdinal(n) = <<y, m, k>>
                     /\ n = DaysBeforeYear(y) + DaysBeforeMonth(y, m) + k - 1
  BY DateFound
<1>2. LocalDateOrdinal(<<y, m, k>>) = n
  BY <1>1 DEF LocalDateOrdinal
<1>3. PICK z, j, i : /\ IsDate(z, j, i) /\ LocalDateFromOrdinal(n + 1) = <<z, j, i>>
                     /\ n + 1 = DaysBeforeYear(z) + DaysBeforeMonth(z, j) + i - 1
  BY DateFound
<1> DEFINE last == DaysInGregorianMonth(y, m)
<1>4. /\ y \in Nat \ {0} /\ y <= LastYear /\ LastYear \in Int /\ m \in 1 .. 12
      /\ k \in Int /\ 1 <= k /\ k <= last /\ last \in 28 .. 31
  BY <1>1, LengthType DEF IsDate, Years, LastYear
<1>5. last = CASE m = 2 -> IF y % 4 = 0 /\ (y % 100 = 0 => y % 400 = 0) THEN 29 ELSE 28
               [] m \in {4, 6, 9, 11} -> 30
               [] OTHER -> 31
  BY DEF DaysInGregorianMonth, LeapYear
<1>6. DayAfter(<<y, m, k>>) = CASE k < last           -> <<y, m, k + 1>>
                                [] k >= last /\ m < 12 -> <<y, m + 1, 1>>
                                [] OTHER              -> <<y + 1, 1, 1>>
  BY <1>5 DEF DayAfter
<1> HIDE DEF last
<1>7. DaysBeforeYear(y) \in Int /\ DaysBeforeMonth(y, m) \in Int
  BY <1>4, YearStep, MonthStep
<1>8. CASE k < last
  <2>1. IsDate(y, m, k + 1)
    BY <1>1, <1>4, <1>8 DEF IsDate, last
  <2>2. n + 1 = DaysBeforeYear(y) + DaysBeforeMonth(y, m) + (k + 1) - 1
    BY <1>1, <1>4, <1>7
  <2>3. z = y /\ j = m /\ i = k + 1
    BY <1>3, <2>1, <2>2, DateUnique
  <2>4. DayAfter(<<y, m, k>>) = <<y, m, k + 1>>
    BY <1>4, <1>6, <1>8
  <2> QED
    BY <1>1, <1>2, <1>3, <2>3, <2>4
<1>9. CASE k >= last /\ m < 12
  <2>1. m + 1 \in 1 .. 12 /\ k = last /\ DaysBeforeMonth(y, m + 1) = DaysBeforeMonth(y, m) + last
    BY <1>4, <1>9, MonthStep DEF last
  <2>2. IsDate(y, m + 1, 1)
    BY <1>1, <2>1, LengthType DEF IsDate
  <2>3. n + 1 = DaysBeforeYear(y) + DaysBeforeMonth(y, m + 1) + 1 - 1
    BY <1>1, <1>4, <1>7, <2>1
  <2>4. z = y /\ j = m + 1 /\ i = 1
    BY <1>3, <2>2, <2>3, DateUnique
  <2> QED
    BY <1>1, <1>2, <1>3, <1>4, <1>6, <1>9, <2>4
<1>10. CASE k >= last /\ m = 12
  <2>1. k = last /\ DaysBeforeMonth(y, 13) = DaysBeforeMonth(y, m) + last
    BY <1>4, <1>10, MonthStep DEF last
  <2>2. DaysBeforeMonth(y, 13) = YearLength(y)
    BY MonthTable
  <2>3. /\ DaysBeforeYear(y + 1) = DaysBeforeYear(y) + YearLength(y)
        /\ YearLength(y) \in Int /\ DaysBeforeYear(y + 1) \in Int
    BY <1>4, YearStep DEF YearLength
  <2>4. n + 1 = DaysBeforeYear(y + 1)
    BY <1>1, <1>4, <1>7, <2>1, <2>2, <2>3
  <2>5. y + 1 \in Years
    <3>1. n + 1 < DaysBeforeYear(LastYear + 1)
      BY DEF Ordinals
    <3>2. y # LastYear
      BY <2>3, <2>4, <3>1
    <3> QED
      BY <1>4, <3>2 DEF Years
  <2>6. IsDate(y + 1, 1, 1)
    BY <2>5, LengthType DEF IsDate
  <2>7. n + 1 = DaysBeforeYear(y + 1) + DaysBeforeMonth(y + 1, 1) + 1 - 1
    BY <2>3, <2>4, MonthStep
  <2>8. z = y + 1 /\ j = 1 /\ i = 1
    BY <1>3, <2>6, <2>7, DateUnique
  <2> QED
    BY <1>1, <1>2, <1>3, <1>4, <1>6, <1>10, <2>8
<1> QED
  BY <1>4, <1>8, <1>9, <1>10

(***************************************************************************)
(* CalendarCountsDays, for all dates from the year 1 to the year 9999.     *)
(***************************************************************************)
THEOREM CalendarCounts == Spec => []CalendarCountsDays
<1>1. ASSUME NEW n \in SampledDates
      PROVE  /\ LocalDateOrdinal(LocalDateFromOrdinal(n)) = n
             /\ LocalDateFromOrdinal(n + 1) = DayAfter(LocalDateFromOrdinal(n))
  <2>1. DaysBeforeYear(LastYear + 1) \in Int
    BY YearStep DEF LastYear
  <2>2. n \in Ordinals /\ n + 1 \in Ordinals
    BY <2>1, QuestionsAssumption DEF DatesAssumption, Ordinals
  <2> QED
    BY <2>2, NextOrdinal
<1>2. CalendarCountsDays
  BY <1>1 DEF CalendarCountsDays
<1> QED
  BY <1>2, PTL

-----------------------------------------------------------------------------
(* Stepping a contribution down                                            *)

Typed(q) ==
  /\ q.current \in Int /\ q.step \in Int /\ q.projection.effective \in Int
  /\ q.capacity.status = "complete" => q.capacity.value.sustainable \in Int \union {NoValue}
  /\ IsFiniteSet(q.projection.occurrences)
  /\ \A d \in q.projection.days : d.base \in Int /\ d.minimum \in Int /\ d.comfort \in Int

(***************************************************************************)
(* A product grows with its factors.                                       *)
(***************************************************************************)
LEMMA ProductOrder ==
    ASSUME NEW a \in Int, NEW b \in Int, a <= b, NEW d \in Nat
    PROVE  a * d <= b * d
<1>1. PICK c \in Nat : b = a + c
  <2>1. b - a \in Nat /\ b = a + (b - a)
    OBVIOUS
  <2> QED
    BY <2>1
<1>2. b * d = a * d + c * d /\ c * d \in Nat /\ a * d \in Int
  BY <1>1
<1> QED
  BY <1>2

(***************************************************************************)
(* Rounding a quotient up gives the least factor that reaches the number.  *)
(***************************************************************************)
LEMMA CeilLeast ==
    ASSUME NEW n \in Int, NEW d \in Nat \ {0}
    PROVE  /\ CeilDivide(n, d) \in Int
           /\ \A k \in Int : CeilDivide(n, d) <= k <=> n <= k * d
<1> DEFINE c == CeilDivide(n, d)
<1>1. c \in Int /\ c * d <= n + d - 1 /\ n + d - 1 < c * d + d
  BY DEF CeilDivide
<1> HIDE DEF c
<1>2. ASSUME NEW k \in Int PROVE c <= k <=> n <= k * d
  <2>1. k * d \in Int /\ c * d \in Int
    BY <1>1
  <2>2. CASE c <= k
    <3>1. c * d <= k * d
      BY <1>1, <2>2, ProductOrder
    <3> QED
      BY <1>1, <2>1, <2>2, <3>1
  <2>3. CASE ~ c <= k
    <3>1. (k + 1) * d <= c * d
      BY <1>1, <2>3, ProductOrder
    <3>2. (k + 1) * d = k * d + d
      OBVIOUS
    <3> QED
      BY <1>1, <2>1, <2>3, <3>1, <3>2
  <2> QED
    BY <2>2, <2>3
<1> QED
  BY <1>1, <1>2 DEF c

(***************************************************************************)
(* The least of a set of natural numbers.                                  *)
(***************************************************************************)
LEMMA MinIs ==
    ASSUME NEW S, S \subseteq Nat, S # {}
    PROVE  Min(S) \in S /\ \A x \in S : Min(S) <= x
<1>1. PICK m \in S : \A x \in S : ~ (<<x, m>> \in OpToRel(<, Nat))
  BY WFMin, NatLessThanWellFounded
<1>2. ASSUME NEW x \in S PROVE m <= x
  <2>1. <<x, m>> \in Nat \X Nat
    OBVIOUS
  <2>2. ~ (x < m)
    BY <1>1, <2>1 DEF OpToRel
  <2> QED
    BY <2>2
<1>3. \E x \in S : \A y \in S : x <= y
  BY <1>2
<1> QED
  BY <1>3, Zenon DEF Min

(***************************************************************************)
(* The least of a set is the only member that no other is below.           *)
(***************************************************************************)
LEMMA MinOnly ==
    ASSUME NEW S, S \subseteq Nat, NEW m \in S, \A x \in S : m <= x
    PROVE  Min(S) = m
<1>1. Min(S) \in S /\ Min(S) <= m
  BY MinIs
<1>2. m <= Min(S) /\ Min(S) \in Nat /\ m \in Nat
  BY <1>1
<1> QED
  BY <1>1, <1>2

PassesWith(q, candidate) == Passes(Stress(q, candidate))
(***************************************************************************)
(* A smaller contribution passes when a larger one does: every day of the  *)
(* horizon has more cash with it.                                          *)
(***************************************************************************)
LEMMA SmallerPasses ==
    ASSUME NEW q, Typed(q), NEW a \in Nat, NEW b \in Nat, a <= b, PassesWith(q, b)
    PROVE  PassesWith(q, a)
<1> DEFINE x == q.projection
           l == q.liquidity
           last == DayOf(x, x.effective + StressHorizonDays)
<1>1. /\ l.value # NoValue /\ ValidStress(l, x) /\ CompleteHorizon(l, x)
      /\ StressValue(x, b, TRUE).passes
  BY DEF PassesWith, Passes, Stress, StressRecurringContribution, Unavailable, Invalid, Complete, Partial
<1>2. Breaches(x, b) = {} /\ EndsInComfort(x, b, last)
  BY <1>1 DEF StressValue
<1>3. ASSUME NEW d \in x.days
      PROVE  /\ StressedCash(x, b, d) <= StressedCash(x, a, d)
             /\ StressedCash(x, b, d) \in Int /\ StressedCash(x, a, d) \in Int
  <2> DEFINE n == OccurrencesUntil(x, d.date)
  <2>1. n \in Nat
    BY FS_Subset, FS_CardinalityType DEF OccurrencesUntil, Typed
  <2> HIDE DEF n
  <2>2. a * n <= b * n
    BY <2>1, ProductOrder
  <2>3. d.base \in Int /\ a * n \in Int /\ b * n \in Int
    BY <2>1 DEF Typed
  <2>4. StressedCash(x, b, d) = d.base - b * n /\ StressedCash(x, a, d) = d.base - a * n
    BY DEF StressedCash, n
  <2> QED
    BY <2>2, <2>3, <2>4
<1>4. Breaches(x, a) = {}
  <2>1. ASSUME NEW d \in x.days PROVE ~ StressedCash(x, a, d) < d.minimum
    <3>1. ~ StressedCash(x, b, d) < d.minimum /\ d.minimum \in Int
      BY <1>2 DEF Breaches, Typed
    <3> QED
      BY <1>3, <3>1
  <2> QED
    BY <2>1 DEF Breaches
<1>5. EndsInComfort(x, a, last)
  <2>1. last \in x.days
    <3>1. x.effective + StressHorizonDays \in Horizon(x.effective)
      BY HorizonAssumption DEF Horizon, Typed
    <3>2. MissingDays(x) = {}
      BY <1>1 DEF CompleteHorizon
    <3>3. \E d \in x.days : d.date = x.effective + StressHorizonDays
      BY <3>1, <3>2 DEF MissingDays, Evaluated
    <3> QED
      BY <3>3, Zenon DEF DayOf
  <2> QED
    BY <1>2, <1>3, <2>1 DEF EndsInComfort, Typed
<1>6. StressValue(x, a, TRUE).passes
  BY <1>4, <1>5 DEF StressValue
<1>7. Stress(q, a) = Complete(StressValue(x, a, TRUE))
  <2>1. ~ a < 0
    OBVIOUS
  <2> HIDE DEF x, l
  <2>2. StressRecurringContribution(l, x, a) = Complete(StressValue(x, a, TRUE))
    BY <1>1, <2>1 DEF StressRecurringContribution
  <2> QED
    BY <2>2 DEF Stress, x, l
<1>8. \A v : v.passes => Passes(Complete(v))
  BY DEF Passes, Complete
<1> HIDE DEF x
<1> QED
  BY <1>6, <1>7, <1>8 DEF PassesWith

\* The numbers of steps at which the search may end between two bounds.
Bears(q, n) == PassesWith(q, AfterDecrements(q, n))
Ends(q, i, j) == {n \in i .. j : Bears(q, n) \/ n = j}
Least(q, i, j) == IF i >= j THEN i ELSE Min(Ends(q, i, j))

(***************************************************************************)
(* Where the search ends.                                                  *)
(***************************************************************************)
LEMMA EndsAt ==
    ASSUME NEW q, NEW i \in Nat, NEW j \in Nat, i <= j
    PROVE  Least(q, i, j) = Min(Ends(q, i, j)) /\ Least(q, i, j) \in Ends(q, i, j)
             /\ \A n \in Ends(q, i, j) : Least(q, i, j) <= n
<1>1. Ends(q, i, j) \subseteq Nat /\ j \in Ends(q, i, j)
  BY DEF Ends
<1>2. Min(Ends(q, i, j)) \in Ends(q, i, j) /\ \A n \in Ends(q, i, j) : Min(Ends(q, i, j)) <= n
  BY <1>1, MinIs
<1>3. i >= j => Min(Ends(q, i, j)) = i
  BY <1>2 DEF Ends
<1> QED
  BY <1>2, <1>3 DEF Least

(***************************************************************************)
(* More steps pass when fewer do.                                          *)
(***************************************************************************)
LEMMA MoreStepsPass ==
    ASSUME NEW q, Typed(q), q.step > 0, NEW n \in Nat, NEW m \in Nat, n <= m, Bears(q, n)
    PROVE  Bears(q, m)
<1>1. n * q.step <= m * q.step
  BY ProductOrder DEF Typed
<1>2. /\ q.step * n \in Int /\ q.step * m \in Int
      /\ q.step * n = n * q.step /\ q.step * m = m * q.step /\ q.current \in Int
  BY DEF Typed
<1>3. /\ AfterDecrements(q, n) \in Nat /\ AfterDecrements(q, m) \in Nat
      /\ AfterDecrements(q, m) <= AfterDecrements(q, n)
  BY <1>1, <1>2 DEF AfterDecrements, AtLeastZero
<1> QED
  BY <1>3, SmallerPasses DEF Bears

(***************************************************************************)
(* Halving the interval keeps the end that is looked for.                  *)
(***************************************************************************)
LEMMA HalfEnds ==
    ASSUME NEW q, Typed(q), q.step > 0, NEW i \in Nat, NEW j \in Nat, i < j
    PROVE  LET middle == (i + j) \div 2
           IN  /\ middle \in Nat /\ i <= middle /\ middle < j
               /\ Least(q, i, j) = IF Bears(q, middle) THEN Least(q, i, middle)
                                   ELSE Least(q, middle + 1, j)
<1> DEFINE middle == (i + j) \div 2
<1>1. middle \in Nat /\ i <= middle /\ middle < j
  OBVIOUS
<1> HIDE DEF middle
<1>2. Least(q, i, j) = Min(Ends(q, i, j)) /\ Ends(q, i, j) \subseteq Nat
  <2>1. i <= j
    OBVIOUS
  <2>2. Least(q, i, j) = Min(Ends(q, i, j))
    BY <2>1, EndsAt
  <2>3. Ends(q, i, j) \subseteq Nat
    BY DEF Ends
  <2> QED
    BY <2>2, <2>3
<1>3. CASE Bears(q, middle)
  <2> DEFINE a == Least(q, i, middle)
  <2>1. a \in Ends(q, i, middle) /\ \A n \in Ends(q, i, middle) : a <= n
    BY <1>1, EndsAt
  <2> HIDE DEF a
  <2>2. a \in Ends(q, i, j)
    BY <1>1, <1>3, <2>1 DEF Ends
  <2>3. ASSUME NEW n \in Ends(q, i, j) PROVE a <= n
    <3>1. CASE n <= middle
      <4>1. n \in Ends(q, i, middle)
        BY <1>1, <3>1 DEF Ends
      <4> QED
        BY <2>1, <4>1
    <3>2. CASE ~ n <= middle
      <4>1. n \in Nat /\ a \in Nat /\ a <= middle
        BY <1>1, <2>1 DEF Ends
      <4> QED
        BY <1>1, <3>2, <4>1
    <3> QED
      BY <3>1, <3>2
  <2>4. Min(Ends(q, i, j)) = a
    BY <1>2, <2>2, <2>3, MinOnly
  <2>5. Least(q, i, j) = Least(q, i, middle)
    BY <1>2, <2>4 DEF a
  <2> QED
    BY <1>1, <1>3, <2>5 DEF middle
<1>4. CASE ~ Bears(q, middle)
  <2>1. \A n \in Nat : n <= middle => ~ Bears(q, n)
    BY <1>1, <1>4, MoreStepsPass
  <2>2. ASSUME NEW n PROVE n \in Ends(q, i, j) <=> n \in Ends(q, middle + 1, j)
    BY <1>1, <2>1 DEF Ends
  <2>3. Ends(q, i, j) = Ends(q, middle + 1, j)
    BY <2>2
  <2>4. Least(q, middle + 1, j) = Min(Ends(q, middle + 1, j))
    BY <1>1, EndsAt
  <2>5. Least(q, i, j) = Least(q, middle + 1, j)
    BY <1>2, <2>3, <2>4
  <2> QED
    BY <1>1, <1>4, <2>5 DEF middle
<1> QED
  BY <1>3, <1>4

Narrowed(q, high, g) ==
  g = [i \in (0 .. high) \X (0 .. high) |->
         IF i[1] >= i[2] THEN i[1]
         ELSE LET middle == (i[1] + i[2]) \div 2
              IN  IF Passes(Stress(q, AfterDecrements(q, middle)))
                  THEN g[<<i[1], middle>>]
                  ELSE g[<<middle + 1, i[2]>>]]

(***************************************************************************)
(* The recursion of the search has a solution.                             *)
(***************************************************************************)
LEMMA SearchExists ==
    ASSUME NEW q, Typed(q), q.step > 0, NEW high \in Nat
    PROVE  \E g : Narrowed(q, high, g)
<1> DEFINE X == (0 .. high) \X (0 .. high)
           h == [i \in X |-> Least(q, i[1], i[2])]
           R(i) == IF i[1] >= i[2] THEN i[1]
                   ELSE LET middle == (i[1] + i[2]) \div 2
                        IN  IF Passes(Stress(q, AfterDecrements(q, middle)))
                            THEN h[<<i[1], middle>>]
                            ELSE h[<<middle + 1, i[2]>>]
<1>1. ASSUME NEW a \in 0 .. high, NEW b \in 0 .. high PROVE h[<<a, b>>] = Least(q, a, b)
  OBVIOUS
<1>2. ASSUME NEW a \in 0 .. high, NEW b \in 0 .. high PROVE h[<<a, b>>] = R(<<a, b>>)
  <2> DEFINE middle == (a + b) \div 2
  <2>1. CASE a >= b
    BY <1>1, <2>1 DEF Least
  <2>2. CASE a < b
    <3>1. /\ middle \in 0 .. high /\ middle + 1 \in 0 .. high
          /\ Least(q, a, b) = IF Bears(q, middle) THEN Least(q, a, middle) ELSE Least(q, middle + 1, b)
      <4>1. /\ middle \in Nat /\ a <= middle /\ middle < b
            /\ Least(q, a, b) = IF Bears(q, middle) THEN Least(q, a, middle)
                                ELSE Least(q, middle + 1, b)
        BY <2>2, HalfEnds
      <4> HIDE DEF middle
      <4>2. middle \in 0 .. high /\ middle + 1 \in 0 .. high
        BY <4>1
      <4> QED
        BY <4>1, <4>2
    <3>2. /\ h[<<a, middle>>] = Least(q, a, middle)
          /\ h[<<middle + 1, b>>] = Least(q, middle + 1, b)
      <4> HIDE DEF h, middle
      <4> QED
        BY <1>1, <3>1
    <3>3. R(<<a, b>>) = IF Bears(q, middle) THEN h[<<a, middle>>] ELSE h[<<middle + 1, b>>]
      <4> HIDE DEF h
      <4> QED
        BY <2>2 DEF Bears, PassesWith
    <3> HIDE DEF h, middle, R
    <3> QED
      BY <1>1, <3>1, <3>2, <3>3
  <2> QED
    BY <2>1, <2>2
<1>3. \A i \in X : h[i] = R(i)
  <2>1. \A i \in X : i[1] \in 0 .. high /\ i[2] \in 0 .. high /\ i = <<i[1], i[2]>>
    OBVIOUS
  <2> HIDE DEF h, R, X
  <2> QED
    BY <1>2, <2>1
<1>4. h = [i \in X |-> R(i)]
  <2>1. h = [i \in X |-> h[i]]
    OBVIOUS
  <2> HIDE DEF h, R
  <2> QED
    BY <1>3, <2>1
<1>5. Narrowed(q, high, h)
  <2> HIDE DEF h
  <2> QED
    BY <1>4 DEF Narrowed, R
<1> QED
  BY <1>5

(***************************************************************************)
(* The search ends at the least number of steps that passes, or at the     *)
(* last.                                                                   *)
(***************************************************************************)
LEMMA SearchFinds ==
    ASSUME NEW q, Typed(q), q.step > 0, NEW high \in Nat, NEW low \in 0 .. high
    PROVE  StepDownSearch(q, low, high) = Least(q, low, high)
<1> DEFINE g == CHOOSE f : Narrowed(q, high, f)
<1>1. Narrowed(q, high, g)
  BY SearchExists
<1>2. StepDownSearch(q, low, high) = g[<<low, high>>]
  BY DEF StepDownSearch, Narrowed
<1> HIDE DEF g
<1>3. ASSUME NEW a \in 0 .. high, NEW b \in 0 .. high
      PROVE  g[<<a, b>>] = IF a >= b THEN a
                           ELSE IF Bears(q, (a + b) \div 2) THEN g[<<a, (a + b) \div 2>>]
                           ELSE g[<<(a + b) \div 2 + 1, b>>]
  BY <1>1 DEF Narrowed, Bears, PassesWith
<1> DEFINE T == {w \in Nat : \A a, b \in 0 .. high : b - a <= w => g[<<a, b>>] = Least(q, a, b)}
<1>4. 0 \in T
  <2>1. ASSUME NEW a \in 0 .. high, NEW b \in 0 .. high, b - a <= 0
        PROVE  g[<<a, b>>] = Least(q, a, b)
    <3>1. a >= b
      BY <2>1
    <3> QED
      BY <1>3, <3>1 DEF Least
  <2> QED
    BY <2>1
<1>5. ASSUME NEW w \in Nat, w \in T PROVE w + 1 \in T
  <2>1. ASSUME NEW a \in 0 .. high, NEW b \in 0 .. high, b - a <= w + 1
        PROVE  g[<<a, b>>] = Least(q, a, b)
    <3> DEFINE middle == (a + b) \div 2
    <3>1. CASE a >= b
      BY <1>3, <3>1 DEF Least
    <3>2. CASE a < b
      <4>1. /\ middle \in Nat /\ a <= middle /\ middle < b
            /\ Least(q, a, b) = IF Bears(q, middle) THEN Least(q, a, middle)
                                ELSE Least(q, middle + 1, b)
        BY <3>2, HalfEnds
      <4>2. g[<<a, b>>] = IF Bears(q, middle) THEN g[<<a, middle>>] ELSE g[<<middle + 1, b>>]
        BY <1>3, <3>2
      <4> HIDE DEF middle
      <4>3. /\ middle \in 0 .. high /\ middle + 1 \in 0 .. high
            /\ middle - a <= w /\ b - (middle + 1) <= w
        BY <2>1, <4>1
      <4>4. g[<<a, middle>>] = Least(q, a, middle) /\ g[<<middle + 1, b>>] = Least(q, middle + 1, b)
        BY <1>5, <4>3
      <4> QED
        BY <4>1, <4>2, <4>4
    <3> QED
      BY <3>1, <3>2
  <2> QED
    BY <2>1
<1>6. Nat \subseteq T
  <2> HIDE DEF T
  <2> QED
    BY <1>4, <1>5, InductionOnNat
<1>7. high \in T /\ high - low <= high /\ high \in 0 .. high
  BY <1>6
<1>8. g[<<low, high>>] = Least(q, low, high)
  BY <1>7
<1> QED
  BY <1>2, <1>8

Sufficient(q, n, all) ==
  Sustainable(q) # NoValue => AfterDecrements(q, n) <= Sustainable(q) \/ n = all

(***************************************************************************)
(* The search starts where the capacity allows: from there on, and only    *)
(* from there on, a number of steps is sufficient for it.                  *)
(***************************************************************************)
LEMMA FromCapacity ==
    ASSUME NEW q, Typed(q), q.step > 0, q.current > 0
    PROVE  LET all == CeilDivide(q.current, q.step)
               low == Smaller(CapacityDecrement(q, Sustainable(q)), all)
           IN  /\ all \in Nat /\ low \in 1 .. all
               /\ \A n \in 1 .. all : Sufficient(q, n, all) <=> low <= n
<1> DEFINE all == CeilDivide(q.current, q.step)
           s == Sustainable(q)
           dec == CapacityDecrement(q, s)
           low == Smaller(dec, all)
<1>1. q.current \in Int /\ q.step \in Nat \ {0} /\ s \in Int \union {NoValue}
  BY DEF Typed, Sustainable
<1>2. all \in Int /\ \A k \in Int : all <= k <=> q.current <= k * q.step
  BY <1>1, CeilLeast
<1>3. 1 <= all
  <2>1. ~ q.current <= 0 * q.step
    BY <1>1
  <2> QED
    BY <1>2, <2>1
<1> HIDE DEF all, s
<1>4. ASSUME NEW n \in 1 .. all
      PROVE  /\ n \in Nat /\ n * q.step \in Int /\ q.step * n = n * q.step
             /\ AfterDecrements(q, n) = IF q.current - n * q.step < 0 THEN 0
                                        ELSE q.current - n * q.step
  <2>1. n \in Nat /\ n * q.step \in Int /\ q.step * n = n * q.step
    BY <1>1, <1>2
  <2> QED
    BY <2>1 DEF AfterDecrements, AtLeastZero
<1>5. CASE s = NoValue
  <2>1. dec = 1 /\ low = 1
    BY <1>2, <1>3, <1>5 DEF CapacityDecrement, Smaller
  <2> QED
    BY <1>2, <1>3, <1>5, <2>1 DEF Sufficient, s, all
<1>6. CASE s # NoValue /\ s >= q.current
  <2>1. dec = 1 /\ low = 1
    BY <1>2, <1>3, <1>6 DEF CapacityDecrement, Smaller
  <2>2. ASSUME NEW n \in 1 .. all PROVE AfterDecrements(q, n) <= s
    <3>1. 0 <= n * q.step
      <4>1. 0 * q.step <= n * q.step
        BY <1>1, <1>4, ProductOrder
      <4> QED
        BY <1>1, <4>1
    <3> QED
      BY <1>1, <1>4, <1>6, <3>1
  <2> QED
    BY <1>2, <1>3, <1>6, <2>1, <2>2 DEF Sufficient, s, all
<1>7. CASE s # NoValue /\ ~ s >= q.current
  <2> DEFINE gap == CeilDivide(q.current - s, q.step)
  <2>1. s \in Int /\ s < q.current /\ q.current - s \in Int
    BY <1>1, <1>7
  <2>2. gap \in Int /\ \A k \in Int : gap <= k <=> q.current - s <= k * q.step
    BY <1>1, <2>1, CeilLeast
  <2>3. 1 <= gap
    <3>1. ~ q.current - s <= 0 * q.step
      BY <1>1, <2>1
    <3> QED
      BY <2>2, <3>1
  <2>4. dec = Larger(1, gap)
    BY <1>7 DEF CapacityDecrement
  <2> HIDE DEF gap
  <2>5. dec = gap /\ low \in 1 .. all /\ low \in Int
    BY <1>2, <1>3, <2>2, <2>3, <2>4 DEF Larger, Smaller
  <2>6. ASSUME NEW n \in 1 .. all PROVE (AfterDecrements(q, n) <= s \/ n = all) <=> low <= n
    <3>1. gap <= n <=> q.current - n * q.step <= s
      BY <1>1, <1>4, <2>1, <2>2
    <3>2. all <= n <=> q.current - n * q.step <= 0
      BY <1>1, <1>2, <1>4
    <3>3. low <= n <=> gap <= n \/ n = all
      BY <1>2, <2>2, <2>5 DEF Smaller
    <3>4. CASE n = all
      BY <3>3, <3>4
    <3>5. CASE n # all
      <4>1. ~ all <= n
        BY <1>2, <3>5
      <4>2. AfterDecrements(q, n) = q.current - n * q.step
        BY <1>1, <1>4, <3>2, <4>1
      <4> QED
        BY <3>1, <3>3, <3>5, <4>2
    <3> QED
      BY <3>4, <3>5
  <2>7. \A n \in 1 .. all : Sufficient(q, n, all) <=> low <= n
    BY <1>7, <2>6 DEF Sufficient, s
  <2> QED
    BY <1>2, <1>3, <2>5, <2>7 DEF s, all
<1> QED
  BY <1>5, <1>6, <1>7

Affordable(q, all) == {n \in 1 .. all : /\ Passes(Stress(q, AfterDecrements(q, n)))
                                        /\ Sufficient(q, n, all)}

(***************************************************************************)
(* What is proposed is the least affordable number of steps, or nothing.   *)
(***************************************************************************)
LEMMA CandidateIsLeast ==
    ASSUME NEW q, Typed(q), q.step > 0, q.current > 0
    PROVE  LET all == CeilDivide(q.current, q.step)
               affordable == Affordable(q, all)
           IN  StepDownCandidate(q, Sustainable(q)).candidate =
                 IF affordable = {} THEN 0 ELSE AfterDecrements(q, Min(affordable))
<1> DEFINE all == CeilDivide(q.current, q.step)
           low == Smaller(CapacityDecrement(q, Sustainable(q)), all)
           affordable == Affordable(q, all)
           r == Least(q, low, all)
<1>1. all \in Nat /\ low \in 1 .. all /\ \A n \in 1 .. all : Sufficient(q, n, all) <=> low <= n
  BY FromCapacity
<1>2. StepDownCandidate(q, Sustainable(q)) = Stepped(q, AfterDecrements(q, StepDownSearch(q, low, all)))
  BY DEF StepDownCandidate, FoundBetween
<1> HIDE DEF all, low
<1>3. StepDownSearch(q, low, all) = r
  BY <1>1, SearchFinds
<1>4. r \in Ends(q, low, all) /\ r = Min(Ends(q, low, all)) /\ Ends(q, low, all) \subseteq Nat
  <2>1. low \in Nat /\ low <= all
    BY <1>1
  <2>2. r \in Ends(q, low, all) /\ r = Min(Ends(q, low, all))
    BY <1>1, <2>1, EndsAt
  <2>3. Ends(q, low, all) \subseteq Nat
    BY <2>1 DEF Ends
  <2> QED
    BY <2>2, <2>3
<1>5. ASSUME NEW n PROVE n \in affordable <=> n \in low .. all /\ Bears(q, n)
  <2>1. low .. all \subseteq 1 .. all
    BY <1>1
  <2>2. n \in affordable <=> n \in 1 .. all /\ Bears(q, n) /\ Sufficient(q, n, all)
    BY DEF Affordable, Bears, PassesWith
  <2>3. n \in 1 .. all => (low <= n <=> n \in low .. all)
    BY <1>1
  <2> QED
    BY <1>1, <2>1, <2>2, <2>3
<1> HIDE DEF r, affordable
<1>6. StepDownCandidate(q, Sustainable(q)).candidate
        = IF Bears(q, r) THEN AfterDecrements(q, r) ELSE 0
  BY <1>2, <1>3 DEF Stepped, Bears, PassesWith
<1>7. CASE affordable = {}
  <2>1. ~ Bears(q, r)
    BY <1>4, <1>5, <1>7 DEF Ends
  <2> QED
    BY <1>6, <1>7, <2>1 DEF affordable, all
<1>8. CASE affordable # {}
  <2>1. PICK n \in low .. all : Bears(q, n)
    BY <1>5, <1>8
  <2>2. Bears(q, all)
    BY <1>1, <2>1, MoreStepsPass
  <2>3. \A m : m \in affordable <=> m \in Ends(q, low, all)
    BY <1>1, <1>5, <2>2 DEF Ends
  <2>4. affordable = Ends(q, low, all)
    BY <2>3
  <2>5. Bears(q, r) /\ r = Min(affordable)
    BY <1>4, <1>5, <2>4
  <2> QED
    BY <1>6, <1>8, <2>5 DEF affordable, all
<1> QED
  BY <1>7, <1>8

(***************************************************************************)
(* A complete decision to step down is that of DecideDown.                 *)
(***************************************************************************)
LEMMA StepDownDecision ==
    ASSUME NEW q, NEW answer, answer = EvaluateInvestmentContributionStep(q),
           answer.status = "complete", answer.value.kind = "step_down"
    PROVE  /\ q.step > 0 /\ q.current > 0
           /\ answer.value.proposed = StepDownCandidate(q, Sustainable(q)).candidate
<1> DEFINE stress == Stress(q, q.current)
           s == Sustainable(q)
           why == WhyDown(q, stress, s)
           found == StepDownCandidate(q, s)
<1>1. answer = DecideWith(q, stress, s)
  BY DEF EvaluateInvestmentContributionStep
<1> HIDE DEF stress, s
<1>2. \A reasons : HoldFor(reasons).kind = "hold" /\ \A reason : Hold(reason).kind = "hold"
  BY DEF HoldFor, Hold
<1>3. \A v : /\ Complete(v).status = "complete" /\ Complete(v).value = v
             /\ Partial(v).status = "partial"
  BY DEF Complete, Partial
<1>4. Invalid.status = "invalid" /\ Unavailable.status = "unavailable"
  BY DEF Invalid, Unavailable
<1>5. ASSUME NEW c, NEW m PROVE ~ (Raise(c, m).status = "complete" /\ Raise(c, m).value.kind = "step_down")
  <2>1. StepUp(c).kind = "step_up"
    BY DEF StepUp
  <2> QED
    BY <1>2, <1>3, <2>1 DEF Raise
<1>6. ~ (DecideUp(q, s).status = "complete" /\ DecideUp(q, s).value.kind = "step_down")
  BY <1>2, <1>3, <1>5 DEF DecideUp, RaiseTo
<1>7. /\ ValidDecisionInputs(q, stress) /\ q.current > 0
      /\ answer = DecideDown(q, stress, s, why)
  BY <1>1, <1>2, <1>3, <1>4, <1>6 DEF DecideWith
<1> HIDE DEF why
<1>8. answer = Complete(StepDownTo(why, found))
  BY <1>3, <1>7 DEF DecideDown
<1>9. answer.value.proposed = found.candidate
  <2> HIDE DEF found
  <2> QED
    BY <1>3, <1>8 DEF StepDownTo, StepDown
<1> QED
  BY <1>7, <1>9 DEF ValidDecisionInputs, s

(***************************************************************************)
(* StepDownGivesUpTheLeast, for all amounts, schedules and projections:    *)
(* a smaller contribution passes whenever a larger one does, so the search *)
(* by halves ends where a search through all of them would.                *)
(***************************************************************************)
THEOREM StepDownIsLeast == Spec => []StepDownGivesUpTheLeast
<1>1. ASSUME NEW q \in SampledDecisions
      PROVE  LET all == CeilDivide(q.current, q.step)
                 affordable == {n \in 1 .. all :
                                  /\ Passes(Stress(q, AfterDecrements(q, n)))
                                  /\ Sustainable(q) # NoValue =>
                                       AfterDecrements(q, n) <= Sustainable(q) \/ n = all}
                 answer == EvaluateInvestmentContributionStep(q)
             IN  answer.status = "complete" /\ answer.value.kind = "step_down" =>
                   IF affordable = {}
                   THEN answer.value.proposed = 0
                   ELSE answer.value.proposed = AfterDecrements(q, Min(affordable))
  <2> DEFINE all == CeilDivide(q.current, q.step)
             affordable == {n \in 1 .. all :
                              /\ Passes(Stress(q, AfterDecrements(q, n)))
                              /\ Sustainable(q) # NoValue =>
                                   AfterDecrements(q, n) <= Sustainable(q) \/ n = all}
             answer == EvaluateInvestmentContributionStep(q)
  <2>1. Typed(q)
    BY QuestionsAssumption DEF DecisionsAssumption, Typed
  <2>2. affordable = Affordable(q, all)
    BY DEF Affordable, Sufficient
  <2> HIDE DEF affordable, answer
  <2> SUFFICES ASSUME answer.status = "complete", answer.value.kind = "step_down"
               PROVE  IF affordable = {}
                      THEN answer.value.proposed = 0
                      ELSE answer.value.proposed = AfterDecrements(q, Min(affordable))
    BY DEF affordable, answer
  <2>3. /\ q.step > 0 /\ q.current > 0
        /\ answer.value.proposed = StepDownCandidate(q, Sustainable(q)).candidate
    BY StepDownDecision DEF answer
  <2>4. StepDownCandidate(q, Sustainable(q)).candidate =
          IF affordable = {} THEN 0 ELSE AfterDecrements(q, Min(affordable))
    BY <2>1, <2>2, <2>3, CandidateIsLeast
  <2> QED
    BY <2>3, <2>4
<1>2. StepDownGivesUpTheLeast
  BY <1>1 DEF StepDownGivesUpTheLeast
<1> QED
  BY <1>2, PTL

-----------------------------------------------------------------------------
(* The dates of a day of the month                                         *)

\* The ordinal of the first day of a month, counted since the year 0.
FirstDay(k) == MonthStart(MonthOfIndex(k))

(***************************************************************************)
(* The next month starts after the days of this one.                       *)
(***************************************************************************)
LEMMA MonthsFollow ==
    ASSUME NEW k \in Int
    PROVE  FirstDay(k) \in Int /\ FirstDay(k) + 28 <= FirstDay(k + 1)
<1> DEFINE y == k \div 12
           m == (k % 12) + 1
<1>1. y \in Int /\ m \in 1 .. 12
  OBVIOUS
<1>2. \A u : \A v : MonthStart(<<u, v>>) = DaysBeforeYear(u) + DaysBeforeMonth(u, v) + 1 - 1
  BY DEF MonthStart, LocalDateOrdinal
<1>3. FirstDay(k) = DaysBeforeYear(y) + DaysBeforeMonth(y, m) + 1 - 1
  BY <1>2, Zenon DEF FirstDay, MonthOfIndex
<1>4. (k + 1) \div 12 = IF m < 12 THEN y ELSE y + 1
  OBVIOUS
<1>5. ((k + 1) % 12) + 1 = IF m < 12 THEN m + 1 ELSE 1
  OBVIOUS
<1>6. FirstDay(k + 1) = DaysBeforeYear((k + 1) \div 12)
                          + DaysBeforeMonth((k + 1) \div 12, ((k + 1) % 12) + 1) + 1 - 1
  BY <1>2, Zenon DEF FirstDay, MonthOfIndex
<1> HIDE DEF y, m
<1>7. /\ DaysBeforeYear(y) \in Int /\ DaysBeforeYear(y + 1) = DaysBeforeYear(y) + YearLength(y)
      /\ YearLength(y) \in Int
  BY <1>1, YearStep DEF YearLength
<1>8. /\ DaysBeforeMonth(y, m) \in Int /\ DaysBeforeMonth(y, m + 1) \in Int
      /\ DaysBeforeMonth(y, m) + 28 <= DaysBeforeMonth(y, m + 1)
  <2>1. m + 1 \in 1 .. 13 /\ m \in 1 .. 13
    BY <1>1
  <2>2. DaysInGregorianMonth(y, m) \in Int /\ 28 <= DaysInGregorianMonth(y, m)
    BY LengthType
  <2> QED
    BY <1>1, <2>1, <2>2, MonthStep
<1>9. DaysBeforeMonth(y, 13) = YearLength(y) /\ DaysBeforeMonth(y + 1, 1) = 0
  BY MonthTable
<1>10. CASE m < 12
  BY <1>3, <1>4, <1>5, <1>6, <1>7, <1>8, <1>10
<1>11. CASE ~ (m < 12)
  <2>1. m = 12 /\ m + 1 = 13
    BY <1>1, <1>11
  <2> QED
    BY <1>3, <1>4, <1>5, <1>6, <1>7, <1>8, <1>9, <1>11, <2>1
<1> QED
  BY <1>10, <1>11

(***************************************************************************)
(* Every later month starts at least 28 days later.                        *)
(***************************************************************************)
LEMMA MonthsApart ==
    ASSUME NEW j \in Int, NEW k \in Int, j < k
    PROVE  FirstDay(j) + 28 <= FirstDay(k)
<1> DEFINE T == {n \in Nat : FirstDay(j) + 28 <= FirstDay(j + 1 + n)}
<1>1. 0 \in T
  BY MonthsFollow
<1>2. ASSUME NEW n \in Nat, n \in T PROVE n + 1 \in T
  <2>1. j + 1 + n \in Int /\ (j + 1 + n) + 1 = j + 1 + (n + 1)
    OBVIOUS
  <2>2. FirstDay(j + 1 + n) \in Int /\ FirstDay(j + 1 + n) + 28 <= FirstDay((j + 1 + n) + 1)
    BY <2>1, MonthsFollow
  <2>3. FirstDay(j) \in Int /\ FirstDay((j + 1 + n) + 1) \in Int
    BY <2>1, MonthsFollow
  <2> QED
    BY <1>2, <2>1, <2>2, <2>3
<1>3. Nat \subseteq T
  <2> HIDE DEF T
  <2> QED
    BY <1>1, <1>2, InductionOnNat
<1>4. k - j - 1 \in T
  <2>1. k - j - 1 \in Nat
    OBVIOUS
  <2> HIDE DEF T
  <2> QED
    BY <1>3, <2>1
<1>5. j + 1 + (k - j - 1) = k
  OBVIOUS
<1> QED
  BY <1>4, <1>5

(***************************************************************************)
(* A date falls on one day of one month.                                   *)
(***************************************************************************)
LEMMA DayOfDate ==
    ASSUME NEW j \in Int, NEW k \in Int, NEW d \in 1 .. 28, NEW e \in 1 .. 28,
           FirstDay(j) + d - 1 = FirstDay(k) + e - 1
    PROVE  d = e
<1>1. FirstDay(j) \in Int /\ FirstDay(k) \in Int
  BY MonthsFollow
<1>2. ~ (j < k) /\ ~ (k < j)
  BY <1>1, MonthsApart
<1> QED
  BY <1>1, <1>2

(***************************************************************************)
(* The dates of a declaration are the days in the range that fall on its   *)
(* day, so no date belongs to two days.                                    *)
(***************************************************************************)
LEMMA DatesOfDays ==
    ASSUME NEW first, NEW last, NEW d \in 1 .. 28, NEW date \in MonthlyDates(first, last, d)
    PROVE  /\ date \in Int /\ first <= date /\ date <= last
           /\ \E k \in Int : date = FirstDay(k) + d - 1
<1> DEFINE months == MonthsBefore(MonthAt(first), AddYearMonths(MonthAt(last), 1))
<1>1. date \in {MonthStart(m) + d - 1 : m \in months} /\ first <= date /\ date <= last
  BY Zenon DEF MonthlyDates
<1>2. PICK m \in months : date = MonthStart(m) + d - 1
  BY <1>1
<1>3. PICK k \in Int : m = MonthOfIndex(k)
  BY DEF MonthsBefore
<1>4. date = FirstDay(k) + d - 1
  BY <1>2, <1>3 DEF FirstDay
<1> QED
  BY <1>1, <1>4, MonthsFollow

(***************************************************************************)
(* The same date of two declarations in two ranges.                        *)
(***************************************************************************)
LEMMA SameDay ==
    ASSUME NEW first, NEW last, NEW start, NEW end, NEW d \in 1 .. 28, NEW e \in 1 .. 28,
           NEW date \in MonthlyDates(first, last, d), date \in MonthlyDates(start, end, e)
    PROVE  d = e
<1>1. PICK j \in Int : date = FirstDay(j) + d - 1
  BY DatesOfDays
<1>2. PICK k \in Int : date = FirstDay(k) + e - 1
  BY DatesOfDays
<1> QED
  BY <1>1, <1>2, DayOfDate

-----------------------------------------------------------------------------
(* One to one                                                              *)

\* The position of an occurrence among those alike, and those after the first m.
PositionIn(U, o) == Cardinality({p \in U : p.id <= o.id})
After(U, m) == {o \in U : ~ (PositionIn(U, o) <= m)}

(***************************************************************************)
(* Occurrences alike have the positions from 1 on, each of them once.      *)
(***************************************************************************)
LEMMA PositionsCount ==
    ASSUME NEW U, IsFiniteSet(U), \A o \in U : o.id \in Int, \A o, p \in U : o.id = p.id => o = p,
           NEW f, f = [o \in U |-> PositionIn(U, o)]
    PROVE  f \in Injection(U, 1 .. Cardinality(U)) /\ f \in Surjection(U, 1 .. Cardinality(U))
<1> DEFINE c == Cardinality(U)
<1>1. c \in Nat
  BY FS_CardinalityType
<1>2. ASSUME NEW o \in U
      PROVE  PositionIn(U, o) \in 1 .. c
  <2> DEFINE B == {p \in U : p.id <= o.id}
  <2>1. IsFiniteSet(B) /\ Cardinality(B) <= c /\ Cardinality(B) \in Nat
    BY FS_Subset, FS_CardinalityType
  <2>2. o \in B
    OBVIOUS
  <2>3. Cardinality(B) # 0
    BY <2>1, <2>2, FS_EmptySet
  <2> HIDE DEF B
  <2>4. Cardinality(B) \in 1 .. c
    BY <1>1, <2>1, <2>3
  <2> QED
    BY <2>4 DEF PositionIn, B
<1>3. ASSUME NEW o \in U, NEW p \in U, o.id < p.id
      PROVE  PositionIn(U, o) # PositionIn(U, p)
  <2> DEFINE A == {q \in U : q.id <= o.id}
             B == {q \in U : q.id <= p.id}
  <2>1. IsFiniteSet(B)
    BY FS_Subset
  <2>2. A \subseteq B /\ p \in B /\ p \notin A
    BY <1>3
  <2> HIDE DEF A, B
  <2>3. Cardinality(A) # Cardinality(B)
    BY <2>1, <2>2, FS_Subset
  <2> QED
    BY <2>3 DEF PositionIn, A, B
<1>4. ASSUME NEW o \in U, NEW p \in U, f[o] = f[p] PROVE o = p
  <2>1. ~ (o.id < p.id) /\ ~ (p.id < o.id)
    BY <1>3, <1>4
  <2>2. o.id = p.id
    BY <2>1
  <2> QED
    BY <2>2
<1>5. f \in [U -> 1 .. c]
  BY <1>2
<1>6. f \in Injection(U, 1 .. c)
  BY <1>4, <1>5 DEF Injection, IsInjective
<1>7. IsFiniteSet(1 .. c) /\ Cardinality(1 .. c) = c
  BY <1>1, FS_Interval
<1> HIDE DEF c
<1>8. f \in Surjection(U, 1 .. c)
  <2>1. Cardinality(U) = Cardinality(1 .. c)
    BY <1>7 DEF c
  <2> QED
    BY <1>6, <1>7, <2>1, FS_Injection
<1> QED
  BY <1>6, <1>8 DEF c

(***************************************************************************)
(* So as many as there are more than m come after the first m.             *)
(***************************************************************************)
LEMMA AfterCounts ==
    ASSUME NEW U, IsFiniteSet(U), \A o \in U : o.id \in Int, \A o, p \in U : o.id = p.id => o = p,
           NEW m \in Nat
    PROVE  /\ IsFiniteSet(After(U, m)) /\ Cardinality(U) \in Nat
           /\ Cardinality(After(U, m)) = IF Cardinality(U) <= m THEN 0 ELSE Cardinality(U) - m
<1> DEFINE f == [o \in U |-> PositionIn(U, o)]
           c == Cardinality(U)
           K == After(U, m)
           g == [o \in K |-> f[o]]
           I == m + 1 .. c
<1>1. c \in Nat /\ IsFiniteSet(K) /\ K \subseteq U
  BY FS_CardinalityType, FS_Subset DEF After
<1>2. f \in Injection(U, 1 .. c) /\ f \in Surjection(U, 1 .. c)
  BY PositionsCount
<1>3. \A o \in U : o \in K <=> ~ (f[o] <= m)
  BY DEF After
<1> HIDE DEF f, K, c
<1>4. /\ \A o \in U : f[o] \in 1 .. c
      /\ \A o, p \in U : f[o] = f[p] => o = p
      /\ \A n \in 1 .. c : \E o \in U : f[o] = n
  BY <1>2 DEF Injection, IsInjective, Surjection
<1>5. g \in [K -> I]
  <2>1. ASSUME NEW o \in K PROVE f[o] \in I
    <3>1. o \in U /\ ~ (f[o] <= m) /\ f[o] \in 1 .. c
      BY <1>1, <1>3, <1>4
    <3> QED
      BY <1>1, <3>1
  <2> QED
    BY <2>1
<1>6. g \in Injection(K, I)
  BY <1>1, <1>4, <1>5 DEF Injection, IsInjective
<1>7. g \in Surjection(K, I)
  <2>1. ASSUME NEW n \in I PROVE \E o \in K : g[o] = n
    <3>1. n \in 1 .. c /\ ~ (n <= m)
      BY <1>1
    <3>2. PICK o \in U : f[o] = n
      BY <1>4, <3>1
    <3>3. o \in K
      BY <1>3, <3>1, <3>2
    <3> QED
      BY <3>2, <3>3
  <2> QED
    BY <1>5, <2>1 DEF Surjection
<1>8. IsFiniteSet(I) /\ Cardinality(I) = IF m + 1 > c THEN 0 ELSE c - (m + 1) + 1
  BY <1>1, FS_Interval
<1> HIDE DEF g, I
<1>9. Cardinality(K) = Cardinality(I)
  BY <1>6, <1>7, <1>8, FS_Injection
<1>10. Cardinality(K) = IF c <= m THEN 0 ELSE c - m
  BY <1>1, <1>8, <1>9
<1> QED
  BY <1>1, <1>10 DEF K, c

-----------------------------------------------------------------------------
(* Needs                                                                   *)

\* The needs of one amount and necessity on one date, and the occurrences alike.
DebitsOf(needs, date, amount, necessity) ==
  {n \in needs : n.due = date /\ n.direction = "debit" /\ n.amount = amount
                   /\ n.necessity = necessity}
OccurrencesOf(window, date, amount, necessity) ==
  {o \in window : o.date = date /\ o.amount = amount /\ o.necessity = necessity}
NeedFor(s) == [id |-> s.id, schedule |-> s.id, state |-> "scheduled", direction |-> "debit",
               due |-> s.date, necessity |-> s.necessity, amount |-> s.amount]

(***************************************************************************)
(* The needs derived for one date, amount and necessity are those of the   *)
(* occurrences alike that come after as many as were entered by hand.      *)
(***************************************************************************)
LEMMA DerivedAlike ==
    ASSUME NEW W, NEW N, NEW x, NEW a, NEW q, NEW U, U = OccurrencesOf(W, x, a, q),
           NEW M, M = DebitsOf(N, x, a, q)
    PROVE  DebitsOf(Derived(W, N), x, a, q) = {NeedFor(o) : o \in After(U, Cardinality(M))}
<1> DEFINE alike(s) == {o \in W : /\ o.date = s.date /\ o.amount = s.amount
                                  /\ o.necessity = s.necessity /\ o.id <= s.id}
           same(s) == {n \in N : SameNeed(n, s)}
           open == {o \in W : ~ (Cardinality(alike(o)) <= Cardinality(same(o)))}
<1>1. Derived(W, N) = {NeedFor(s) : s \in open}
  BY DEF Derived, NeedFor
<1>2. \A o \in U : o \in W /\ o.date = x /\ o.amount = a /\ o.necessity = q
  BY DEF OccurrencesOf
<1>3. ASSUME NEW o \in U PROVE o \in open <=> o \in After(U, Cardinality(M))
  <2>1. alike(o) = {p \in U : p.id <= o.id}
    BY <1>2 DEF OccurrencesOf
  <2>2. same(o) = M
    BY <1>2 DEF SameNeed, DebitsOf
  <2> HIDE DEF alike, same
  <2> QED
    BY <1>2, <2>1, <2>2 DEF After, PositionIn
<1>4. \A o : /\ NeedFor(o).due = o.date /\ NeedFor(o).direction = "debit"
             /\ NeedFor(o).amount = o.amount /\ NeedFor(o).necessity = o.necessity
  BY DEF NeedFor
<1>5. \A o \in open : o \in U <=> (o.date = x /\ o.amount = a /\ o.necessity = q)
  BY DEF OccurrencesOf
<1> HIDE DEF open
<1>6. DebitsOf(Derived(W, N), x, a, q) = {NeedFor(o) : o \in open \intersect U}
  BY <1>1, <1>2, <1>4, <1>5 DEF DebitsOf
<1>7. open \intersect U = After(U, Cardinality(M))
  BY <1>3 DEF After
<1> QED
  BY <1>6, <1>7

(***************************************************************************)
(* Together they are as many as the greater of what was declared and what  *)
(* was entered.                                                            *)
(***************************************************************************)
LEMMA NeedsAlike ==
    ASSUME NEW W, NEW N, IsFiniteSet(N), \A n \in N : n.schedule = NoSchedule,
           NEW x, NEW a, NEW q, NEW U, U = OccurrencesOf(W, x, a, q), IsFiniteSet(U),
           \A o \in U : o.id \in Nat \ {NoSchedule}, \A o, p \in U : o.id = p.id => o = p
    PROVE  Cardinality(DebitsOf(N \union Derived(W, N), x, a, q))
             = Larger(Cardinality(U), Cardinality(DebitsOf(N, x, a, q)))
<1> DEFINE M == DebitsOf(N, x, a, q)
           m == Cardinality(M)
           K == After(U, m)
           E == {NeedFor(o) : o \in K}
           f == [o \in K |-> NeedFor(o)]
<1>1. IsFiniteSet(M) /\ m \in Nat /\ M \subseteq N
  BY FS_Subset, FS_CardinalityType DEF DebitsOf
<1>2. DebitsOf(Derived(W, N), x, a, q) = E
  BY DerivedAlike
<1>3. \A o : NeedFor(o).id = o.id /\ NeedFor(o).schedule = o.id
  BY DEF NeedFor
<1>4. /\ IsFiniteSet(K) /\ Cardinality(U) \in Nat
      /\ Cardinality(K) = IF Cardinality(U) <= m THEN 0 ELSE Cardinality(U) - m
  <2>1. \A o \in U : o.id \in Int
    OBVIOUS
  <2> HIDE DEF m
  <2> QED
    BY <1>1, <2>1, AfterCounts
<1>5. K \subseteq U
  BY DEF After
<1> HIDE DEF M, m, K
<1>6. f \in Surjection(K, E) /\ f \in Injection(K, E)
  BY <1>3, <1>5 DEF Surjection, Injection, IsInjective
<1>7. IsFiniteSet(E) /\ Cardinality(E) = Cardinality(K)
  BY <1>4, <1>6, FS_Surjection
<1>8. M \intersect E = {}
  BY <1>1, <1>3, <1>5
<1> HIDE DEF E
<1>9. Cardinality(M \union E) = Cardinality(M) + Cardinality(E)
  <2>1. Cardinality(M \union E) = Cardinality(M) + Cardinality(E) - Cardinality(M \intersect E)
    BY <1>1, <1>7, FS_Union
  <2>2. Cardinality(M \intersect E) = 0
    BY <1>8, FS_EmptySet
  <2> QED
    BY <1>1, <1>4, <1>7, <2>1, <2>2 DEF m
<1>10. DebitsOf(N \union Derived(W, N), x, a, q) = M \union E
  BY <1>2 DEF DebitsOf, M
<1>11. Cardinality(M \union E) = m + Cardinality(K)
  BY <1>7, <1>9 DEF m
<1>12. Cardinality(M \union E) = Larger(Cardinality(U), m)
  BY <1>1, <1>4, <1>11 DEF Larger
<1> QED
  BY <1>10, <1>12, Zenon DEF m, M

-----------------------------------------------------------------------------
(* What was declared                                                       *)

\* The declarations of one day, amount and necessity.
Alike(declarations, d) ==
  {e \in declarations : e.day = d.day /\ e.amount = d.amount /\ e.necessity = d.necessity}
OnMonthlyDays(c) == \A e \in c.declarations : e.day \in 1 .. 28
OnDate(declarations, date) == {Occurrence(e, date) : e \in declarations}
\* What a run derives needs from.
WindowOf(c, today, end) == {s \in ScheduledFor(c, today, end) : Upcoming(s, today, end)}

(***************************************************************************)
(* The occurrences alike on one date are one for each declaration alike.   *)
(***************************************************************************)
LEMMA WindowAlike ==
    ASSUME NEW c, OnMonthlyDays(c),
           NEW today, NEW end \in Int, NEW d \in c.declarations,
           NEW x \in MonthlyDates(today, end - 1, d.day)
    PROVE  OccurrencesOf(WindowOf(c, today, end), x, d.amount, d.necessity)
             = OnDate(Alike(c.declarations, d), x)
<1> DEFINE month == MonthAt(today)
           whole(e) == MonthlyDates(MonthStart(month), MonthEnd(month), e.day)
           near(e) == MonthlyDates(today, end - 1, e.day)
           U == OccurrencesOf(WindowOf(c, today, end), x, d.amount, d.necessity)
<1>1. ScheduledFor(c, today, end)
        = UNION {{Occurrence(e, date) : date \in whole(e) \union near(e)} : e \in c.declarations}
  BY Zenon DEF ScheduledFor
<1>2. \A e, date : /\ Occurrence(e, date).date = date /\ Occurrence(e, date).amount = e.amount
                   /\ Occurrence(e, date).necessity = e.necessity
  BY DEF Occurrence
<1>3. x \in Int /\ today <= x /\ x <= end - 1
  <2>1. d.day \in 1 .. 28
    BY DEF OnMonthlyDays
  <2> QED
    BY <2>1, DatesOfDays
<1> HIDE DEF whole, near
<1>4. ASSUME NEW o \in U PROVE \E e \in Alike(c.declarations, d) : o = Occurrence(e, x)
  <2>1. /\ o \in ScheduledFor(c, today, end)
        /\ o.date = x /\ o.amount = d.amount /\ o.necessity = d.necessity
    BY DEF OccurrencesOf, WindowOf
  <2>2. PICK e \in c.declarations :
           \E date : date \in whole(e) \union near(e) /\ o = Occurrence(e, date)
    BY <1>1, <2>1
  <2>3. /\ x \in whole(e) \union near(e) /\ o = Occurrence(e, x)
        /\ e.amount = d.amount /\ e.necessity = d.necessity
    BY <1>2, <2>1, <2>2
  <2>4. e.day = d.day
    <3>1. x \in whole(e) \/ x \in near(e)
      BY <2>3
    <3>2. e.day \in 1 .. 28 /\ d.day \in 1 .. 28
      BY DEF OnMonthlyDays
    <3>3. CASE x \in whole(e)
      BY <3>2, <3>3, SameDay DEF whole
    <3>4. CASE x \in near(e)
      BY <3>2, <3>4, SameDay DEF near
    <3> QED
      BY <3>1, <3>3, <3>4
  <2> QED
    BY <2>3, <2>4 DEF Alike
<1>5. ASSUME NEW e \in Alike(c.declarations, d) PROVE Occurrence(e, x) \in U
  <2>1. e \in c.declarations /\ e.day = d.day /\ e.amount = d.amount /\ e.necessity = d.necessity
    BY DEF Alike
  <2>2. x \in near(e)
    BY <2>1 DEF near
  <2>3. Occurrence(e, x) \in ScheduledFor(c, today, end)
    BY <1>1, <2>1, <2>2
  <2>4. today <= x /\ x < end
    BY <1>3
  <2> QED
    BY <1>2, <2>1, <2>3, <2>4 DEF OccurrencesOf, WindowOf, Upcoming
<1> HIDE DEF U
<1> QED
  BY <1>4, <1>5 DEF U, OnDate

(***************************************************************************)
(* The needs of one date, amount and necessity are the greater of those    *)
(* declared and those entered.                                             *)
(***************************************************************************)
LEMMA DeclaredOnce ==
    ASSUME NEW c, NamedDeclarations(c.declarations), EnteredByHand(c.needs),
           OnMonthlyDays(c), NEW today \in Nat, NEW end \in Int, NEW d \in c.declarations,
           NEW x \in MonthlyDates(today, end - 1, d.day)
    PROVE  Cardinality(DebitsOf(c.needs \union Derived(WindowOf(c, today, end), c.needs),
                                x, d.amount, d.necessity))
             = Larger(Cardinality(Alike(c.declarations, d)),
                      Cardinality(DebitsOf(c.needs, x, d.amount, d.necessity)))
<1> DEFINE A == Alike(c.declarations, d)
           W == WindowOf(c, today, end)
           U == OccurrencesOf(W, x, d.amount, d.necessity)
           f == [e \in A |-> Occurrence(e, x)]
<1>1. U = {Occurrence(e, x) : e \in A}
  <2>1. OccurrencesOf(WindowOf(c, today, end), x, d.amount, d.necessity)
          = OnDate(Alike(c.declarations, d), x)
    BY WindowAlike
  <2> QED
    BY <2>1 DEF OnDate
<1>2. x \in Nat
  <2>1. x \in Int /\ today <= x
    <3>1. d.day \in 1 .. 28
      BY DEF OnMonthlyDays
    <3> QED
      BY <3>1, DatesOfDays
  <2> QED
    BY <2>1
<1>3. /\ A \subseteq c.declarations /\ IsFiniteSet(A)
      /\ \A e \in A : e.id \in 1 .. DeclarationIds - 1
      /\ \A e, g \in A : e.id = g.id => e = g
  <2>1. A \subseteq c.declarations
    BY DEF Alike
  <2>2. IsFiniteSet(A)
    BY <2>1, FS_Subset DEF NamedDeclarations
  <2> HIDE DEF A
  <2> QED
    BY <2>1, <2>2 DEF NamedDeclarations, UniqueBy
<1> HIDE DEF A, W, U
<1>4. \A e : Occurrence(e, x).id = x * 100 + e.id
  BY DEF Occurrence, DeclarationIds
<1>5. ASSUME NEW e \in A PROVE e.id \in Nat /\ e.id >= 1
  BY <1>3 DEF DeclarationIds
<1>6. \A e \in A : Occurrence(e, x).id \in Nat \ {NoSchedule}
  BY <1>2, <1>4, <1>5 DEF NoSchedule
<1>7. \A e, g \in A : Occurrence(e, x).id = Occurrence(g, x).id => e = g
  BY <1>2, <1>3, <1>4, <1>5
<1>8. f \in Surjection(A, U) /\ f \in Injection(A, U)
  BY <1>1, <1>7 DEF Surjection, Injection, IsInjective
<1>9. IsFiniteSet(U) /\ Cardinality(U) = Cardinality(A)
  BY <1>3, <1>8, FS_Surjection
<1>10. (\A o \in U : o.id \in Nat \ {NoSchedule}) /\ \A o, p \in U : o.id = p.id => o = p
  BY <1>1, <1>6, <1>7
<1>11. Cardinality(DebitsOf(c.needs \union Derived(W, c.needs), x, d.amount, d.necessity))
         = Larger(Cardinality(U), Cardinality(DebitsOf(c.needs, x, d.amount, d.necessity)))
  BY <1>9, <1>10, NeedsAlike DEF EnteredByHand, U
<1> QED
  BY <1>9, <1>11, Zenon DEF A, W

-----------------------------------------------------------------------------
(* The plan of a household                                                 *)

\* A household with a plan has what it declares well-formed.
Declares == profile # NoProfile \/ context # NoContext => StoredPlanning(context)

(***************************************************************************)
(* Every step keeps what was declared well-formed.                         *)
(***************************************************************************)
LEMMA DeclaresStep == ASSUME IInv, Declares, Next PROVE Declares'
<1>1. CASE UNCHANGED <<context, profile>>
  BY <1>1 DEF Declares
<1>2. CASE \E plan \in Plans : UpdatePlanning(plan)
  <2>1. PICK plan \in Plans : UpdatePlanning(plan)
    BY <1>2
  <2>2. DOMAIN context = ContextNames
    BY <2>1 DEF UpdatePlanning, IInv, Backed, StoredPlans, StoredContext
  <2>3. /\ context'.declared /\ context'.declarations = plan.declarations
        /\ context'.needs = plan.needs /\ context'.payDay = plan.payDay
        /\ context'.obligations = plan.obligations /\ context'.restricted = plan.restricted
    BY <2>1, <2>2 DEF UpdatePlanning, ContextNames
  <2>4. NamedDeclarations(plan.declarations) /\ EnteredByHand(plan.needs) /\ NumberedReserves(plan)
    BY PlansAssumption
  <2>5. /\ \A d \in plan.declarations : MonthlyDay(d.day)
        /\ plan.payDay = NoPayDay \/ MonthlyDay(plan.payDay)
    BY <2>1 DEF UpdatePlanning, ParsesPlan
  <2>6. StoredPlanning(context')
    BY <2>3, <2>4, <2>5 DEF StoredPlanning, NumberedReserves
  <2> QED
    BY <2>6 DEF Declares
<1>3. CASE BootstrapProfile
  <2>1. \E period : context' = InitialContext(period, Today)
    BY <1>3 DEF BootstrapProfile
  <2>2. /\ ~ context'.declared /\ context'.declarations = {} /\ context'.paySchedule.dates = {}
        /\ context'.obligations = {} /\ context'.restricted = {}
    BY <2>1 DEF InitialContext
  <2> QED
    BY <2>2, FS_EmptySet DEF Declares, StoredPlanning, NumberedReserves
<1>4. CASE \E date \in BoundaryDates : SetDecisionBoundary(date)
  <2>1. PICK date \in BoundaryDates : SetDecisionBoundary(date)
    BY <1>4
  <2>2. DOMAIN context = ContextNames /\ context # NoContext
    BY <2>1 DEF SetDecisionBoundary, IInv, Backed, StoredPlans, StoredContext
  <2>3. /\ context'.declared = context.declared /\ context'.declarations = context.declarations
        /\ context'.needs = context.needs /\ context'.payDay = context.payDay
        /\ context'.obligations = context.obligations /\ context'.restricted = context.restricted
        /\ context'.paySchedule = context.paySchedule
    BY <2>1, <2>2 DEF SetDecisionBoundary, ContextNames
  <2>4. StoredPlanning(context')
    BY <2>2, <2>3 DEF Declares, StoredPlanning, NumberedReserves
  <2> QED
    BY <2>4 DEF Declares
<1> QED
  BY <1>1, <1>2, <1>3, <1>4, StepsPlan

(***************************************************************************)
(* So it always is.                                                        *)
(***************************************************************************)
LEMMA DeclaresAlways == Spec => []Declares
<1>1. Init => Declares
  BY HouseholdsAssumption DEF Init, Declares
<1>2. IInv /\ Declares /\ [Next]_vars => Declares'
  <2> SUFFICES ASSUME IInv, Declares, [Next]_vars PROVE Declares'
    OBVIOUS
  <2>1. CASE UNCHANGED vars
    BY <2>1 DEF vars, Declares
  <2> QED
    BY <2>1, DeclaresStep
<1> QED
  BY <1>1, <1>2, HouseholdInvariant, PTL DEF Spec

-----------------------------------------------------------------------------
(* What a run needs                                                        *)

SamePlanning(c, d) == /\ d.declared = c.declared /\ d.declarations = c.declarations
                      /\ d.needs = c.needs /\ d.payDay = c.payDay
                      /\ d.obligations = c.obligations /\ d.restricted = c.restricted
                      /\ d.paySchedule = c.paySchedule

(***************************************************************************)
(* The decision boundary does not change what was declared.                *)
(***************************************************************************)
LEMMA BoundaryKeepsPlanning ==
    ASSUME NEW h, NEW t, DOMAIN h.context = ContextNames
    PROVE  LET c == ContextAtBoundary(h, t)
           IN  DOMAIN c = ContextNames /\ SamePlanning(h.context, c)
  BY DEF ContextAtBoundary, SamePlanning, ContextNames

(***************************************************************************)
(* What the bank covers does not change it.                                *)
(***************************************************************************)
LEMMA CoverageKeepsPlanning ==
    ASSUME NEW c, DOMAIN c = ContextNames, NEW coverage
    PROVE  LET d == CoveredByBank(c, coverage)
           IN  DOMAIN d = ContextNames /\ SamePlanning(c, d)
<1>1. CASE coverage = << >>
  BY <1>1 DEF CoveredByBank, SamePlanning
<1>2. CASE coverage # << >>
  <2>1. \E covers, q : CoveredByBank(c, coverage)
                         = [c EXCEPT !.historyCoverage = covers, !.quality = q]
    <3> DEFINE history == c.historyCoverage
               last == coverage[Len(coverage)]
               interval == Period(UtcStart(last.from), UtcStart(last.through + 1))
               common == Period(Larger(history.start, interval.start),
                                Smaller(history.end, interval.end))
               whole == interval.start <= history.start /\ history.end <= interval.end
               covers == IF ValidPeriod(common) THEN common ELSE c.historyCoverage
               d1 == [c EXCEPT !.historyCoverage = covers]
               class == IF whole THEN d1.quality.classification ELSE "partial"
               q == [d1.quality EXCEPT !.classification = class]
    <3>1. CoveredByBank(c, coverage) = [c EXCEPT !.historyCoverage = covers,
                                                 !.quality.classification = IF whole THEN @ ELSE "partial"]
      BY <1>2, Zenon DEF CoveredByBank
    <3> HIDE DEF covers, whole
    <3>2. CoveredByBank(c, coverage) = [c EXCEPT !.historyCoverage = covers, !.quality = q]
      BY <3>1, Zenon
    <3> QED
      BY <3>2
  <2> QED
    BY <2>1 DEF SamePlanning, ContextNames
<1> QED
  BY <1>1, <1>2

(***************************************************************************)
(* What the evidence says does not change it.                              *)
(***************************************************************************)
LEMMA EvidenceKeepsPlanning ==
    ASSUME NEW h, NEW f, NEW c, DOMAIN c = ContextNames, NEW t, NEW months
    PROVE  LET d == EvidenceOver(h, f, c, t, months)
           IN  DOMAIN d = ContextNames /\ SamePlanning(c, d)
<1>1. \E coverage, q : EvidenceOver(h, f, c, t, months)
                         = [c EXCEPT !.monthCoverage = coverage, !.quality = q]
  <2> DEFINE coverage == IF HasBankEvidence(h.bank)
                         THEN {MonthEvidence(h, f, c, m, t) : m \in months}
                         ELSE c.monthCoverage
             liquid == LiquidBalanceQuality(h, f, t)
             reservations == ReservationQuality(f, c, t)
             classified == ClassificationQuality(h, f, c, t, months)
             e1 == [c EXCEPT !.monthCoverage = coverage]
             e2 == [e1 EXCEPT !.quality = [e1.quality EXCEPT !.liquidBalance = liquid]]
             e3 == [e2 EXCEPT !.quality = [e2.quality EXCEPT !.reservations = reservations]]
             e4 == [e3 EXCEPT !.quality = [e3.quality EXCEPT !.classification = classified]]
  <2>1. EvidenceOver(h, f, c, t, months) = e4
    BY Zenon DEF EvidenceOver
  <2> HIDE DEF coverage, liquid, reservations, classified
  <2>2. DOMAIN e1 = ContextNames
    OBVIOUS
  <2>3. \A q, r, s : [[[e1 EXCEPT !.quality = q] EXCEPT !.quality = r] EXCEPT !.quality = s]
                       = [e1 EXCEPT !.quality = s]
    BY <2>2
  <2>4. \E s : e4 = [e1 EXCEPT !.quality = s]
    BY <2>3, Zenon
  <2> QED
    BY <2>1, <2>4
<1> QED
  BY <1>1 DEF SamePlanning, ContextNames

(***************************************************************************)
(* What a run needs was declared on days and by hand, and the window of    *)
(* the run ends on a date.                                                 *)
(***************************************************************************)
LEMMA WindowEnds ==
    ASSUME NEW c, c.declared, c.payDay = NoPayDay \/ c.payDay \in 1 .. 28, NEW today \in Nat
    PROVE  WindowEnd(NextIncomeFor(c, today, PayScheduleFor(c, today)), today) \in Int
<1> DEFINE schedule == PayScheduleFor(c, today)
<1>1. today + UnknownIncomeHorizonDays \in Int
  BY DEF UnknownIncomeHorizonDays
<1>2. CASE schedule.dates = {}
  <2>1. NextIncomeFor(c, today, schedule) = NoDate
    BY <1>2 DEF NextIncomeFor
  <2> QED
    BY <1>1, <2>1 DEF WindowEnd
<1>3. CASE schedule.dates # {}
  <2>1. c.payDay \in 1 .. 28
    BY <1>3 DEF PayScheduleFor, NoPays
  <2>2. schedule.dates = MonthlyDates(today + 1, today + UnknownIncomeHorizonDays, c.payDay)
    BY <1>3 DEF PayScheduleFor, NoPays, PaysThrough
  <2>3. NextIncomeFor(c, today, schedule) = Min(schedule.dates)
    BY <1>3 DEF NextIncomeFor
  <2> HIDE DEF schedule
  <2>4. schedule.dates \subseteq Nat
    <3> SUFFICES ASSUME NEW date \in schedule.dates PROVE date \in Nat
      OBVIOUS
    <3>1. date \in Int /\ today + 1 <= date
      BY <2>1, <2>2, DatesOfDays
    <3> QED
      BY <3>1
  <2>5. Min(schedule.dates) \in Nat
    BY <1>3, <2>4, MinIsNat
  <2> QED
    BY <1>1, <2>3, <2>5 DEF WindowEnd, schedule
<1> QED
  BY <1>2, <1>3

(***************************************************************************)
(* What the day of a run derives from what was declared.                   *)
(***************************************************************************)
LEMMA RunNeeds ==
    ASSUME NEW ctx, DOMAIN ctx = ContextNames, ctx.declared, NEW today,
           NEW end, end = WindowEnd(NextIncomeFor(ctx, today, PayScheduleFor(ctx, today)), today)
    PROVE  /\ end = WindowEnd(RunContext(ctx, today).nextIncome, today)
           /\ \E c : /\ c.declarations = ctx.declarations /\ c.needs = ctx.needs
                     /\ RunContext(ctx, today).needs
                          = c.needs \union Derived(WindowOf(c, today, end), c.needs)
<1> DEFINE schedule == PayScheduleFor(ctx, today)
           income == NextIncomeFor(ctx, today, schedule)
           planned == [ctx EXCEPT !.nextIncome = income, !.paySchedule = schedule]
           scheduled == ScheduledFor(planned, today, end)
           window == {s \in scheduled : Upcoming(s, today, end)}
           more == Derived(window, planned.needs)
<1>1. RunContext(ctx, today) = WithOccurrences(planned, today, WindowEnd(income, today))
  BY Zenon DEF RunContext, PlannedFor, Planned
<1>2. end = WindowEnd(income, today)
  OBVIOUS
<1> HIDE DEF schedule, income
<1>3. /\ DOMAIN planned = ContextNames /\ planned.declared /\ planned.nextIncome = income
      /\ planned.declarations = ctx.declarations /\ planned.needs = ctx.needs
  BY DEF ContextNames
<1> HIDE DEF planned
<1>4. WithOccurrences(planned, today, end)
        = [planned EXCEPT !.scheduled = scheduled, !.needs = @ \union more]
  BY <1>3, Zenon DEF WithOccurrences, WithDeclared
<1>5. window = WindowOf(planned, today, end)
  BY Zenon DEF WindowOf
<1>6. more = Derived(WindowOf(planned, today, end), planned.needs)
  BY <1>5, Zenon
<1> HIDE DEF scheduled, more
<1>7. /\ RunContext(ctx, today).nextIncome = income
      /\ RunContext(ctx, today).needs = planned.needs \union more
  BY <1>1, <1>2, <1>3, <1>4 DEF ContextNames
<1>8. end = WindowEnd(RunContext(ctx, today).nextIncome, today)
  BY <1>2, <1>7
<1> QED
  BY <1>3, <1>6, <1>7, <1>8

(***************************************************************************)
(* The context of a run is that of its day, with what was declared.        *)
(***************************************************************************)
LEMMA CurrentPlans ==
    ASSUME NEW h, NEW t, DOMAIN h.context = ContextNames
    PROVE  \E e : /\ CurrentOf(h, t) = RunContext(e, DateOf(t))
                  /\ DOMAIN e = ContextNames /\ SamePlanning(h.context, e)
<1> DEFINE base == FactsOf(h)
           bounded == ContextAtBoundary(h, t)
           covered == CoveredOf(h, t)
           months == EvidenceMonthsOf(covered, DateOf(t))
           e == EvidenceOver(h, base, covered, t, months)
<1>1. CurrentOf(h, t) = RunContext(e, DateOf(t))
  <2>1. Assembled(h, t, DateOf(t)) = AssembledFrom(h, t, DateOf(t), base, covered)
    BY Zenon DEF Assembled, CoveredOf
  <2>2. e = EvidenceBacked(h, base, covered, t, DateOf(t))
    BY Zenon DEF EvidenceBacked
  <2> HIDE DEF base, covered, e
  <2>3. AssembledFrom(h, t, DateOf(t), base, covered).current
          = RunContext(EvidenceBacked(h, base, covered, t, DateOf(t)), DateOf(t))
    BY DEF AssembledFrom
  <2> QED
    BY <2>1, <2>2, <2>3, Zenon DEF CurrentOf
<1>2. DOMAIN bounded = ContextNames /\ SamePlanning(h.context, bounded)
  BY BoundaryKeepsPlanning
<1>3. covered = CoveredByBank(bounded, h.bank.coverage)
  BY DEF CoveredOf
<1> HIDE DEF base, bounded, covered, months
<1>4. DOMAIN covered = ContextNames /\ SamePlanning(bounded, covered)
  BY <1>2, <1>3, CoverageKeepsPlanning
<1>5. DOMAIN e = ContextNames /\ SamePlanning(covered, e)
  BY <1>4, EvidenceKeepsPlanning
<1> HIDE DEF e
<1>6. SamePlanning(h.context, e)
  BY <1>2, <1>4, <1>5 DEF SamePlanning
<1> QED
  BY <1>1, <1>5, <1>6

(***************************************************************************)
(* What a run needs of one amount and necessity on one date that was       *)
(* declared is the greater of what was declared and what was entered.      *)
(***************************************************************************)
LEMMA NeedsFollow == ASSUME IInv, Declares PROVE NoNeedCountsTwice
<1> DEFINE run == report.planned
           end == IF run.nextIncome = NoDate THEN Today + UnknownIncomeHorizonDays ELSE run.nextIncome
           asked(needs, date, d) == Cardinality({n \in needs : n.due = date /\ n.direction = "debit"
                                                               /\ n.amount = d.amount
                                                               /\ n.necessity = d.necessity})
           alike(d) == {e \in context.declarations : e.day = d.day /\ e.amount = d.amount
                                                     /\ e.necessity = d.necessity}
<1> SUFFICES ASSUME report # NotEvaluated, ~ report.throws,
                    NEW d \in context.declarations, NEW date \in MonthlyDates(Today, end - 1, d.day)
             PROVE  asked(run.needs, date, d)
                      = Larger(Cardinality(alike(d)), asked(context.needs, date, d))
  BY Zenon DEF NoNeedCountsTwice
<1>1. /\ profile # NoProfile /\ report.planned = CurrentOf(Household, now)
      /\ Household.context = context
  <2>1. report = EvaluationOf(Household, now)
    BY DEF IInv, Latest
  <2>2. CanRun(Household, now) /\ report.planned = CurrentOf(Household, now)
    BY <2>1, ReportSays
  <2>3. Household.profile = profile /\ Household.context = context
    BY DEF Household
  <2> QED
    BY <2>2, <2>3 DEF CanRun
<1>2. DOMAIN context = ContextNames /\ StoredPlanning(context)
  BY <1>1 DEF IInv, Backed, StoredPlans, StoredContext, Declares
<1>3. /\ context.declared
      /\ NamedDeclarations(context.declarations) /\ EnteredByHand(context.needs)
      /\ OnMonthlyDays(context) /\ (context.payDay = NoPayDay \/ context.payDay \in 1 .. 28)
  BY <1>2 DEF StoredPlanning, OnMonthlyDays, MonthlyDay
<1>4. Today \in Nat /\ Today = DateOf(now)
  BY TodayIsNat DEF IInv, Consistent, Today
<1>5. PICK e : /\ run = RunContext(e, Today)
               /\ DOMAIN e = ContextNames /\ SamePlanning(context, e)
  BY <1>1, <1>2, <1>4, CurrentPlans
<1>6. /\ e.declared /\ e.declarations = context.declarations /\ e.needs = context.needs
      /\ e.payDay = context.payDay
  BY <1>3, <1>5 DEF SamePlanning
<1> DEFINE last == WindowEnd(NextIncomeFor(e, Today, PayScheduleFor(e, Today)), Today)
<1>7. last \in Int
  BY <1>3, <1>4, <1>6, WindowEnds
<1>8. /\ last = WindowEnd(RunContext(e, Today).nextIncome, Today)
      /\ \E c : /\ c.declarations = e.declarations /\ c.needs = e.needs
                /\ RunContext(e, Today).needs
                     = c.needs \union Derived(WindowOf(c, Today, last), c.needs)
  BY <1>5, <1>6, RunNeeds
<1> HIDE DEF run, last
<1>9. end = last
  BY <1>5, <1>8 DEF WindowEnd
<1>10. PICK c : /\ c.declarations = context.declarations /\ c.needs = context.needs
                /\ run.needs = c.needs \union Derived(WindowOf(c, Today, last), c.needs)
  BY <1>5, <1>6, <1>8
<1>11. /\ NamedDeclarations(c.declarations) /\ EnteredByHand(c.needs)
       /\ OnMonthlyDays(c) /\ d \in c.declarations
  BY <1>3, <1>10 DEF OnMonthlyDays
<1>12. date \in MonthlyDates(Today, last - 1, d.day)
  BY <1>9
<1> HIDE DEF end
<1>13. Cardinality(DebitsOf(run.needs, date, d.amount, d.necessity))
         = Larger(Cardinality(Alike(c.declarations, d)),
                  Cardinality(DebitsOf(c.needs, date, d.amount, d.necessity)))
  <2>1. Cardinality(DebitsOf(c.needs \union Derived(WindowOf(c, Today, last), c.needs),
                             date, d.amount, d.necessity))
          = Larger(Cardinality(Alike(c.declarations, d)),
                   Cardinality(DebitsOf(c.needs, date, d.amount, d.necessity)))
    BY <1>4, <1>7, <1>11, <1>12, DeclaredOnce
  <2> QED
    BY <1>10, <2>1, Zenon
<1>14. asked(run.needs, date, d) = Cardinality(DebitsOf(run.needs, date, d.amount, d.necessity))
  BY Zenon DEF DebitsOf
<1>15. asked(context.needs, date, d)
         = Cardinality(DebitsOf(context.needs, date, d.amount, d.necessity))
  BY Zenon DEF DebitsOf
<1>16. Cardinality(alike(d)) = Cardinality(Alike(context.declarations, d))
  BY Zenon DEF Alike
<1> QED
  BY <1>10, <1>13, <1>14, <1>15, <1>16, Zenon

(***************************************************************************)
(* A debit that was declared and also entered by hand is needed once, and  *)
(* two equal debits are needed twice.                                      *)
(***************************************************************************)
THEOREM NeedsCountOnce == Spec => []NoNeedCountsTwice
  BY HouseholdInvariant, DeclaresAlways, NeedsFollow, PTL

-----------------------------------------------------------------------------
(* What the amounts of a plan fulfil                                       *)

FulfilledSum(S) == SumOver(S, FulfillmentDelta)

(***************************************************************************)
(* What events fulfil adds up to an integer as well.                       *)
(***************************************************************************)
LEMMA SumOfFulfilled ==
    ASSUME NEW S, IsFiniteSet(S), \A e \in S : e.amount \in Int
    PROVE  /\ DeltasOf(S) \in [S -> Int] /\ FulfilledSum(S) = TotalOf(DeltasOf(S), S)
           /\ FulfilledSum(S) \in Int
<1> DEFINE F(g) == [s \in SUBSET S |-> IF s = {} THEN 0
                                       ELSE FulfillmentDelta(Chosen(s)) + g[s \ {Chosen(s)}]]
           G(g) == [s \in SUBSET S |-> IF s = {} THEN 0
                                       ELSE DeltasOf(S)[Chosen(s)] + g[s \ {Chosen(s)}]]
           f == CHOOSE g : g = [s \in SUBSET S |->
                                  IF s = {} THEN 0
                                  ELSE FulfillmentDelta(Chosen(s)) + g[s \ {Chosen(s)}]]
           h == CHOOSE g : g = [s \in SUBSET S |->
                                  IF s = {} THEN 0
                                  ELSE DeltasOf(S)[Chosen(s)] + g[s \ {Chosen(s)}]]
<1>1. FulfilledSum(S) = f[S]
  BY DEF FulfilledSum, SumOver, MapThenSumSet, MapThenFoldSet, Chosen
<1>2. TotalOf(DeltasOf(S), S) = h[S]
  BY DEF TotalOf, MapThenSumSet, MapThenFoldSet, Chosen
<1>3. ASSUME NEW g PROVE F(g) = G(g)
  <2>1. \A s \in SUBSET S : s # {} => DeltasOf(S)[Chosen(s)] = FulfillmentDelta(Chosen(s))
    BY ChosenIn DEF DeltasOf
  <2>2. \A s \in SUBSET S : F(g)[s] = G(g)[s]
    BY <2>1
  <2> QED
    BY <2>2
<1>4. \A g : (g = F(g)) <=> (g = G(g))
  BY <1>3
<1>5. f = h
  BY <1>4
<1> HIDE DEF f, h
<1>6. ASSUME NEW e \in S PROVE FulfillmentDelta(e) \in Int
  BY DEF FulfillmentDelta
<1>7. DeltasOf(S) \in [S -> Int]
  BY <1>6 DEF DeltasOf
<1>8. TotalOf(DeltasOf(S), S) \in Int
  BY <1>7, TotalType
<1> QED
  BY <1>1, <1>2, <1>5, <1>7, <1>8

(***************************************************************************)
(* An allocation adds its amount to what is reserved and to what is        *)
(* fulfilled.                                                              *)
(***************************************************************************)
LEMMA OneMoreEvent ==
    ASSUME NEW S, IsFiniteSet(S), \A e \in S : e.amount \in Int,
           NEW a, a \notin S, a.kind = "allocation", a.amount \in Int
    PROVE  /\ DeltaSum(S \cup {a}) = DeltaSum(S) + a.amount
           /\ FulfilledSum(S \cup {a}) = FulfilledSum(S) + a.amount
<1> DEFINE R == S \cup {a}
<1>1. IsFiniteSet(R) /\ \A e \in R : e.amount \in Int
  BY FS_AddElement
<1>2. /\ DeltasIn(S) \in [S -> Int] /\ DeltaSum(S) = TotalOf(DeltasIn(S), S)
      /\ DeltasOf(S) \in [S -> Int] /\ FulfilledSum(S) = TotalOf(DeltasOf(S), S)
  BY SumOfDeltas, SumOfFulfilled
<1>3. /\ DeltasIn(R) \in [R -> Int] /\ DeltaSum(R) = TotalOf(DeltasIn(R), R)
      /\ DeltasOf(R) \in [R -> Int] /\ FulfilledSum(R) = TotalOf(DeltasOf(R), R)
  <2> HIDE DEF R
  <2> QED
    BY <1>1, SumOfDeltas, SumOfFulfilled
<1>4. /\ \A e \in S : DeltasIn(R)[e] = DeltasIn(S)[e]
      /\ \A e \in S : DeltasOf(R)[e] = DeltasOf(S)[e]
      /\ DeltasIn(R)[a] = a.amount /\ DeltasOf(R)[a] = a.amount
  BY DEF DeltasIn, DeltasOf, AllocationDelta, FulfillmentDelta
<1>5. TotalOf(DeltasIn(R), R) = TotalOf(DeltasIn(S), S) + a.amount
  <2> DEFINE f == DeltasIn(S)
             e == DeltasIn(R)
  <2>1. f \in [S -> Int] /\ e \in [S \cup {a} -> Int] /\ (\A y \in S : e[y] = f[y]) /\ e[a] = a.amount
    BY <1>2, <1>3, <1>4
  <2> HIDE DEF e, f
  <2>2. TotalOf(e, S \cup {a}) = TotalOf(f, S) + e[a]
    BY <2>1, TotalAdds
  <2> QED
    BY <2>1, <2>2 DEF e, f
<1>6. TotalOf(DeltasOf(R), R) = TotalOf(DeltasOf(S), S) + a.amount
  <2> DEFINE f == DeltasOf(S)
             e == DeltasOf(R)
  <2>1. f \in [S -> Int] /\ e \in [S \cup {a} -> Int] /\ (\A y \in S : e[y] = f[y]) /\ e[a] = a.amount
    BY <1>2, <1>3, <1>4
  <2> HIDE DEF e, f
  <2>2. TotalOf(e, S \cup {a}) = TotalOf(f, S) + e[a]
    BY <2>1, TotalAdds
  <2> QED
    BY <2>1, <2>2 DEF e, f
<1> QED
  BY <1>2, <1>3, <1>5, <1>6

(***************************************************************************)
(* The progress of a fund is one of integers.                              *)
(***************************************************************************)
LEMMA ProgressIsNumbers ==
    ASSUME NEW fund, fund.target \in Nat, NEW E, IsFiniteSet(E), \A e \in E : e.amount \in Int
    PROVE  LET p == ProgressFrom(fund, E)
           IN  /\ p.reserved = DeltaSum(E) /\ p.fulfilled = FulfilledSum(E)
               /\ p.remaining = AtLeastZero(fund.target - FulfilledSum(E))
               /\ p.reserved \in Int /\ p.fulfilled \in Int /\ p.remaining \in Nat
<1>1. DeltaSum(E) \in Int /\ FulfilledSum(E) \in Int
  BY SumOfDeltas, SumOfFulfilled
<1> DEFINE p == ProgressFrom(fund, E)
<1>2. /\ p.reserved = DeltaSum(E) /\ p.fulfilled = FulfilledSum(E)
      /\ p.remaining = AtLeastZero(fund.target - FulfilledSum(E))
  BY DEF ProgressFrom, ProgressOf, DeltaSum, FulfilledSum
<1> HIDE DEF p
<1>3. p.remaining \in Nat
  BY <1>1, <1>2 DEF AtLeastZero
<1> QED
  BY <1>1, <1>2, <1>3 DEF p

(***************************************************************************)
(* What is reserved of what is owed is no longer owed.                     *)
(***************************************************************************)
LEMMA OwedLess ==
    ASSUME NEW required \in Int, NEW progress \in Int, NEW target \in Int, NEW fulfilled \in Int,
           NEW x \in Nat,
           NEW owed, owed = Smaller(AtLeastZero(required - progress), AtLeastZero(target - fulfilled)),
           x <= owed
    PROVE  Smaller(AtLeastZero(required - (progress + x)), AtLeastZero(target - (fulfilled + x)))
             = owed - x
  BY DEF Smaller, AtLeastZero
(***************************************************************************)
(* A schedule whose numbers are numbers, and the same schedule with some   *)
(* amounts reserved at its instant, at most one for each fund.             *)
(***************************************************************************)
NumberedSchedule(s) ==
  /\ s.asOf \in Int
  /\ IsFiniteSet(s.allocations) /\ \A e \in s.allocations : e.amount \in Int
  /\ \A fund \in s.funds : fund.target \in Nat /\ fund.createdAt \in Int
  /\ IsFiniteSet(s.paySchedule.dates)
Reserves(s, u, N) ==
  /\ u.funds = s.funds /\ u.asOf = s.asOf /\ u.cycles = s.cycles
  /\ u.paySchedule = s.paySchedule /\ u.today = s.today
  /\ u.allocations = s.allocations \cup N
  /\ \A a \in N : /\ a \notin s.allocations /\ a.kind = "allocation" /\ a.at = s.asOf
                  /\ a.amount \in Nat
  /\ \A a, b \in N : a.fund = b.fund => a = b
Begun(cycle, instant) == cycle # NoCycle => cycle.start \in Int /\ cycle.start <= instant

(***************************************************************************)
(* The events of a fund until an instant.                                  *)
(***************************************************************************)
EventsNow(s, fund) == {e \in s.allocations : e.fund = fund.id /\ e.at <= s.asOf}
EventsBefore(s, fund, instant) == {e \in s.allocations : e.fund = fund.id /\ e.at < instant}

(***************************************************************************)
(* What the current cycle owes a fund, from the progress now and before.   *)
(***************************************************************************)
LEMMA OwedAs ==
    ASSUME NEW s, NumberedSchedule(s), NEW fund \in Existing(s), NEW cycle, Begun(cycle, s.asOf)
    PROVE  LET d == DueOf(ScheduleItem(s, fund, cycle))
               E == EventsNow(s, fund)
               B == EventsBefore(s, fund, Larger(fund.createdAt, cycle.start))
               owes == InUse(fund) /\ cycle # NoCycle
               required == CeilDivide(AtLeastZero(fund.target - FulfilledSum(B)),
                                      1 + Cardinality(FundingDates(s, fund)))
           IN  /\ d.fund = fund.id
               /\ d.reserved = DeltaSum(E) /\ d.protected = d.reserved + d.outstanding
               /\ d.outstanding =
                    IF owes THEN Smaller(AtLeastZero(required - (FulfilledSum(E) - FulfilledSum(B))),
                                         AtLeastZero(fund.target - FulfilledSum(E)))
                            ELSE 0
               /\ DeltaSum(E) \in Int /\ FulfilledSum(E) \in Int /\ FulfilledSum(B) \in Int
               /\ required \in Int /\ d.outstanding \in Nat
<1> DEFINE d == DueOf(ScheduleItem(s, fund, cycle))
           E == EventsNow(s, fund)
           instant == Larger(fund.createdAt, cycle.start)
           B == EventsBefore(s, fund, instant)
           owes == InUse(fund) /\ cycle # NoCycle
           later == Cardinality(FundingDates(s, fund))
           required == CeilDivide(AtLeastZero(fund.target - FulfilledSum(B)), 1 + later)
           current == ProgressFrom(fund, E)
           past == ProgressFrom(fund, B)
<1>1. /\ IsFiniteSet(E) /\ IsFiniteSet(B)
      /\ (\A e \in E : e.amount \in Int) /\ (\A e \in B : e.amount \in Int)
      /\ fund.target \in Nat
  BY FS_Subset DEF EventsNow, EventsBefore, NumberedSchedule, Existing
<1>2. later \in Nat
  BY FS_Subset, FS_CardinalityType DEF FundingDates, NumberedSchedule
<1>3. ProgressNow(s, fund) = current /\ ProgressBefore(s, fund, instant) = past
  BY Zenon DEF ProgressNow, ProgressBefore, EventsNow, EventsBefore
<1> HIDE DEF E, B, later, instant
<1>4. /\ current.reserved = DeltaSum(E) /\ current.fulfilled = FulfilledSum(E)
      /\ current.remaining = AtLeastZero(fund.target - FulfilledSum(E))
      /\ past.fulfilled = FulfilledSum(B)
      /\ past.remaining = AtLeastZero(fund.target - FulfilledSum(B))
      /\ DeltaSum(E) \in Int /\ FulfilledSum(E) \in Int /\ FulfilledSum(B) \in Int
      /\ past.remaining \in Nat
  BY <1>1, ProgressIsNumbers
<1> HIDE DEF current, past
<1>5. required \in Int
  <2>1. 1 + later \in Nat \ {0} /\ AtLeastZero(fund.target - FulfilledSum(B)) \in Int
    BY <1>2, <1>4
  <2> QED
    BY <2>1, CeilLeast
<1>6. /\ d.fund = fund.id /\ d.reserved = current.reserved /\ d.protected = d.reserved + d.outstanding
      /\ d.outstanding = IF owes THEN Requirement(s, fund, cycle).outstanding ELSE 0
  <2>1. /\ ScheduleItem(s, fund, cycle).fund = fund.id
        /\ ScheduleItem(s, fund, cycle).progress = current
        /\ ScheduleItem(s, fund, cycle).requirement
             = IF owes THEN Requirement(s, fund, cycle) ELSE NoRequirement
    BY <1>3 DEF ScheduleItem, ItemOf
  <2> QED
    BY <2>1 DEF DueOf, NoRequirement
<1>7. owes => Requirement(s, fund, cycle).outstanding
                = Smaller(AtLeastZero(required - (FulfilledSum(E) - FulfilledSum(B))),
                          AtLeastZero(fund.target - FulfilledSum(E)))
  <2>1. Requirement(s, fund, cycle) = RequirementFrom(instant, later, past, current)
    BY <1>3, Zenon DEF Requirement, RequirementSince, instant, later
  <2> QED
    BY <1>4, <2>1 DEF RequirementFrom, Owed
<1> HIDE DEF d, required, owes
<1>8. d.outstanding \in Nat
  <2>1. CASE owes
    BY <1>1, <1>4, <1>5, <1>6, <1>7, <2>1 DEF Smaller, AtLeastZero
  <2> QED
    BY <1>6, <2>1
<1> QED
  BY <1>4, <1>5, <1>6, <1>7, <1>8 DEF d, E, B, owes, required, later, instant

(***************************************************************************)
(* What is reserved of what a cycle owes a fund leaves what is protected   *)
(* for it.                                                                 *)
(***************************************************************************)
LEMMA ItemSpares ==
    ASSUME NEW s, NEW u, NEW N, NumberedSchedule(s), Reserves(s, u, N), IsFiniteSet(N),
           NEW fund \in Existing(s), NEW cycle, Begun(cycle, s.asOf),
           NEW d, d = DueOf(ScheduleItem(s, fund, cycle)),
           NEW e, e = DueOf(ScheduleItem(u, fund, cycle)),
           \A a \in N : a.fund = fund.id => a.amount <= d.outstanding
    PROVE  /\ d.fund = fund.id /\ e.fund = fund.id
           /\ d.reserved \in Int /\ d.outstanding \in Int /\ e.reserved \in Int /\ e.outstanding \in Int
           /\ d.protected = d.reserved + d.outstanding
           /\ e.protected = d.protected
<1> DEFINE instant == Larger(fund.createdAt, cycle.start)
           E == EventsNow(s, fund)
           B == EventsBefore(s, fund, instant)
           F == EventsNow(u, fund)
           C == EventsBefore(u, fund, instant)
           owes == InUse(fund) /\ cycle # NoCycle
           R == CeilDivide(AtLeastZero(fund.target - FulfilledSum(B)),
                                      1 + Cardinality(FundingDates(s, fund)))
<1>1. NumberedSchedule(u) /\ fund \in Existing(u) /\ u.asOf = s.asOf
  <2>1. IsFiniteSet(u.allocations)
    <3>1. IsFiniteSet(s.allocations) /\ u.allocations = s.allocations \cup N
      BY DEF NumberedSchedule, Reserves
    <3> QED
      BY <3>1, FS_Union
  <2>2. \A o \in u.allocations : o.amount \in Int
    BY DEF NumberedSchedule, Reserves
  <2>3. u.asOf = s.asOf /\ u.funds = s.funds /\ u.paySchedule = s.paySchedule
    BY DEF Reserves
  <2> QED
    BY <2>1, <2>2, <2>3 DEF NumberedSchedule, Existing
<1>2. FundingDates(u, fund) = FundingDates(s, fund)
  BY DEF FundingDates, Reserves
<1>3. /\ d.fund = fund.id
      /\ d.reserved = DeltaSum(E) /\ d.protected = d.reserved + d.outstanding
      /\ d.outstanding =
            IF owes THEN Smaller(AtLeastZero(R - (FulfilledSum(E) - FulfilledSum(B))),
                                 AtLeastZero(fund.target - FulfilledSum(E)))
                    ELSE 0
      /\ DeltaSum(E) \in Int /\ FulfilledSum(E) \in Int /\ FulfilledSum(B) \in Int
      /\ R \in Int /\ d.outstanding \in Nat
  <2> HIDE DEF E, B, R, owes, instant
  <2> QED
    BY OwedAs DEF E, B, R, owes, instant
<1>4. owes => C = B
  <2> SUFFICES ASSUME cycle # NoCycle PROVE C = B
    OBVIOUS
  <2>1. instant \in Int /\ instant <= s.asOf /\ s.asOf \in Int
    BY DEF Larger, Begun, Existing, NumberedSchedule
  <2> HIDE DEF instant
  <2>2. \A a \in N : ~ (a.at < instant)
    BY <2>1 DEF Reserves
  <2> QED
    BY <2>2 DEF Reserves, EventsBefore
<1>5. /\ e.fund = fund.id
      /\ e.reserved = DeltaSum(F) /\ e.protected = e.reserved + e.outstanding
      /\ e.outstanding =
            IF owes THEN Smaller(AtLeastZero(R - (FulfilledSum(F) - FulfilledSum(B))),
                                 AtLeastZero(fund.target - FulfilledSum(F)))
                    ELSE 0
      /\ DeltaSum(F) \in Int /\ FulfilledSum(F) \in Int /\ e.outstanding \in Nat
  <2> DEFINE Q == CeilDivide(AtLeastZero(fund.target - FulfilledSum(C)),
                                      1 + Cardinality(FundingDates(u, fund)))
  <2>1. /\ e.fund = fund.id
        /\ e.reserved = DeltaSum(F) /\ e.protected = e.reserved + e.outstanding
        /\ e.outstanding =
              IF owes THEN Smaller(AtLeastZero(Q - (FulfilledSum(F) - FulfilledSum(C))),
                                   AtLeastZero(fund.target - FulfilledSum(F)))
                      ELSE 0
        /\ DeltaSum(F) \in Int /\ FulfilledSum(F) \in Int /\ e.outstanding \in Nat
    <3> HIDE DEF F, C, Q, owes, instant
    <3>1. Begun(cycle, u.asOf)
      BY <1>1
    <3> QED
      BY <1>1, <3>1, OwedAs DEF F, C, Q, owes, instant
  <2>2. owes => Q = R
    BY <1>2, <1>4
  <2> HIDE DEF F, C, B, Q, R, owes, instant
  <2> QED
    BY <1>4, <2>1, <2>2
<1> HIDE DEF R
<1>6. CASE \E a \in N : a.fund = fund.id
  <2>1. PICK a \in N : a.fund = fund.id
    BY <1>6
  <2>2. a \notin E /\ a.kind = "allocation" /\ a.amount \in Nat
    BY DEF Reserves, EventsNow
  <2>3. F = E \cup {a}
    <3>1. a.at <= u.asOf
      BY DEF Reserves, NumberedSchedule
    <3> QED
      BY <2>1, <3>1 DEF Reserves, EventsNow
  <2>4. IsFiniteSet(E) /\ \A o \in E : o.amount \in Int
    BY FS_Subset DEF EventsNow, NumberedSchedule
  <2>5. a.amount <= d.outstanding
    BY <2>1
  <2> HIDE DEF E, B, C, F, owes
  <2>6. DeltaSum(F) = DeltaSum(E) + a.amount /\ FulfilledSum(F) = FulfilledSum(E) + a.amount
    BY <2>2, <2>3, <2>4, OneMoreEvent
  <2>7. e.outstanding = d.outstanding - a.amount
    <3>1. CASE owes
      <4> DEFINE P == FulfilledSum(E) - FulfilledSum(B)
      <4>1. P \in Int /\ FulfilledSum(F) - FulfilledSum(B) = P + a.amount /\ fund.target \in Int
        BY <1>3, <2>2, <2>6 DEF NumberedSchedule, Existing
      <4>2. d.outstanding = Smaller(AtLeastZero(R - P), AtLeastZero(fund.target - FulfilledSum(E)))
        BY <1>3, <3>1
      <4>3. e.outstanding = Smaller(AtLeastZero(R - (P + a.amount)),
                                    AtLeastZero(fund.target - (FulfilledSum(E) + a.amount)))
        BY <1>5, <2>6, <3>1, <4>1
      <4> HIDE DEF P
      <4> QED
        BY <1>3, <2>2, <2>5, <4>1, <4>2, <4>3, OwedLess
    <3>2. CASE ~ owes
      BY <1>3, <1>5, <2>2, <2>5, <3>2
    <3> QED
      BY <3>1, <3>2
  <2> QED
    BY <1>3, <1>5, <2>2, <2>6, <2>7
<1>7. CASE ~ \E a \in N : a.fund = fund.id
  <2>1. F = E
    BY <1>7 DEF Reserves, EventsNow
  <2> HIDE DEF E, B, C, F, owes
  <2> QED
    BY <1>3, <1>5, <2>1
<1> QED
  BY <1>6, <1>7

(***************************************************************************)
(* A sum over a field of records is the sum of a function.                 *)
(***************************************************************************)
FieldOf(S, name) == [x \in S |-> x[name]]
FieldSum(S, name) == SumOver(S, LAMBDA x : x[name])

(***************************************************************************)
(* Fields that are integers add up to an integer.                          *)
(***************************************************************************)
LEMMA SumOfField ==
    ASSUME NEW S, IsFiniteSet(S), NEW name, \A x \in S : x[name] \in Int
    PROVE  /\ FieldOf(S, name) \in [S -> Int]
           /\ FieldSum(S, name) = TotalOf(FieldOf(S, name), S)
           /\ FieldSum(S, name) \in Int
<1> DEFINE F(g) == [s \in SUBSET S |-> IF s = {} THEN 0
                                       ELSE Chosen(s)[name] + g[s \ {Chosen(s)}]]
           G(g) == [s \in SUBSET S |-> IF s = {} THEN 0
                                       ELSE FieldOf(S, name)[Chosen(s)] + g[s \ {Chosen(s)}]]
           f == CHOOSE g : g = [s \in SUBSET S |->
                                  IF s = {} THEN 0
                                  ELSE Chosen(s)[name] + g[s \ {Chosen(s)}]]
           h == CHOOSE g : g = [s \in SUBSET S |->
                                  IF s = {} THEN 0
                                  ELSE FieldOf(S, name)[Chosen(s)] + g[s \ {Chosen(s)}]]
<1>1. FieldSum(S, name) = f[S]
  BY DEF FieldSum, SumOver, MapThenSumSet, MapThenFoldSet, Chosen
<1>2. TotalOf(FieldOf(S, name), S) = h[S]
  BY DEF TotalOf, MapThenSumSet, MapThenFoldSet, Chosen
<1>3. ASSUME NEW g PROVE F(g) = G(g)
  <2>1. \A s \in SUBSET S : s # {} => FieldOf(S, name)[Chosen(s)] = Chosen(s)[name]
    BY ChosenIn DEF FieldOf
  <2>2. \A s \in SUBSET S : F(g)[s] = G(g)[s]
    BY <2>1
  <2> QED
    BY <2>2
<1>4. \A g : (g = F(g)) <=> (g = G(g))
  BY <1>3
<1>5. f = h
  BY <1>4
<1> HIDE DEF f, h
<1>6. FieldOf(S, name) \in [S -> Int]
  BY DEF FieldOf
<1>7. TotalOf(FieldOf(S, name), S) \in Int
  BY <1>6, TotalType
<1> QED
  BY <1>1, <1>2, <1>5, <1>6, <1>7

(***************************************************************************)
(* The sums of the model over the fields of what is due, of obligations    *)
(* and of restricted cash.                                                 *)
(***************************************************************************)
LEMMA SumOfFields ==
    ASSUME NEW S
    PROVE  /\ SumOver(S, LAMBDA x : x.reserved) = FieldSum(S, "reserved")
           /\ SumOver(S, LAMBDA x : x.protected) = FieldSum(S, "protected")
           /\ SumOver(S, LAMBDA x : x.outstanding) = FieldSum(S, "outstanding")
           /\ SumOver(S, LAMBDA x : x.upper) = FieldSum(S, "upper")
           /\ SumOver(S, LAMBDA x : x.amount) = FieldSum(S, "amount")
  BY DEF FieldSum

(***************************************************************************)
(* What each fund is due, and that what is newly reserved for it is part   *)
(* of what it is owed.                                                     *)
(***************************************************************************)
DuesIn(s, cycle) == {DueOf(ScheduleItem(s, fund, cycle)) : fund \in Existing(s)}
Within(s, cycle, N) ==
  \A fund \in Existing(s) : \A a \in N :
     a.fund = fund.id => a.amount <= DueOf(ScheduleItem(s, fund, cycle)).outstanding

(***************************************************************************)
(* What is protected in total stays what it is.                            *)
(***************************************************************************)
LEMMA TotalsSpare ==
    ASSUME NEW s, NEW u, NEW N, NumberedSchedule(s), Reserves(s, u, N), IsFiniteSet(N),
           IsFiniteSet(s.funds), UniqueBy(s.funds, LAMBDA f : f.id),
           NEW cycle, Begun(cycle, s.asOf), Within(s, cycle, N),
           NEW x, x = SinkingDue(DuesIn(s, cycle)), NEW y, y = SinkingDue(DuesIn(u, cycle))
    PROVE  /\ x.totalReserved \in Int /\ x.totalOutstanding \in Int
           /\ y.totalReserved \in Int /\ y.totalOutstanding \in Int
           /\ y.totalProtected = x.totalProtected
<1> DEFINE M == Existing(s)
           D(fund) == DueOf(ScheduleItem(s, fund, cycle))
           E(fund) == DueOf(ScheduleItem(u, fund, cycle))
           A == DuesIn(s, cycle)
           B == DuesIn(u, cycle)
           p == [fund \in M |-> D(fund).protected]
           q == [fund \in M |-> E(fund).protected]
           d == [fund \in M |-> D(fund)]
           e == [fund \in M |-> E(fund)]
<1>1. IsFiniteSet(M) /\ M = Existing(u) /\ \A f, g \in M : f.id = g.id => f = g
  BY FS_Subset DEF Existing, Reserves, UniqueBy
<1>2. ASSUME NEW fund \in M
      PROVE  /\ D(fund).fund = fund.id /\ E(fund).fund = fund.id
             /\ D(fund).reserved \in Int /\ D(fund).outstanding \in Int
             /\ E(fund).reserved \in Int /\ E(fund).outstanding \in Int
             /\ D(fund).protected \in Int /\ E(fund).protected = D(fund).protected
  <2>1. \A a \in N : a.fund = fund.id => a.amount <= D(fund).outstanding
    BY DEF Within
  <2>2. /\ D(fund).fund = fund.id /\ E(fund).fund = fund.id
        /\ D(fund).reserved \in Int /\ D(fund).outstanding \in Int
        /\ E(fund).reserved \in Int /\ E(fund).outstanding \in Int
        /\ D(fund).protected = D(fund).reserved + D(fund).outstanding
        /\ E(fund).protected = D(fund).protected
    BY <2>1, ItemSpares
  <2> HIDE DEF D, E
  <2> QED
    BY <2>2
<1>3. A = {D(fund) : fund \in M} /\ B = {E(fund) : fund \in M}
  BY <1>1 DEF DuesIn
<1> HIDE DEF D, E, M, A, B
<1>4. d \in Surjection(M, A) /\ e \in Surjection(M, B)
  BY <1>3 DEF Surjection
<1>5. IsFiniteSet(A) /\ IsFiniteSet(B)
  BY <1>1, <1>4, FS_Surjection
<1>6. /\ \A z \in A : z["reserved"] \in Int /\ z["outstanding"] \in Int /\ z["protected"] \in Int
      /\ \A z \in B : z["reserved"] \in Int /\ z["outstanding"] \in Int /\ z["protected"] \in Int
  BY <1>2, <1>3
<1>7. /\ FieldSum(A, "reserved") \in Int /\ FieldSum(A, "outstanding") \in Int
      /\ FieldSum(B, "reserved") \in Int /\ FieldSum(B, "outstanding") \in Int
  BY <1>5, <1>6, SumOfField
<1>8. /\ FieldOf(A, "protected") \in [A -> Int]
      /\ FieldSum(A, "protected") = TotalOf(FieldOf(A, "protected"), A)
      /\ FieldOf(B, "protected") \in [B -> Int]
      /\ FieldSum(B, "protected") = TotalOf(FieldOf(B, "protected"), B)
  BY <1>5, <1>6, SumOfField
<1>9. /\ d \in [M -> A] /\ e \in [M -> B]
      /\ \A f, g \in M : d[f] = d[g] => f = g
      /\ \A f, g \in M : e[f] = e[g] => f = g
      /\ \A z \in A : \E f \in M : d[f] = z
      /\ \A z \in B : \E f \in M : e[f] = z
  BY <1>1, <1>2, <1>3
<1>10. /\ p \in [M -> Int] /\ q \in [M -> Int]
       /\ \A f \in M : p[f] = FieldOf(A, "protected")[d[f]]
       /\ \A f \in M : q[f] = FieldOf(B, "protected")[e[f]]
       /\ p = q
  BY <1>2, <1>3 DEF FieldOf
<1> HIDE DEF d, e, p, q
<1>11. TotalOf(p, M) = TotalOf(FieldOf(A, "protected"), A)
  <2>1. IsFiniteSet(M) /\ FieldOf(A, "protected") \in [A -> Int] /\ d \in [M -> A] /\ p \in [M -> Int]
    BY <1>1, <1>8, <1>9, <1>10
  <2> QED
    BY <1>9, <1>10, <2>1, TotalMoves
<1>12. TotalOf(q, M) = TotalOf(FieldOf(B, "protected"), B)
  <2>1. IsFiniteSet(M) /\ FieldOf(B, "protected") \in [B -> Int] /\ e \in [M -> B] /\ q \in [M -> Int]
    BY <1>1, <1>8, <1>9, <1>10
  <2> QED
    BY <1>9, <1>10, <2>1, TotalMoves
<1>13. /\ x.totalReserved = FieldSum(A, "reserved") /\ x.totalOutstanding = FieldSum(A, "outstanding")
       /\ x.totalProtected = FieldSum(A, "protected")
       /\ y.totalReserved = FieldSum(B, "reserved") /\ y.totalOutstanding = FieldSum(B, "outstanding")
       /\ y.totalProtected = FieldSum(B, "protected")
  BY SumOfFields DEF SinkingDue, A, B
<1> QED
  BY <1>7, <1>8, <1>10, <1>11, <1>12, <1>13

(***************************************************************************)
(* What a fund is missing cannot grow when something is reserved for it.   *)
(***************************************************************************)
LEMMA NeedsLess ==
    ASSUME NEW s, NEW u, NEW N, NumberedSchedule(s), Reserves(s, u, N)
    PROVE  NeedingFunding(u) \subseteq NeedingFunding(s)
<1> SUFFICES ASSUME NEW fund \in Existing(s), ProgressNow(u, fund).remaining > 0
             PROVE  ProgressNow(s, fund).remaining > 0
  BY DEF NeedingFunding, Existing, Reserves
<1> DEFINE E == EventsNow(s, fund)
           F == EventsNow(u, fund)
<1>1. IsFiniteSet(E) /\ (\A e \in E : e.amount \in Int) /\ fund.target \in Nat
  BY FS_Subset DEF EventsNow, NumberedSchedule, Existing
<1>2. ProgressNow(s, fund) = ProgressFrom(fund, E) /\ ProgressNow(u, fund) = ProgressFrom(fund, F)
  BY Zenon DEF ProgressNow, EventsNow
<1>3. CASE \E a \in N : a.fund = fund.id
  <2>1. PICK a \in N : a.fund = fund.id
    BY <1>3
  <2>2. a \notin E /\ a.kind = "allocation" /\ a.amount \in Nat
    BY DEF Reserves, EventsNow
  <2>3. F = E \cup {a}
    <3>1. a.at <= u.asOf
      BY DEF Reserves, NumberedSchedule
    <3> QED
      BY <2>1, <3>1 DEF Reserves, EventsNow
  <2> HIDE DEF E, F
  <2>4. FulfilledSum(F) = FulfilledSum(E) + a.amount
    BY <1>1, <2>2, <2>3, OneMoreEvent
  <2>5. IsFiniteSet(F) /\ \A e \in F : e.amount \in Int
    BY <1>1, <2>2, <2>3, FS_AddElement
  <2>6. /\ ProgressFrom(fund, E).remaining = AtLeastZero(fund.target - FulfilledSum(E))
        /\ ProgressFrom(fund, F).remaining = AtLeastZero(fund.target - FulfilledSum(F))
        /\ FulfilledSum(E) \in Int
    <3>1. ProgressFrom(fund, E).remaining = AtLeastZero(fund.target - FulfilledSum(E))
          /\ FulfilledSum(E) \in Int
      BY <1>1, ProgressIsNumbers
    <3>2. ProgressFrom(fund, F).remaining = AtLeastZero(fund.target - FulfilledSum(F))
      BY <1>1, <2>5, ProgressIsNumbers
    <3> QED
      BY <3>1, <3>2
  <2> QED
    BY <1>1, <1>2, <2>2, <2>4, <2>6 DEF AtLeastZero
<1>4. CASE ~ \E a \in N : a.fund = fund.id
  <2>1. F = E
    BY <1>4 DEF Reserves, EventsNow
  <2> QED
    BY <1>2, <2>1
<1> QED
  BY <1>3, <1>4

(***************************************************************************)
(* So a complete schedule stays complete unless it becomes invalid.        *)
(***************************************************************************)
LEMMA ScheduleStays ==
    ASSUME NEW s, NEW u, NEW N, NumberedSchedule(s), Reserves(s, u, N), u.coverage = s.coverage,
           SinkingFundSchedule(s).status = "complete", SinkingFundSchedule(u) # Invalid
    PROVE  SinkingFundSchedule(u).status = "complete"
<1> DEFINE cycle == CurrentPayCycle(s.cycles, s.asOf)
           needing == NeedingFunding(s)
           fewer == NeedingFunding(u)
           items == {ScheduleItem(u, fund, cycle) : fund \in Existing(u)}
           v == ScheduleIn(s, cycle, needing)
           w == ScheduleIn(u, cycle, fewer)
<1>1. fewer \subseteq needing
  BY NeedsLess
<1>2. Invalid.status # "complete" /\ Unavailable.status # "complete"
  BY DEF Invalid, Unavailable
<1>3. ValidPaySchedule(s.paySchedule) /\ SinkingFundSchedule(s) = OnHistory(s, v)
  <2> HIDE DEF v
  <2>1. SinkingFundSchedule(s) = IF ValidPaySchedule(s.paySchedule) THEN OnHistory(s, v) ELSE Invalid
    BY Zenon DEF SinkingFundSchedule, v
  <2> QED
    BY <1>2, <2>1
<1>4. SinkingFundSchedule(u) = OnHistory(u, w)
  <2>1. SinkingFundSchedule(u) = IF ValidPaySchedule(u.paySchedule) THEN OnHistory(u, w) ELSE Invalid
    <3>1. CurrentPayCycle(u.cycles, u.asOf) = cycle
      BY Zenon DEF Reserves
    <3> QED
      BY <3>1, Zenon DEF SinkingFundSchedule
  <2> HIDE DEF w
  <2> QED
    BY <1>3, <2>1 DEF Reserves
<1> HIDE DEF v, w
<1>5. /\ HistoryStatus(s) \in {"invalid", "unavailable", "complete"}
      /\ HistoryStatus(u) \in {"invalid", "unavailable", "complete"}
  BY DEF HistoryStatus
<1>6. HistoryStatus(s) = "complete" /\ v.status = "complete"
  BY <1>2, <1>3, <1>5 DEF OnHistory, IfComplete
<1>7. HistoryStatus(u) = "complete"
  <2>1. HistoryStatus(u) # "invalid"
    BY <1>4 DEF OnHistory, IfComplete
  <2>2. HasCompleteCoverage(s)
    BY <1>6 DEF HistoryStatus
  <2>3. HasCompleteCoverage(u)
    BY <2>2 DEF HasCompleteCoverage, Reserves
  <2> QED
    BY <2>1, <2>3 DEF HistoryStatus
<1>8. SinkingFundSchedule(u) = w
  BY <1>4, <1>7 DEF OnHistory, IfComplete
<1> HIDE DEF cycle, needing, fewer
<1>9. ~ \E fund \in needing : s.paySchedule.through < fund.due
  BY <1>2, <1>6 DEF ScheduleIn, v
<1>10. InSequence(s.cycles)
  BY <1>2, <1>6, <1>9 DEF ScheduleIn, v
<1>11. ~ (cycle = NoCycle /\ needing # {})
  BY <1>2, <1>6, <1>9, <1>10 DEF ScheduleIn, v
<1>12. ~ (cycle # NoCycle /\ s.today < (IF cycle = NoCycle THEN 0 ELSE cycle.startDate))
  BY <1>2, <1>6, <1>9, <1>10, <1>11 DEF ScheduleIn, v
<1>13. /\ ~ \E fund \in fewer : u.paySchedule.through < fund.due
       /\ InSequence(u.cycles)
       /\ ~ (cycle = NoCycle /\ fewer # {})
       /\ ~ (cycle # NoCycle /\ u.today < (IF cycle = NoCycle THEN 0 ELSE cycle.startDate))
  BY <1>1, <1>9, <1>10, <1>11, <1>12 DEF Reserves
<1>14. w = Complete(items)
  <2> HIDE DEF items
  <2> QED
    BY <1>13 DEF ScheduleIn, w, items
<1> QED
  BY <1>8, <1>14 DEF Complete

(***************************************************************************)
(* What is due is complete with the schedule, and then it is what each     *)
(* fund is due.                                                            *)
(***************************************************************************)
LEMMA DueIsOfFunds ==
    ASSUME NEW s, NEW cycle, cycle = CurrentPayCycle(s.cycles, s.asOf)
    PROVE  /\ CurrentCycleSinkingDue(s).status = "complete"
                <=> SinkingFundSchedule(s).status = "complete"
           /\ SinkingFundSchedule(s) = Invalid => CurrentCycleSinkingDue(s) = Invalid
           /\ CurrentCycleSinkingDue(s).status = "complete" =>
                CurrentCycleSinkingDue(s).value = SinkingDue(DuesIn(s, cycle))
<1> DEFINE m == SinkingFundSchedule(s)
           due == SinkingDue({DueOf(i) : i \in m.value})
<1>1. CurrentCycleSinkingDue(s) = IF m.status = "complete" THEN Complete(due) ELSE m
  BY Zenon DEF CurrentCycleSinkingDue, OfComplete
<1>2. m.status = "complete" => due = SinkingDue(DuesIn(s, cycle))
  <2> SUFFICES ASSUME m.status = "complete" PROVE due = SinkingDue(DuesIn(s, cycle))
    OBVIOUS
  <2>1. m.value = {ScheduleItem(s, fund, cycle) : fund \in Existing(s)}
    BY CompleteSchedule
  <2> HIDE DEF m
  <2>2. {DueOf(i) : i \in m.value} = DuesIn(s, cycle)
    BY <2>1 DEF DuesIn
  <2> QED
    BY <2>2
<1> HIDE DEF m, due
<1>3. Complete(due).status = "complete" /\ Complete(due).value = due /\ Invalid.status # "complete"
  BY DEF Complete, Invalid
<1> QED
  BY <1>1, <1>2, <1>3 DEF m

(***************************************************************************)
(* A schedule that is not invalid has valid events.                        *)
(***************************************************************************)
LEMMA ValidEvents ==
    ASSUME NEW s, SinkingFundSchedule(s) # Invalid
    PROVE  /\ \A e \in s.allocations : e.amount \in Nat \ {0}
           /\ \A fund \in s.funds : fund.target \in Nat
           /\ UniqueBy(s.funds, LAMBDA fund : fund.id)
<1> DEFINE v == ScheduleIn(s, CurrentPayCycle(s.cycles, s.asOf), NeedingFunding(s))
<1>1. SinkingFundSchedule(s) = IF ValidPaySchedule(s.paySchedule) THEN OnHistory(s, v) ELSE Invalid
  BY Zenon DEF SinkingFundSchedule
<1> HIDE DEF v
<1>2. HistoryStatus(s) # "invalid"
  BY <1>1 DEF OnHistory, IfComplete
<1>3. ValidEventsOfFunds(s)
  BY <1>2 DEF HistoryStatus
<1> QED
  BY <1>3 DEF ValidEventsOfFunds, ValidAllocation, ValidFund

(***************************************************************************)
(* What is outstanding for a fund is what the fund is due.                 *)
(***************************************************************************)
LEMMA OutstandingIsOwed ==
    ASSUME NEW s, UniqueBy(s.funds, LAMBDA f : f.id), NEW cycle, NEW due, due.byFund = DuesIn(s, cycle),
           NEW fund \in Existing(s),
           DueOf(ScheduleItem(s, fund, cycle)).outstanding \in Int
    PROVE  OutstandingOf(fund, due) = DueOf(ScheduleItem(s, fund, cycle)).outstanding
<1> DEFINE D(f) == DueOf(ScheduleItem(s, f, cycle))
           d == D(fund)
           S == {e \in due.byFund : e.fund = fund.id}
<1>1. \A f \in Existing(s) : D(f).fund = f.id
  BY DEF DueOf, ScheduleItem, ItemOf
<1>2. d \in due.byFund /\ \A e \in due.byFund : \E f \in Existing(s) : e = D(f)
  BY Zenon DEF DuesIn
<1>3. \A f \in Existing(s) : f.id = fund.id => f = fund
  BY DEF Existing, UniqueBy
<1> HIDE DEF D
<1>4. S = {d}
  BY <1>1, <1>2, <1>3
<1>5. OutstandingOf(fund, due) = FieldSum(S, "outstanding")
  BY SumOfFields DEF OutstandingOf
<1> HIDE DEF d, S
<1>6. d["outstanding"] \in Int
  BY DEF d, D
<1> DEFINE e == FieldOf({d}, "outstanding")
           f == FieldOf({}, "outstanding")
<1>7. /\ e \in [{d} -> Int] /\ FieldSum({d}, "outstanding") = TotalOf(e, {d})
      /\ e[d] = d["outstanding"]
  <2>1. IsFiniteSet({d}) /\ \A z \in {d} : z["outstanding"] \in Int
    BY <1>6, FS_Singleton
  <2>2. e \in [{d} -> Int] /\ FieldSum({d}, "outstanding") = TotalOf(e, {d})
    BY <2>1, SumOfField
  <2> QED
    BY <2>2 DEF FieldOf
<1>8. f \in [{} -> Int] /\ IsFiniteSet({}) /\ {} \cup {d} = {d} /\ \A y \in {} : e[y] = f[y]
  BY FS_EmptySet DEF FieldOf
<1> HIDE DEF e, f
<1>9. TotalOf(f, {}) = 0
  BY <1>8, TotalType
<1>10. TotalOf(e, {} \cup {d}) = TotalOf(f, {}) + e[d]
  <2> DEFINE O == {}
  <2>1. /\ IsFiniteSet(O) /\ f \in [O -> Int] /\ d \notin O /\ e \in [O \cup {d} -> Int]
        /\ \A y \in O : e[y] = f[y]
    BY <1>7, <1>8
  <2> HIDE DEF O
  <2>2. TotalOf(e, O \cup {d}) = TotalOf(f, O) + e[d]
    BY <2>1, TotalAdds
  <2> QED
    BY <2>2 DEF O
<1> QED
  BY <1>4, <1>5, <1>6, <1>7, <1>8, <1>9, <1>10 DEF d, D

(***************************************************************************)
(* A plan gives no fund more than it is owed.                              *)
(***************************************************************************)
LEMMA PlanIsWithin ==
    ASSUME NEW liquidity, NEW sinking, NEW funds, UniqueBy(funds, LAMBDA f : f.id),
           AutomaticAllocations(liquidity, sinking, funds).value # NoValue,
           NEW p \in AutomaticAllocations(liquidity, sinking, funds).value, p.amount \in Nat,
           NEW fund \in funds, fund.id = p.fund, OutstandingOf(fund, sinking.value) \in Int
    PROVE  p.amount <= OutstandingOf(fund, sinking.value)
<1> DEFINE P == AutomaticAllocations(liquidity, sinking, funds).value
           due == sinking.value
           eligible == AutomaticallyFunded(funds)
           taken(f) == SumOver({g \in eligible : Precedes(g, f)}, LAMBDA g : OutstandingOf(g, due))
           found(f) == AtLeastZero(Allocatable(liquidity.value) - taken(f))
           given(f) == Smaller(OutstandingOf(f, due), found(f))
           F == {g \in eligible : given(g) > 0}
<1>1. P = Allocations(liquidity.value, due, funds)
  <2>1. Invalid.value = NoValue /\ Unavailable.value = NoValue
    BY DEF Invalid, Unavailable
  <2>2. AutomaticAllocations(liquidity, sinking, funds)
          = Complete(Allocations(liquidity.value, due, funds))
    BY <2>1 DEF AutomaticAllocations
  <2> QED
    BY <2>2 DEF Complete
<1>2. P = {[fund |-> f.id, amount |-> given(f)] : f \in F}
  BY <1>1, Zenon DEF Allocations
<1>3. F \subseteq funds
  BY DEF AutomaticallyFunded
<1> HIDE DEF P, given, F
<1>4. PICK f \in F : p = [fund |-> f.id, amount |-> given(f)]
  BY <1>2 DEF P
<1>5. f = fund
  BY <1>3, <1>4 DEF UniqueBy
<1>6. p.amount = given(fund)
  BY <1>4, <1>5
<1>7. given(fund) = Smaller(OutstandingOf(fund, due), found(fund))
  BY DEF given
<1> HIDE DEF found
<1> QED
  BY <1>6, <1>7 DEF Smaller

\* What the plan of a schedule gives is reserved at its moment; x and y are what is due then.
Carries(N, plan) == \A a \in N : \E p \in plan : a.fund = p.fund /\ a.amount = p.amount
Allots(s, u, N, x, y, liquidity, funds) ==
  /\ IsFiniteSet(N) /\ N \subseteq u.allocations /\ u.coverage = s.coverage
  /\ (\A a \in N : a.amount \in Nat) => Reserves(s, u, N)
  /\ s.asOf \in Int /\ IsFiniteSet(s.allocations) /\ IsFiniteSet(s.paySchedule.dates)
  /\ IsFiniteSet(s.funds) /\ \A fund \in s.funds : fund.createdAt \in Int
  /\ Begun(CurrentPayCycle(s.cycles, s.asOf), s.asOf)
  /\ x = CurrentCycleSinkingDue(s) /\ x.status = "complete"
  /\ y = CurrentCycleSinkingDue(u) /\ y # Invalid
  /\ s.funds \subseteq funds /\ \A f, g \in funds : f.id = g.id => f = g
  /\ AutomaticAllocations(liquidity, x, funds).value # NoValue
  /\ Carries(N, AutomaticAllocations(liquidity, x, funds).value)

(***************************************************************************)
(* The amounts of a plan, reserved at its moment, leave the schedule       *)
(* complete and what it protects in total.                                 *)
(***************************************************************************)
LEMMA DueSpares ==
    ASSUME NEW s, NEW u, NEW N, NEW x, NEW y, NEW liquidity, NEW funds,
           Allots(s, u, N, x, y, liquidity, funds)
    PROVE  /\ y.status = "complete"
           /\ x.value.totalReserved \in Int /\ x.value.totalOutstanding \in Int
           /\ y.value.totalReserved \in Int /\ y.value.totalOutstanding \in Int
           /\ y.value.totalProtected = x.value.totalProtected
<1> USE DEF Allots
<1> DEFINE cycle == CurrentPayCycle(s.cycles, s.asOf)
<1>1. SinkingFundSchedule(s).status = "complete" /\ SinkingFundSchedule(u) # Invalid
  BY DueIsOfFunds
<1>2. /\ \A e \in u.allocations : e.amount \in Nat \ {0}
      /\ \A fund \in s.funds : fund.target \in Nat
      /\ \A e \in s.allocations : e.amount \in Nat \ {0}
  <2>1. SinkingFundSchedule(s) # Invalid
    BY <1>1 DEF Invalid
  <2> QED
    BY <1>1, <2>1, ValidEvents
<1>3. \A a \in N : a.amount \in Nat
  BY <1>2
<1>4. Reserves(s, u, N)
  BY <1>3
<1>5. NumberedSchedule(s)
  <2>1. \A e \in s.allocations : e.amount \in Int
    BY <1>2
  <2> QED
    BY <1>2, <2>1 DEF NumberedSchedule
<1>6. SinkingFundSchedule(u).status = "complete"
  BY <1>1, <1>4, <1>5, ScheduleStays
<1>7. CurrentPayCycle(u.cycles, u.asOf) = cycle
  BY <1>4, Zenon DEF Reserves
<1> HIDE DEF cycle
<1>8. x.value = SinkingDue(DuesIn(s, cycle))
  BY DueIsOfFunds DEF cycle
<1>9. y.status = "complete" /\ y.value = SinkingDue(DuesIn(u, cycle))
  BY <1>6, <1>7, DueIsOfFunds
<1>10. UniqueBy(s.funds, LAMBDA f : f.id) /\ UniqueBy(funds, LAMBDA f : f.id)
  BY DEF UniqueBy
<1>11. Begun(cycle, s.asOf)
  BY DEF cycle
<1>12. Within(s, cycle, N)
  <2> SUFFICES ASSUME NEW fund \in Existing(s), NEW a \in N, a.fund = fund.id
               PROVE  a.amount <= DueOf(ScheduleItem(s, fund, cycle)).outstanding
    BY DEF Within
  <2>1. DueOf(ScheduleItem(s, fund, cycle)).outstanding \in Int
    BY <1>5, <1>11, OwedAs
  <2>2. x.value.byFund = DuesIn(s, cycle)
    BY <1>8 DEF SinkingDue
  <2>3. OutstandingOf(fund, x.value) = DueOf(ScheduleItem(s, fund, cycle)).outstanding
    BY <1>10, <2>1, <2>2, OutstandingIsOwed
  <2>4. PICK p \in AutomaticAllocations(liquidity, x, funds).value :
                  a.fund = p.fund /\ a.amount = p.amount
    BY DEF Carries
  <2>5. p.amount \in Nat /\ fund \in funds /\ fund.id = p.fund
    BY <1>3, <2>4 DEF Existing
  <2>6. p.amount <= OutstandingOf(fund, x.value)
    BY <1>10, <2>1, <2>3, <2>5, PlanIsWithin
  <2> QED
    BY <2>3, <2>4, <2>6
<1>13. /\ x.value.totalReserved \in Int /\ x.value.totalOutstanding \in Int
       /\ y.value.totalReserved \in Int /\ y.value.totalOutstanding \in Int
       /\ y.value.totalProtected = x.value.totalProtected
  BY <1>4, <1>5, <1>8, <1>9, <1>10, <1>11, <1>12, TotalsSpare
<1> QED
  BY <1>9, <1>13

(***************************************************************************)
(* Two schedules of liquidity that differ in the funds alone, which        *)
(* protect as much, leave the same cash to invest.                         *)
(***************************************************************************)
SpareInputs(q) ==
  /\ IsFiniteSet(q.obligations) /\ \A o \in q.obligations : o.upper \in Int
  /\ IsFiniteSet(q.restricted) /\ \A r \in q.restricted : r.amount \in Int
SameReserve(r, t) ==
  /\ t.cash = r.cash /\ t.minimumCash = r.minimumCash /\ t.comfortCash = r.comfortCash
  /\ t.buffer = r.buffer /\ t.currentExcess = r.currentExcess

(***************************************************************************)
(* The reserve of a moment is the same after its plan was carried out:     *)
(* what was owed became reserved.                                          *)
(***************************************************************************)
LEMMA LiquiditySpares ==
    ASSUME NEW q, NEW p, SpareInputs(q),
           p.baseline = q.baseline, p.cash = q.cash, p.needs = q.needs,
           p.obligations = q.obligations, p.restricted = q.restricted,
           p.completeness = q.completeness, p.nextIncome = q.nextIncome, p.today = q.today,
           p.settings = q.settings,
           q.sinking.status = "complete", p.sinking.status = "complete",
           q.sinking.value # NoValue, p.sinking.value # NoValue,
           q.sinking.value.totalReserved \in Int, q.sinking.value.totalOutstanding \in Int,
           p.sinking.value.totalReserved \in Int, p.sinking.value.totalOutstanding \in Int,
           p.sinking.value.totalProtected = q.sinking.value.totalProtected,
           NEW l, l = CalculateLiquidityReserve(q), l.status = "complete",
           NEW m, m = CalculateLiquidityReserve(p), m # Invalid
    PROVE  m.status = "complete" /\ SameReserve(l.value, m.value)
<1> DEFINE needed == Requirements(q)
           wanted == Requirements(p)
<1>1. /\ UpstreamStatuses(p) = UpstreamStatuses(q) /\ InputStatuses(p) = InputStatuses(q)
      /\ WithoutValue(p) <=> WithoutValue(q)
  BY DEF UpstreamStatuses, InputStatuses, WithoutValue
<1>2. l = LiquidityReserveFrom(q, needed)
  <2> HIDE DEF needed
  <2> QED
    BY DEF CalculateLiquidityReserve, Invalid, Unavailable, needed
<1>3. m = LiquidityReserveFrom(p, wanted)
  <2>1. ~ ("invalid" \in UpstreamStatuses(q) \/ ~ ValidSettings(q.settings))
        /\ ~ (WithoutValue(q) \/ "unavailable" \in InputStatuses(q))
    BY DEF CalculateLiquidityReserve, Invalid, Unavailable
  <2> HIDE DEF wanted
  <2> QED
    BY <1>1, <2>1 DEF CalculateLiquidityReserve, wanted
<1> HIDE DEF needed, wanted
<1>4. ValidLiquidityInputs(q, needed) /\ ValidLiquidityInputs(p, wanted)
  BY <1>2, <1>3 DEF LiquidityReserveFrom, Invalid
<1>5. l = Complete(Reserve(q, needed)) /\ m = Complete(Reserve(p, wanted))
  BY <1>1, <1>2, <1>3, <1>4 DEF LiquidityReserveFrom, Partial
<1>6. /\ q.sinking.value.totalProtected
           = q.sinking.value.totalReserved + q.sinking.value.totalOutstanding
      /\ p.sinking.value.totalProtected
           = p.sinking.value.totalReserved + p.sinking.value.totalOutstanding
  BY <1>4 DEF ValidLiquidityInputs, ValidSinkingProtection
<1>7. OtherRestricted(q) \in Int /\ OtherRestricted(p) = OtherRestricted(q)
  <2>1. \A r \in q.restricted : r["amount"] \in Int
    BY DEF SpareInputs
  <2>2. FieldSum(q.restricted, "amount") \in Int
    BY <2>1, SumOfField DEF SpareInputs
  <2>3. OtherRestricted(q) = FieldSum(q.restricted, "amount")
    BY SumOfFields DEF OtherRestricted
  <2> QED
    BY <2>2, <2>3 DEF OtherRestricted
<1>8. UncoveredObligations(q) \in Int /\ UncoveredObligations(p) = UncoveredObligations(q)
  <2> DEFINE U == {o \in Relevant(q) : o.coverage = "uncovered"}
  <2>1. U \subseteq q.obligations /\ Relevant(p) = Relevant(q)
    BY DEF Relevant
  <2>2. UncoveredObligations(q) = FieldSum(U, "upper")
    BY SumOfFields DEF UncoveredObligations
  <2>3. UncoveredObligations(p) = UncoveredObligations(q)
    BY <2>1, Zenon DEF UncoveredObligations
  <2> HIDE DEF U
  <2>4. IsFiniteSet(U) /\ \A o \in U : o["upper"] \in Int
    BY <2>1, FS_Subset DEF SpareInputs
  <2>5. FieldSum(U, "upper") \in Int
    BY <2>4, SumOfField
  <2> QED
    BY <2>2, <2>3, <2>5
<1>9. OperationalEssential(p) = OperationalEssential(q) /\ OperationalNormal(p) = OperationalNormal(q)
  <2>1. OperationalEnd(p) = OperationalEnd(q)
    BY DEF OperationalEnd
  <2>2. Standing(p) = Standing(q)
    BY <2>1 DEF Standing
  <2> QED
    BY <2>1, <2>2, Zenon DEF OperationalEssential, OperationalNormal
<1>10. /\ MinimumReserve(p) = MinimumReserve(q) /\ ComfortReserve(p) = ComfortReserve(q)
       /\ OperationalEnd(p) = OperationalEnd(q)
  BY Zenon DEF MinimumReserve, ComfortReserve, OperationalEnd
<1>11. /\ needed.ringFenced = q.sinking.value.totalReserved + OtherRestricted(q)
       /\ needed.sinkingDue = q.sinking.value.totalOutstanding
       /\ needed.uncovered = UncoveredObligations(q)
       /\ wanted.ringFenced = p.sinking.value.totalReserved + OtherRestricted(p)
       /\ wanted.sinkingDue = p.sinking.value.totalOutstanding
       /\ wanted.uncovered = UncoveredObligations(p)
       /\ wanted.operationalEssential = needed.operationalEssential
       /\ wanted.operationalNormal = needed.operationalNormal
       /\ wanted.minimumReserve = needed.minimumReserve
       /\ wanted.comfortReserve = needed.comfortReserve
       /\ {"cash", "buffer", "minimumCash", "comfortCash", "currentExcess"} \intersect DOMAIN needed = {}
       /\ {"cash", "buffer", "minimumCash", "comfortCash", "currentExcess"} \intersect DOMAIN wanted = {}
  BY <1>9, <1>10 DEF Requirements, RingFenced, needed, wanted
<1>12. ProtectedBase(wanted) = ProtectedBase(needed)
  BY <1>6, <1>7, <1>8, <1>11 DEF ProtectedBase
<1>13. MinimumCash(wanted) = MinimumCash(needed) /\ ComfortCash(wanted) = ComfortCash(needed)
  BY <1>11, <1>12, Zenon DEF MinimumCash, ComfortCash
<1>14. SameReserve(Reserve(q, needed), Reserve(p, wanted))
  BY <1>11, <1>13 DEF Reserve, Extended, SameReserve
<1> QED
  BY <1>5, <1>14 DEF Complete

(***************************************************************************)
(* Then the same amount is safe to invest.                                 *)
(***************************************************************************)
LEMMA SafeSpares ==
    ASSUME NEW l, NEW m, m.status = l.status, l.value # NoValue, m.value # NoValue,
           SameReserve(l.value, m.value), NEW readiness, NEW increment
    PROVE  CalculateSafeToInvest(m, readiness, increment) = CalculateSafeToInvest(l, readiness, increment)
<1>1. ValidReserve(m.value) <=> ValidReserve(l.value)
  BY DEF ValidReserve, SameReserve
<1>2. Tiers(m.value, increment) = Tiers(l.value, increment)
  BY Zenon DEF Tiers, TiersFrom, SameReserve
<1> QED
  BY <1>1, <1>2, Zenon DEF CalculateSafeToInvest

-----------------------------------------------------------------------------
(* The current pay cycle has begun                                         *)

(***************************************************************************)
(* The length of a sequence that is given by its positions.                *)
(***************************************************************************)
LEMMA LenDomain == ASSUME NEW S, NEW n \in Nat, NEW s \in [1 .. n -> S] PROVE Len(s) = n
<1>1. s \in Seq(S)
  BY IsASeq
<1> QED
  BY <1>1, LenProperties

(***************************************************************************)
(* Salaries in their order have the places from 1 on, each of them once.   *)
(***************************************************************************)
LEMMA PlacesFill ==
    ASSUME NEW S, IsFiniteSet(S), NEW transactions,
           \A t \in S : TransactionOf(t, transactions).at \in Int /\ t.tx \in Int,
           \A s, t \in S : s.tx = t.tx => s = t
    PROVE  \A i \in 1 .. Cardinality(S) : \E t \in S : PlaceOf(t, S, transactions) = i
<1> DEFINE c == Cardinality(S)
           B(t) == {s \in S : Earlier(s, t, transactions)}
           f == [t \in S |-> PlaceOf(t, S, transactions)]
<1>1. c \in Nat
  BY FS_CardinalityType
<1>2. /\ \A s, t \in S : s # t => Earlier(s, t, transactions) \/ Earlier(t, s, transactions)
      /\ \A t \in S : ~ Earlier(t, t, transactions)
      /\ \A r, s, t \in S : Earlier(r, s, transactions) /\ Earlier(s, t, transactions)
                              => Earlier(r, t, transactions)
  BY DEF Earlier
<1>3. ASSUME NEW t \in S
      PROVE  IsFiniteSet(B(t)) /\ Cardinality(B(t)) \in Nat /\ Cardinality(B(t)) < c
  <2>1. IsFiniteSet(B(t)) /\ Cardinality(B(t)) \in Nat
    BY FS_Subset, FS_CardinalityType
  <2>2. B(t) \subseteq S /\ B(t) # S
    BY <1>2
  <2> HIDE DEF B
  <2>3. Cardinality(B(t)) <= c /\ Cardinality(B(t)) # c
    BY <2>2, FS_Subset
  <2> QED
    BY <1>1, <2>1, <2>3
<1>4. \A t \in S : f[t] = 1 + Cardinality(B(t))
  BY DEF PlaceOf
<1>5. ASSUME NEW s \in S, NEW t \in S, Earlier(s, t, transactions)
      PROVE  f[s] # f[t]
  <2>1. B(s) \subseteq B(t) /\ s \in B(t) /\ s \notin B(s)
    <3>1. \A r \in B(s) : Earlier(r, t, transactions)
      BY <1>2, <1>5
    <3>2. ~ Earlier(s, s, transactions)
      BY <1>2
    <3> QED
      BY <1>5, <3>1, <3>2
  <2>2. IsFiniteSet(B(t)) /\ Cardinality(B(t)) \in Nat /\ Cardinality(B(s)) \in Nat
    BY <1>3
  <2> HIDE DEF B
  <2>3. Cardinality(B(s)) # Cardinality(B(t))
    BY <2>1, <2>2, FS_Subset
  <2> HIDE DEF f
  <2> QED
    BY <1>4, <2>2, <2>3
<1>6. f \in [S -> 1 .. c]
  <2>1. ASSUME NEW t \in S PROVE f[t] \in 1 .. c
    <3>1. f[t] = 1 + Cardinality(B(t)) /\ Cardinality(B(t)) \in Nat /\ Cardinality(B(t)) < c
      BY <1>3, <1>4
    <3> HIDE DEF f, B, c
    <3> QED
      BY <1>1, <3>1
  <2> QED
    BY <1>4, <2>1
<1>7. \A s, t \in S : f[s] = f[t] => s = t
  BY <1>2, <1>5
<1> HIDE DEF f
<1>8. f \in Injection(S, 1 .. c)
  BY <1>6, <1>7 DEF Injection, IsInjective
<1>9. IsFiniteSet(1 .. c) /\ Cardinality(1 .. c) = c
  BY <1>1, FS_Interval
<1> HIDE DEF c
<1>10. f \in Surjection(S, 1 .. c)
  <2>1. Cardinality(S) = Cardinality(1 .. c)
    BY <1>9 DEF c
  <2> QED
    BY <1>8, <1>9, <2>1, FS_Injection
<1>11. \A i \in 1 .. c : \E t \in S : f[t] = i
  BY <1>10 DEF Surjection
<1> QED
  BY <1>11 DEF f, c

(***************************************************************************)
(* The current cycle of pay cycles that were built began at an instant, in *)
(* the past.                                                               *)
(***************************************************************************)
LEMMA CycleBegan ==
    ASSUME NEW transactions, IsFiniteSet({x.id : x \in transactions}),
           \A x \in transactions : x.id \in Int /\ x.at \in Int,
           NEW flows, NEW triggers, NEW schedule, NEW asOf,
           NEW m, m = BuildPayCycles(transactions, flows, triggers, schedule, asOf), m # Invalid
    PROVE  Begun(CurrentPayCycle(m.value, asOf), asOf)
<1> DEFINE H == {t \in triggers : TransactionOf(t, transactions).at <= asOf}
           n == Cardinality(H)
           ordered == InOrder(H, transactions)
           openings == [i \in DOMAIN ordered |-> TransactionOf(ordered[i], transactions)]
           cycles == [i \in 1 .. Len(ordered) |-> PayCycleAt(ordered, openings, schedule, i)]
<1>1. /\ \A s, t \in triggers : s.tx = t.tx => s = t
      /\ \A t \in triggers : ValidTrigger(t, transactions, flows)
      /\ m = CyclesOf(Eligible(triggers, transactions, asOf), transactions, schedule)
  BY DEF BuildPayCycles, UniqueBy
<1>2. \A t \in triggers : \E x \in transactions : x.id = t.tx
  BY <1>1, Zenon DEF ValidTrigger
<1>3. \A t \in triggers : TransactionOf(t, transactions) \in transactions /\ t.tx \in Int
  BY <1>2 DEF TransactionOf
<1>4. IsFiniteSet(H)
  <2> DEFINE I == {x.id : x \in transactions}
             g == [t \in H |-> t.tx]
  <2>1. g \in Injection(H, I)
    BY <1>1, <1>2 DEF Injection, IsInjective
  <2> HIDE DEF H, I, g
  <2>2. IsFiniteSet(I)
    BY DEF I
  <2> QED
    BY <2>1, <2>2, FS_Injection
<1>5. n \in Nat
  BY <1>4, FS_CardinalityType
<1>6. \A i \in 1 .. n : \E t \in H : PlaceOf(t, H, transactions) = i
  <2>1. \A t \in H : TransactionOf(t, transactions).at \in Int /\ t.tx \in Int
    BY <1>3
  <2>2. \A s, t \in H : s.tx = t.tx => s = t
    BY <1>1
  <2> HIDE DEF H
  <2> QED
    BY <1>4, <2>1, <2>2, PlacesFill
<1> HIDE DEF H
<1>7. ordered \in [1 .. n -> H]
  BY <1>6 DEF InOrder
<1>8. Len(ordered) = n
  BY <1>5, <1>7, LenDomain
<1>9. m = CyclesBetween(ordered, openings, schedule)
  BY <1>1, Zenon DEF CyclesOf, Eligible, H
<1> HIDE DEF n, ordered
<1>10. \A i \in 1 .. n : openings[i].at \in Int
  BY <1>3, <1>7 DEF H
<1> HIDE DEF openings
<1>11. m.value = cycles
  <2>1. m = IF \E i \in 1 .. Len(ordered) - 1 : openings[i].at >= openings[i + 1].at
            THEN Invalid ELSE Complete(cycles)
    BY <1>9, Zenon DEF CyclesBetween
  <2>2. m = Complete(cycles)
    BY <2>1
  <2> HIDE DEF cycles
  <2> QED
    BY <2>2 DEF Complete
<1>12. DOMAIN cycles = 1 .. n /\ \A i \in 1 .. n : cycles[i].start \in Int
  BY <1>8, <1>10 DEF PayCycleAt
<1> HIDE DEF cycles
<1>13. Len(cycles) = n
  <2> DEFINE c(i) == PayCycleAt(ordered, openings, schedule, i)
             C == {c(i) : i \in 1 .. n}
  <2>1. cycles = [i \in 1 .. n |-> c(i)]
    BY <1>8, Zenon DEF cycles
  <2>2. cycles \in [1 .. n -> C]
    <3> HIDE DEF c
    <3> QED
      BY <2>1
  <2> HIDE DEF C
  <2> QED
    BY <1>5, <2>2, LenDomain
<1> DEFINE current == {i \in 1 .. Len(cycles) : /\ cycles[i].start <= asOf
                                                /\ cycles[i].status = "closed" => asOf < cycles[i].end}
<1>14. CurrentPayCycle(cycles, asOf) = IF current = {} THEN NoCycle ELSE cycles[Min(current)]
  BY Zenon DEF CurrentPayCycle
<1>15. current \subseteq 1 .. n /\ \A i \in current : cycles[i].start <= asOf
  BY <1>13
<1> HIDE DEF current
<1>16. current # {} => Min(current) \in current
  <2>1. current \subseteq Nat
    BY <1>5, <1>15
  <2> QED
    BY <2>1, MinIs
<1> QED
  BY <1>11, <1>12, <1>14, <1>15, <1>16 DEF Begun

-----------------------------------------------------------------------------
(* What a moment calculates                                                *)

(***************************************************************************)
(* How ready an answer is depends on its results' statuses, on doubts and  *)
(* variances, and on what is known of the plans.                           *)
(***************************************************************************)
LEMMA SameReadiness ==
    ASSUME NEW c, NEW d, d.context = c.context, d.date = c.date, d.settings = c.settings,
           d.active.ambiguities = c.active.ambiguities,
           d.active.reconciliations = c.active.reconciliations,
           d.baseline = c.baseline, d.cash.status = c.cash.status,
           d.sinking.status = c.sinking.status, d.liquidity.status = c.liquidity.status
    PROVE  ReadyAs(d) = ReadyAs(c)
<1>1. \A accepted : Blockers(d, accepted) = Blockers(c, accepted)
  <2> TAKE accepted
  <2> QED
    BY DEF Blockers, Unready, Blocks
<1>2. \A accepted : Readiness(d, accepted) = Readiness(c, accepted)
  BY <1>1, Zenon DEF Readiness
<1> QED
  BY <1>2, Zenon DEF ReadyAs

(***************************************************************************)
(* What a checkpoint finds, from the facts, the context and what it found  *)
(* before.                                                                 *)
(***************************************************************************)
CyclesAt(f, ctx, at) ==
  BuildPayCycles(LedgerAt(f, at).transactions, ActiveAt(f, at).flows,
    {t \in f.triggers : \E x \in LedgerAt(f, at).transactions : x.id = t.tx}, ctx.paySchedule, at)
CoveredAt(f, ctx, at) == FundedConsumptionCoverage(HistoryOf(ActiveAt(f, at), ctx, at))
BaselineOver(c) ==
  CalculateSpendingBaseline(
    [flows |-> c.active.flows, observations |-> c.active.observations,
     coverage |-> c.context.monthCoverage, scheduled |-> c.context.scheduled,
     scheduleComplete |-> c.context.scheduleComplete, funded |-> c.funded,
     target |-> MonthAt(c.date), settings |-> c.settings.baseline])
LiquidityInput(c) ==
  [baseline |-> c.baseline, sinking |-> c.sinking, cash |-> c.cash,
   needs |-> c.context.needs, obligations |-> c.context.obligations,
   restricted |-> c.context.restricted,
   completeness |-> [needs |-> c.context.quality.needs,
                     obligations |-> c.context.quality.obligations,
                     restricted |-> c.context.quality.restricted],
   nextIncome |-> c.context.nextIncome, today |-> c.date,
   settings |-> c.settings.liquidity]
Calculated(c, f, ctx, at, date, policy) ==
  /\ c.context = ctx /\ c.date = date /\ c.settings = policy /\ c.active = ActiveAt(f, at)
  /\ c.cash = CashAt(f, at) /\ c.cycles = CyclesAt(f, ctx, at)
  /\ c.sinking = SinkingAt(f, ctx, at, date, c.cycles) /\ c.funded = CoveredAt(f, ctx, at)
  /\ c.baseline = BaselineOver(c) /\ c.liquidity = CalculateLiquidityReserve(LiquidityInput(c))
  /\ c.readiness = ReadyAs(c)
  /\ c.safe = CalculateSafeToInvest(c.liquidity, c.readiness.kind, c.settings.increment)
  /\ ~ c.throws => Invalid \notin {c.cash, c.cycles, c.sinking, c.funded, c.baseline, c.liquidity, c.safe}

(***************************************************************************)
(* A checkpoint is made of its calculations.                               *)
(***************************************************************************)
LEMMA CheckpointIsCalculated ==
    ASSUME NEW f, NEW ctx, NEW at, NEW date, NEW policy,
           NEW c, c = Checkpoint(f, ctx, at, date, policy)
    PROVE  Calculated(c, f, ctx, at, date, policy)
<1> DEFINE c0 == [facts |-> f, context |-> ctx, asOf |-> at, date |-> date, settings |-> policy,
                  active |-> ActiveAt(f, at), ledger |-> LedgerAt(f, at)]
           c1 == WithPositions(c0)
           c2 == WithSinking(c1)
           c3 == WithBaseline(c2)
           c4 == WithLiquidity(c3)
           c5 == WithReadiness(c4)
           c6 == WithSafe(c5)
           c7 == WithVerdict(c6)
           given == {"facts", "context", "asOf", "date", "settings", "active", "ledger",
                     "cash", "cycles", "history"}
<1>0. c = c7
  BY DEF Checkpoint
<1>1. /\ DOMAIN c0 = {"facts", "context", "asOf", "date", "settings", "active", "ledger"}
      /\ c0.facts = f /\ c0.context = ctx /\ c0.asOf = at /\ c0.date = date /\ c0.settings = policy
      /\ c0.active = ActiveAt(f, at) /\ c0.ledger = LedgerAt(f, at)
  OBVIOUS
<1>2. /\ Keeps(c1, c2) /\ Keeps(c2, c3) /\ Keeps(c3, c4) /\ Keeps(c4, c5) /\ Keeps(c5, c6)
      /\ Keeps(c6, c7)
  BY CheckpointStageKeeps, Zenon
<1> HIDE DEF c0, c2, c3, c4, c5, c6, c7
<1>3. /\ DOMAIN c1 = given
      /\ c1.context = ctx /\ c1.date = date /\ c1.settings = policy /\ c1.active = ActiveAt(f, at)
      /\ c1.cash = CashAt(f, at) /\ c1.cycles = CyclesAt(f, ctx, at)
      /\ c1.history = HistoryOf(ActiveAt(f, at), ctx, at)
  <2>1. DOMAIN c1 = given
    BY <1>1 DEF WithPositions, Extended
  <2>2. /\ c1.context = c0.context /\ c1.date = c0.date /\ c1.settings = c0.settings
        /\ c1.active = c0.active
        /\ c1.history = HistoryOf(c0.active, c0.context, c0.asOf)
    BY <1>1 DEF WithPositions, Extended
  <2>3. c1.cash = CashAt(f, at)
    BY <1>1 DEF WithPositions, Extended, CashAt
  <2>4. c1.cycles = CyclesAt(f, ctx, at)
    BY <1>1 DEF WithPositions, Extended, CyclesAt
  <2> HIDE DEF c1
  <2> QED
    BY <1>1, <2>1, <2>2, <2>3, <2>4
<1> HIDE DEF c1
<1>4. /\ DOMAIN c2 = DOMAIN c1 \union {"sinking", "funded"}
      /\ DOMAIN c3 = DOMAIN c2 \union {"baseline"}
      /\ DOMAIN c4 = DOMAIN c3 \union {"liquidity"}
      /\ DOMAIN c5 = DOMAIN c4 \union {"readiness"}
      /\ DOMAIN c6 = DOMAIN c5 \union {"safe"}
  BY StageAdds, Zenon DEF c2, c3, c4, c5, c6
<1>5. c2.funded = CoveredAt(f, ctx, at) /\ c2.sinking = SinkingAt(f, ctx, at, date, c1.cycles)
  <2> DEFINE due == IF c1.cycles = Invalid THEN Invalid
                      ELSE CurrentCycleSinkingDue(Extended(c1.history,
                             [cycles |-> c1.cycles.value, paySchedule |-> c1.context.paySchedule,
                              today |-> c1.date]))
             covered == FundedConsumptionCoverage(c1.history)
  <2>1. c2 = Extended(c1, [sinking |-> due, funded |-> covered])
    BY Zenon DEF c2, WithSinking
  <2> HIDE DEF due, covered
  <2>2. c2.funded = covered /\ c2.sinking = due
    BY <1>3, <2>1 DEF Extended
  <2>3. covered = CoveredAt(f, ctx, at)
    BY <1>3, Zenon DEF covered, CoveredAt
  <2>4. due = SinkingAt(f, ctx, at, date, c1.cycles)
    BY <1>3, Zenon DEF due, SinkingAt, ScheduleAt
  <2> QED
    BY <2>2, <2>3, <2>4
<1>6. c3.baseline = BaselineOver(c2)
  <2>1. c3 = Extended(c2, [baseline |-> BaselineOver(c2)])
    BY Zenon DEF c3, WithBaseline, BaselineOver
  <2> QED
    BY <1>3, <1>4, <2>1 DEF Extended
<1>7. c4.liquidity = CalculateLiquidityReserve(LiquidityInput(c3))
  <2>1. c4 = Extended(c3, [liquidity |-> CalculateLiquidityReserve(LiquidityInput(c3))])
    BY Zenon DEF c4, WithLiquidity, LiquidityInput
  <2> QED
    BY <1>3, <1>4, <2>1 DEF Extended
<1>8. c5.readiness = ReadyAs(c4)
  <2>1. c5 = Extended(c4, [readiness |-> ReadyAs(c4)])
    BY Zenon DEF c5, WithReadiness, ReadyAs
  <2> QED
    BY <1>3, <1>4, <2>1 DEF Extended
<1>9. c6.safe = CalculateSafeToInvest(c5.liquidity, c5.readiness.kind, c5.settings.increment)
  <2>1. c6 = Extended(c5,
               [safe |-> CalculateSafeToInvest(c5.liquidity, c5.readiness.kind, c5.settings.increment)])
    BY Zenon DEF c6, WithSafe
  <2> QED
    BY <1>3, <1>4, <2>1 DEF Extended
<1>10. ~ c7.throws => Invalid \notin {c6.cash, c6.cycles, c6.sinking, c6.funded, c6.baseline,
                                     c6.liquidity, c6.safe}
  <2> DEFINE verdict == \/ ~ BookedFlows(c6.ledger.transactions, c6.active.flows)
                        \/ Invalid \in {c6.cash, c6.cycles, c6.sinking, c6.funded, c6.baseline,
                                       c6.liquidity, c6.safe}
  <2>1. c7 = Extended(c6, [throws |-> verdict])
    BY Zenon DEF c7, WithVerdict
  <2> HIDE DEF verdict
  <2>2. c7.throws = verdict
    BY <1>3, <1>4, <2>1 DEF Extended
  <2> QED
    BY <2>2, Zenon DEF verdict
<1>11. /\ c2.active = c1.active /\ c2.context = c1.context /\ c2.date = c1.date
       /\ c2.settings = c1.settings
       /\ c3.context = c1.context /\ c3.date = c1.date /\ c3.settings = c1.settings
       /\ c3.sinking = c2.sinking /\ c3.cash = c1.cash
       /\ c4.context = c1.context /\ c4.date = c1.date /\ c4.settings = c1.settings
       /\ c4.active = c1.active /\ c4.cash = c1.cash /\ c4.sinking = c2.sinking
       /\ c4.baseline = c3.baseline
       /\ c5.liquidity = c4.liquidity /\ c5.settings = c1.settings
  <2>1. Keeps(c1, c3) /\ Keeps(c1, c4) /\ Keeps(c1, c5) /\ Keeps(c2, c4)
    BY <1>2, KeepsOn
  <2> QED
    BY <1>2, <1>3, <1>4, <2>1 DEF Keeps
<1>12. /\ c7.context = c1.context /\ c7.date = c1.date /\ c7.settings = c1.settings
       /\ c7.active = c1.active /\ c7.cash = c1.cash /\ c7.cycles = c1.cycles
       /\ c7.sinking = c2.sinking /\ c7.funded = c2.funded /\ c7.baseline = c3.baseline
       /\ c7.liquidity = c4.liquidity /\ c7.readiness = c5.readiness /\ c7.safe = c6.safe
  <2>1. Keeps(c1, c7) /\ Keeps(c2, c7) /\ Keeps(c3, c7) /\ Keeps(c4, c7) /\ Keeps(c5, c7) /\ Keeps(c6, c7)
    BY <1>2, KeepsOn
  <2> QED
    BY <1>3, <1>4, <2>1 DEF Keeps
<1>13. /\ c6.cash = c7.cash /\ c6.cycles = c7.cycles /\ c6.sinking = c7.sinking
       /\ c6.funded = c7.funded /\ c6.baseline = c7.baseline /\ c6.liquidity = c7.liquidity
  BY <1>2, <1>3, <1>4 DEF Keeps
<1>14. c7.sinking = SinkingAt(f, ctx, at, date, c7.cycles)
  BY <1>5, <1>12
<1>15. c7.baseline = BaselineOver(c7)
  BY <1>6, <1>11, <1>12, Zenon DEF BaselineOver
<1>16. c7.liquidity = CalculateLiquidityReserve(LiquidityInput(c7))
  BY <1>7, <1>11, <1>12, Zenon DEF LiquidityInput
<1>17. c7.readiness = ReadyAs(c7)
  <2>1. /\ c7.context = c4.context /\ c7.date = c4.date /\ c7.settings = c4.settings
        /\ c7.active = c4.active /\ c7.cash = c4.cash /\ c7.sinking = c4.sinking
        /\ c7.baseline = c4.baseline /\ c7.liquidity = c4.liquidity
    BY <1>11, <1>12
  <2>2. ReadyAs(c7) = ReadyAs(c4)
    BY <2>1, SameReadiness
  <2> QED
    BY <1>8, <1>12, <2>2
<1>18. c7.safe = CalculateSafeToInvest(c7.liquidity, c7.readiness.kind, c7.settings.increment)
  BY <1>9, <1>11, <1>12, Zenon
<1>19. ~ c7.throws => Invalid \notin {c7.cash, c7.cycles, c7.sinking, c7.funded, c7.baseline,
                                     c7.liquidity, c7.safe}
  BY <1>10, <1>12, <1>13, Zenon
<1>20. /\ c7.context = ctx /\ c7.date = date /\ c7.settings = policy /\ c7.active = ActiveAt(f, at)
       /\ c7.cash = CashAt(f, at) /\ c7.cycles = CyclesAt(f, ctx, at) /\ c7.funded = CoveredAt(f, ctx, at)
  BY <1>3, <1>5, <1>12
<1> QED
  BY <1>0, <1>14, <1>15, <1>16, <1>17, <1>18, <1>19, <1>20, Zenon DEF Calculated

-----------------------------------------------------------------------------
(* The same moment with more reserved                                      *)

(***************************************************************************)
(* The policy of a run, and what a report says of the calculations of its  *)
(* moment.                                                                 *)
(***************************************************************************)
PolicyOf(h, t) == CHOOSE p \in SettingsAt({Hydrated(s) : s \in h.settings}, DateOf(t)) : TRUE

(***************************************************************************)
(* A report says what the calculations of its moment found.                *)
(***************************************************************************)
LEMMA ReportIsCalculated ==
    ASSUME NEW h, NEW t, CanRun(h, t), ~ EvaluationOf(h, t).throws
    PROVE  \E c : /\ Calculated(c, FactsOf(h), CurrentOf(h, t), t, DateOf(t), PolicyOf(h, t))
                  /\ ~ c.throws
                  /\ EvaluationOf(h, t).sinking = c.sinking
                  /\ EvaluationOf(h, t).liquidity = c.liquidity
                  /\ EvaluationOf(h, t).safe = c.safe
<1> DEFINE i == Assembled(h, t, DateOf(t))
           r == EvaluationOf(h, t)
           s == StateOf(h, t)
<1>1. r = Summary(s)
  BY DEF EvaluationOf
<1>2. s = EvaluateOn(i, SettingsAt(i.settings, i.today))
  BY DEF StateOf, EvaluateFinancialState
<1> HIDE DEF r, s
<1>3. ~ s.throws /\ r.sinking = s.now.sinking /\ r.liquidity = s.now.liquidity /\ r.safe = s.now.safe
  BY <1>1 DEF Summary, r
<1> DEFINE policy == CHOOSE p \in SettingsAt(i.settings, i.today) : TRUE
           c == Checkpoint(i.facts, i.current, i.asOf, i.today, policy)
           j == Extended(i, [policy |-> policy, now |-> c])
<1>4. /\ {"throws", "created", "now", "policy"} \intersect DOMAIN i = {}
      /\ {"current", "ccrPeriod", "facts", "asOf", "today"} \subseteq DOMAIN i
      /\ i.facts = FactsOf(h) /\ i.asOf = t /\ i.today = DateOf(t)
  BY AssembledHas
<1>5. i.settings = {Hydrated(v) : v \in h.settings}
  <2> DEFINE base == FactsOf(h)
             covered == CoveredByBank(ContextAtBoundary(h, t), h.bank.coverage)
  <2>1. i = AssembledFrom(h, t, DateOf(t), base, covered)
    BY Zenon DEF Assembled
  <2> HIDE DEF base, covered, i
  <2> QED
    BY <2>1 DEF AssembledFrom
<1> HIDE DEF i
<1>6. s = EvaluateNow(j)
  BY <1>2, <1>3 DEF EvaluateOn, EvaluateWith, Throws
<1>7. policy = PolicyOf(h, t)
  BY <1>4, <1>5, Zenon DEF PolicyOf
<1> HIDE DEF c, policy
<1>8. /\ "throws" \notin DOMAIN j /\ "created" \notin DOMAIN j /\ {"now", "current"} \subseteq DOMAIN j
      /\ j.now = c /\ j.current = i.current
  BY <1>4 DEF Extended
<1> HIDE DEF j
<1>9. s.now = c /\ ~ c.throws
  BY <1>3, <1>6, <1>8, EvaluationKeeps
<1>10. c = Checkpoint(FactsOf(h), CurrentOf(h, t), t, DateOf(t), PolicyOf(h, t))
  BY <1>4, <1>7, Zenon DEF c, CurrentOf, i
<1>11. Calculated(c, FactsOf(h), CurrentOf(h, t), t, DateOf(t), PolicyOf(h, t))
  BY <1>10, CheckpointIsCalculated
<1> QED
  BY <1>3, <1>9, <1>11 DEF r

(***************************************************************************)
(* Facts that differ in what is reserved alone.                            *)
(***************************************************************************)
MoreReserved(g, f, N) ==
  /\ g.accounts = f.accounts /\ g.transactions = f.transactions /\ g.contributions = f.contributions
  /\ g.flows = f.flows /\ g.ambiguities = f.ambiguities /\ g.reconciliations = f.reconciliations
  /\ g.resolutions = f.resolutions /\ g.funds = f.funds /\ g.observations = f.observations
  /\ g.triggers = f.triggers /\ g.snapshots = f.snapshots /\ g.valuations = f.valuations
  /\ g.allocations = f.allocations \cup N

(***************************************************************************)
(* The evidence for a run does not depend on what is reserved.             *)
(***************************************************************************)
LEMMA SameEvidence ==
    ASSUME NEW h, NEW k, k.bank = h.bank, k.context = h.context,
           NEW f, NEW g, NEW N, MoreReserved(g, f, N), NEW ctx, NEW asOf, NEW today
    PROVE  EvidenceBacked(k, g, ctx, asOf, today) = EvidenceBacked(h, f, ctx, asOf, today)
<1>1. /\ g.accounts = f.accounts /\ g.transactions = f.transactions /\ g.contributions = f.contributions
      /\ g.flows = f.flows /\ g.ambiguities = f.ambiguities /\ g.observations = f.observations
      /\ g.funds = f.funds /\ g.snapshots = f.snapshots /\ g.valuations = f.valuations
  BY DEF MoreReserved
<1> DEFINE months == EvidenceMonthsOf(ctx, today)
<1>2. BankAccounts(g) = BankAccounts(f) /\ LedgerAt(g, asOf) = LedgerAt(f, asOf)
  BY <1>1, Zenon DEF BankAccounts, LedgerAt
<1>3. LiquidBalanceQuality(k, g, asOf) = LiquidBalanceQuality(h, f, asOf)
  <2>1. \A accounts, cash : BalanceQualityOf(k, accounts, cash) = BalanceQualityOf(h, accounts, cash)
    BY DEF BalanceQualityOf, EvidenceOf
  <2> QED
    BY <1>1, <1>2, <2>1, Zenon DEF LiquidBalanceQuality
<1>4. ReservationQuality(g, ctx, asOf) = ReservationQuality(f, ctx, asOf)
  BY <1>1, Zenon DEF ReservationQuality
<1>5. \A x : CompleteTransaction(g, x) = CompleteTransaction(f, x)
  BY <1>1, Zenon DEF CompleteTransaction
<1>6. ClassificationQuality(k, g, ctx, asOf, months) = ClassificationQuality(h, f, ctx, asOf, months)
  <2> HIDE DEF months
  <2> QED
    BY <1>1, <1>5 DEF ClassificationQuality
<1>7. \A m : MonthEvidence(k, g, ctx, m, asOf) = MonthEvidence(h, f, ctx, m, asOf)
  <2> TAKE m
  <2>1. \A first, last : BalancesReconciled(k, g, ctx, first, last)
                           = BalancesReconciled(h, f, ctx, first, last)
    BY <1>2, Zenon DEF BalancesReconciled, EvidenceOf
  <2> QED
    BY <1>1, <1>5, <2>1, Zenon DEF MonthEvidence
<1>8. {MonthEvidence(k, g, ctx, m, asOf) : m \in months} = {MonthEvidence(h, f, ctx, m, asOf) : m \in months}
  <2> HIDE DEF months
  <2> QED
    BY <1>7
<1> HIDE DEF months
<1>9. EvidenceOver(k, g, ctx, asOf, months) = EvidenceOver(h, f, ctx, asOf, months)
  BY <1>3, <1>4, <1>6, <1>8, Zenon DEF EvidenceOver
<1> QED
  BY <1>9, Zenon DEF EvidenceBacked, months

(***************************************************************************)
(* Reserving more leaves the context and the policy of a run.              *)
(***************************************************************************)
LEMMA SameRun ==
    ASSUME NEW h, NEW k, NEW N,
           DOMAIN h.facts = FactNames,
           k.facts = [h.facts EXCEPT !.allocations = h.facts.allocations \cup N],
           k.settings = h.settings, k.bank = h.bank, k.profile = h.profile, k.context = h.context,
           NEW t
    PROVE  /\ MoreReserved(FactsOf(k), FactsOf(h), N) /\ FactsOf(k).allocations = k.facts.allocations
           /\ FactsOf(h).allocations = h.facts.allocations
           /\ CurrentOf(k, t) = CurrentOf(h, t) /\ PolicyOf(k, t) = PolicyOf(h, t)
           /\ CanRun(k, t) <=> CanRun(h, t)
<1>1. MoreReserved(k.facts, h.facts, N) /\ DOMAIN k.facts = FactNames
  BY DEF MoreReserved, FactNames
<1>2. /\ MoreReserved(FactsOf(k), FactsOf(h), N) /\ FactsOf(k).allocations = k.facts.allocations
      /\ FactsOf(h).allocations = h.facts.allocations
  <2>1. CASE Bounded(h)
    <3> DEFINE b == h.profile.boundary
    <3>1. FactsOf(h) = FactsAtBoundary(h.facts, b) /\ FactsOf(k) = FactsAtBoundary(k.facts, b)
      BY <2>1 DEF FactsOf, Bounded
    <3> HIDE DEF b
    <3>2. /\ MoreReserved(FactsAtBoundary(k.facts, b), FactsAtBoundary(h.facts, b), N)
          /\ FactsAtBoundary(k.facts, b).allocations = k.facts.allocations
          /\ FactsAtBoundary(h.facts, b).allocations = h.facts.allocations
      BY <1>1 DEF MoreReserved, FactsAtBoundary, FactNames
    <3> QED
      BY <3>1, <3>2
  <2>2. CASE ~ Bounded(h)
    <3>1. FactsOf(h) = h.facts /\ FactsOf(k) = k.facts
      BY <2>2 DEF FactsOf, Bounded
    <3> QED
      BY <1>1, <3>1
  <2> QED
    BY <2>1, <2>2
<1>3. CurrentOf(k, t) = CurrentOf(h, t)
  <2> DEFINE covered(x) == CoveredByBank(ContextAtBoundary(x, t), x.bank.coverage)
             evidence(x) == EvidenceBacked(x, FactsOf(x), covered(x), t, DateOf(t))
  <2>1. covered(k) = covered(h)
    BY Zenon DEF ContextAtBoundary
  <2>2. \A x : CurrentOf(x, t) = RunContext(evidence(x), DateOf(t))
    <3> TAKE x
    <3> DEFINE v == evidence(x)
               w == covered(x)
               F == FactsOf(x)
    <3>1. Assembled(x, t, DateOf(t)) = AssembledFrom(x, t, DateOf(t), F, w)
      BY Zenon DEF Assembled
    <3>2. v = EvidenceBacked(x, F, w, t, DateOf(t))
      OBVIOUS
    <3> HIDE DEF w, F, v
    <3>3. AssembledFrom(x, t, DateOf(t), F, w).current
            = RunContext(EvidenceBacked(x, F, w, t, DateOf(t)), DateOf(t))
      BY DEF AssembledFrom
    <3> QED
      BY <3>1, <3>2, <3>3 DEF CurrentOf, v
  <2> HIDE DEF covered
  <2>3. evidence(k) = evidence(h)
    BY <1>2, <2>1, SameEvidence
  <2> HIDE DEF evidence
  <2> QED
    BY <2>2, <2>3
<1>4. PolicyOf(k, t) = PolicyOf(h, t)
  BY Zenon DEF PolicyOf
<1>5. CanRun(k, t) <=> CanRun(h, t)
  BY DEF CanRun, Assemblable
<1> QED
  BY <1>2, <1>3, <1>4, <1>5

(***************************************************************************)
(* A history's status, and what it covers of the spending, depend on what  *)
(* it consists of.                                                         *)
(***************************************************************************)
SameHistory(u, h) ==
  /\ u.funds = h.funds /\ u.allocations = h.allocations /\ u.flows = h.flows
  /\ u.coverage = h.coverage /\ u.asOf = h.asOf

(***************************************************************************)
(* A history's status depends on what it consists of.                      *)
(***************************************************************************)
LEMMA SameStatus ==
    ASSUME NEW h, NEW u, SameHistory(u, h)
    PROVE  HistoryStatus(u) = HistoryStatus(h)
<1>1. /\ u.funds = h.funds /\ u.allocations = h.allocations /\ u.flows = h.flows
      /\ u.coverage = h.coverage /\ u.asOf = h.asOf
  BY DEF SameHistory
<1>2. ValidEventsOfFunds(u) <=> ValidEventsOfFunds(h)
  BY <1>1, Zenon DEF ValidEventsOfFunds
<1>3. ValidFundedConsumption(u) <=> ValidFundedConsumption(h)
  <2>1. FundedEvents(u) = FundedEvents(h)
    BY <1>1, Zenon DEF FundedEvents
  <2> QED
    BY <1>1, <2>1, Zenon DEF ValidFundedConsumption
<1>4. HasCompleteCoverage(u) <=> HasCompleteCoverage(h)
  BY <1>1, Zenon DEF HasCompleteCoverage
<1>5. ValidBalances(u) <=> ValidBalances(h)
  <2>1. \A e : BalanceThrough(u, e) = BalanceThrough(h, e)
    BY <1>1, Zenon DEF BalanceThrough
  <2>2. \A fund : Reserved(u, fund) = Reserved(h, fund)
    BY <1>1, Zenon DEF Reserved
  <2> QED
    BY <1>1, <2>1, <2>2, Zenon DEF ValidBalances
<1> QED
  BY <1>1, <1>2, <1>3, <1>4, <1>5 DEF HistoryStatus

(***************************************************************************)
(* Reserving more pays for no consumption.                                 *)
(***************************************************************************)
LEMMA CoverageSpares ==
    ASSUME NEW h, NEW u, NEW N, u.allocations = h.allocations \cup N, u.asOf = h.asOf,
           \A a \in N : a.kind = "allocation",
           HistoryStatus(h) = "complete", HistoryStatus(u) = "complete"
    PROVE  FundedConsumptionCoverage(u) = FundedConsumptionCoverage(h)
<1> DEFINE E == {e \in FundedEvents(h) : e.at <= h.asOf}
           F == {e \in FundedEvents(u) : e.at <= u.asOf}
           covered(S) == [tx \in {e.tx : e \in S} |-> SumOver({e \in S : e.tx = tx}, LAMBDA e : e.amount)]
<1>1. F = E
  BY DEF FundedEvents
<1>2. FundedConsumptionCoverage(h) = OnHistory(h, Complete(covered(E)))
  BY Zenon DEF FundedConsumptionCoverage
<1>3. FundedConsumptionCoverage(u) = OnHistory(u, Complete(covered(F)))
  BY Zenon DEF FundedConsumptionCoverage
<1> HIDE DEF E, F
<1>4. covered(F) = covered(E)
  BY <1>1, Zenon
<1> HIDE DEF covered
<1> QED
  BY <1>2, <1>3, <1>4 DEF OnHistory, IfComplete

(***************************************************************************)
(* Two moments that differ in what the plan of the first reserves at the   *)
(* second say the same of what is safe to invest.                          *)
(***************************************************************************)
NumberedFacts(f) ==
  /\ IsFiniteSet(f.transactions) /\ \A x \in f.transactions : x.id \in Int /\ x.at \in Int
  /\ IsFiniteSet(f.funds) /\ \A fund \in f.funds : fund.createdAt \in Int
  /\ UniqueBy(f.funds, LAMBDA fund : fund.id)
  /\ IsFiniteSet(f.allocations)
NumberedPlan(ctx) == IsFiniteSet(ctx.paySchedule.dates) /\ NumberedReserves(ctx)
CarriesOut(N, plan, f, at) ==
  /\ IsFiniteSet(N)
  /\ \A a \in N : a \notin f.allocations /\ a.kind = "allocation" /\ a.at = at
  /\ \A a, b \in N : a.fund = b.fund => a = b
  /\ Carries(N, plan)

(***************************************************************************)
(* A plan that is carried out at its moment leaves what is safe to invest: *)
(* it is carried out by new allocations of the moment, one a fund, of the  *)
(* planned amounts.                                                        *)
(***************************************************************************)
LEMMA MomentsSpare ==
    ASSUME NEW f, NEW g, NEW N, MoreReserved(g, f, N), NumberedFacts(f),
           NEW ctx, NumberedPlan(ctx), NEW at \in Int, NEW date, NEW policy,
           NEW c, Calculated(c, f, ctx, at, date, policy), ~ c.throws,
           NEW d, Calculated(d, g, ctx, at, date, policy), ~ d.throws,
           WellFormed(c.sinking), WellFormed(c.liquidity),
           WellFormed(d.sinking), WellFormed(d.liquidity),
           AutomaticAllocations(c.liquidity, c.sinking, f.funds).value # NoValue,
           CarriesOut(N, AutomaticAllocations(c.liquidity, c.sinking, f.funds).value, f, at)
    PROVE  d.safe = c.safe
<1> DEFINE A == ActiveAt(f, at)
           B == ActiveAt(g, at)
           H == HistoryOf(A, ctx, at)
           K == HistoryOf(B, ctx, at)
           P == AutomaticAllocations(c.liquidity, c.sinking, f.funds)
<1>1. /\ B.flows = A.flows /\ B.ambiguities = A.ambiguities /\ B.reconciliations = A.reconciliations
      /\ B.funds = A.funds /\ B.observations = A.observations /\ B.allocations = A.allocations \cup N
      /\ A.funds \subseteq f.funds /\ A.allocations \subseteq f.allocations
  <2>1. Resolved(g, at) = Resolved(f, at)
    BY DEF Resolved, MoreReserved
  <2>2. /\ B.flows = A.flows /\ B.ambiguities = A.ambiguities /\ B.reconciliations = A.reconciliations
        /\ B.funds = A.funds /\ B.observations = A.observations
    BY <2>1 DEF ActiveAt, MoreReserved
  <2>3. B.allocations = A.allocations \cup N
    <3>1. \A a \in N : a.at <= at
      BY DEF CarriesOut
    <3> QED
      BY <3>1 DEF ActiveAt, MoreReserved
  <2>4. A.funds \subseteq f.funds /\ A.allocations \subseteq f.allocations
    BY DEF ActiveAt
  <2> QED
    BY <2>2, <2>3, <2>4
<1>2. LedgerAt(g, at) = LedgerAt(f, at)
  BY Zenon DEF LedgerAt, MoreReserved
<1> HIDE DEF A, B
<1>3. /\ H.funds = A.funds /\ H.allocations = A.allocations /\ H.flows = A.flows
      /\ H.coverage = ctx.reservationCoverage /\ H.asOf = at
      /\ K.funds = B.funds /\ K.allocations = B.allocations /\ K.flows = B.flows
      /\ K.coverage = ctx.reservationCoverage /\ K.asOf = at
      /\ DOMAIN H = {"funds", "allocations", "flows", "coverage", "asOf"}
      /\ DOMAIN K = {"funds", "allocations", "flows", "coverage", "asOf"}
  BY DEF HistoryOf
<1>4. /\ c.context = ctx /\ c.date = date /\ c.settings = policy /\ c.active = A
      /\ c.cash = CashAt(f, at) /\ c.cycles = CyclesAt(f, ctx, at)
      /\ c.sinking = SinkingAt(f, ctx, at, date, c.cycles) /\ c.funded = CoveredAt(f, ctx, at)
      /\ c.baseline = BaselineOver(c) /\ c.liquidity = CalculateLiquidityReserve(LiquidityInput(c))
      /\ c.readiness = ReadyAs(c)
      /\ c.safe = CalculateSafeToInvest(c.liquidity, c.readiness.kind, c.settings.increment)
      /\ Invalid \notin {c.cash, c.cycles, c.sinking, c.funded, c.baseline, c.liquidity, c.safe}
  BY Zenon DEF Calculated, A
<1>5. /\ d.context = ctx /\ d.date = date /\ d.settings = policy /\ d.active = B
      /\ d.cash = CashAt(g, at) /\ d.cycles = CyclesAt(g, ctx, at)
      /\ d.sinking = SinkingAt(g, ctx, at, date, d.cycles) /\ d.funded = CoveredAt(g, ctx, at)
      /\ d.baseline = BaselineOver(d) /\ d.liquidity = CalculateLiquidityReserve(LiquidityInput(d))
      /\ d.readiness = ReadyAs(d)
      /\ d.safe = CalculateSafeToInvest(d.liquidity, d.readiness.kind, d.settings.increment)
      /\ Invalid \notin {d.cash, d.cycles, d.sinking, d.funded, d.baseline, d.liquidity, d.safe}
  BY Zenon DEF Calculated, B
<1>6. d.cash = c.cash
  <2>1. g.snapshots = f.snapshots /\ g.valuations = f.valuations
    BY DEF MoreReserved
  <2> QED
    BY <1>2, <1>4, <1>5, <2>1, Zenon DEF CashAt
<1>7. d.cycles = c.cycles
  <2>1. g.triggers = f.triggers
    BY DEF MoreReserved
  <2> QED
    BY <1>1, <1>2, <1>4, <1>5, <2>1, Zenon DEF CyclesAt, A, B
<1> DEFINE s == ScheduleAt(f, ctx, at, date, c.cycles.value)
           u == ScheduleAt(g, ctx, at, date, c.cycles.value)
<1>8. c.sinking = CurrentCycleSinkingDue(s) /\ d.sinking = CurrentCycleSinkingDue(u)
  BY <1>4, <1>5, <1>7 DEF SinkingAt
<1>9. /\ SameHistory(s, H) /\ SameHistory(u, K)
      /\ s.cycles = c.cycles.value /\ s.paySchedule = ctx.paySchedule /\ s.today = date
      /\ u.cycles = c.cycles.value /\ u.paySchedule = ctx.paySchedule /\ u.today = date
  <2>1. s = Extended(H, [cycles |-> c.cycles.value, paySchedule |-> ctx.paySchedule, today |-> date])
    BY Zenon DEF ScheduleAt, A
  <2>2. u = Extended(K, [cycles |-> c.cycles.value, paySchedule |-> ctx.paySchedule, today |-> date])
    BY Zenon DEF ScheduleAt, B
  <2> HIDE DEF H, K, s, u
  <2>3. /\ SameHistory(s, H)
        /\ s.cycles = c.cycles.value /\ s.paySchedule = ctx.paySchedule /\ s.today = date
    BY <1>3, <2>1 DEF Extended, SameHistory
  <2>4. /\ SameHistory(u, K)
        /\ u.cycles = c.cycles.value /\ u.paySchedule = ctx.paySchedule /\ u.today = date
    BY <1>3, <2>2 DEF Extended, SameHistory
  <2> QED
    BY <2>3, <2>4
<1> HIDE DEF s, u, H, K
<1>10. /\ s.funds = A.funds /\ s.allocations = A.allocations /\ s.asOf = at
       /\ u.funds = A.funds /\ u.allocations = A.allocations \cup N /\ u.asOf = at
       /\ u.coverage = s.coverage
  BY <1>1, <1>3, <1>9 DEF SameHistory
<1>11. c.sinking.status = "complete" /\ c.liquidity.status = "complete"
  <2> HIDE DEF A
  <2>1. Unavailable.value = NoValue /\ Invalid.value = NoValue
    BY DEF Unavailable, Invalid
  <2> QED
    BY <2>1 DEF AutomaticAllocations
<1>12. Begun(CurrentPayCycle(s.cycles, s.asOf), s.asOf)
  <2> DEFINE L == LedgerAt(f, at).transactions
             T == {t \in f.triggers : \E x \in L : x.id = t.tx}
  <2>1. L \subseteq f.transactions
    BY DEF LedgerAt
  <2>2. IsFiniteSet({x.id : x \in L}) /\ \A x \in L : x.id \in Int /\ x.at \in Int
    <3> HIDE DEF L
    <3>1. IsFiniteSet(L)
      BY <2>1, FS_Subset DEF NumberedFacts
    <3>2. IsFiniteSet({x.id : x \in L})
      <4> DEFINE I == {x.id : x \in L}
                 m == [x \in L |-> x.id]
      <4>1. m \in Surjection(L, I)
        BY DEF Surjection
      <4> HIDE DEF I, m
      <4>2. IsFiniteSet(I)
        BY <3>1, <4>1, FS_Surjection
      <4> QED
        BY <4>2 DEF I
    <3> QED
      BY <2>1, <3>2 DEF NumberedFacts
  <2>3. c.cycles = BuildPayCycles(L, A.flows, T, ctx.paySchedule, at)
    BY <1>4, Zenon DEF CyclesAt, A
  <2>4. c.cycles # Invalid
    BY <1>4
  <2> HIDE DEF L, T
  <2>5. Begun(CurrentPayCycle(c.cycles.value, at), at)
    BY <2>2, <2>3, <2>4, CycleBegan
  <2> QED
    BY <1>9, <1>10, <2>5
<1>13. /\ d.sinking.status = "complete"
       /\ c.sinking.value.totalReserved \in Int /\ c.sinking.value.totalOutstanding \in Int
       /\ d.sinking.value.totalReserved \in Int /\ d.sinking.value.totalOutstanding \in Int
       /\ d.sinking.value.totalProtected = c.sinking.value.totalProtected
  <2>1. IsFiniteSet(N) /\ N \subseteq u.allocations
    BY <1>10 DEF CarriesOut
  <2>2. ASSUME \A a \in N : a.amount \in Nat PROVE Reserves(s, u, N)
    BY <1>1, <1>9, <1>10, <2>2 DEF Reserves, CarriesOut
  <2>3. /\ IsFiniteSet(s.allocations) /\ IsFiniteSet(s.funds)
        /\ \A fund \in s.funds : fund.createdAt \in Int
        /\ s.funds \subseteq f.funds
    <3>1. IsFiniteSet(A.allocations) /\ IsFiniteSet(A.funds)
      BY <1>1, FS_Subset DEF NumberedFacts
    <3> QED
      BY <1>1, <1>10, <3>1 DEF NumberedFacts
  <2>4. s.asOf \in Int /\ IsFiniteSet(s.paySchedule.dates)
    BY <1>9, <1>10 DEF NumberedPlan
  <2>5. \A x, y \in f.funds : x.id = y.id => x = y
    BY DEF NumberedFacts, UniqueBy
  <2>6. Carries(N, AutomaticAllocations(c.liquidity, c.sinking, f.funds).value)
    BY DEF CarriesOut
  <2>7. d.sinking # Invalid
    BY <1>5
  <2>8. Allots(s, u, N, c.sinking, d.sinking, c.liquidity, f.funds)
    BY <1>8, <1>10, <1>11, <1>12, <2>1, <2>2, <2>3, <2>4, <2>5, <2>6, <2>7 DEF Allots
  <2> QED
    BY <2>8, DueSpares
<1>14. d.funded = c.funded
  <2>1. HistoryStatus(s) = "complete" /\ HistoryStatus(u) = "complete"
    <3>1. SinkingFundSchedule(s).status = "complete" /\ SinkingFundSchedule(u).status = "complete"
      BY <1>8, <1>11, <1>13, DueIsOfFunds
    <3> QED
      BY <3>1, CompleteSchedule
  <2>2. HistoryStatus(H) = "complete" /\ HistoryStatus(K) = "complete"
    BY <1>9, <2>1, SameStatus
  <2>3. K.allocations = H.allocations \cup N /\ K.asOf = H.asOf
    BY <1>1, <1>3
  <2>4. \A a \in N : a.kind = "allocation"
    BY DEF CarriesOut
  <2>5. FundedConsumptionCoverage(K) = FundedConsumptionCoverage(H)
    BY <2>2, <2>3, <2>4, CoverageSpares
  <2> QED
    BY <1>4, <1>5, <2>5, Zenon DEF CoveredAt, A, B, H, K
<1>15. d.baseline = c.baseline
  BY <1>1, <1>4, <1>5, <1>14, Zenon DEF BaselineOver
<1>16. d.liquidity.status = "complete" /\ SameReserve(c.liquidity.value, d.liquidity.value)
  <2> DEFINE q == LiquidityInput(c)
             p == LiquidityInput(d)
  <2>1. /\ p.baseline = q.baseline /\ p.cash = q.cash /\ p.needs = q.needs
        /\ p.obligations = q.obligations /\ p.restricted = q.restricted
        /\ p.completeness = q.completeness /\ p.nextIncome = q.nextIncome /\ p.today = q.today
        /\ p.settings = q.settings
        /\ q.sinking = c.sinking /\ p.sinking = d.sinking
        /\ q.obligations = ctx.obligations /\ q.restricted = ctx.restricted
    BY <1>4, <1>5, <1>6, <1>15 DEF LiquidityInput
  <2> HIDE DEF q, p
  <2>2. SpareInputs(q)
    BY <2>1 DEF SpareInputs, NumberedPlan, NumberedReserves
  <2>3. c.sinking.value # NoValue /\ d.sinking.value # NoValue
    BY <1>11, <1>13 DEF WellFormed
  <2>4. c.liquidity = CalculateLiquidityReserve(q) /\ d.liquidity = CalculateLiquidityReserve(p)
        /\ d.liquidity # Invalid
    BY <1>4, <1>5 DEF q, p
  <2> QED
    BY <1>11, <1>13, <2>1, <2>2, <2>3, <2>4, LiquiditySpares
<1>17. d.readiness = c.readiness
  <2>1. ReadyAs(d) = ReadyAs(c)
    BY <1>1, <1>4, <1>5, <1>6, <1>11, <1>13, <1>15, <1>16, SameReadiness
  <2> QED
    BY <1>4, <1>5, <2>1
<1>18. c.liquidity.value # NoValue /\ d.liquidity.value # NoValue /\ d.liquidity.status = c.liquidity.status
  BY <1>11, <1>16 DEF WellFormed
<1>19. CalculateSafeToInvest(d.liquidity, c.readiness.kind, policy.increment)
         = CalculateSafeToInvest(c.liquidity, c.readiness.kind, policy.increment)
  BY <1>16, <1>18, SafeSpares
<1> QED
  BY <1>4, <1>5, <1>17, <1>19

-----------------------------------------------------------------------------
(* What a job reserves                                                     *)

(***************************************************************************)
(* The pay dates of a run are finitely many, and what it may owe and has   *)
(* set aside are amounts.                                                  *)
(***************************************************************************)
LEMMA PayDatesEnd ==
    ASSUME NEW c, StoredPlanning(c), NEW today \in Nat
    PROVE  IsFiniteSet(PayScheduleFor(c, today).dates)
<1>1. CASE c.declared /\ c.payDay # NoPayDay
  <2> DEFINE through == today + UnknownIncomeHorizonDays
             D == MonthlyDates(today + 1, through, c.payDay)
  <2>1. PayScheduleFor(c, today).dates = D
    BY <1>1 DEF PayScheduleFor, PaysThrough
  <2>2. c.payDay \in 1 .. 28
    BY <1>1 DEF StoredPlanning, MonthlyDay
  <2>3. through \in Int
    BY DEF UnknownIncomeHorizonDays
  <2> HIDE DEF through
  <2>4. D \subseteq today + 1 .. through
    <3> SUFFICES ASSUME NEW date \in D PROVE date \in today + 1 .. through
      OBVIOUS
    <3>1. date \in Int /\ today + 1 <= date /\ date <= through
      BY <2>2, DatesOfDays
    <3> QED
      BY <2>3, <3>1
  <2>5. IsFiniteSet(today + 1 .. through)
    BY <2>3, FS_Interval
  <2> HIDE DEF D
  <2> QED
    BY <2>1, <2>4, <2>5, FS_Subset
<1>2. CASE c.declared /\ c.payDay = NoPayDay
  BY <1>2, FS_EmptySet DEF PayScheduleFor, NoPays
<1>3. CASE ~ c.declared
  <2>1. IsFiniteSet(c.paySchedule.dates)
    BY <1>3 DEF StoredPlanning
  <2> QED
    BY <1>3, <2>1, FS_EmptySet DEF PayScheduleFor, NoPays
<1> QED
  BY <1>1, <1>2, <1>3

(***************************************************************************)
(* So are those of the context of a run.                                   *)
(***************************************************************************)
LEMMA RunIsNumbered ==
    ASSUME NEW ctx, DOMAIN ctx = ContextNames, StoredPlanning(ctx), NEW today \in Nat
    PROVE  NumberedPlan(RunContext(ctx, today))
<1> DEFINE schedule == PayScheduleFor(ctx, today)
           income == NextIncomeFor(ctx, today, schedule)
           end == WindowEnd(income, today)
           planned == [ctx EXCEPT !.nextIncome = income, !.paySchedule = schedule]
           run == RunContext(ctx, today)
<1>1. run = WithOccurrences(planned, today, end)
  BY Zenon DEF RunContext, PlannedFor, Planned
<1>2. IsFiniteSet(schedule.dates)
  BY PayDatesEnd
<1> HIDE DEF schedule, income, end, run
<1>3. /\ DOMAIN planned = ContextNames /\ planned.paySchedule = schedule
      /\ planned.obligations = ctx.obligations /\ planned.restricted = ctx.restricted
  BY DEF ContextNames
<1> HIDE DEF planned
<1>4. \E x, y, z : run = [planned EXCEPT !.scheduled = x, !.needs = y, !.scheduleComplete = z]
  <2>1. CASE planned.declared
    <3> DEFINE scheduled == ScheduledFor(planned, today, end)
               needs == planned.needs \union Derived({s \in scheduled : Upcoming(s, today, end)}, planned.needs)
    <3>1. run = [planned EXCEPT !.scheduled = scheduled, !.needs = needs]
      BY <1>1, <2>1, Zenon DEF WithOccurrences, WithDeclared
    <3> HIDE DEF scheduled, needs
    <3>2. run = [planned EXCEPT !.scheduled = scheduled, !.needs = needs,
                                !.scheduleComplete = planned.scheduleComplete]
      BY <1>3, <3>1 DEF ContextNames
    <3> QED
      BY <3>2
  <2>2. CASE ~ planned.declared
    <3> DEFINE complete == /\ planned.scheduleComplete
                           /\ \/ planned.scheduled = {}
                              \/ \E s \in planned.scheduled : \/ MonthAt(s.date) = MonthAt(today)
                                                              \/ Upcoming(s, today, end)
    <3>1. run = [planned EXCEPT !.scheduleComplete = complete]
      BY <1>1, <2>2, Zenon DEF WithOccurrences
    <3> HIDE DEF complete
    <3>2. run = [planned EXCEPT !.scheduled = planned.scheduled, !.needs = planned.needs,
                                !.scheduleComplete = complete]
      BY <1>3, <3>1 DEF ContextNames
    <3> QED
      BY <3>2
  <2> QED
    BY <2>1, <2>2
<1>5. /\ run.paySchedule = schedule /\ run.obligations = ctx.obligations
      /\ run.restricted = ctx.restricted
  BY <1>3, <1>4 DEF ContextNames
<1>6. NumberedReserves(ctx)
  BY DEF StoredPlanning
<1>7. NumberedPlan(run)
  BY <1>2, <1>5, <1>6 DEF NumberedPlan, NumberedReserves
<1> QED
  BY <1>7 DEF run

(***************************************************************************)
(* The context of the latest run is numbered.                              *)
(***************************************************************************)
LEMMA CurrentIsNumbered ==
    ASSUME IInv, Declares, profile # NoProfile
    PROVE  NumberedPlan(CurrentOf(Household, now))
<1>1. DOMAIN context = ContextNames /\ StoredPlanning(context)
  BY DEF IInv, Backed, StoredPlans, StoredContext, Declares
<1>2. DateOf(now) \in Nat
  BY TodayIsNat DEF IInv, Consistent, Today
<1>3. Household.context = context
  BY DEF Household
<1>4. PICK e : /\ CurrentOf(Household, now) = RunContext(e, DateOf(now))
               /\ DOMAIN e = ContextNames /\ SamePlanning(context, e)
  BY <1>1, <1>3, CurrentPlans
<1>5. StoredPlanning(e)
  BY <1>1, <1>4 DEF SamePlanning, StoredPlanning, NumberedReserves
<1>6. NumberedPlan(RunContext(e, DateOf(now)))
  BY <1>2, <1>4, <1>5, RunIsNumbered
<1> QED
  BY <1>4, <1>6

(***************************************************************************)
(* The facts of a run are numbered.                                        *)
(***************************************************************************)
LEMMA StoredIsNumbered ==
    ASSUME IInv PROVE NumberedFacts(FactsOf(Household)) /\ FactsOf(Household).funds = facts.funds
<1>1. Stored(facts)
  BY DEF IInv, Consistent
<1> DEFINE f == FactsOf(Household)
<1>2. f.funds = facts.funds /\ f.allocations = facts.allocations /\ f.transactions = facts.transactions
  BY <1>1, BoundaryKeepsReserves
<1> HIDE DEF f
<1>3. /\ IsFiniteSet(facts.transactions) /\ \A x \in facts.transactions : x.id \in Int /\ x.at \in Int
  BY <1>1 DEF Stored, StoredTransactions, Named
<1>4. /\ IsFiniteSet(facts.funds) /\ IsFiniteSet(facts.allocations)
      /\ \A fund \in facts.funds : fund.createdAt \in Int
  BY <1>1 DEF Stored, Named, Dated
<1>5. UniqueBy(facts.funds, LAMBDA fund : fund.id)
  BY <1>1, Zenon DEF Stored, Named
<1>6. UniqueBy(f.funds, LAMBDA fund : fund.id)
  BY <1>2, <1>5, Zenon
<1>7. NumberedFacts(f)
  BY <1>2, <1>3, <1>4, <1>6, Zenon DEF NumberedFacts
<1> QED
  BY <1>2, <1>7 DEF f

(***************************************************************************)
(* What the job of a salary reserves carries out the plan of its moment.   *)
(***************************************************************************)
BatchOf(P) == {AllocationOf(NextAllocation + Rank(P, p), p.fund, p.amount) : p \in P}

(***************************************************************************)
(* What was said of a job, of every plan with one amount a fund.           *)
(***************************************************************************)
LEMMA BatchCarriesOut ==
    ASSUME IInv, NEW f, f.allocations = facts.allocations,
           NEW P, IsFiniteSet(P), \A p \in P : p.fund \in Nat,
           \A p, q \in P : p.fund = q.fund => p = q
    PROVE  CarriesOut(BatchOf(P), P, f, now)
<1> DEFINE New(p) == AllocationOf(NextAllocation + Rank(P, p), p.fund, p.amount)
           N == {New(p) : p \in P}
           m == [p \in P |-> New(p)]
<1>1. NextAllocation \in Nat /\ \A o \in facts.allocations : o.id < NextAllocation
  BY NextRowIsNew DEF IInv, Consistent, Stored, NextAllocation
<1>2. ASSUME NEW p \in P
      PROVE  /\ New(p).id = NextAllocation + Rank(P, p) /\ Rank(P, p) \in Nat
             /\ New(p).fund = p.fund /\ New(p).amount = p.amount
             /\ New(p).kind = "allocation" /\ New(p).at = now
  <2>1. Rank(P, p) \in Nat
    BY FS_Subset, FS_CardinalityType DEF Rank
  <2> QED
    BY <2>1 DEF AllocationOf
<1>3. \A o \in facts.allocations : o.id \in Nat
  BY DEF IInv, Consistent, Stored, Named
<1> HIDE DEF New
<1>4. IsFiniteSet(N)
  <2>1. m \in Surjection(P, N)
    BY DEF Surjection
  <2> QED
    BY <2>1, FS_Surjection
<1>5. \A a \in N : a \notin f.allocations /\ a.kind = "allocation" /\ a.at = now
  <2> SUFFICES ASSUME NEW p \in P
               PROVE  New(p) \notin f.allocations /\ New(p).kind = "allocation" /\ New(p).at = now
    OBVIOUS
  <2>1. New(p).id >= NextAllocation /\ New(p).id \in Nat
    BY <1>1, <1>2
  <2>2. New(p) \notin facts.allocations
    BY <1>1, <1>3, <2>1
  <2> QED
    BY <1>2, <2>2
<1>6. \A a, b \in N : a.fund = b.fund => a = b
  <2> SUFFICES ASSUME NEW p \in P, NEW q \in P, New(p).fund = New(q).fund PROVE New(p) = New(q)
    OBVIOUS
  <2>1. p = q
    BY <1>2
  <2> QED
    BY <2>1
<1>7. Carries(N, P)
  BY <1>2 DEF Carries
<1>8. N = BatchOf(P)
  BY Zenon DEF BatchOf, New
<1> HIDE DEF N
<1>9. CarriesOut(N, P, f, now)
  BY <1>4, <1>5, <1>6, <1>7, Zenon DEF CarriesOut
<1> QED
  BY <1>8, <1>9

(***************************************************************************)
(* The evaluation of the moment with and without what its job reserved.    *)
(***************************************************************************)
LEMMA JobSparesTheMoment ==
    ASSUME IInv, Declares, NEW t \in facts.triggers, AllocateAutomatically(t),
           ~ EvaluationOf(Household', now).throws,
           HasReserve(report), HasReserve(EvaluationOf(Household', now))
    PROVE  EvaluationOf(Household', now).safe = report.safe
<1> DEFINE P == AutomaticAllocations(report.liquidity, report.sinking, facts.funds).value
           N == BatchOf(P)
           h == Household
           k == Household'
           f == FactsOf(h)
           g == FactsOf(k)
           ctx == CurrentOf(h, now)
           policy == PolicyOf(h, now)
           again == EvaluationOf(k, now)
<1>1. /\ report # NotEvaluated /\ ~ report.throws /\ P # NoValue
      /\ facts' = [facts EXCEPT !.allocations = @ \union N]
      /\ UNCHANGED <<context, profile, settings, bank>>
  BY Zenon DEF AllocateAutomatically, BatchOf, Rank
<1>2. report = EvaluationOf(h, now)
  BY DEF IInv, Latest
<1>3. CanRun(h, now)
  BY <1>1, <1>2 DEF EvaluationOf
<1>4. profile # NoProfile /\ DOMAIN facts = FactNames /\ now \in Int
  <2>1. h.profile = profile
    BY DEF Household
  <2> QED
    BY <1>3, <2>1 DEF CanRun, IInv, Consistent, Stored, Clocked
<1>5. NumberedPlan(ctx)
  BY <1>4, CurrentIsNumbered
<1>6. NumberedFacts(f) /\ f.funds = facts.funds /\ f.allocations = facts.allocations
  <2>1. Stored(facts)
    BY DEF IInv, Consistent
  <2> QED
    BY <2>1, StoredIsNumbered, BoundaryKeepsReserves
<1>7. /\ h.facts = facts /\ k.facts = facts'
      /\ k.settings = h.settings /\ k.bank = h.bank /\ k.profile = h.profile
      /\ k.context = h.context
  BY <1>1 DEF Household
<1>8. IsFiniteSet(P) /\ (\A p \in P : p.fund \in Nat) /\ \A p, q \in P : p.fund = q.fund => p = q
  <2>1. Named(facts.funds)
    BY DEF IInv, Consistent, Stored
  <2> QED
    BY <1>1, <2>1, PlanIsOnePerFund
<1> HIDE DEF h, k, P
<1>9. CarriesOut(N, P, f, now)
  BY <1>6, <1>8, BatchCarriesOut
<1> HIDE DEF N
<1>10. /\ MoreReserved(g, f, N) /\ CurrentOf(k, now) = ctx /\ PolicyOf(k, now) = policy
       /\ CanRun(k, now)
  <2>1. DOMAIN h.facts = FactNames /\ k.facts = [h.facts EXCEPT !.allocations = h.facts.allocations \cup N]
    BY <1>1, <1>4, <1>7
  <2> QED
    BY <1>3, <1>7, <2>1, SameRun
<1>11. PICK c : /\ Calculated(c, f, ctx, now, DateOf(now), policy) /\ ~ c.throws
                /\ report.sinking = c.sinking /\ report.liquidity = c.liquidity
                /\ report.safe = c.safe
  BY <1>1, <1>2, <1>3, ReportIsCalculated
<1>12. again = EvaluationOf(k, now) /\ ~ again.throws /\ HasReserve(again)
  BY DEF k
<1>13. PICK d : /\ Calculated(d, g, ctx, now, DateOf(now), policy) /\ ~ d.throws
                /\ again.sinking = d.sinking /\ again.liquidity = d.liquidity
                /\ again.safe = d.safe
  <2>1. ~ EvaluationOf(k, now).throws
    BY <1>12
  <2> HIDE DEF again
  <2>2. \E d : /\ Calculated(d, FactsOf(k), CurrentOf(k, now), now, DateOf(now), PolicyOf(k, now))
               /\ ~ d.throws
               /\ EvaluationOf(k, now).sinking = d.sinking
               /\ EvaluationOf(k, now).liquidity = d.liquidity
               /\ EvaluationOf(k, now).safe = d.safe
    BY <1>10, <2>1, ReportIsCalculated
  <2> QED
    BY <1>10, <1>12, <2>2
<1>14. /\ WellFormed(c.sinking) /\ WellFormed(c.liquidity)
       /\ WellFormed(d.sinking) /\ WellFormed(d.liquidity)
  BY <1>11, <1>12, <1>13 DEF HasReserve
<1>15. P = AutomaticAllocations(c.liquidity, c.sinking, f.funds).value
  BY <1>6, <1>11 DEF P
<1> HIDE DEF f, g, ctx, policy, again
<1>16. d.safe = c.safe
  BY <1>1, <1>4, <1>5, <1>6, <1>9, <1>10, <1>11, <1>13, <1>14, <1>15, MomentsSpare
<1> QED
  BY <1>11, <1>13, <1>16 DEF again, k

(***************************************************************************)
(* Only the job of a salary records that it was allocated for.             *)
(***************************************************************************)
LEMMA OnlyJobsAllocate ==
    ASSUME Next, allocatedFor' # allocatedFor
    PROVE  \E t \in facts.triggers : AllocateAutomatically(t)
<1>1. CASE BankNext
  BY <1>1 DEF BankNext, ImportBankMovement, ClassifyPrimarySalary, ClassifyExternalFlow,
       ObserveSpending, FactsOnly
<1>2. CASE CorrectionNext
  BY <1>2 DEF CorrectionNext, CorrectClassification, ConfirmTransfer, RejectTransfer, FactsOnly
<1>3. CASE CashNext
  BY <1>3 DEF CashNext, RecordCash, ReconcileCash, ResolveReconciliation, BootstrapCashAccount,
       FactsOnly
<1>4. CASE OwnerNext
  BY <1>4 DEF OwnerNext, CreateFund, AllocateManually, ChangeMateriality, ProvideEstimate,
       NewSettings, UpdatePlanning, BootstrapProfile, SetDecisionBoundary, FactsOnly
<1>5. CASE NextDay
  BY <1>5 DEF NextDay
<1> QED
  BY <1>1, <1>2, <1>3, <1>4, <1>5 DEF Next

(***************************************************************************)
(* Reserving a salary automatically never changes what is safe to invest.  *)
(***************************************************************************)
LEMMA AllocationSpares ==
    ASSUME IInv, Declares, [Next]_vars, allocatedFor' # allocatedFor,
           NEW h \in {Household'}, NEW again \in {EvaluationOf(h, now)},
           ~ again.throws, HasReserve(report), HasReserve(again)
    PROVE  again.safe = report.safe
<1>1. Next
  BY DEF vars
<1>2. PICK t \in facts.triggers : AllocateAutomatically(t)
  BY <1>1, OnlyJobsAllocate
<1>3. again = EvaluationOf(Household', now)
  OBVIOUS
<1> QED
  BY <1>2, <1>3, JobSparesTheMoment

(***************************************************************************)
(* Evaluated again with what it reserved, the moment of a job says the     *)
(* same of what is safe to invest: what the cycle owed is reserved now,    *)
(* and both are protected alike.                                           *)
(***************************************************************************)
THEOREM ReservingSparesTheSafeAmount == Spec => AllocationSparesTheSafeAmount
<1>1. IInv /\ Declares /\ [Next]_vars =>
        [allocatedFor' # allocatedFor =>
           \A h \in {Household'} : \A again \in {EvaluationOf(h, now)} :
              ~ again.throws /\ HasReserve(report) /\ HasReserve(again)
                => again.safe = report.safe]_vars
  BY AllocationSpares
<1> QED
  BY <1>1, HouseholdInvariant, DeclaresAlways, PTL DEF Spec, AllocationSparesTheSafeAmount
=============================================================================
