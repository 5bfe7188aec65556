---------------------------- MODULE LocalCalendar ----------------------------
(***************************************************************************)
(* The proleptic Gregorian calendar as the engine computes with it: a date *)
(* is <<year, month, day>>, its ordinal the number of days since the first *)
(* of January of the year 1, and a month is the pair <<year, month>>.      *)
(***************************************************************************)
EXTENDS Integers, FiniteSetsExt, ExactMath

LastYear == 9999

\* Mutant: every fourth year.
JulianLeapYear(y) == y % 4 = 0

LeapYear(y) == y % 4 = 0 /\ (y % 100 # 0 \/ y % 400 = 0)

DaysInGregorianMonth(y, m) ==
  CASE m = 2              -> IF LeapYear(y) THEN 29 ELSE 28
    [] m \in {4, 6, 9, 11} -> 30
    [] OTHER               -> 31

\* The days of a year before a month, and of the calendar before a year.
DaysBeforeMonth(y, m) == MapThenSumSet(LAMBDA k : DaysInGregorianMonth(y, k), 1 .. m - 1)
DaysBeforeYear(y) == LET prior == y - 1
                     IN  prior * 365 + prior \div 4 - prior \div 100 + prior \div 400

LocalDateOrdinal(date) == DaysBeforeYear(date[1]) + DaysBeforeMonth(date[1], date[2]) + date[3] - 1

\* The binary search over the years, one halving of [low, high] per application: the interval
\* keeps the last year that does not start after the ordinal.
Halve(n, interval) ==
  LET low == interval[1]  high == interval[2]
      middle == CeilDivide(low + high, 2)
  IN  IF low >= high
      THEN interval
      ELSE IF DaysBeforeYear(middle) <= n
           THEN <<middle, high>>
           ELSE <<low, middle - 1>>

YearOfOrdinal(n) ==
  LET search[k \in 0 .. 14] == IF k = 0 THEN <<1, LastYear>> ELSE Halve(n, search[k - 1])
  IN  search[14][1]

\* The month is found by taking whole months from the days since the new year.
MonthOfDay(y, day) == CHOOSE m \in 1 .. 12 : /\ DaysBeforeMonth(y, m) <= day
                                             /\ day < DaysBeforeMonth(y, m + 1)
DateOfDay(y, m, day) == <<y, m, day - DaysBeforeMonth(y, m) + 1>>
DateInYear(y, day) == DateOfDay(y, MonthOfDay(y, day), day)
DateFrom(y, n) == DateInYear(y, n - DaysBeforeYear(y))
LocalDateFromOrdinal(n) == DateFrom(YearOfOrdinal(n), n)

AddLocalDays(date, days) == LocalDateFromOrdinal(LocalDateOrdinal(date) + days)

LocalDaysBetween(startInclusive, endExclusive) ==
  LocalDateOrdinal(endExclusive) - LocalDateOrdinal(startInclusive)

YearMonthFromLocalDate(date) == <<date[1], date[2]>>

MonthIndex(month) == month[1] * 12 + month[2] - 1
MonthOfIndex(i) == <<i \div 12, (i % 12) + 1>>

AddYearMonths(month, offset) == MonthOfIndex(MonthIndex(month) + offset)

\* The count months before the target, the oldest first, none before the year 1.
PriorYearMonths(target, count) ==
  SelectSeq([k \in 1 .. count |-> MonthOfIndex(MonthIndex(target) - (count + 1 - k))],
            LAMBDA month : month[1] >= 1)
==============================================================================
