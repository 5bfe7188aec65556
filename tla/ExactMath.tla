------------------------------ MODULE ExactMath ------------------------------
(***************************************************************************)
(* The exact arithmetic of the financial engine: every amount is an        *)
(* integer number of minor units, and the few divisions round half to      *)
(* even.  Samples are sequences of integers.                               *)
(***************************************************************************)
EXTENDS Integers, Sequences, SequencesExt

\* Division of n by a positive d, a half rounded to the even neighbour, the sign kept.
HalfEvenDivide(n, d) ==
  LET a == IF n < 0 THEN -n ELSE n
      q == a \div d
      r == a % d
      up == 2 * r > d \/ (2 * r = d /\ q % 2 = 1)
      rounded == IF up THEN q + 1 ELSE q
  IN  IF n < 0 THEN -rounded ELSE rounded

MultiplyFractionHalfEven(amount, n, d) == HalfEvenDivide(amount * n, d)

Ascending(sample) == SortSeq(sample, <)

\* The middle of a non-empty sample, or the rounded mean of the two middle values.
Median(sample) ==
  LET s == Ascending(sample)
      middle == Len(s) \div 2
  IN  IF Len(s) % 2 = 1
      THEN s[middle + 1]
      ELSE HalfEvenDivide(s[middle] + s[middle + 1], 2)

\* The smallest value with at least the fraction percentile/scale of the sample at or below it.
NearestRank(sample, percentile, scale) ==
  IF sample = <<>>
  THEN 0
  ELSE Ascending(sample)[(percentile * Len(sample) + scale - 1) \div scale]

AtLeastZero(n) == IF n < 0 THEN 0 ELSE n
Smaller(a, b) == IF a < b THEN a ELSE b
Larger(a, b) == IF a < b THEN b ELSE a
\* Division of a natural n by a positive d, rounded up or down to a whole number.
CeilDivide(n, d) == (n + d - 1) \div d
RoundDown(n, increment) == (n \div increment) * increment
==============================================================================
