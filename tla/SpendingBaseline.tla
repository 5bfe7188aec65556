--------------------------- MODULE SpendingBaseline ---------------------------
(***************************************************************************)
(* The spending baseline: what a month normally costs, estimated from the  *)
(* latest complete months, or from a fallback the owner gave.  The inputs  *)
(* b are                                                                   *)
(*   flows        [id, tx, kind, amount, reimbursable, related]            *)
(*   observations [flow, date, category, necessity, cadence, irregular]    *)
(*   coverage     [month, reconciled, ambiguityFree, fxComplete, classified]*)
(*   scheduled    [id, date, amount, necessity]     recurring spending, the*)
(*                date an ordinal                                          *)
(*   scheduleComplete, funded (a metric: transaction -> amount), target    *)
(*   settings     [window, minimum, lookback, materiality, percentile,     *)
(*                 seasonalMinimum, cap, fallback]                         *)
(***************************************************************************)
EXTENDS LocalCalendar, Metrics

NoFallback == [normal |-> -1]
NoFactor == [num |-> 0, den |-> 0]
NotLinked == 0

ValidBaselineSettings(s) ==
  /\ s.minimum >= 3 /\ s.window >= s.minimum
  /\ s.seasonalMinimum >= 24
  /\ s.lookback > 0 /\ s.lookback >= Larger(s.window, s.seasonalMinimum)
  /\ s.materiality >= 0
  /\ 0 < s.percentile.num /\ s.percentile.num <= s.percentile.den
  /\ 0 <= s.cap.num /\ s.cap.num < s.cap.den
  /\ s.fallback # NoFallback => 0 <= s.fallback.essential /\ s.fallback.essential <= s.fallback.normal

----------------------------------------------------------------------------
(* The facts *)

Reversal(f) == f.kind \in {"refund", "reimbursement"}
Spending(f) == f.kind = "consumption" \/ Reversal(f)
FlowOf(b, o) == CHOOSE f \in b.flows : f.id = o.flow
Observed(b, f) == \E o \in b.observations : o.flow = f.id
ObservationOf(b, f) == CHOOSE o \in b.observations : o.flow = f.id
MonthOf(o) == YearMonthFromLocalDate(o.date)

CompleteMonth(c) == c.reconciled /\ c.ambiguityFree /\ c.fxComplete /\ c.classified

\* A linked reversal gives back part of a consumption that allows it, never more than all.
ValidReversal(b, f) ==
  \E original \in b.flows :
     /\ original.tx = f.related /\ original.kind = "consumption"
     /\ f.kind = "reimbursement" => original.reimbursable
     /\ SumOver({o \in b.flows : Reversal(o) /\ o.related = f.related}, LAMBDA o : o.amount)
          <= original.amount

\* A linked reversal keeps the classification of its original, and an unlinked one cannot be
\* in a complete month.
SameClass(o, p) == /\ o.category = p.category /\ o.necessity = p.necessity
                   /\ o.cadence = p.cadence /\ o.irregular = p.irregular
ValidReversalObservation(b, o) ==
  LET f == FlowOf(b, o)
  IN  IF f.related # NotLinked
      THEN \E original \in b.flows : /\ original.tx = f.related
                                     /\ Observed(b, original)
                                     /\ SameClass(o, ObservationOf(b, original))
      ELSE \A c \in b.coverage : c.month = MonthOf(o) => ~ CompleteMonth(c)

ValidSpendingFacts(b) ==
  /\ UniqueBy(b.flows, LAMBDA f : f.id) /\ UniqueBy(b.flows, LAMBDA f : f.tx)
  /\ UniqueBy(b.observations, LAMBDA o : o.flow)
  /\ UniqueBy(b.coverage, LAMBDA c : c.month)
  /\ UniqueBy(b.scheduled, LAMBDA s : s.id)
  /\ \A f \in b.flows : Spending(f) => f.amount > 0
  /\ \A f \in b.flows : Reversal(f) /\ f.related # NotLinked => ValidReversal(b, f)
  /\ \A o \in b.observations : /\ \E f \in b.flows : f.id = o.flow /\ Spending(f)
                               /\ Reversal(FlowOf(b, o)) => ValidReversalObservation(b, o)
  /\ \A o, p \in b.observations : o.category = p.category => o.necessity = p.necessity
  /\ \A s \in b.scheduled : s.amount > 0

MissingObservation(b) == \E f \in b.flows : Spending(f) /\ ~ Observed(b, f)

----------------------------------------------------------------------------
(* The months of the estimate *)

\* selectLatestCompleteMonths: the latest complete months of the lookback, oldest first.
LastMonths(months, count) ==
  IF Len(months) <= count THEN months ELSE SubSeq(months, Len(months) - count + 1, Len(months))
LatestCompleteMonths(b, count) ==
  LastMonths(SelectSeq(PriorYearMonths(b.target, b.settings.lookback),
                       LAMBDA m : \E c \in b.coverage : c.month = m /\ CompleteMonth(c)), count)

FundedOf(b, f) == IF f.tx \in DOMAIN b.funded.value THEN b.funded.value[f.tx] ELSE 0
Ordinary(b, f) == f.amount - FundedOf(b, f)

ValidFunding(b, months) ==
  /\ \A tx \in DOMAIN b.funded.value : b.funded.value[tx] >= 0
  /\ \A o \in b.observations :
        FlowOf(b, o).kind = "consumption" /\ MonthOf(o) \in months => Ordinary(b, FlowOf(b, o)) >= 0

\* The consumption of a set of months, as the observations classify it.
Consumed(b, months, counts(_)) ==
  {o \in b.observations : FlowOf(b, o).kind = "consumption" /\ MonthOf(o) \in months /\ counts(o)}
OrdinaryTotal(b, observations) == SumOver(observations, LAMBDA o : Ordinary(b, FlowOf(b, o)))

Irregular(o) == o.irregular
Recurring(o) == ~ o.irregular /\ o.cadence = "recurring"
Variable(o) == ~ o.irregular /\ o.cadence = "variable"

VariableCategories(b) == {o.category : o \in {p \in b.observations : p.cadence = "variable"}}

\* The reversals of variable spending in the months, by date and then by flow.
Reversals(b, months) ==
  LET earlier(o, p) == \/ LocalDateOrdinal(o.date) < LocalDateOrdinal(p.date)
                       \/ o.date = p.date /\ o.flow < p.flow
  IN  SetToSortSeq({o \in b.observations : /\ Reversal(FlowOf(b, o)) /\ Variable(o)
                                           /\ FlowOf(b, o).related # NotLinked
                                           /\ MonthOf(o) \in months}, earlier)

\* The variable consumption by month and category, before any reversal is applied.
BeforeReversals(b, months) ==
  [variable |-> [c \in months \X VariableCategories(b) |->
      OrdinaryTotal(b, Consumed(b, {c[1]}, LAMBDA o : Variable(o) /\ o.category = c[2]))],
   applied |-> [tx \in {f.tx : f \in b.flows} |-> 0],
   excess |-> 0]
Reduced(s, f, cell, reduction) ==
  [variable |-> [s.variable EXCEPT ![cell] = @ - reduction],
   applied  |-> [s.applied EXCEPT ![f.related] = @ + reduction],
   excess   |-> s.excess + f.amount - reduction]
ApplyReversal(b, s, o, f) ==
  LET original == CHOOSE g \in b.flows : g.tx = f.related
      cell == <<MonthOf(o), o.category>>
      applicable == Smaller(f.amount, AtLeastZero(Ordinary(b, original) - s.applied[f.related]))
  IN  Reduced(s, f, cell, Smaller(applicable, s.variable[cell]))

\* Applying the reversals one by one: each takes what is left of its original from the
\* category of its month, and what that cannot absorb is excluded.
AfterReversals(b, months) ==
  FoldLeft(LAMBDA s, o : ApplyReversal(b, s, o, FlowOf(b, o)), BeforeReversals(b, months),
           Reversals(b, months))

----------------------------------------------------------------------------
(* The estimate *)

\* A category month above its median by more than three median deviations, and by more than
\* the materiality, counts as that boundary.
Deviation(sample, center) ==
  Median([i \in DOMAIN sample |-> Larger(sample[i] - center, center - sample[i])])
CutAt(sample, boundary) == [i \in DOMAIN sample |-> Smaller(sample[i], boundary)]
WinsorizedAround(sample, center, materiality) ==
  CutAt(sample, center + Larger(3 * Deviation(sample, center), materiality))
Winsorized(sample, materiality) == WinsorizedAround(sample, Median(sample), materiality)

Essential(b, category) ==
  \E o \in b.observations : o.category = category /\ o.necessity = "essential"

\* categoryEstimates over a sequence of months, from the sample of each category.
EstimatesOf(b, months, samples, excess) ==
  LET categories == DOMAIN samples
  IN  [normal    |-> SumOver(categories, LAMBDA c : Median(samples[c])),
       essential |-> SumOver({c \in categories : Essential(b, c)}, LAMBDA c : Median(samples[c])),
       monthly   |-> [i \in DOMAIN months |-> SumOver(categories, LAMBDA c : samples[c][i])],
       excess    |-> excess]
EstimatesAfter(b, months, after) ==
  EstimatesOf(b, months,
    [c \in VariableCategories(b) |->
       Winsorized([i \in DOMAIN months |-> after.variable[<<months[i], c>>]],
                  b.settings.materiality)],
    after.excess)
Estimates(b, months) == EstimatesAfter(b, months, AfterReversals(b, Range(months)))

\* seasonalFactor: the same calendar month against all of them, within the cap.
Capped(part, whole, cap) ==
  LET lower == cap.den - cap.num
      upper == cap.den + cap.num
  IN  IF part * cap.den < whole * lower
      THEN [num |-> lower, den |-> cap.den]
      ELSE IF part * cap.den > whole * upper
      THEN [num |-> upper, den |-> cap.den]
      ELSE [num |-> part, den |-> whole]
FactorOf(same, overall, cap) ==
  IF overall = 0 \/ same = << >> THEN NoFactor ELSE Capped(Median(same), overall, cap)
SeasonalFactorOver(b, months, monthly) ==
  FactorOf(SelectSeq([i \in DOMAIN months |-> IF months[i][2] = b.target[2] THEN monthly[i] ELSE -1],
                     LAMBDA v : v >= 0),
           Median(monthly), b.settings.cap)
SeasonalFactor(b, months) ==
  IF Len(months) < b.settings.seasonalMinimum
  THEN NoFactor
  ELSE SeasonalFactorOver(b, months, Estimates(b, months).monthly)

Seasonal(amount, factor) == IF factor = NoFactor
                            THEN amount
                            ELSE MultiplyFractionHalfEven(amount, factor.num, factor.den)

\* The percentile of what the months above the median month cost more than it.
BufferAbove(b, above) == NearestRank(above, b.settings.percentile.num, b.settings.percentile.den)
VariabilityBuffer(b, monthlyNormal, center) ==
  LET above == SelectSeq(monthlyNormal, LAMBDA v : v > center)
  IN  BufferAbove(b, [i \in DOMAIN above |-> above[i] - center])

Due(b) == {s \in b.scheduled : YearMonthFromLocalDate(LocalDateFromOrdinal(s.date)) = b.target}
RecurringOf(b, due) ==
  [normal    |-> SumOver(due, LAMBDA s : s.amount),
   essential |-> SumOver({s \in due : s.necessity = "essential"}, LAMBDA s : s.amount)]

BaselineOf(recurring, variableNormal, variableEssential, buffer, source) ==
  [recurringNormal |-> recurring.normal, recurringEssential |-> recurring.essential,
   variableNormal |-> variableNormal, variableEssential |-> variableEssential,
   normal |-> recurring.normal + variableNormal,
   essential |-> recurring.essential + variableEssential,
   buffer |-> buffer, source |-> source]

HistoricalFrom(b, recurring, estimates, factor, monthlyNormal) ==
  BaselineOf(recurring, Seasonal(estimates.normal, factor), Seasonal(estimates.essential, factor),
             VariabilityBuffer(b, monthlyNormal, Median(monthlyNormal)), "historical")
HistoricalOver(b, months, seasonal, recurring, estimates) ==
  HistoricalFrom(b, recurring, estimates, SeasonalFactor(b, seasonal),
    [i \in DOMAIN months |-> OrdinaryTotal(b, Consumed(b, {months[i]}, Recurring))
                               + estimates.monthly[i]])
HistoricalBaseline(b, months, seasonal) ==
  HistoricalOver(b, months, seasonal, RecurringOf(b, Due(b)), Estimates(b, months))

\* The owner's estimate stands in for a short history if it covers the recurring spending.
FallbackBaseline(f, recurring) ==
  IF \/ f = NoFallback
     \/ f.normal < recurring.normal
     \/ f.essential < recurring.essential
  THEN Unavailable
  ELSE Partial(BaselineOf(recurring, f.normal - recurring.normal,
                          f.essential - recurring.essential, 0, "fallback"))

BaselineFrom(b, months, seasonal) ==
  LET used == Range(months) \union (IF Len(seasonal) = b.settings.seasonalMinimum
                                    THEN Range(seasonal) ELSE {})
  IN  IF Len(months) < b.settings.minimum
      THEN FallbackBaseline(b.settings.fallback, RecurringOf(b, Due(b)))
      ELSE IF b.funded.value = NoValue
      THEN Unavailable
      ELSE IF ~ ValidFunding(b, used)
      THEN Invalid
      ELSE [status |-> IF b.funded.status = "partial" THEN "partial" ELSE "complete",
            value  |-> HistoricalBaseline(b, months, seasonal)]
CalculateSpendingBaseline(b) ==
  IF ~ ValidBaselineSettings(b.settings) \/ ~ ValidSpendingFacts(b)
  THEN Invalid
  ELSE IF ~ b.scheduleComplete \/ MissingObservation(b)
  THEN Unavailable
  ELSE BaselineFrom(b, LatestCompleteMonths(b, b.settings.window),
                       LatestCompleteMonths(b, b.settings.seasonalMinimum))
==============================================================================
