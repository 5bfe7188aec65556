------------------------------ MODULE Liquidity ------------------------------
(***************************************************************************)
(* The liquidity reserve: the cash that must stay, and the cash that       *)
(* should.  Dates are ordinals.  The inputs q are                          *)
(*   baseline, sinking, cash     metrics from upstream                     *)
(*   needs        [id, schedule, state, direction, due, necessity, amount] *)
(*   obligations  [id, due, upper, priority, committed, status, coverage,  *)
(*                 by]   the upper end of what may be owed, and the fund   *)
(*                 or need that covers it                                  *)
(*   restricted   [id, amount]                                             *)
(*   completeness the statuses of needs, obligations and restricted        *)
(*   nextIncome, today, settings                                           *)
(***************************************************************************)
EXTENDS SinkingFunds, LocalCalendar

UnknownIncomeHorizonDays == 31
NoSchedule == 0

ValidFraction(f) == f.den > 0

ValidSettings(s) ==
  /\ ValidFraction(s.minimumMonths) /\ ValidFraction(s.comfortMonths)
  /\ s.minimumMonths.num >= 0 /\ s.comfortMonths.num >= 0
  /\ s.comfortMonths.num * s.minimumMonths.den >= s.minimumMonths.num * s.comfortMonths.den
  /\ s.obligationHorizonDays \in 1 .. 3660

\* A monthly amount for the days of [start, end): each day takes its share of its own month.
\* The shares are added over the product of the month lengths that occur.
MonthLength(date) == DaysInGregorianMonth(date[1], date[2])
MonthLengths(start, end) == [n \in start .. end - 1 |-> MonthLength(LocalDateFromOrdinal(n))]
Shares(amount, lengths, common) ==
  HalfEvenDivide(SumOver(DOMAIN lengths, LAMBDA n : amount * (common \div lengths[n])), common)
Prorated(amount, lengths) ==
  Shares(amount, lengths, FoldSet(LAMBDA l, product : l * product, 1, Range(lengths)))
ProrateMonthly(amount, start, end) ==
  IF start >= end THEN 0 ELSE Prorated(amount, MonthLengths(start, end))

----------------------------------------------------------------------------
(* Operational needs: one debit per recurring schedule *)

GroupOf(n, needs) == IF n.schedule = NoSchedule
                     THEN {n}
                     ELSE {m \in needs : m.schedule = n.schedule}
InState(group, state) == {n \in group : n.state = state}
Groups(needs) == {GroupOf(n, needs) : n \in needs}

\* Of a group the booked need counts, else the only pending one, else the only scheduled one.
Canonical(group) ==
  LET standing == IF InState(group, "booked") # {} THEN InState(group, "booked")
                  ELSE IF InState(group, "pending") # {} THEN InState(group, "pending")
                  ELSE InState(group, "scheduled")
  IN  CHOOSE n \in standing : \A m \in standing : n.id <= m.id

ValidGroup(group) ==
  \/ InState(group, "booked") # {}
  \/ Cardinality(InState(group, "pending")) = 1
  \/ InState(group, "pending") = {} /\ Cardinality(InState(group, "scheduled")) = 1

CanonicalOperationalNeeds(needs) == {Canonical(g) : g \in Groups(needs)}

ValidNeeds(needs) == /\ UniqueBy(needs, LAMBDA n : n.id)
                     /\ \A n \in needs : n.amount > 0
                     /\ \A g \in Groups(needs) : ValidGroup(g)

\* The needs that fall due before the next income, or the horizon when it is not known.
OperationalEnd(q) == IF q.nextIncome = NoDate
                     THEN q.today + UnknownIncomeHorizonDays
                     ELSE q.nextIncome
Standing(q) == {n \in CanonicalOperationalNeeds(q.needs) :
                  /\ n.state # "booked" /\ n.direction # "credit"
                  /\ n.due >= q.today /\ n.due < OperationalEnd(q)}

OperationalNormal(q) ==
  SumOver(Standing(q), LAMBDA n : n.amount)
    + ProrateMonthly(q.baseline.value.variableNormal, q.today, OperationalEnd(q))
OperationalEssential(q) ==
  SumOver({n \in Standing(q) : n.necessity = "essential"}, LAMBDA n : n.amount)
    + ProrateMonthly(q.baseline.value.variableEssential, q.today, OperationalEnd(q))

----------------------------------------------------------------------------
(* Obligations and restricted cash *)

\* The obligations that must be met within the horizon.
Relevant(q) == {o \in q.obligations :
                  /\ o.status = "open"
                  /\ o.due >= q.today /\ o.due < q.today + q.settings.obligationHorizonDays
                  /\ o.priority = "optional" => o.committed}

ValidObligations(q) ==
  /\ UniqueBy(q.obligations, LAMBDA o : o.id)
  /\ \A o \in q.obligations : o.upper > 0
  /\ \A o \in Relevant(q) :
        /\ o.coverage = "sinking_fund" =>
             \E d \in q.sinking.value.byFund : d.fund = o.by /\ d.state # "inactive"
        /\ o.coverage = "operational" =>
             \E n \in CanonicalOperationalNeeds(q.needs) : n.id = o.by

UncoveredObligations(q) ==
  SumOver({o \in Relevant(q) : o.coverage = "uncovered"}, LAMBDA o : o.upper)

OtherRestricted(q) == SumOver(q.restricted, LAMBDA r : r.amount)
RingFenced(q) == q.sinking.value.totalReserved + OtherRestricted(q)

----------------------------------------------------------------------------
(* The reserve *)

\* validateBaseline and validateSinkingProtection: upstream values that fit together.
ValidBaseline(b) ==
  /\ \A n \in {b.essential, b.recurringEssential, b.variableEssential, b.buffer} : n >= 0
  /\ b.essential <= b.normal
  /\ b.recurringEssential <= b.recurringNormal
  /\ b.variableEssential <= b.variableNormal

ValidSinkingProtection(d) ==
  /\ UniqueBy(d.byFund, LAMBDA f : f.fund)
  /\ \A f \in d.byFund : /\ f.required >= 0 /\ f.satisfied >= 0
                         /\ f.reserved >= 0 /\ f.outstanding >= 0
                         /\ f.protected = f.reserved + f.outstanding
  /\ d.totalRequired = SumOver(d.byFund, LAMBDA f : f.required)
  /\ d.totalSatisfied = SumOver(d.byFund, LAMBDA f : f.satisfied)
  /\ d.totalReserved = SumOver(d.byFund, LAMBDA f : f.reserved)
  /\ d.totalOutstanding = SumOver(d.byFund, LAMBDA f : f.outstanding)
  /\ d.totalProtected = d.totalReserved + d.totalOutstanding

MinimumReserve(q) == MultiplyFractionHalfEven(q.baseline.value.essential,
                       q.settings.minimumMonths.num, q.settings.minimumMonths.den)
ComfortReserve(q) == MultiplyFractionHalfEven(q.baseline.value.normal,
                       q.settings.comfortMonths.num, q.settings.comfortMonths.den)
                     + q.baseline.value.buffer

\* What the cash has to cover, the part that is protected in any case first.
Requirements(q) ==
  [operationalEssential |-> OperationalEssential(q), operationalNormal |-> OperationalNormal(q),
   ringFenced |-> RingFenced(q), sinkingDue |-> q.sinking.value.totalOutstanding,
   uncovered |-> UncoveredObligations(q),
   minimumReserve |-> MinimumReserve(q), comfortReserve |-> ComfortReserve(q)]
ProtectedBase(needed) == needed.ringFenced + needed.sinkingDue + needed.uncovered
MinimumCash(needed) ==
  ProtectedBase(needed) + Larger(needed.operationalEssential, needed.minimumReserve)
ComfortCash(needed) ==
  ProtectedBase(needed) + Larger(needed.operationalNormal, needed.comfortReserve)

\* Every check of calculateLiquidityReserve that throws.
ValidLiquidityInputs(q, needed) ==
  /\ ValidBaseline(q.baseline.value)
  /\ ValidSinkingProtection(q.sinking.value)
  /\ q.nextIncome = NoDate \/ q.nextIncome > q.today
  /\ ValidNeeds(q.needs)
  /\ needed.operationalEssential <= needed.operationalNormal
  /\ ValidObligations(q)
  /\ UniqueBy(q.restricted, LAMBDA r : r.id)
  /\ \A r \in q.restricted : r.amount >= 0
  /\ needed.ringFenced <= q.cash.value
  /\ needed.minimumReserve <= needed.comfortReserve
  /\ MinimumCash(needed) <= ComfortCash(needed)

Reserve(q, needed) ==
  Extended(needed,
    [cash |-> q.cash.value, buffer |-> q.baseline.value.buffer,
     minimumCash |-> MinimumCash(needed), comfortCash |-> ComfortCash(needed),
     freeLiquidCash |-> q.cash.value - needed.ringFenced,
     currentExcess |-> AtLeastZero(q.cash.value - ComfortCash(needed)),
     start |-> q.today, end |-> OperationalEnd(q)])

InputStatuses(q) == {q.completeness.needs, q.completeness.obligations, q.completeness.restricted}
UpstreamStatuses(q) == {q.baseline.status, q.sinking.status, q.cash.status}
WithoutValue(q) == \/ q.baseline.value = NoValue
                   \/ q.sinking.value = NoValue
                   \/ q.cash.value = NoValue

LiquidityReserveFrom(q, needed) ==
  IF ~ ValidLiquidityInputs(q, needed)
  THEN Invalid
  ELSE IF q.nextIncome = NoDate \/ "partial" \in InputStatuses(q) \union UpstreamStatuses(q)
  THEN Partial(Reserve(q, needed))
  ELSE Complete(Reserve(q, needed))
CalculateLiquidityReserve(q) ==
  IF "invalid" \in UpstreamStatuses(q) \/ ~ ValidSettings(q.settings)
  THEN Invalid
  ELSE IF WithoutValue(q) \/ "unavailable" \in InputStatuses(q)
  THEN Unavailable
  ELSE LiquidityReserveFrom(q, Requirements(q))
==============================================================================
