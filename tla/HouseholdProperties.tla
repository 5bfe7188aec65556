-------------------------- MODULE HouseholdProperties --------------------------
(***************************************************************************)
(* What the evaluations of a household promise, whatever the owner, the    *)
(* bank and the worker did before, and what two of the engine's algorithms *)
(* compute for the sampled questions of an instance.                       *)
(***************************************************************************)
EXTENDS Household

CONSTANTS
  SampledDates,    \* ordinals of dates
  SampledDecisions \* inputs of the investment decision, with a contribution that is too high

\* The questions are dates of the calendar that have a next day, and decisions whose amounts
\* are numbers.
DatesAssumption ==
  \A n \in SampledDates : n \in Int /\ 0 <= n /\ n + 1 < DaysBeforeYear(LastYear + 1)
DecisionsAssumption ==
  \A q \in SampledDecisions :
     /\ q.current \in Int /\ q.step \in Int /\ q.projection.effective \in Int
     /\ q.capacity.status = "complete" => q.capacity.value.sustainable \in Int \union {NoValue}
     /\ IsFiniteSet(q.projection.occurrences)
     /\ \A d \in q.projection.days : d.base \in Int /\ d.minimum \in Int /\ d.comfort \in Int
ASSUME QuestionsAssumption == DatesAssumption /\ DecisionsAssumption

----------------------------------------------------------------------------
(* What a behavior may start from *)

\* Rows that can be named, refer to rows that exist, and say each thing once.
FactNames == {"accounts", "transactions", "contributions", "flows", "ambiguities",
              "reconciliations", "resolutions", "funds", "allocations", "observations",
              "triggers", "snapshots", "valuations", "attributions"}
Named(rows) == IsFiniteSet(rows) /\ (\A x \in rows : x.id \in Nat) /\ UniqueBy(rows, LAMBDA x : x.id)
StoredTransactions(transactions) ==
  /\ Named(transactions)
  /\ \A x \in transactions : /\ {"id", "kind", "entries", "at", "created"} \subseteq DOMAIN x
                             /\ x.at \in Int /\ x.created \in Nat
                             /\ ValidTransaction(x)
StoredFlows(flows, transactions) ==
  /\ UniqueBy(flows, LAMBDA g : g.tx)
  /\ \A g \in flows : /\ {"id", "tx"} \subseteq DOMAIN g /\ g.id = g.tx
                      /\ \E x \in transactions : x.id = g.tx
StoredObservations(observations, flows) ==
  /\ UniqueBy(observations, LAMBDA o : o.flow)
  /\ \A o \in observations : \E g \in flows : g.id = o.flow
StoredAmbiguities(ambiguities, flows, transactions) ==
  /\ UniqueBy(ambiguities, LAMBDA a : a.tx)
  /\ \A a \in ambiguities : /\ \E x \in transactions : x.id = a.tx
                            /\ \A g \in flows : g.tx # a.tx
\* Amounts are numbers, and a flow has a class.
FlowKinds == {"earned_income", "consumption", "refund", "reimbursement",
              "cash_reconciliation_adjustment", "other_external_flow"}
NumberedEntries(x) == IsFiniteSet(x.entries) /\ \A e \in x.entries : e.amount \in Int
NumberedFlow(g) == {"kind", "amount"} \subseteq DOMAIN g /\ g.amount \in Int /\ g.kind \in FlowKinds
InNumbers(f) == (\A x \in f.transactions : NumberedEntries(x)) /\ (\A g \in f.flows : NumberedFlow(g))
Dated(funds) == \A fund \in funds : fund.createdAt \in Int
Stored(f) ==
  /\ DOMAIN f = FactNames
  /\ Named(f.funds) /\ Named(f.allocations) /\ Dated(f.funds)
  /\ StoredTransactions(f.transactions)
  /\ StoredFlows(f.flows, f.transactions)
  /\ StoredObservations(f.observations, f.flows)
  /\ StoredAmbiguities(f.ambiguities, f.flows, f.transactions)
StoredSettings(versions) ==
  /\ IsFiniteSet(versions) /\ \A s \in versions : s.version \in Nat
  /\ UniqueBy(versions, LAMBDA s : s.from) /\ UniqueBy(versions, LAMBDA s : s.version)

\* What is known of the balances was known by then.
StoredValues(values, t) == \A s \in values : s.asOf \in Int /\ s.asOf <= t

\* Only the bank proves that the history is classified, one account at a time.
ContextNames == {"declared", "payDay", "declarations", "monthCoverage", "scheduled",
                 "scheduleComplete", "needs", "obligations", "restricted", "nextIncome",
                 "paySchedule", "historyCoverage", "reservationCoverage", "quality"}
QualityNames == {"needs", "obligations", "restricted", "liquidBalance", "classification",
                 "reservations"}
StoredContext(c) ==
  /\ DOMAIN c = ContextNames /\ DOMAIN c.quality = QualityNames
  /\ c.historyCoverage.start \in Int
  /\ c.quality.classification # "complete"
StoredPlans(p, c) ==
  /\ c # NoContext => StoredContext(c)
  /\ p # NoProfile => /\ StoredContext(c)
                      /\ {"boundary", "ccrPeriod"} \subseteq DOMAIN p /\ p.boundary \in Int
StoredBank(b) ==
  /\ b.coverage \in Seq([from : Int, through : Int])
  /\ UniqueBy(b.reconciliations, LAMBDA r : r.account)
  /\ b.reconciliations # {} => b.coverage # << >>

\* What recurs is declared by name, on a day that every month has; what is entered by hand
\* belongs to no declaration.
NamedDeclarations(declarations) ==
  /\ IsFiniteSet(declarations) /\ UniqueBy(declarations, LAMBDA d : d.id)
  /\ \A d \in declarations : d.id \in 1 .. DeclarationIds - 1
EnteredByHand(needs) == IsFiniteSet(needs) /\ \A n \in needs : n.schedule = NoSchedule
\* What may be owed and what is set aside are amounts.
NumberedReserves(c) ==
  /\ IsFiniteSet(c.obligations) /\ \A o \in c.obligations : o.upper \in Int
  /\ IsFiniteSet(c.restricted) /\ \A r \in c.restricted : r.amount \in Int
StoredPlanning(c) ==
  /\ NumberedReserves(c)
  /\ IF c.declared
     THEN /\ NamedDeclarations(c.declarations) /\ EnteredByHand(c.needs)
          /\ \A d \in c.declarations : MonthlyDay(d.day)
          /\ c.payDay = NoPayDay \/ MonthlyDay(c.payDay)
     ELSE c.declarations = {} /\ IsFiniteSet(c.paySchedule.dates)

ASSUME HouseholdsAssumption ==
  \A h \in Households :
     /\ h.now \in Nat /\ h.left \in Nat
     /\ Stored(h.facts) /\ InNumbers(h.facts) /\ StoredSettings(h.settings)
     /\ StoredValues(h.facts.snapshots, h.now) /\ StoredValues(h.facts.valuations, h.now)
     /\ StoredPlans(h.profile, h.context) /\ StoredBank(h.bank)
     /\ h.profile # NoProfile \/ h.context # NoContext => StoredPlanning(h.context)
ASSUME PlansAssumption ==
  \A p \in Plans :
     NamedDeclarations(p.declarations) /\ EnteredByHand(p.needs) /\ NumberedReserves(p)
ASSUME MovementsAssumption == \A m \in Movements : m.dated \in Int /\ m.amount \in Int
ASSUME AmountsAssumption == CashAmounts \subseteq Int /\ PurseCounts \subseteq Int /\ Openings \subseteq Int
ASSUME BoundaryDatesAssumption == BoundaryDates \subseteq Int

----------------------------------------------------------------------------
(* Well-formed facts *)

\* Every stored fact can be named, a transaction has one class or one doubt, and money is
\* reserved for salaries that happened.  The ids and the doubts are kept by code in a dozen
\* commands, none of which reads all of them.
TypeOK ==
  /\ now \in Nat /\ left \in Nat
  /\ report # NotEvaluated => report.throws \in BOOLEAN
  /\ UniqueBy(facts.transactions, LAMBDA x : x.id)
  /\ \A x \in facts.transactions : ValidTransaction(x)
  /\ UniqueBy(facts.flows, LAMBDA f : f.tx)
  /\ UniqueBy(facts.observations, LAMBDA o : o.flow)
  /\ UniqueBy(facts.allocations, LAMBDA e : e.id)
  /\ UniqueBy(settings, LAMBDA s : s.from) /\ UniqueBy(settings, LAMBDA s : s.version)
  /\ \A a \in facts.ambiguities : FlowsOf(a.tx) = {}
  /\ allocatedFor \subseteq {t.tx : t \in facts.triggers}

----------------------------------------------------------------------------
(* What stops the engine *)

Boundary == IF profile = NoProfile THEN NoBoundary ELSE profile.boundary
Counting == {f \in facts.flows : f.at >= Boundary}
Classed(tx, kinds) == \E f \in Counting : f.tx = tx /\ f.kind \in kinds
Moved(f) == Total(Tx(f.tx).entries)

\* A correction gave a flow a class of the other sign, or made or unmade an adjustment.
MiscalledFlow ==
  \E f \in Counting :
     \/ Moved(f) # SignedAmount(f)
     \/ (f.kind = "cash_reconciliation_adjustment") # (Tx(f.tx).kind = "valuation_adjustment")

\* A correction took the salary from under a pay cycle.
LostSalary == \E t \in facts.triggers :
                 \E f \in Counting : f.tx = t.tx /\ ~ (f.kind = "earned_income" /\ f.source = "salary")

\* A correction took the spending from under its description.
LostSpending == \E o \in facts.observations : \E f \in Counting : f.id = o.flow /\ ~ Spending(f)

\* A refund that no longer fits what it refunds: nothing, too little, or something hidden
\* behind the decision boundary.
LostOriginal ==
  \E f \in Counting :
     /\ IsReversal(f)
     /\ \/ f.related = Unlinked
        \/ ~ \E o \in Counting :
               /\ o.tx = f.related /\ o.kind = "consumption"
               /\ f.kind = "reimbursement" => o.reimbursable
               /\ o.amount >= SumOver({g \in Counting : IsReversal(g) /\ g.related = o.tx},
                                      LAMBDA g : g.amount)
        \/ Described(f) /\ ~ \E o \in facts.observations : o.flow = f.related

\* The decision boundary hides the adjustment of a reconciliation, which still counts.
HiddenAdjustment == \E r \in facts.reconciliations : ~ Classed(r.tx, {"cash_reconciliation_adjustment"})

\* More is reserved and restricted than there is; nothing checks a manual allocation.
SetAside == SumOver(facts.allocations, AllocationDelta)
              + (IF context = NoContext THEN 0 ELSE SumOver(context.restricted, LAMBDA r : r.amount))
Overreserved ==
  LET cash == LiquidCash([ledger |-> LedgerAt(facts, now), snapshots |-> facts.snapshots,
                          valuations |-> facts.valuations, asOf |-> now])
  IN  cash.value # NoValue /\ SetAside > cash.value

\* The recurring spending that is not essential leaves less of the estimate than is essential.
UnevenEstimate ==
  LET month == MonthAt(Today)
      debits == UNION {{d \in context.declarations : MonthStart(month) + d.day - 1 = n} :
                         n \in MonthStart(month) .. MonthEnd(month)}
      optional == SumOver({d \in debits : d.necessity # "essential"}, LAMBDA d : d.amount)
  IN  /\ context # NoContext /\ settings # {}
      /\ CurrentSettings.fallback # NoFallback
      /\ CurrentSettings.fallback.normal - optional < CurrentSettings.fallback.essential

\* A run throws only for one of seven contradictions, each made by a command that was accepted:
\* everything else the owner, the bank and the clock can do leaves a household that evaluates
\* (commands.ts, decision-history-boundary.ts and the checks of the engine's calculations).
OnlyContradictionsStopTheEngine ==
  report # NotEvaluated /\ report.throws =>
    \/ MiscalledFlow \/ LostSalary \/ LostSpending \/ LostOriginal
    \/ HiddenAdjustment \/ Overreserved \/ UnevenEstimate

----------------------------------------------------------------------------
(* What a complete answer rests on *)

Trusted == report # NotEvaluated /\ ~ report.throws
             /\ report.readiness.kind = "complete" /\ report.safe.status = "complete"

\* Since when the facts count: the boundary, or without one the start of the history, but not
\* before the bank is covered.
Since == LET last == bank.coverage[Len(bank.coverage)]
             start == IF Boundary = NoBoundary THEN context.historyCoverage.start ELSE Boundary
         IN  Larger(start, UtcStart(last.from))

\* What is counted with a boundary: what happened since then and is covered by the bank, or all
\* of it as long as the bank covers none.
CountedPeriod ==
  LET whole == Period(Boundary, now)
      last == bank.coverage[Len(bank.coverage)]
      covered == Period(Larger(Boundary, UtcStart(last.from)),
                        Smaller(now, UtcStart(last.through + 1)))
  IN  IF bank.coverage # << >> /\ ValidPeriod(covered) THEN covered ELSE whole

\* An amount that is safe without reservation rests on bank balances that are current and equal
\* to the ledger to the cent, on a class for every external transaction since the history
\* starts, a description of all spending among them, and no doubt and no material variance left
\* of anything that happened until now (engine-input.ts, orchestration.ts).
SafeAmountIsEvidenced ==
  Trusted =>
    /\ \A a \in BankAccounts(facts) :
          /\ \E s \in facts.snapshots : s.account = a.id /\ s.asOf <= now /\ ~ (now > s.staleAt)
          /\ \A r \in bank.reconciliations : r.account = a.id => r.difference = 0
    /\ \A x \in facts.transactions :
          ExternalFlow(x) /\ Since <= x.at /\ x.at <= now =>
            \E f \in FlowsOf(x.id) : Spending(f) => Described(f)
    /\ \A a \in facts.ambiguities : ~ (a.at >= Boundary /\ a.at <= now)
    /\ \A r \in facts.reconciliations :
          r.material /\ r.at <= now => \E y \in facts.resolutions : y.of = r.id

\* Capital created that is complete explains the ledger: income less net consumption, and what
\* came or went otherwise, is what the external transactions of the counted period moved
\* (capital-conversion.ts).
CapitalExplainsTheLedger ==
  LET c == report.created.value
  IN  report # NotEvaluated /\ ~ report.throws =>
        (report.created.status = "complete" /\ Boundary # NoBoundary =>
           c.capitalCreated + c.reserveChange + c.otherExternal =
             SumOver({x \in facts.transactions :
                        ExternalFlow(x) /\ PeriodContains(CountedPeriod, x.at)},
                     LAMBDA x : Total(x.entries)))

\* A debit that the owner declared and also entered by hand is needed once, and two equal debits
\* are needed twice (planning-recurrence.ts).
NoNeedCountsTwice ==
  LET run == report.planned
      end == IF run.nextIncome = NoDate THEN Today + UnknownIncomeHorizonDays ELSE run.nextIncome
      alike(d) == {e \in context.declarations : e.day = d.day /\ e.amount = d.amount
                                                /\ e.necessity = d.necessity}
      asked(needs, date, d) == Cardinality({n \in needs : n.due = date /\ n.direction = "debit"
                                                          /\ n.amount = d.amount
                                                          /\ n.necessity = d.necessity})
  IN  report # NotEvaluated /\ ~ report.throws =>
        \A d \in context.declarations : \A date \in MonthlyDates(Today, end - 1, d.day) :
           asked(run.needs, date, d) = Larger(Cardinality(alike(d)), asked(context.needs, date, d))

\* In the last pay cycle before a fund is due everything that is missing is asked for, whatever
\* was reserved, released or counted before (sinking-funds.ts).
LastCycleAsksForTheRest ==
  report # NotEvaluated /\ ~ report.throws =>
    (report.sinking.status = "complete" =>
       \A d \in report.sinking.value.byFund, f \in facts.funds :
          /\ d.fund = f.id /\ InUse(f)
          /\ \A date \in report.planned.paySchedule.dates : ~ (Today < date /\ date <= f.due)
          => d.outstanding = d.remaining)

----------------------------------------------------------------------------
(* What a step may not change *)

Values(r) == <<r.cash.value, r.liquidity.value>>
BothEvaluated == /\ report # NotEvaluated /\ report' # NotEvaluated
                 /\ ~ report.throws /\ ~ report'.throws

\* Reserving a salary automatically changes what is free and what is owed, and never what is safe
\* to invest: the share that a cycle owes and the reserve that it becomes are protected alike.  The
\* moment of the job is evaluated again, with its allocations; a result that is complete has a
\* value, as createMetricResult demands (job-handlers.ts, liquidity.ts, safe-to-invest.ts).
HasReserve(r) == WellFormed(r.sinking) /\ WellFormed(r.liquidity)
AllocationSparesTheSafeAmount ==
  [][allocatedFor' # allocatedFor =>
       \A h \in {Household'} : \A again \in {EvaluationOf(h, now)} :
          ~ again.throws /\ HasReserve(report) /\ HasReserve(again) => again.safe = report.safe]_vars

\* Classes, doubts, plans, reserves, settings and the decision boundary never change how much
\* cash there is: only a transaction or a bank balance does (decision-history-boundary.ts,
\* commands.ts).
CashFollowsMoney ==
  [][/\ BothEvaluated /\ Today' = Today
     /\ facts'.transactions = facts.transactions /\ facts'.snapshots = facts.snapshots
     /\ \A x \in facts.transactions : x.at # now'
     => report'.cash.value = report.cash.value]_vars

\* What ARCHITECTURE.md:82, FINANCIAL_ENGINE.md:162 and IMPLEMENTATION_PLAN.md:109 say of an
\* accepted correction of a class: the engine recomputes with it.  The code keeps the amount of
\* the flow as it is, so some corrections leave facts the engine refuses (commands.ts 537-611,
\* capital-conversion.ts 120-186).
CorrectionsAreRecomputed ==
  [][/\ facts'.flows # facts.flows
     /\ {f.id : f \in facts'.flows} = {f.id : f \in facts.flows}
     /\ report # NotEvaluated /\ report' # NotEvaluated /\ ~ report.throws
     => ~ report'.throws]_vars

----------------------------------------------------------------------------
(* Two algorithms against their definitions, asked at the start of a behavior *)

AtTheStart == \E h \in Households : now = h.now /\ left = h.left

\* The day after a date, by the rules of the calendar.
DayAfter(d) ==
  LET y == d[1]  m == d[2]
      last == CASE m = 2 -> IF y % 4 = 0 /\ (y % 100 = 0 => y % 400 = 0) THEN 29 ELSE 28
                [] m \in {4, 6, 9, 11} -> 30
                [] OTHER -> 31
  IN  CASE d[3] < last              -> <<y, m, d[3] + 1>>
        [] d[3] >= last /\ m < 12    -> <<y, m + 1, 1>>
        [] OTHER                    -> <<y + 1, 1, 1>>

\* Ordinals are the days in their order: the next ordinal is the next day, over leap years,
\* centuries and every binary search for a year, and a date comes back from its ordinal
\* (local-calendar.ts).
CalendarCountsDays ==
  AtTheStart => \A n \in SampledDates :
    LET d == LocalDateFromOrdinal(n)
    IN  LocalDateOrdinal(d) = n /\ LocalDateFromOrdinal(n + 1) = DayAfter(d)

\* Stepping down ends at the largest contribution that the projected days and the capacity can
\* bear: no smaller number of steps passes, though the search looks at a few only
\* (investment-step.ts).
StepDownGivesUpTheLeast ==
  AtTheStart => \A q \in SampledDecisions :
    LET all == CeilDivide(q.current, q.step)
        affordable == {n \in 1 .. all :
                         /\ Passes(Stress(q, AfterDecrements(q, n)))
                         /\ Sustainable(q) # NoValue =>
                              AfterDecrements(q, n) <= Sustainable(q) \/ n = all}
        answer == EvaluateInvestmentContributionStep(q)
    IN  answer.status = "complete" /\ answer.value.kind = "step_down" =>
          IF affordable = {}
          THEN answer.value.proposed = 0
          ELSE answer.value.proposed = AfterDecrements(q, Min(affordable))
==============================================================================
