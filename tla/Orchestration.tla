---------------------------- MODULE Orchestration ----------------------------
(***************************************************************************)
(* The evaluation of the financial state: every calculation of the engine, *)
(* on one set of facts, at one instant.  An instant is a tick of a day,    *)
(* and a day of Europe/Riga has TicksPerDay of them.                       *)
(*   facts   [accounts, transactions, contributions, flows, ambiguities,   *)
(*            reconciliations, resolutions, funds, allocations,            *)
(*            observations, triggers, snapshots, valuations, attributions] *)
(*   resolution  [of, kind, tx, at]                                        *)
(*   context [monthCoverage, scheduled, scheduleComplete, needs,           *)
(*            obligations, restricted, nextIncome, paySchedule,            *)
(*            historyCoverage, reservationCoverage, quality]               *)
(*   quality the statuses of needs, obligations, restricted, liquidBalance,*)
(*            classification and reservations                              *)
(*   checkpoint  [kind, key, context]                                      *)
(*   settings    [version, from, baseline, liquidity, increment, drag,     *)
(*            step, forecast]                                              *)
(*   input i [asOf, today, version, settings, facts, current, checkpoints, *)
(*            ccrPeriod, rollingPeriods, projection, plan, contribution,   *)
(*            issued, forecastPlan]                                        *)
(***************************************************************************)
EXTENDS SpendingBaseline, CapitalConversion, InvestmentStep, Forecast

CONSTANT TicksPerDay
ASSUME ClockAssumption == TicksPerDay \in Nat \ {0}

\* rigaDateOf, rigaStartMilliseconds and rigaDayClose.
DateOf(t) == t \div TicksPerDay
DayStart(date) == date * TicksPerDay
DayClose(date) == DayStart(date + 1) - 1
MonthAt(date) == YearMonthFromLocalDate(LocalDateFromOrdinal(date))

\* canonicalSettings and settingsAt: the settings of a date are the last that started by it.
ValidSettingsHistory(history) == /\ UniqueBy(history, LAMBDA s : s.version)
                                 /\ UniqueBy(history, LAMBDA s : s.from)
SettingsAt(history, date) ==
  {s \in history : /\ s.from <= date
                   /\ \A o \in history : o.from <= date => o.from <= s.from}

----------------------------------------------------------------------------
(* The facts that count at an instant *)

\* validateBookedFlows
BookedFor(f, transactions) ==
  \E x \in transactions :
     /\ x.id = f.tx /\ x.booked /\ x.at = f.at
     /\ x.kind = IF f.kind = "cash_reconciliation_adjustment" THEN "valuation_adjustment"
                                                              ELSE "external_flow"
BookedFlows(transactions, flows) ==
  /\ UniqueBy(flows, LAMBDA f : f.id) /\ UniqueBy(flows, LAMBDA f : f.tx)
  /\ \A f \in flows : BookedFor(f, transactions)

AdjustmentFlows(facts) == {f \in facts.flows : f.kind = "cash_reconciliation_adjustment"}

ReconciledCashAccount(facts, r) ==
  \E a \in facts.accounts : a.id = r.account /\ a.subtype = "cash" /\ a.source = "ledger"

\* A reconciliation matches one booked adjustment and its flow exactly.
MatchesAdjustment(facts, r) ==
  \E x \in facts.transactions, f \in AdjustmentFlows(facts) :
     /\ x.id = r.tx /\ x.kind = "valuation_adjustment" /\ x.booked /\ x.at = r.at
     /\ \E e \in x.entries : x.entries = {e} /\ e.account = r.account /\ e.amount = r.variance
     /\ f.tx = r.tx /\ f.at = r.at /\ f.amount = r.variance

\* A reversal is another booked adjustment, in the interval of the resolution, that takes the
\* variance out of the account again.
Reverses(facts, r, resolution) ==
  \E x \in facts.transactions :
     LET entries == {e \in x.entries : e.account = r.account}
     IN  /\ x.id = resolution.tx /\ x.id # r.tx
         /\ x.booked /\ x.kind = "valuation_adjustment"
         /\ r.at <= x.at /\ x.at <= resolution.at
         /\ entries # {} /\ Total(entries) = -r.variance
Resolves(facts, r, resolution) ==
  /\ resolution.of = r.id /\ r.at <= resolution.at
  /\ IF resolution.kind = "reclassified_adjustment"
     THEN resolution.tx = r.tx
     ELSE Reverses(facts, r, resolution)

\* validateCashReconciliationHistory
ValidReconciliationHistory(facts) ==
  /\ UniqueBy(facts.reconciliations, LAMBDA r : r.id)
  /\ UniqueBy(facts.reconciliations, LAMBDA r : r.tx)
  /\ UniqueBy(facts.resolutions, LAMBDA x : x.of)
  /\ \A r \in facts.reconciliations : ReconciledCashAccount(facts, r) /\ MatchesAdjustment(facts, r)
  /\ Cardinality(AdjustmentFlows(facts)) = Cardinality(facts.reconciliations)
  /\ \A x \in facts.resolutions : \E r \in facts.reconciliations : Resolves(facts, r, x)

LedgerAt(facts, asOf) ==
  LET transactions == {x \in facts.transactions : x.at <= asOf}
  IN  [accounts      |-> facts.accounts,
       transactions  |-> transactions,
       contributions |-> {c \in facts.contributions : \E x \in transactions : x.id = c.tx}]

Resolved(facts, asOf) == {x.of : x \in {y \in facts.resolutions : y.at <= asOf}}

\* activeVariablesAt: a resolved reconciliation leaves together with its adjustment.
ActiveAt(facts, asOf) ==
  LET resolvedTx == {r.tx : r \in {q \in facts.reconciliations : q.id \in Resolved(facts, asOf)}}
      flows == {f \in facts.flows : f.at <= asOf /\ f.tx \notin resolvedTx}
  IN  [flows           |-> flows,
       ambiguities     |-> {a \in facts.ambiguities : a.at <= asOf},
       reconciliations |-> {r \in facts.reconciliations :
                              r.at <= asOf /\ r.id \notin Resolved(facts, asOf)},
       funds           |-> {f \in facts.funds : f.createdAt <= asOf},
       allocations     |-> {e \in facts.allocations : e.at <= asOf},
       observations    |-> {o \in facts.observations : \E f \in flows : f.id = o.flow}]

----------------------------------------------------------------------------
(* Whether the amounts may be acted upon *)

\* The months a fallback estimate was made from, up to the current one.
MonthsBefore(first, month) == {MonthOfIndex(k) : k \in MonthIndex(first) .. MonthIndex(month) - 1}
EvidenceMonths(fallback, today) == MonthsBefore(MonthAt(fallback.historyStart), MonthAt(today))

\* A fallback baseline is accepted when the months are evidenced except for classification,
\* and only immaterial flows of them are unclassified.
EvidencedExceptForClass(months, coverage) ==
  /\ months # {}
  /\ \A m \in months : \E c \in coverage :
        c.month = m /\ c.reconciled /\ c.ambiguityFree /\ c.fxComplete
  /\ \E c \in coverage : c.month \in months /\ ~ c.classified
AcceptedFallback(baseline, fallback, context, ambiguities, today) ==
  /\ baseline.status = "partial" /\ baseline.value.source = "fallback"
  /\ EvidencedExceptForClass(EvidenceMonths(fallback, today), context.monthCoverage)
  /\ context.quality.classification = "partial"
  /\ ambiguities # {}
  /\ \A a \in ambiguities : a.kind = "unclassified_external_flow" /\ ~ a.material

Provisional(ambiguities, reconciliations, accepted) ==
  \/ \E a \in ambiguities : /\ ~ a.material
                            /\ \/ a.kind = "unresolved_transfer"
                               \/ a.kind = "unclassified_external_flow" /\ accepted
  \/ \E r \in reconciliations : ~ r.material

\* An ambiguity blocks unless it is a small transfer, or a small flow of an accepted fallback.
Blocks(a, accepted) ==
  IF a.kind = "unresolved_transfer"
  THEN a.material
  ELSE ~ (a.kind = "unclassified_external_flow" /\ ~ a.material /\ accepted)

Unready(name, condition) == IF condition THEN {name} ELSE {}

Blockers(c, accepted) ==
  LET q == c.context.quality
  IN  Unready("incomplete_liquid_balance",
              c.cash.status # "complete" \/ q.liquidBalance # "complete")
      \union Unready("incomplete_spending_baseline", c.baseline.status # "complete" /\ ~ accepted)
      \union Unready("incomplete_obligations", q.obligations # "complete")
      \union Unready("incomplete_sinking_protection",
                     \/ c.sinking.status # "complete"
                     \/ q.reservations # "complete" \/ q.restricted # "complete")
      \union Unready("unknown_next_reliable_income", c.context.nextIncome = NoDate)
      \union Unready("other_material_incompleteness",
                     \/ /\ c.liquidity.status # "complete"
                        /\ ~ (accepted /\ c.liquidity.status = "partial")
                     \/ q.needs # "complete"
                     \/ q.classification # "complete" /\ ~ accepted)
      \union Unready("material_ambiguity", \E a \in c.active.ambiguities : Blocks(a, accepted))
      \union Unready("material_cash_variance", \E r \in c.active.reconciliations : r.material)

\* deriveInvestabilityReadiness
ReadinessOf(blockers, provisional) ==
  [kind    |-> IF blockers # {} THEN "blocked" ELSE IF provisional THEN "provisional" ELSE "complete",
   reasons |-> blockers]
Readiness(c, accepted) ==
  ReadinessOf(Blockers(c, accepted),
              Provisional(c.active.ambiguities, c.active.reconciliations, accepted))

HistoryOf(active, context, asOf) ==
  [funds |-> active.funds, allocations |-> active.allocations, flows |-> active.flows,
   coverage |-> context.reservationCoverage, asOf |-> asOf]

----------------------------------------------------------------------------
(* One checkpoint: the amounts at an instant, from the facts and a context.*)
(* A checkpoint c starts as [facts, context, asOf, date, settings, active, *)
(* ledger], and every calculation adds what it finds.                      *)

WithPositions(c) ==
  Extended(c,
       [cash    |-> LiquidCash([ledger |-> c.ledger, snapshots |-> c.facts.snapshots,
                                valuations |-> c.facts.valuations, asOf |-> c.asOf]),
        cycles  |-> BuildPayCycles(c.ledger.transactions, c.active.flows,
                      {t \in c.facts.triggers : \E x \in c.ledger.transactions : x.id = t.tx},
                      c.context.paySchedule, c.asOf),
        history |-> HistoryOf(c.active, c.context, c.asOf)])

WithSinking(c) ==
  Extended(c,
       [sinking |-> IF c.cycles = Invalid THEN Invalid
                    ELSE CurrentCycleSinkingDue(
                           Extended(c.history,
                             [cycles |-> c.cycles.value, paySchedule |-> c.context.paySchedule,
                              today |-> c.date])),
        funded  |-> FundedConsumptionCoverage(c.history)])

WithBaseline(c) ==
  Extended(c,
       [baseline |-> CalculateSpendingBaseline(
          [flows |-> c.active.flows, observations |-> c.active.observations,
           coverage |-> c.context.monthCoverage, scheduled |-> c.context.scheduled,
           scheduleComplete |-> c.context.scheduleComplete, funded |-> c.funded,
           target |-> MonthAt(c.date), settings |-> c.settings.baseline])])

WithLiquidity(c) ==
  Extended(c,
       [liquidity |-> CalculateLiquidityReserve(
          [baseline |-> c.baseline, sinking |-> c.sinking, cash |-> c.cash,
           needs |-> c.context.needs, obligations |-> c.context.obligations,
           restricted |-> c.context.restricted,
           completeness |-> [needs |-> c.context.quality.needs,
                             obligations |-> c.context.quality.obligations,
                             restricted |-> c.context.quality.restricted],
           nextIncome |-> c.context.nextIncome, today |-> c.date,
           settings |-> c.settings.liquidity])])

WithReadiness(c) ==
  Extended(c,
       [readiness |-> Readiness(c, AcceptedFallback(c.baseline, c.settings.baseline.fallback,
                                     c.context, c.active.ambiguities, c.date))])
WithSafe(c) ==
  Extended(c,
       [safe |-> CalculateSafeToInvest(c.liquidity, c.readiness.kind, c.settings.increment)])

\* It throws when one of its calculations does.
WithVerdict(c) ==
  Extended(c,
       [throws |-> \/ ~ BookedFlows(c.ledger.transactions, c.active.flows)
                   \/ Invalid \in {c.cash, c.cycles, c.sinking, c.funded, c.baseline, c.liquidity,
                                   c.safe}])

\* calculateCheckpoint
Checkpoint(facts, context, asOf, date, settings) ==
  WithVerdict(WithSafe(WithReadiness(WithLiquidity(WithBaseline(WithSinking(WithPositions(
    [facts |-> facts, context |-> context, asOf |-> asOf, date |-> date, settings |-> settings,
     active |-> ActiveAt(facts, asOf), ledger |-> LedgerAt(facts, asOf)])))))))

----------------------------------------------------------------------------
(* The days of the cash drag and the closed cycles *)

DragCheckpoints(i, drag) ==
  {c \in i.checkpoints : /\ c.kind = "cash_drag_day"
                         /\ c.key >= i.today - (drag.windowDays - 1) /\ c.key < i.today
                         /\ SettingsAt(i.settings, c.key) # {}}
DragDay(i, c) ==
  LET settings == CHOOSE s \in SettingsAt(i.settings, c.key) : TRUE
  IN  [date |-> c.key, at |-> Checkpoint(i.facts, c.context, DayClose(c.key), c.key, settings)]
DragObservations(days) ==
  {[date |-> d.date, cash |-> d.at.liquidity.value.cash,
    comfort |-> d.at.liquidity.value.comfortCash, status |-> d.at.liquidity.status] :
     d \in {e \in days : e.at.liquidity.value # NoValue}}

\* The eve of the salary that closed a cycle, and the checkpoint taken there.
EveOf(i, cycle) == (CHOOSE t \in i.facts.triggers : t.tx = cycle.closing).date - 1
EveCheckpoints(i, cycle) ==
  {c \in i.checkpoints : /\ c.kind = "pre_closing" /\ c.key = cycle.id
                         /\ SettingsAt(i.settings, EveOf(i, cycle)) # {}}
Eve(i, cycle, c) ==
  LET settings == CHOOSE s \in SettingsAt(i.settings, EveOf(i, cycle)) : TRUE
      asOf == DayClose(EveOf(i, cycle))
  IN  [cycle |-> cycle, asOf |-> asOf,
       at |-> Checkpoint(i.facts, c.context, asOf, EveOf(i, cycle), settings)]
Eves(i, cycles) == UNION {{Eve(i, cycles[k], c) : c \in EveCheckpoints(i, cycles[k])} :
                            k \in DOMAIN cycles}

\* Why what a cycle could have invested is not known.
Intervening(i, eve) == \E x \in i.facts.transactions :
                          x.booked /\ eve.asOf < x.at /\ x.at < eve.cycle.end
CapacityIssues(i, eve) ==
  Unready("incomplete_balances", eve.at.cash.status # "complete")
  \union Unready("incomplete_reservations", eve.at.sinking.status # "complete")
  \union Unready("missing_cycle_readiness",
                 eve.at.readiness.kind # "complete" \/ Intervening(i, eve))
  \union Unready("minimum_liquidity_breach",
                 /\ eve.at.liquidity.value # NoValue
                 /\ eve.at.liquidity.value.cash < eve.at.liquidity.value.minimumCash)

----------------------------------------------------------------------------
(* The whole evaluation: an input i to which every calculation adds what it finds. *)

CapitalInput(i, period) ==
  [ledger          |-> [accounts |-> i.facts.accounts, transactions |-> i.facts.transactions,
                        contributions |-> i.facts.contributions],
   flows           |-> i.now.active.flows,
   ambiguities     |-> i.now.active.ambiguities,
   reconciliations |-> i.now.active.reconciliations,
   period          |-> period,
   historyCoverage |-> i.current.historyCoverage,
   reserve         |-> HistoryOf(i.now.active, i.current, i.asOf)]
CapitalMetrics(i, capital) ==
  [created |-> CalculateCapitalCreated(capital),
   rate    |-> CalculateCapitalConversionRate(capital),
   rolling |-> RollingRates(capital, i.rollingPeriods)]
WithCapital(i) == Extended(i, CapitalMetrics(i, CapitalInput(i, i.ccrPeriod)))

PositionMetrics(positions) == [netWorth    |-> CalculateNetWorth(positions),
                               investments |-> InvestmentMarketValue(positions)]
WithWealth(i) ==
  Extended(i,
       PositionMetrics([ledger |-> CapitalInput(i, i.ccrPeriod).ledger,
                        snapshots |-> i.facts.snapshots, valuations |-> i.facts.valuations,
                        asOf |-> i.asOf]))

WithDays(i) ==
  Extended(i, [days |-> {DragDay(i, c) : c \in DragCheckpoints(i, i.policy.drag)}])
WithDrag(i) ==
  Extended(i, [drag |-> CalculateCashDrag(DragObservations(i.days), i.today, i.now.liquidity,
                                          i.now.safe, i.policy.drag)])

WithEves(i) ==
  Extended(i,
       [eves |-> Eves(i, LastOf(ClosedCycles(i.now.cycles.value), HistoricalCycles))])
WithCapacity(i) ==
  Extended(i,
       [capacity |-> CalculateHistoricalInvestmentCapacity(
          [cycles |-> i.now.cycles.value, contributions |-> i.facts.contributions,
           attributions |-> i.facts.attributions, plan |-> i.plan,
           readiness |-> {[cycle |-> e.cycle.id, reasons |-> CapacityIssues(i, e)] : e \in i.eves},
           snapshots |-> {[cycle |-> e.cycle.id, at |-> e.asOf, sti |-> e.at.safe] : e \in i.eves}])])

WithProjection(i) ==
  Extended(i,
       [projected |-> AssembleForwardLiquidityProjection(i.now.liquidity, i.projection, i.today)])
WithDecision(i) ==
  Extended(i,
       [decision |-> IF i.projected.value = NoValue
                     THEN i.projected
                     ELSE EvaluateInvestmentContributionStep(
                            [plan |-> i.plan, capacity |-> i.capacity,
                             liquidity |-> i.now.liquidity, sti |-> i.now.safe, drag |-> i.drag,
                             projection |-> i.projected.value, current |-> i.contribution,
                             issued |-> i.issued, step |-> i.policy.step])])

WithForecast(i) ==
  Extended(i,
       [forecast |-> CalculateFinancialForecast(i.now.cash, i.investments,
          [flows |-> i.forecastPlan.flows, expenses |-> i.forecastPlan.expenses,
           included |-> i.forecastPlan.included, months |-> i.forecastPlan.months,
           start |-> AddYearMonths(MonthAt(i.today), 1)], i.policy.forecast)])

Throws == [throws |-> TRUE]
Outcome(i) ==
  IF \/ \E d \in i.days : d.at.throws
     \/ \E e \in i.eves : e.at.throws
     \/ Invalid \in {i.netWorth, i.investments, i.created, i.rate, i.drag, i.capacity, i.projected,
                     i.decision, i.forecast} \union Range(i.rolling)
  THEN Throws
  ELSE Extended([throws |-> FALSE], i)

EvaluateNow(i) ==
  IF i.now.throws
  THEN Throws
  ELSE Outcome(WithForecast(WithDecision(WithProjection(WithCapacity(WithEves(WithDrag(WithDays(
         WithWealth(WithCapital(i))))))))))
\* policy are the settings of the day.
EvaluateWith(i, policy) ==
  EvaluateNow(Extended(i,
       [policy |-> policy, now |-> Checkpoint(i.facts, i.current, i.asOf, i.today, policy)]))

\* evaluateFinancialState: the run must be on its date, with the settings of that date, over
\* facts that fit together; anything else throws.
ValidEvaluation(i, settings) ==
  /\ DateOf(i.asOf) = i.today
  /\ ValidSettingsHistory(i.settings)
  /\ \E s \in settings : s.version = i.version
  /\ BookedFlows(i.facts.transactions, i.facts.flows)
  /\ ValidReconciliationHistory(i.facts)
  /\ UniqueBy(i.checkpoints, LAMBDA c : <<c.kind, c.key>>)
EvaluateOn(i, settings) ==
  IF ValidEvaluation(i, settings) THEN EvaluateWith(i, CHOOSE s \in settings : TRUE) ELSE Throws
EvaluateFinancialState(i) == EvaluateOn(i, SettingsAt(i.settings, i.today))
==============================================================================
