--------------------------- MODULE EvaluationInput ---------------------------
(***************************************************************************)
(* What the worker evaluates: the input of the engine, assembled from what *)
(* is stored when the run starts.  The stored household h is               *)
(*   facts       as in Orchestration                                       *)
(*   context     the current planning context, with what the owner declared*)
(*               (declared, payDay, declarations [id, amount, necessity,   *)
(*               day]); a payDay of 0 declares that there is no pay day    *)
(*   profile     [boundary, ccrPeriod, rollingPeriods, projection, plan,   *)
(*               contribution, issued, forecastPlan]                       *)
(*   settings    [version, from, materiality, fallback]                    *)
(*   checkpoints                                                           *)
(*   bank        [coverage, reconciliations]   the merged intervals [from, *)
(*               through] of dates, oldest first, and the latest           *)
(*               [account, sourceAsOf, difference, status] of each account *)
(***************************************************************************)
EXTENDS Orchestration

NoBoundary == -1
NoPayDay == 0
NoThreshold == -1

Fraction(n, d) == [num |-> n, den |-> d]

\* V1_POLICY_DEFAULTS under what a settings version stores.
Hydrated(s) ==
  [version   |-> s.version,
   from      |-> s.from,
   baseline  |-> [window |-> 6, minimum |-> 3, lookback |-> 36, materiality |-> s.materiality,
                  percentile |-> Fraction(4, 5), seasonalMinimum |-> 24, cap |-> Fraction(1, 5),
                  fallback |-> s.fallback],
   liquidity |-> [minimumMonths |-> Fraction(1, 1), comfortMonths |-> Fraction(3, 1),
                  obligationHorizonDays |-> 90],
   increment |-> 1000,
   drag      |-> [windowDays |-> 60, minimumCompleteDays |-> 54, minimumPositiveDays |-> 45,
                  absolute |-> 25000, relative |-> Fraction(1, 10)],
   step      |-> 5000,
   forecast  |-> [scenarios |-> {[rate |-> 0, kind |-> "contributions_only", num |-> 0, den |-> 1,
                                  default |-> TRUE]}]]

\* A version without a materiality threshold cannot be used.
HasThresholds(settings) == \A s \in settings : s.materiality # NoThreshold

----------------------------------------------------------------------------
(* The decision boundary: what happened before it does not count *)

\* currentAtDecisionBoundary: the history and the reservations run from the boundary until now.
ContextAtBoundary(h, asOf) ==
  IF h.profile.boundary = NoBoundary
  THEN h.context
  ELSE [h.context EXCEPT !.historyCoverage = Period(h.profile.boundary, asOf),
                         !.reservationCoverage = Period(h.profile.boundary, asOf + 1)]

\* Mutants: the salaries before the boundary stay, or the transactions go as well.
FactsKeepingSalaries(facts, boundary) ==
  LET flows == {f \in facts.flows : f.at >= boundary}
  IN  [facts EXCEPT !.flows        = flows,
                    !.ambiguities  = {a \in @ : a.at >= boundary},
                    !.observations = {o \in @ : \E f \in flows : f.id = o.flow}]
FactsWithoutPast(facts, boundary) ==
  LET flows == {f \in facts.flows : f.at >= boundary}
  IN  [facts EXCEPT !.flows        = flows,
                    !.transactions = {x \in @ : x.at >= boundary},
                    !.ambiguities  = {a \in @ : a.at >= boundary},
                    !.observations = {o \in @ : \E f \in flows : f.id = o.flow},
                    !.triggers     = {t \in @ : \E x \in facts.transactions :
                                                  x.id = t.tx /\ x.at >= boundary}]

\* canonicalAtDecisionBoundary: flows, ambiguities, observations and salaries before it are left
\* out; transactions, reconciliations and reservations stay.
FactsAtBoundary(facts, boundary) ==
  LET flows == {f \in facts.flows : f.at >= boundary}
  IN  [facts EXCEPT !.flows        = flows,
                    !.ambiguities  = {a \in @ : a.at >= boundary},
                    !.observations = {o \in @ : \E f \in flows : f.id = o.flow},
                    !.triggers     = {t \in @ : \E x \in facts.transactions :
                                                  x.id = t.tx /\ x.at >= boundary}]

----------------------------------------------------------------------------
(* What the bank imports prove *)

\* A UTC midnight comes after the midnight of the same date in Riga.
UtcStart(date) == DayStart(date) + 1

\* applyBankCoverage: the history is no longer than the last covered interval.  The partial
\* classification it states for a gap never survives: the evidence below states it again.
CoveredByBank(context, coverage) ==
  LET history == context.historyCoverage
      last == coverage[Len(coverage)]
      bank == Period(UtcStart(last.from), UtcStart(last.through + 1))
      common == Period(Larger(history.start, bank.start), Smaller(history.end, bank.end))
      whole == bank.start <= history.start /\ history.end <= bank.end
  IN  IF coverage = << >>
      THEN context
      ELSE [context EXCEPT
              !.historyCoverage = IF ValidPeriod(common) THEN common ELSE @,
              !.quality.classification = IF whole THEN @ ELSE "partial"]

BankAccounts(facts) == {a \in facts.accounts : a.included /\ a.subtype = "bank"}
HasBankEvidence(bank) == bank.coverage # << >> \/ bank.reconciliations # {}
EvidenceOf(bank, account) == {r \in bank.reconciliations : r.account = account.id}
\* Mutant: any difference below the threshold will do.
WithinThreshold(r) == r.status = "reconciled"

Exact(r) == r.status = "reconciled" /\ r.difference = 0

BalanceQualityOf(h, accounts, cash) ==
  IF ~ HasBankEvidence(h.bank) THEN h.context.quality.liquidBalance
  ELSE IF /\ cash.status = "complete"
          /\ \A a \in accounts : \E r \in EvidenceOf(h.bank, a) : Exact(r)
  THEN "complete"
  ELSE IF cash.status = "unavailable" \/ \E a \in accounts : EvidenceOf(h.bank, a) = {}
  THEN "unavailable" ELSE "partial"
LiquidBalanceQuality(h, facts, asOf) ==
  BalanceQualityOf(h, BankAccounts(facts),
    LiquidCash([ledger |-> LedgerAt(facts, asOf), snapshots |-> facts.snapshots,
                valuations |-> facts.valuations, asOf |-> asOf]))

\* The reservations are known if they are covered since the first fund, and now.
ReservationQuality(facts, context, asOf) ==
  LET created == {f.createdAt : f \in {g \in facts.funds : g.createdAt <= asOf}}
  IN  IF /\ created # {} => context.reservationCoverage.start <= Min(created)
         /\ asOf < context.reservationCoverage.end
      THEN "complete" ELSE "unavailable"

\* An external flow is complete once it is classified, and observed if it is spending.
CompleteTransaction(facts, x) ==
  x.kind = "external_flow" =>
    \E f \in facts.flows : /\ f.tx = x.id
                           /\ Spending(f) => \E o \in facts.observations : o.flow = f.id

MonthStart(month) == LocalDateOrdinal(<<month[1], month[2], 1>>)
MonthEnd(month) == MonthStart(AddYearMonths(month, 1)) - 1
MonthOfInstant(t) == MonthAt(DateOf(t))

\* The evidence for one month before the current one.
CoveredDates(coverage, first, last) ==
  \E k \in DOMAIN coverage : coverage[k].from <= first /\ coverage[k].through >= last
BalancesReconciled(h, facts, context, first, last) ==
  /\ DateOf(context.historyCoverage.start) <= first
  /\ CoveredDates(h.bank.coverage, first, last)
  /\ \A a \in BankAccounts(facts) :
        \E r \in EvidenceOf(h.bank, a) : Exact(r) /\ DateOf(r.sourceAsOf) >= last
MonthEvidence(h, facts, context, month, asOf) ==
  LET transactions == {x \in facts.transactions : x.at <= asOf /\ MonthOfInstant(x.at) = month}
      ambiguities == {a \in facts.ambiguities : MonthOfInstant(a.at) = month}
  IN  [month         |-> month,
       reconciled    |-> BalancesReconciled(h, facts, context, MonthStart(month), MonthEnd(month)),
       ambiguityFree |-> \A a \in ambiguities : ~ a.material,
       fxComplete    |-> \A x \in transactions : \A e \in x.entries : e.currency = EUR,
       classified    |-> ambiguities = {} /\ \A x \in transactions : CompleteTransaction(facts, x)]

EvidenceMonthsOf(context, today) ==
  MonthsBefore(MonthOfInstant(context.historyCoverage.start), MonthAt(today))

ClassificationQuality(h, facts, context, asOf, months) ==
  LET decision == {x \in facts.transactions :
                     context.historyCoverage.start <= x.at /\ x.at <= asOf}
  IN  IF ~ HasBankEvidence(h.bank) THEN context.quality.classification
      ELSE IF months = {} THEN "unavailable"
      ELSE IF facts.ambiguities = {} /\ \A x \in decision : CompleteTransaction(facts, x)
      THEN "complete" ELSE "partial"

\* deriveEvidenceBackedCurrentContext
EvidenceOver(h, facts, context, asOf, months) ==
  [context EXCEPT
     !.monthCoverage = IF HasBankEvidence(h.bank)
                       THEN {MonthEvidence(h, facts, context, m, asOf) : m \in months}
                       ELSE @,
     !.quality.liquidBalance  = LiquidBalanceQuality(h, facts, asOf),
     !.quality.reservations   = ReservationQuality(facts, context, asOf),
     !.quality.classification = ClassificationQuality(h, facts, context, asOf, months)]
EvidenceBacked(h, facts, context, asOf, today) ==
  EvidenceOver(h, facts, context, asOf, EvidenceMonthsOf(context, today))

----------------------------------------------------------------------------
(* What the declarations mean on the day of the run *)

\* monthlyDates: the day in each month that falls in a range of dates.
MonthlyDates(first, last, day) ==
  LET months == MonthsBefore(MonthAt(first), AddYearMonths(MonthAt(last), 1))
  IN  {d \in {MonthStart(m) + day - 1 : m \in months} : first <= d /\ d <= last}

NoPays(today) == [dates |-> {}, through |-> today]
PaysThrough(today, through, day) == [dates |-> MonthlyDates(today + 1, through, day),
                                     through |-> through]
PayScheduleFor(context, today) ==
  IF context.declared
  THEN IF context.payDay = NoPayDay THEN NoPays(today)
       ELSE PaysThrough(today, today + UnknownIncomeHorizonDays, context.payDay)
  ELSE IF context.nextIncome # NoDate /\ context.nextIncome <= today
       THEN NoPays(today) ELSE context.paySchedule

NextIncomeFor(context, today, paySchedule) ==
  IF context.declared
  THEN IF paySchedule.dates = {} THEN NoDate ELSE Min(paySchedule.dates)
  ELSE IF context.nextIncome <= today THEN NoDate ELSE context.nextIncome

\* One occurrence of a declaration; its id is derived from the declaration and the date.
DeclarationIds == 100
Occurrence(d, date) == [id |-> date * DeclarationIds + d.id, date |-> date, amount |-> d.amount,
                        necessity |-> d.necessity]
ScheduledFor(context, today, end) ==
  LET month == MonthAt(today)
      dates(d) == MonthlyDates(MonthStart(month), MonthEnd(month), d.day)
                    \union MonthlyDates(today, end - 1, d.day)
  IN  UNION {{Occurrence(d, date) : date \in dates(d)} : d \in context.declarations}

\* An occurrence that the owner also entered by hand is one need, matched one to one.
SameNeed(n, s) == /\ n.due = s.date /\ n.amount = s.amount
                  /\ n.necessity = s.necessity /\ n.direction = "debit"
\* Mutant: one need entered by hand stands for every occurrence alike.
DerivedWithoutCounting(window, needs) ==
  {[id |-> s.id, schedule |-> s.id, state |-> "scheduled", direction |-> "debit",
    due |-> s.date, necessity |-> s.necessity, amount |-> s.amount] :
     s \in {o \in window : ~ \E n \in needs : SameNeed(n, o)}}

Derived(window, needs) ==
  LET alike(s) == {o \in window : /\ o.date = s.date /\ o.amount = s.amount
                                  /\ o.necessity = s.necessity /\ o.id <= s.id}
      matched(s) == Cardinality(alike(s)) <= Cardinality({n \in needs : SameNeed(n, s)})
  IN  {[id |-> s.id, schedule |-> s.id, state |-> "scheduled", direction |-> "debit",
        due |-> s.date, necessity |-> s.necessity, amount |-> s.amount] :
         s \in {o \in window : ~ matched(o)}}

\* deriveRunPlanningContext
WindowEnd(income, today) == IF income = NoDate THEN today + UnknownIncomeHorizonDays ELSE income
Upcoming(s, today, end) == today <= s.date /\ s.date < end
WithDeclared(context, today, end, scheduled) ==
  [context EXCEPT !.scheduled = scheduled,
                  !.needs = @ \union Derived({s \in scheduled : Upcoming(s, today, end)}, @)]
WithOccurrences(context, today, end) ==
  IF context.declared
  THEN WithDeclared(context, today, end, ScheduledFor(context, today, end))
  ELSE [context EXCEPT !.scheduleComplete =
          /\ @
          /\ \/ context.scheduled = {}
             \/ \E s \in context.scheduled : \/ MonthAt(s.date) = MonthAt(today)
                                             \/ Upcoming(s, today, end)]
Planned(context, today, paySchedule, income) ==
  WithOccurrences([context EXCEPT !.nextIncome = income, !.paySchedule = paySchedule],
                  today, WindowEnd(income, today))
PlannedFor(context, today, paySchedule) ==
  Planned(context, today, paySchedule, NextIncomeFor(context, today, paySchedule))
RunContext(context, today) == PlannedFor(context, today, PayScheduleFor(context, today))

----------------------------------------------------------------------------

\* Whether the run has what it needs; without it the assembly throws.
Assemblable(h, asOf, today) ==
  /\ DateOf(asOf) = today
  /\ HasThresholds(h.settings)
  /\ SettingsAt(h.settings, today) # {}
  /\ h.profile.boundary # NoBoundary => h.profile.boundary < asOf

\* assembleFinancialEngineInput
Bounded(h) == h.profile.boundary # NoBoundary
FactsOf(h) == IF Bounded(h) THEN FactsAtBoundary(h.facts, h.profile.boundary) ELSE h.facts
AssembledFrom(h, asOf, today, facts, context) ==
  [asOf           |-> asOf,
   today          |-> today,
   version        |-> (CHOOSE s \in SettingsAt(h.settings, today) : TRUE).version,
   settings       |-> {Hydrated(s) : s \in h.settings},
   facts          |-> facts,
   current        |-> RunContext(EvidenceBacked(h, facts, context, asOf, today), today),
   checkpoints    |-> h.checkpoints,
   ccrPeriod      |-> IF Bounded(h) THEN context.historyCoverage ELSE h.profile.ccrPeriod,
   rollingPeriods |-> h.profile.rollingPeriods,
   projection     |-> h.profile.projection,
   plan           |-> h.profile.plan,
   contribution   |-> h.profile.contribution,
   issued         |-> h.profile.issued,
   forecastPlan   |-> h.profile.forecastPlan]
Assembled(h, asOf, today) ==
  AssembledFrom(h, asOf, today, FactsOf(h),
                CoveredByBank(ContextAtBoundary(h, asOf), h.bank.coverage))
==============================================================================
