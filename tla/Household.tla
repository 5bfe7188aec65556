------------------------------- MODULE Household -------------------------------
(***************************************************************************)
(* The commands that change what is stored about one household, and the    *)
(* evaluation that follows every accepted command.  Commands of an owner   *)
(* hold the owner's lock, so each is one step; a command whose guard fails *)
(* is rejected and rolled back, which is a step that changes nothing and   *)
(* is left out.  A flow, an ambiguity and a reconciliation are named after *)
(* their transaction, of which each has at most one; a transaction also    *)
(* carries the instant it was recorded (created).  The evaluation at a     *)
(* moment is what a run that starts then computes.                         *)
(*                                                                         *)
(* Time passes with every command and from one day to the next.            *)
(***************************************************************************)
EXTENDS EvaluationInput

CONSTANTS
  Households,      \* the stored states and moments a behavior starts from
  Checkpoints,     \* checkpoint contexts; only the import of a history writes them
  LastDate,        \* bound: the last date a behavior reaches
  Movements,       \* what the bank may book: [amount, doubt, drift, dated]
  Classes,         \* what a flow may be called: [kind, source, reimbursable]
  Semantics,       \* what spending may be called: [category, necessity, cadence, irregular]
  CashAmounts,     \* what is spent or earned in cash; negative amounts are spent
  PurseCounts,          \* what the owner may count in the purse
  Plans,           \* what the owner may declare (see UpdatePlanning)
  Savings,         \* future expenses the owner may name: [target, due]
  Reservations,    \* amounts the owner may reserve for a fund
  Thresholds,      \* materiality thresholds the owner may choose
  OwnerEstimates,       \* estimates the owner may give: [normal, essential, historyStart, cash]
  BoundaryDates,   \* dates the owner may let the decision history start at
  Openings,        \* amounts the first cash account may open with
  NoProfile, NoContext, NotEvaluated

VARIABLES
  facts, context, profile, settings, bank,
  now,             \* the clock
  left,            \* bound: how many commands the behavior may still contain
  allocatedFor,    \* the salaries an automatic allocation was recorded for
  report           \* the evaluation of a run that starts now

vars == <<facts, context, profile, settings, bank, now, left, allocatedFor, report>>

Household == [facts |-> facts, context |-> context, profile |-> profile, settings |-> settings,
              checkpoints |-> Checkpoints, bank |-> bank]
Today == DateOf(now)
Noon(date) == DayStart(date) + 2

\* A bank balance is worth two days: staleAt is 48 hours after its source instant.
SnapshotLifetime == 2 * TicksPerDay

----------------------------------------------------------------------------
(* What a run computes *)

CanRun(h, t) == h.profile # NoProfile /\ Assemblable(h, t, DateOf(t))
StateOf(h, t) == EvaluateFinancialState(Assembled(h, t, DateOf(t)))

Summary(s) ==
  IF s.throws
  THEN [throws |-> TRUE]
  ELSE [throws |-> FALSE, cash |-> s.now.cash, sinking |-> s.now.sinking,
        baseline |-> s.now.baseline, liquidity |-> s.now.liquidity,
        readiness |-> s.now.readiness, safe |-> s.now.safe, created |-> s.created,
        planned |-> s.current]

EvaluationOf(h, t) == IF CanRun(h, t) THEN Summary(StateOf(h, t)) ELSE NotEvaluated

----------------------------------------------------------------------------
(* What the commands look up and write *)

Tx(id) == CHOOSE x \in facts.transactions : x.id = id
NextTx == 1 + Max({0} \union {x.id : x \in facts.transactions})
FlowsOf(tx) == {f \in facts.flows : f.tx = tx}
AmbiguitiesOf(tx, kinds) == {a \in facts.ambiguities : a.tx = tx /\ a.kind \in kinds}
EntryOf(x) == CHOOSE e \in x.entries : TRUE
ExternalFlow(x) == x.kind = "external_flow" /\ x.booked

OneEntry(id, account, amount, role) ==
  {[id |-> <<id, account>>, tx |-> id, account |-> account, amount |-> amount,
    currency |-> EUR, role |-> role]}
Booked(id, at, kind, entries) ==
  [id |-> id, at |-> at, booked |-> TRUE, kind |-> kind, entries |-> entries, created |-> now]

\* A flow of a class; only salaries have a source, and only reversals are related.
FlowAs(x, class, amount, related) ==
  [id |-> x.id, tx |-> x.id, at |-> x.at, kind |-> class.kind, source |-> class.source,
   amount |-> amount, reimbursable |-> class.reimbursable, related |-> related]
Salary == [kind |-> "earned_income", source |-> "salary", reimbursable |-> FALSE]
OtherIncome == [kind |-> "earned_income", source |-> "other", reimbursable |-> FALSE]
Purchase == [kind |-> "consumption", source |-> "none", reimbursable |-> FALSE]
Adjustment == [kind |-> "cash_reconciliation_adjustment", source |-> "none", reimbursable |-> FALSE]

CashAccounts == {a \in facts.accounts : a.subtype = "cash" /\ a.source = "ledger"
                                        /\ a.currency = EUR /\ a.cashFor = NoAccount}
Balance(account, at) == LedgerBalance([transactions |-> facts.transactions], account, at)

CurrentSettings == CHOOSE s \in settings : \A o \in settings : o.from <= s.from
Threshold == IF settings = {} THEN NoThreshold ELSE CurrentSettings.materiality
Material(amount) == Threshold # NoThreshold /\ Larger(amount, -amount) >= Threshold

\* Every command takes one instant and is followed by an evaluation.
Command == left > 0 /\ left' = left - 1 /\ now' = now + 1
Evaluate == \E h \in {Household'}, t \in {now'} : report' = EvaluationOf(h, t)

FactsOnly == UNCHANGED <<context, profile, settings, bank, allocatedFor>>

----------------------------------------------------------------------------
(* What the web route takes for a request *)

\* requiredMonthlyDayOfMonth
MonthlyDay(day) == day \in 1 .. 28
\* parsePlanningContextUpdateInput; NoPayDay declares that there is no pay day.
ParsesPlan(plan) ==
  /\ \A d \in plan.declarations : d.amount > 0 /\ MonthlyDay(d.day)
  /\ \A n \in plan.needs \union plan.obligations \union plan.restricted : n.amount > 0
  /\ plan.payDay = NoPayDay \/ MonthlyDay(plan.payDay)
\* parseClassificationInput: only a reversal is related, and only a salary has a source of its own.
ParsesClass(class, related) ==
  /\ class.kind \in {"earned_income", "consumption", "refund", "reimbursement",
                     "cash_reconciliation_adjustment", "other_external_flow"}
  /\ ~ IsReversal(class) => related = Unlinked
\* parseBankExternalFlowClassificationInput
ParsesBankClass(class, related) ==
  /\ ParsesClass(class, related)
  /\ class.kind \notin {"earned_income", "cash_reconciliation_adjustment"}
  /\ IsReversal(class) => related # Unlinked
\* parseMaterialitySettingsInput and parseProvisionalBaselineSettingsInput
ParsesThreshold(threshold) == threshold >= 0
ParsesEstimate(estimate) ==
  /\ 0 <= estimate.essential /\ estimate.essential <= estimate.normal
  /\ 0 <= estimate.cash /\ estimate.cash <= estimate.normal
  /\ estimate.historyStart <= Today

----------------------------------------------------------------------------
(* The bank *)

\* mergeCoverageIntervals, when a scan reaches back to the end of what is covered.
CoveredThrough(coverage, date) ==
  IF coverage = << >>
  THEN <<[from |-> date, through |-> date]>>
  ELSE [coverage EXCEPT ![Len(coverage)].through = Larger(@, date)]

\* appendEnableBankingCanonicalBatch of a run that saw one new booked transaction, and its
\* completion: the transaction counts from noon of its date, the balance replaces none of the
\* same instant, and the difference to the ledger is recorded.
BankAccount == CHOOSE a \in BankAccounts(facts) : TRUE
ImportBankMovement(m) ==
  LET id == NextTx
      x == Booked(id, Noon(Today - m.dated), "external_flow",
                  OneEntry(id, BankAccount.id, m.amount, "external_flow"))
      ledger == SumOver({y \in facts.transactions : y.booked /\ DateOf(y.at) <= Today},
                        LAMBDA y : Total({e \in y.entries : e.account = BankAccount.id}))
      provider == ledger + m.amount + m.drift
      status == IF Larger(m.drift, -m.drift) > Threshold THEN "material_mismatch" ELSE "reconciled"
      snapshot == [account |-> BankAccount.id, asOf |-> now, staleAt |-> now + SnapshotLifetime,
                   value |-> [status |-> "available", original |-> provider,
                              currency |-> EUR, reporting |-> provider]]
  IN  /\ Command
      /\ BankAccounts(facts) # {} /\ Threshold # NoThreshold
      /\ facts' = [facts EXCEPT
                     !.transactions = @ \union {x},
                     !.ambiguities = @ \union {[tx |-> id, at |-> x.at, kind |-> m.doubt,
                                               material |-> Material(m.amount)]},
                     !.snapshots = IF \E s \in @ : s.account = BankAccount.id /\ s.asOf = now
                                   THEN @ ELSE @ \union {snapshot}]
      /\ bank' = [coverage |-> CoveredThrough(bank.coverage, Today),
                  reconciliations |->
                    {r \in bank.reconciliations : r.account # BankAccount.id}
                      \union {[account |-> BankAccount.id, sourceAsOf |-> now,
                               difference |-> m.drift, status |-> status]}]
      /\ UNCHANGED <<context, profile, settings, allocatedFor>>
      /\ Evaluate

\* classifyBankTransactionAsPrimarySalary
ClassifyPrimarySalary(x) ==
  /\ Command
  /\ AmbiguitiesOf(x.id, {"unclassified_external_flow"}) # {}
  /\ ExternalFlow(x) /\ EntryOf(x).amount > 0
  /\ FlowsOf(x.id) = {} /\ \A t \in facts.triggers : t.tx # x.id
  /\ facts' = [facts EXCEPT
                 !.flows = @ \union {FlowAs(x, Salary, EntryOf(x).amount, Unlinked)},
                 !.triggers = @ \union {[tx |-> x.id, date |-> DateOf(x.at)]},
                 !.ambiguities = @ \ AmbiguitiesOf(x.id, {"unclassified_external_flow"})]
  /\ FactsOnly /\ Evaluate

\* requireLinkedConsumption: the original allows the reversal, and all of them stay within it.
LinkableTo(x, class, related) ==
  \E original \in FlowsOf(related) :
     /\ related # x.id /\ original.kind = "consumption"
     /\ class.kind = "reimbursement" => original.reimbursable
     /\ SumOver({f \in facts.flows : IsReversal(f) /\ f.related = related}, LAMBDA f : f.amount)
          + EntryOf(x).amount <= original.amount

\* classifyBankTransactionAsExternalFlow
ClassifyExternalFlow(x, class, related) ==
  LET amount == EntryOf(x).amount
  IN  /\ Command
      /\ AmbiguitiesOf(x.id, {"unclassified_external_flow"}) # {}
      /\ ExternalFlow(x) /\ amount # 0 /\ FlowsOf(x.id) = {}
      /\ ParsesBankClass(class, related)
      /\ class.kind = "consumption" => amount < 0
      /\ IsReversal(class) => amount > 0 /\ LinkableTo(x, class, related)
      /\ facts' = [facts EXCEPT
                     !.flows = @ \union {FlowAs(x, class, IF class.kind = "consumption"
                                                          THEN -amount ELSE amount, related)},
                     !.ambiguities = @ \ AmbiguitiesOf(x.id, {"unclassified_external_flow"})]
      /\ FactsOnly /\ Evaluate

\* appendExistingFlowSpendingObservation: spending is described by the owner, and a reversal
\* is described as its original.
ObservationAs(f, s) ==
  [flow |-> f.id, date |-> LocalDateFromOrdinal(DateOf(f.at)), category |-> s.category,
   necessity |-> s.necessity, cadence |-> s.cadence, irregular |-> s.irregular]
Described(f) == \E o \in facts.observations : o.flow = f.id
ObserveSpending(f, s) ==
  /\ Command
  /\ \E x \in facts.transactions : x.id = f.tx /\ ExternalFlow(x) /\ x.at = f.at
  /\ ~ Described(f)
  /\ \/ f.kind = "consumption"
     \/ /\ IsReversal(f)
        /\ \E original \in FlowsOf(f.related) :
              /\ original.kind = "consumption"
              /\ \E o \in facts.observations : o.flow = original.id /\ SameClass(o, s)
  /\ facts' = [facts EXCEPT !.observations = @ \union {ObservationAs(f, s)}]
  /\ FactsOnly /\ Evaluate

----------------------------------------------------------------------------
(* Second thoughts *)

\* appendClassificationCorrection: the flow keeps its amount, and everything that was derived
\* from its former class keeps what it says.
CorrectClassification(f, class, related) ==
  /\ Command
  /\ ParsesClass(class, related)
  /\ facts' = [facts EXCEPT
                 !.flows = (@ \ {f}) \union
                           {[f EXCEPT !.kind = class.kind, !.source = class.source,
                                      !.reimbursable = class.reimbursable, !.related = related]}]
  /\ FactsOnly /\ Evaluate

\* resolveTransferCandidate: a confirmed transfer becomes a valid transfer to the other account
\* under the same id, a rejected one stays what it is.
Transfer(x, to) ==
  LET e == EntryOf(x)
      source == IF e.amount < 0 THEN e.account ELSE to
      destination == IF e.amount < 0 THEN to ELSE e.account
      amount == Larger(e.amount, -e.amount)
  IN  [x EXCEPT !.kind = "internal_transfer",
                !.entries = OneEntry(x.id, source, -amount, "transfer_source")
                              \union OneEntry(x.id, destination, amount, "transfer_destination")]
ConfirmTransfer(a, to) ==
  /\ Command
  /\ Tx(a.tx).kind = "external_flow" /\ to # EntryOf(Tx(a.tx)).account
  /\ ValidTransaction(Transfer(Tx(a.tx), to))
  /\ facts' = [facts EXCEPT
                 !.transactions = (@ \ {Tx(a.tx)}) \union {Transfer(Tx(a.tx), to)},
                 !.ambiguities = @ \ {a}]
  /\ FactsOnly /\ Evaluate
RejectTransfer(a) ==
  /\ Command
  /\ facts' = [facts EXCEPT !.ambiguities = @ \ {a}]
  /\ FactsOnly /\ Evaluate

----------------------------------------------------------------------------
(* Cash *)

\* appendCashActivity, of an expense or an income the owner reports.
RecordCash(amount, s) ==
  LET id == NextTx
      account == CHOOSE a \in CashAccounts : TRUE
      x == Booked(id, now, "external_flow", OneEntry(id, account.id, amount, "external_flow"))
      flow == IF amount < 0 THEN FlowAs(x, Purchase, -amount, Unlinked)
                            ELSE FlowAs(x, OtherIncome, amount, Unlinked)
  IN  /\ Command
      /\ Cardinality(CashAccounts) = 1
      /\ facts' = [facts EXCEPT
                     !.transactions = @ \union {x},
                     !.flows = @ \union {flow},
                     !.observations = @ \union IF amount < 0 THEN {ObservationAs(flow, s)} ELSE {}]
      /\ FactsOnly /\ Evaluate

\* A cash count and appendCashReconciliation: the variance is booked as an adjustment.
ReconcileCash(counted) ==
  LET id == NextTx
      account == CHOOSE a \in CashAccounts : TRUE
      variance == counted - Balance(account.id, now)
      x == Booked(id, now, "valuation_adjustment",
                  OneEntry(id, account.id, variance, "valuation_adjustment"))
  IN  /\ Command
      /\ Cardinality(CashAccounts) = 1 /\ variance # 0
      /\ facts' = [facts EXCEPT
                     !.transactions = @ \union {x},
                     !.flows = @ \union {FlowAs(x, Adjustment, variance, Unlinked)},
                     !.reconciliations = @ \union
                        {[id |-> id, account |-> account.id, tx |-> id, at |-> now,
                          variance |-> variance, material |-> Material(variance)]}]
      /\ FactsOnly /\ Evaluate

\* appendReconciliationResolution: the adjustment is explained, or taken back by another one.
ResolveReconciliation(r, kind, x) ==
  /\ Command
  /\ \A y \in facts.resolutions : y.of # r.id
  /\ Resolves(facts, r, [of |-> r.id, kind |-> kind, tx |-> x.id, at |-> now])
  /\ facts' = [facts EXCEPT !.resolutions = @ \union {[of |-> r.id, kind |-> kind, tx |-> x.id,
                                                      at |-> now]}]
  /\ FactsOnly /\ Evaluate

\* bootstrapCashAccount, with an opening balance now or earlier.
BootstrapCashAccount(opening, at) ==
  LET id == NextTx
      account == [id |-> 1 + Max({0} \union {a.id : a \in facts.accounts}), subtype |-> "cash",
                  currency |-> EUR, included |-> TRUE, source |-> "ledger", cashFor |-> NoAccount]
      x == Booked(id, at, "opening_balance", OneEntry(id, account.id, opening, "opening_balance"))
  IN  /\ Command
      /\ \A a \in facts.accounts : a.subtype # "cash"
      /\ at <= now
      /\ facts' = [facts EXCEPT !.accounts = @ \union {account}, !.transactions = @ \union {x}]
      /\ FactsOnly /\ Evaluate

----------------------------------------------------------------------------
(* Reserves *)

\* appendSinkingFund: a future expense the owner names gets the last priority.
NextPriority == 1 + Max({-1} \union {f.priority : f \in facts.funds})
CreateFund(saving) ==
  /\ Command
  /\ facts' = [facts EXCEPT !.funds = @ \union
                 {[id |-> 1 + Max({0} \union {f.id : f \in facts.funds}), target |-> saving.target,
                   due |-> saving.due, priority |-> NextPriority,
                   committed |-> TRUE, status |-> "active", policy |-> "manual",
                   createdAt |-> now]}]
  /\ FactsOnly /\ Evaluate

AllocationOf(id, fund, amount) ==
  [id |-> id, fund |-> fund, kind |-> "allocation", amount |-> amount, at |-> now, tx |-> NoTx]
NextAllocation == 1 + Max({0} \union {e.id : e \in facts.allocations})

\* appendManualSinkingAllocation
AllocateManually(fund, amount) ==
  /\ Command
  /\ facts' = [facts EXCEPT !.allocations = @ \union
                 {AllocationOf(NextAllocation, fund.id, amount)}]
  /\ FactsOnly /\ Evaluate

\* processAutomaticSinkingAllocationJob: once per salary, as the evaluation of this moment allows.
AllocateAutomatically(t) ==
  LET plan == AutomaticAllocations(report.liquidity, report.sinking, facts.funds)
      rank(p) == Cardinality({q \in plan.value : q.fund < p.fund})
  IN  /\ Command
      /\ report # NotEvaluated /\ ~ report.throws
      /\ plan.value # NoValue /\ plan.value # {}
      /\ t.tx \notin allocatedFor
      /\ facts' = [facts EXCEPT !.allocations = @ \union
                     {AllocationOf(NextAllocation + rank(p), p.fund, p.amount) : p \in plan.value}]
      /\ allocatedFor' = allocatedFor \union {t.tx}
      /\ UNCHANGED <<context, profile, settings, bank>>
      /\ Evaluate

----------------------------------------------------------------------------
(* Settings *)

NextVersion == 1 + Max({0} \union {s.version : s \in settings})
NoEstimate == NoFallback
Payload == IF settings = {} THEN [materiality |-> NoThreshold, fallback |-> NoEstimate]
           ELSE [materiality |-> CurrentSettings.materiality, fallback |-> CurrentSettings.fallback]
\* Mutant: a second version may start on the same day.
NewSettingsAnyway(payload) ==
  /\ settings' = settings \union {[version |-> NextVersion, from |-> Today,
                                   materiality |-> payload.materiality,
                                   fallback |-> payload.fallback]}
  /\ UNCHANGED <<facts, context, profile, bank, allocatedFor>>

\* A new version starts today, unless one already did.
NewSettings(payload) ==
  /\ \A s \in settings : s.from # Today
  /\ settings' = settings \union {[version |-> NextVersion, from |-> Today,
                                   materiality |-> payload.materiality,
                                   fallback |-> payload.fallback]}
  /\ UNCHANGED <<facts, context, profile, bank, allocatedFor>>

\* appendMaterialitySettingsVersion
ChangeMateriality(threshold) ==
  /\ Command
  /\ ParsesThreshold(threshold) /\ threshold # Threshold
  /\ NewSettings([Payload EXCEPT !.materiality = threshold])
  /\ Evaluate

\* appendProvisionalBaselineSettingsVersion
ProvideEstimate(estimate) ==
  /\ Command
  /\ ParsesEstimate(estimate) /\ estimate # Payload.fallback
  /\ NewSettings([Payload EXCEPT !.fallback = estimate])
  /\ Evaluate

----------------------------------------------------------------------------
(* Planning and profile *)

\* The completeness of a declared list.
Declared(complete, list) == IF complete THEN "complete" ELSE IF list # {} THEN "partial"
                            ELSE "unavailable"
\* updateCurrentPlanningContext: what the owner declares replaces what was declared before.
\* A plan is [declarations, needs, obligations, restricted, payDay, complete], the last the
\* four answers [schedule, needs, obligations, restricted].
UpdatePlanning(plan) ==
  /\ Command
  /\ ParsesPlan(plan) /\ context # NoContext
  /\ context' = [context EXCEPT
                   !.declared = TRUE, !.declarations = plan.declarations,
                   !.scheduled = {}, !.scheduleComplete = plan.complete.schedule,
                   !.needs = plan.needs, !.obligations = plan.obligations,
                   !.restricted = plan.restricted, !.payDay = plan.payDay,
                   !.nextIncome = NoDate, !.paySchedule = [dates |-> {}, through |-> Today],
                   !.quality.needs = Declared(plan.complete.needs, plan.needs),
                   !.quality.obligations = Declared(plan.complete.obligations, plan.obligations),
                   !.quality.restricted = Declared(plan.complete.restricted, plan.restricted)]
  /\ UNCHANGED <<facts, profile, settings, bank, allocatedFor>>
  /\ Evaluate

\* bootstrapEvaluationProfile: nothing is known yet, from the first recorded transaction on.
InitialContext(period, today) ==
  [declared |-> FALSE, payDay |-> NoPayDay, declarations |-> {}, monthCoverage |-> {},
   scheduled |-> {}, scheduleComplete |-> FALSE, needs |-> {}, obligations |-> {},
   restricted |-> {}, nextIncome |-> NoDate, paySchedule |-> [dates |-> {}, through |-> today],
   historyCoverage |-> period, reservationCoverage |-> period,
   quality |-> [needs |-> "unavailable", obligations |-> "unavailable",
                restricted |-> "unavailable", liquidBalance |-> "unavailable",
                classification |-> "unavailable", reservations |-> "unavailable"]]
InitialProfile(period, today) ==
  [boundary |-> NoBoundary, ccrPeriod |-> period, rollingPeriods |-> << >>,
   projection |-> [flows |-> {}, protection |-> {},
                   coverage |-> [salary |-> "unavailable", spending |-> "unavailable",
                                 obligations |-> "unavailable", sinking |-> "unavailable"],
                   occurrences |-> {}, plan |-> 1, through |-> today],
   plan |-> 1, contribution |-> 0, issued |-> NotIssued,
   forecastPlan |-> [flows |-> {}, expenses |-> {}, included |-> {}, months |-> 12]]
BootstrapProfile ==
  LET period == Period(Min({x.created : x \in facts.transactions}), now)
  IN  /\ Command
      /\ profile = NoProfile /\ context = NoContext
      /\ facts.accounts # {} /\ facts.transactions # {} /\ settings # {}
      /\ ValidPeriod(period)
      /\ context' = InitialContext(period, Today)
      /\ profile' = InitialProfile(period, Today)
      /\ UNCHANGED <<facts, settings, bank, allocatedFor>>
      /\ Evaluate

\* setDecisionHistoryBoundary
SetDecisionBoundary(date) ==
  LET start == DayStart(date)
  IN  /\ Command
      /\ profile # NoProfile /\ context # NoContext
      /\ profile.boundary = NoBoundary
      /\ start < now
      /\ profile' = [profile EXCEPT !.boundary = start, !.ccrPeriod = Period(start, now)]
      /\ context' = [context EXCEPT !.historyCoverage = Period(start, now),
                                    !.reservationCoverage = Period(start, now + 1)]
      /\ UNCHANGED <<facts, settings, bank, allocatedFor>>
      /\ Evaluate

----------------------------------------------------------------------------

Init == \E h \in Households :
          /\ facts = h.facts /\ context = h.context /\ profile = h.profile
          /\ settings = h.settings /\ bank = h.bank
          /\ now = h.now /\ left = h.left /\ allocatedFor = {}
          /\ report = EvaluationOf(Household, now)

\* The next morning.
NextDay ==
  /\ Today < LastDate
  /\ now' = DayStart(Today + 1) + 1
  /\ UNCHANGED <<facts, context, profile, settings, bank, left, allocatedFor>>
  /\ Evaluate

BankNext == \/ \E m \in Movements : ImportBankMovement(m)
            \/ \E x \in facts.transactions : ClassifyPrimarySalary(x)
            \/ \E x \in facts.transactions, c \in Classes,
                  related \in {Unlinked} \union {y.id : y \in facts.transactions} :
                  ClassifyExternalFlow(x, c, related)
            \/ \E f \in facts.flows, s \in Semantics : ObserveSpending(f, s)

CorrectionNext == \/ \E f \in facts.flows, c \in Classes,
                        related \in {Unlinked} \union {y.id : y \in facts.transactions} :
                        CorrectClassification(f, c, related)
                  \/ \E a \in facts.ambiguities, b \in facts.accounts : ConfirmTransfer(a, b.id)
                  \/ \E a \in facts.ambiguities : RejectTransfer(a)

CashNext == \/ \E amount \in CashAmounts, s \in Semantics : RecordCash(amount, s)
            \/ \E counted \in PurseCounts : ReconcileCash(counted)
            \/ \E r \in facts.reconciliations, x \in facts.transactions,
                  kind \in {"reclassified_adjustment", "reversed_adjustment"} :
                  ResolveReconciliation(r, kind, x)
            \/ \E opening \in Openings, at \in {now, DayStart(Today)} :
                  BootstrapCashAccount(opening, at)

OwnerNext == \/ \E saving \in Savings : CreateFund(saving)
             \/ \E fund \in facts.funds, amount \in Reservations : AllocateManually(fund, amount)
             \/ \E t \in facts.triggers : AllocateAutomatically(t)
             \/ \E threshold \in Thresholds : ChangeMateriality(threshold)
             \/ \E estimate \in OwnerEstimates : ProvideEstimate(estimate)
             \/ \E plan \in Plans : UpdatePlanning(plan)
             \/ BootstrapProfile
             \/ \E date \in BoundaryDates : SetDecisionBoundary(date)

Next == BankNext \/ CorrectionNext \/ CashNext \/ OwnerNext \/ NextDay
Spec == Init /\ [][Next]_vars
==============================================================================
