----------------------------- MODULE SinkingFunds -----------------------------
(***************************************************************************)
(* Sinking funds: cash reserved for known future spending.                 *)
(*   fund        [id, target, due, priority, committed, status, policy,    *)
(*                createdAt]                                               *)
(*   allocation  [id, fund, kind, amount, at, tx]   the events of a fund:  *)
(*               "allocation", "release" or "funded_consumption" of the    *)
(*               consumption transaction tx                                *)
(*   history h   [funds, allocations, flows, coverage, asOf]               *)
(*   schedule    a history with [cycles, paySchedule, today]               *)
(***************************************************************************)
EXTENDS PayCycles, ExactMath

\* What an event adds to the reserved balance and to the fulfilment of its target: spending
\* the reserve on its purpose keeps the target fulfilled, releasing it does not.
AllocationDelta(e) == IF e.kind = "allocation" THEN e.amount ELSE -e.amount
FulfillmentDelta(e) == CASE e.kind = "allocation" -> e.amount
                         [] e.kind = "release"    -> -e.amount
                         [] OTHER                 -> 0
FundedConsumptionDelta(e) == IF e.kind = "funded_consumption" THEN e.amount ELSE 0

ValidFund(fund) == fund.target \in Nat \ {0} /\ fund.priority >= 0
ValidAllocation(e) == e.amount \in Nat \ {0}

----------------------------------------------------------------------------
(* The history *)

FundedEvents(h) == {e \in h.allocations : e.kind = "funded_consumption"}

\* Funded consumption matches a consumption at its instant and never exceeds it.
ValidFundedConsumption(h) ==
  /\ UniqueBy(h.flows, LAMBDA f : f.id)
  /\ UniqueBy(h.flows, LAMBDA f : f.tx)
  /\ \A e \in FundedEvents(h) :
       \E f \in h.flows :
          /\ f.tx = e.tx /\ f.kind = "consumption" /\ f.at = e.at
          /\ SumOver({o \in FundedEvents(h) : o.tx = e.tx}, LAMBDA o : o.amount) <= f.amount

ValidEventsOfFunds(h) ==
  /\ UniqueBy(h.funds, LAMBDA fund : fund.id)
  /\ UniqueBy(h.allocations, LAMBDA e : e.id)
  /\ \A fund \in h.funds : ValidFund(fund)
  /\ \A e \in h.allocations :
        ValidAllocation(e) /\ \E fund \in h.funds : fund.id = e.fund /\ fund.createdAt <= e.at

\* The recorded reservations cover every fund since its creation, and the present.
HasCompleteCoverage(h) ==
  /\ \A fund \in h.funds : fund.createdAt <= h.asOf => h.coverage.start <= fund.createdAt
  /\ h.asOf < h.coverage.end

\* The events of a fund up to an instant, in the order the balance is replayed.
NotAfter(e, o) == e.at < o.at \/ (e.at = o.at /\ e.id <= o.id)
BalanceThrough(h, e) ==
  SumOver({o \in h.allocations : o.fund = e.fund /\ NotAfter(o, e)}, AllocationDelta)

Reserved(h, fund) ==
  SumOver({e \in h.allocations : e.fund = fund.id /\ e.at <= h.asOf}, AllocationDelta)

ValidBalances(h) ==
  /\ \A e \in h.allocations : e.at <= h.asOf => BalanceThrough(h, e) >= 0
  /\ \A fund \in h.funds :
        fund.createdAt <= h.asOf /\ fund.status # "active" => Reserved(h, fund) = 0

HistoryStatus(h) ==
  IF ~ (ValidPeriod(h.coverage) /\ ValidEventsOfFunds(h) /\ ValidFundedConsumption(h))
  THEN "invalid"
  ELSE IF ~ HasCompleteCoverage(h)
       THEN "unavailable"
       ELSE IF ~ ValidBalances(h) THEN "invalid" ELSE "complete"

\* The metric of a history that cannot be used, or else the metric v.
IfComplete(status, v) == CASE status = "invalid"     -> Invalid
                           [] status = "unavailable" -> Unavailable
                           [] OTHER                  -> v
OnHistory(h, v) == IfComplete(HistoryStatus(h), v)

ProgressOf(fund, events, fulfilled) ==
  [reserved          |-> SumOver(events, AllocationDelta),
   fundedConsumption |-> SumOver(events, FundedConsumptionDelta),
   fulfilled         |-> fulfilled,
   remaining         |-> AtLeastZero(fund.target - fulfilled),
   excess            |-> AtLeastZero(fulfilled - fund.target)]
ProgressFrom(fund, events) == ProgressOf(fund, events, SumOver(events, FulfillmentDelta))

ProgressNow(h, fund) == ProgressFrom(fund, {e \in h.allocations : e.fund = fund.id /\ e.at <= h.asOf})
ProgressBefore(h, fund, instant) ==
  ProgressFrom(fund, {e \in h.allocations : e.fund = fund.id /\ e.at < instant})

Existing(h) == {fund \in h.funds : fund.createdAt <= h.asOf}

----------------------------------------------------------------------------
(* The schedule of one fund *)

\* A total in equal whole parts, one per date, the earliest taking the remainder.
DivideExactly(total, dates) ==
  LET n == Cardinality(dates)
      part(d) == total \div n + (IF Cardinality({e \in dates : e < d}) < total % n THEN 1 ELSE 0)
  IN  IF n = 0 \/ total = 0
      THEN {}
      ELSE {p \in {[date |-> d, amount |-> part(d)] : d \in dates} : p.amount > 0}

\* Mutant: a pay date after the fund is due counts as well.
FundingDatesBeyondDue(s, fund) == {d \in s.paySchedule.dates : d > s.today}

FundingDates(s, fund) == {d \in s.paySchedule.dates : d > s.today /\ d <= fund.due}

\* What the current cycle owes to a fund: an equal share of what was missing when the cycle
\* (or the fund) began, less what has been reserved for it since.
Owed(effectiveAt, later, required, progress, remaining) ==
  [effectiveAt   |-> effectiveAt,
   opportunities |-> later,
   required      |-> required,
   satisfied     |-> Smaller(AtLeastZero(progress), required),
   outstanding   |-> Smaller(AtLeastZero(required - progress), remaining)]
RequirementFrom(effectiveAt, later, before, current) ==
  Owed(effectiveAt, later, CeilDivide(before.remaining, 1 + later),
       current.fulfilled - before.fulfilled, current.remaining)
RequirementSince(s, fund, effectiveAt) ==
  RequirementFrom(effectiveAt, Cardinality(FundingDates(s, fund)),
                  ProgressBefore(s, fund, effectiveAt), ProgressNow(s, fund))
Requirement(s, fund, cycle) == RequirementSince(s, fund, Larger(fund.createdAt, cycle.start))

NoRequirement == [effectiveAt |-> 0, opportunities |-> 0, required |-> 0, satisfied |-> 0,
                  outstanding |-> 0]

InUse(fund) == fund.committed /\ fund.status = "active"

FundState(s, fund, cycle, current) ==
  CASE ~ InUse(fund)                                 -> "inactive"
    [] InUse(fund) /\ current.excess > 0              -> "overfunded"
    [] InUse(fund) /\ current.excess = 0
         /\ (current.remaining = 0 \/ cycle = NoCycle) -> "fully_funded"
    [] OTHER                                         -> IF fund.due < s.today
                                                        THEN "overdue"
                                                        ELSE "funding"

\* What is missing beyond this cycle is spread over the later pay dates before the fund is due.
ItemOf(s, fund, cycle, current, requirement) ==
  [fund |-> fund.id, state |-> FundState(s, fund, cycle, current), progress |-> current,
   requirement |-> requirement,
   futureContributions |->
     IF InUse(fund) /\ cycle # NoCycle
     THEN DivideExactly(current.remaining - requirement.outstanding, FundingDates(s, fund))
     ELSE {}]
ScheduleItem(s, fund, cycle) ==
  ItemOf(s, fund, cycle, ProgressNow(s, fund),
         IF InUse(fund) /\ cycle # NoCycle THEN Requirement(s, fund, cycle) ELSE NoRequirement)

NeedingFunding(s) == {fund \in Existing(s) : InUse(fund) /\ ProgressNow(s, fund).remaining > 0}

\* calculateSinkingFundSchedule: the items by fund and their total.
ScheduleIn(s, cycle, needing) ==
  CASE \E fund \in needing : s.paySchedule.through < fund.due -> Unavailable
    [] OTHER ->
       CASE ~ InSequence(s.cycles)                 -> Invalid
         [] cycle = NoCycle /\ needing # {}        -> Unavailable
         [] cycle # NoCycle /\ s.today < (IF cycle = NoCycle THEN 0 ELSE cycle.startDate)
                                                   -> Invalid
         [] OTHER -> Complete({ScheduleItem(s, fund, cycle) : fund \in Existing(s)})
SinkingFundSchedule(s) ==
  IF ValidPaySchedule(s.paySchedule)
  THEN OnHistory(s, ScheduleIn(s, CurrentPayCycle(s.cycles, s.asOf), NeedingFunding(s)))
  ELSE Invalid

\* calculateCurrentCycleSinkingDue: what is protected for a fund is what is reserved for it
\* and what this cycle still owes it.
DueOf(item) ==
  [fund |-> item.fund, state |-> item.state, reserved |-> item.progress.reserved,
   remaining |-> item.progress.remaining, required |-> item.requirement.required,
   satisfied |-> item.requirement.satisfied, outstanding |-> item.requirement.outstanding,
   protected |-> item.progress.reserved + item.requirement.outstanding]
SinkingDue(byFund) ==
  [byFund           |-> byFund,
   totalRequired    |-> SumOver(byFund, LAMBDA d : d.required),
   totalSatisfied   |-> SumOver(byFund, LAMBDA d : d.satisfied),
   totalOutstanding |-> SumOver(byFund, LAMBDA d : d.outstanding),
   totalReserved    |-> SumOver(byFund, LAMBDA d : d.reserved),
   totalProtected   |-> SumOver(byFund, LAMBDA d : d.protected)]
OfComplete(m, value(_)) == IF m.status = "complete" THEN Complete(value(m.value)) ELSE m
CurrentCycleSinkingDue(s) ==
  OfComplete(SinkingFundSchedule(s), LAMBDA items : SinkingDue({DueOf(i) : i \in items}))

----------------------------------------------------------------------------
(* The reserve as a whole *)

\* calculateReservedCash: more reserved than owned is an invariant error.
Split(total, liquidCash) ==
  IF total > liquidCash
  THEN Invalid
  ELSE Complete([totalReserved |-> total, freeLiquidCash |-> liquidCash - total])
ReservedCash(h, liquidCash) ==
  OnHistory(h, Split(SumOver(Existing(h), LAMBDA fund : Reserved(h, fund)), liquidCash))

\* calculateReservationEffect: how a period changed the reserves.
ReservationEffect(h, period) ==
  LET covered == h.coverage.start <= period.start /\ period.end <= h.coverage.end
      change == SumOver({e \in h.allocations : PeriodContains(period, e.at)}, AllocationDelta)
  IN  IF period.end > h.asOf
      THEN Invalid
      ELSE OnHistory(h, IF covered THEN Complete(change) ELSE Unavailable)

\* calculateFundedConsumptionCoverage: what of each transaction was paid from a reserve.
FundedConsumptionCoverage(h) ==
  LET events == {e \in FundedEvents(h) : e.at <= h.asOf}
  IN  OnHistory(h, Complete([tx \in {e.tx : e \in events} |->
                               SumOver({e \in events : e.tx = tx}, LAMBDA e : e.amount)]))
==============================================================================
