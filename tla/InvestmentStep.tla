--------------------------- MODULE InvestmentStep ---------------------------
(***************************************************************************)
(* Whether to raise, hold or lower the recurring investment: what the last *)
(* pay cycles could have invested, what the projected days can bear, and   *)
(* the decision from both.                                                 *)
(*   contributions [tx, at, principal]     attributions [tx, plan]         *)
(*   readiness     [cycle, reasons]        snapshots [cycle, at, sti]      *)
(* An attribution to no plan is an ad hoc contribution.  HistoricalCycles  *)
(* and StressHorizonDays are the only values the settings accept.          *)
(***************************************************************************)
EXTENDS ForwardProjection, SafeToInvest

CONSTANT HistoricalCycles

NoPlan == 0
NotIssued == << >>

----------------------------------------------------------------------------
(* What the closed cycles could have invested *)

\* canonicalPayCycles: a chain of salaries in which only the last cycle may be open.
CoherentCycles(cycles) ==
  /\ \A i, j \in 1 .. Len(cycles) : cycles[i].id = cycles[j].id => i = j
  /\ InSequence(cycles)

ClosedCycles(cycles) == SelectSeq(cycles, LAMBDA c : c.status = "closed")
LastOf(s, n) == SubSeq(s, Larger(1, Len(s) - n + 1), Len(s))

ValidTierOf(sti, tier) == /\ 0 <= sti[tier].rounded
                          /\ sti[tier].rounded <= sti[tier].unrounded
                          /\ sti[tier].rounded % sti.increment = 0
                          /\ sti[tier].unrounded - sti[tier].rounded < sti.increment
ValidSafeToInvest(sti) ==
  /\ sti.increment > 0
  /\ \A tier \in {"conservative", "recommended", "maximum"} : ValidTierOf(sti, tier)
  /\ sti.conservative.rounded <= sti.recommended.rounded
  /\ sti.recommended.rounded <= sti.maximum.rounded
  /\ sti.conservative.unrounded <= sti.recommended.unrounded
  /\ sti.recommended.unrounded <= sti.maximum.unrounded

ValidCapacityInputs(h) ==
  /\ CoherentCycles(h.cycles)
  /\ UniqueBy(h.contributions, LAMBDA c : c.tx)
  /\ UniqueBy(h.attributions, LAMBDA a : a.tx)
  /\ {a.tx : a \in h.attributions} = {c.tx : c \in h.contributions}
  /\ UniqueBy(h.readiness, LAMBDA r : r.cycle)
  /\ {r.cycle : r \in h.readiness} \subseteq {c.id : c \in Range(h.cycles)}
  /\ UniqueBy(h.snapshots, LAMBDA s : s.cycle)
  /\ \A s \in h.snapshots :
        \E c \in Range(h.cycles) :
           /\ c.id = s.cycle /\ c.status = "closed"
           /\ c.start <= s.at /\ s.at < c.end
           /\ s.sti.value # NoValue => ValidSafeToInvest(s.sti.value)

\* The contributions of a cycle that the plan made, and the others.
InCycle(h, c) == {x \in h.contributions : c.start <= x.at /\ x.at < c.end}
OfPlan(h, x) == [tx |-> x.tx, plan |-> h.plan] \in h.attributions

CycleRecord(h, c, recurring, snapshot) ==
  [cycle     |-> c.id,
   recurring |-> recurring,
   adHoc     |-> SumOver({x \in InCycle(h, c) : ~ OfPlan(h, x)}, LAMBDA x : x.principal),
   complete  |-> /\ snapshot # {}
                 /\ \E r \in h.readiness : r.cycle = c.id /\ r.reasons = {},
   capacity  |-> IF snapshot = {} THEN NoValue
                 ELSE recurring + (CHOOSE s \in snapshot : TRUE).sti.value.recommended.rounded]
CycleObservation(h, c) ==
  CycleRecord(h, c,
    SumOver({x \in InCycle(h, c) : OfPlan(h, x)}, LAMBDA x : x.principal),
    {s \in h.snapshots : s.cycle = c.id /\ s.sti.status = "complete"})

\* Only a full window of complete cycles says what can be sustained.
Sustained(observations) ==
  IF /\ Len(observations) = HistoricalCycles
     /\ \A i \in DOMAIN observations : observations[i].complete
  THEN Median([i \in DOMAIN observations |-> observations[i].capacity])
  ELSE NoValue
CapacityOf(h, observations, sustainable) ==
  [status |-> IF sustainable = NoValue THEN "partial" ELSE "complete",
   value  |-> [plan         |-> h.plan,
               observations |-> observations,
               window       |-> [i \in DOMAIN observations |-> observations[i].cycle],
               sustainable  |-> sustainable]]
CapacityFrom(h, observations) == CapacityOf(h, observations, Sustained(observations))
ObservationsOf(h, selected) == [i \in DOMAIN selected |-> CycleObservation(h, selected[i])]
CalculateHistoricalInvestmentCapacity(h) ==
  IF ValidCapacityInputs(h)
  THEN CapacityFrom(h, ObservationsOf(h, LastOf(ClosedCycles(h.cycles), HistoricalCycles)))
  ELSE Invalid

----------------------------------------------------------------------------
(* What the projected days can bear *)

DayOf(x, date) == CHOOSE d \in x.days : d.date = date
Evaluated(x) == {d.date : d \in x.days}
MissingDays(x) == Horizon(x.effective) \ Evaluated(x)

\* Up to the first missing day each day continues from the one before it.
ValidStress(liquidity, x) ==
  LET contiguous == {n \in Horizon(x.effective) : x.effective + 1 .. n \subseteq Evaluated(x)}
      before(n) == IF n = x.effective + 1 THEN liquidity.value.cash ELSE DayOf(x, n - 1).base
  IN  /\ ValidSchedule(x)
      /\ liquidity.value.cash >= 0 /\ liquidity.value.start = x.effective
      /\ UniqueBy(x.days, LAMBDA d : d.date)
      /\ Evaluated(x) \subseteq Horizon(x.effective)
      /\ \A d \in x.days : 0 <= d.minimum /\ d.minimum <= d.comfort
      /\ \A o \in x.occurrences : o.date > x.effective
      /\ \A n \in contiguous : DayOf(x, n).base = before(n) + DayOf(x, n).net

\* The occurrences on missing days are never counted.
OccurrencesUntil(x, date) ==
  Cardinality({o \in x.occurrences : o.date <= date /\ o.date \in Evaluated(x)})
StressedCash(x, candidate, d) == d.base - candidate * OccurrencesUntil(x, d.date)
Breaches(x, candidate) == {d \in x.days : StressedCash(x, candidate, d) < d.minimum}

CompleteHorizon(liquidity, x) ==
  /\ liquidity.status = "complete"
  /\ Statuses(x.coverage) = {"complete"}
  /\ x.through >= x.effective + StressHorizonDays
  /\ MissingDays(x) = {}
  /\ \A d \in x.days : d.completeness = "complete"

\* The comfort must hold on the last day only.
EndsInComfort(x, candidate, last) == StressedCash(x, candidate, last) >= last.comfort
StressValue(x, candidate, complete) ==
  [candidate |-> candidate,
   passes    |-> /\ complete
                 /\ Breaches(x, candidate) = {}
                 /\ EndsInComfort(x, candidate, DayOf(x, x.effective + StressHorizonDays))]
StressRecurringContribution(liquidity, x, candidate) ==
  IF liquidity.value = NoValue THEN Unavailable
  ELSE IF candidate < 0 \/ ~ ValidStress(liquidity, x) THEN Invalid
  ELSE IF CompleteHorizon(liquidity, x)
  THEN Complete(StressValue(x, candidate, TRUE)) ELSE Partial(StressValue(x, candidate, FALSE))

----------------------------------------------------------------------------
(* The decision.  The inputs q are plan, capacity, liquidity, sti, drag, projection,      *)
(* current, issued (the window of the last step up) and step.                             *)

Stress(q, candidate) == StressRecurringContribution(q.liquidity, q.projection, candidate)
Passes(m) == m.status = "complete" /\ m.value.passes

AfterDecrements(q, n) == AtLeastZero(q.current - q.step * n)

\* Mutant: rounded down.
CapacityDecrementFloored(q, sustainable) ==
  IF sustainable = NoValue THEN 1
  ELSE IF sustainable >= q.current THEN 1
  ELSE Larger(1, (q.current - sustainable) \div q.step)

\* The first number of decrements that is not above the capacity.
CapacityDecrement(q, sustainable) ==
  IF sustainable = NoValue THEN 1
  ELSE IF sustainable >= q.current THEN 1
  ELSE Larger(1, CeilDivide(q.current - sustainable, q.step))

\* The search halves the interval until one number of decrements is left.
StepDownSearch(q, low, high) ==
  LET narrowed[i \in (0 .. high) \X (0 .. high)] ==
        IF i[1] >= i[2] THEN i[1]
        ELSE LET middle == (i[1] + i[2]) \div 2
             IN  IF Passes(Stress(q, AfterDecrements(q, middle)))
                 THEN narrowed[<<i[1], middle>>]
                 ELSE narrowed[<<middle + 1, i[2]>>]
  IN  narrowed[<<low, high>>]

\* The contribution to step down to, or nothing at all when that still breaches.
Stepped(q, amount) ==
  IF Passes(Stress(q, amount)) THEN [candidate |-> amount, residual |-> FALSE]
  ELSE [candidate |-> 0, residual |-> TRUE]
FoundBetween(q, low, high) ==
  Stepped(q, AfterDecrements(q, StepDownSearch(q, Smaller(low, high), high)))
StepDownCandidate(q, sustainable) ==
  FoundBetween(q, CapacityDecrement(q, sustainable), CeilDivide(q.current, q.step))

Sustainable(q) == IF q.capacity.status = "complete" THEN q.capacity.value.sustainable ELSE NoValue
Window(q) == IF q.capacity.value = NoValue THEN << >> ELSE q.capacity.value.window
AboveCapacity(q, sustainable) == sustainable # NoValue /\ q.current > sustainable
Failed(stress) == stress.status = "complete" /\ ~ stress.value.passes

HoldFor(reasons) == [kind |-> "hold", proposed |-> NoValue, reasons |-> reasons]
Hold(reason) == HoldFor({reason})
StepDown(amount, reasons) == [kind |-> "step_down", proposed |-> amount, reasons |-> reasons]
StepUp(amount) == [kind |-> "step_up", proposed |-> amount, reasons |-> {"step_up_stress_passed"}]

WhyDown(q, stress, sustainable) ==
  {r \in {"current_contribution_stress_failed", "current_above_sustainable_capacity"} :
     IF r = "current_contribution_stress_failed" THEN Failed(stress)
     ELSE AboveCapacity(q, sustainable)}

\* The contribution is too high: lower it to the first that passes, or as far as the capacity
\* asks when the projection is not complete.
StepDownTo(why, found) ==
  StepDown(found.candidate, why \union {IF found.residual THEN "zero_contribution_still_breaches"
                                        ELSE "step_down_stress_passed"})
DecideDown(q, stress, sustainable, why) ==
  IF stress.status = "complete"
  THEN Complete(StepDownTo(why, StepDownCandidate(q, sustainable)))
  ELSE Partial(StepDown(AfterDecrements(q, CapacityDecrement(q, sustainable)),
                        why \union {"forward_stress_incomplete"}))

\* The contribution passes and there is room for a step: every condition for it, in order.
Raise(candidate, stress) ==
  IF stress.status # "complete" THEN Partial(Hold("forward_stress_incomplete"))
  ELSE IF ~ stress.value.passes THEN Complete(Hold("step_up_stress_failed"))
  ELSE Complete(StepUp(candidate))
RaiseTo(q, candidate) == Raise(candidate, Stress(q, candidate))
Incomplete(q) ==
  (IF q.liquidity.status = "complete" /\ q.sti.status = "complete"
   THEN {} ELSE {"current_inputs_incomplete"})
    \union (IF q.drag.status = "complete" THEN {} ELSE {"persistence_evidence_incomplete"})
DecideUp(q, sustainable) ==
  IF sustainable < q.current + q.step THEN Complete(Hold("capacity_below_next_step"))
  ELSE IF q.issued # NotIssued /\ q.issued = Window(q)
  THEN Complete(Hold("step_up_already_issued_for_window"))
  ELSE IF Incomplete(q) # {} THEN Partial(HoldFor(Incomplete(q)))
  ELSE IF ~ q.drag.value.eligible THEN Complete(Hold("no_persistence_evidence"))
  ELSE RaiseTo(q, Smaller(q.current + q.step, RoundDown(sustainable, q.step)))

ValidDecisionInputs(q, stress) ==
  /\ q.current >= 0 /\ q.step > 0
  /\ q.projection.plan = q.plan
  /\ q.capacity.value # NoValue => q.capacity.value.plan = q.plan
  /\ q.sti.status = "complete" => q.liquidity.status = "complete"
  /\ stress.status # "invalid"

\* stress is what the current contribution does to the projected days.
DecideWith(q, stress, sustainable) ==
  IF ~ ValidDecisionInputs(q, stress) THEN Invalid
  ELSE IF /\ q.current > 0
          /\ \/ Failed(stress)
             \/ AboveCapacity(q, sustainable)
  THEN DecideDown(q, stress, sustainable, WhyDown(q, stress, sustainable))
  ELSE IF Failed(stress) THEN Complete(Hold("zero_contribution_still_breaches"))
  ELSE IF ~ Passes(stress) THEN Unavailable
  ELSE IF sustainable = NoValue
  THEN Partial(Hold(IF Len(Window(q)) < HistoricalCycles THEN "insufficient_cycle_history"
                    ELSE "historical_capacity_uncertain"))
  ELSE DecideUp(q, sustainable)
EvaluateInvestmentContributionStep(q) == DecideWith(q, Stress(q, q.current), Sustainable(q))
==============================================================================
