----------------------------- MODULE SafeToInvest -----------------------------
(***************************************************************************)
(* What the liquidity reserve allows: the amount that is safe to invest in *)
(* three tiers, the automatic allocation to the sinking funds, and the     *)
(* assessment of idle cash.                                                *)
(***************************************************************************)
EXTENDS Liquidity

\* validateLiquidity, of the upstream reserve.
ValidReserve(r) ==
  /\ \A n \in {r.cash, r.minimumCash, r.comfortCash, r.buffer, r.currentExcess} : n >= 0
  /\ r.minimumCash <= r.comfortCash
  /\ r.currentExcess = AtLeastZero(r.cash - r.comfortCash)

Tier(unrounded, increment) == [unrounded |-> unrounded,
                               rounded   |-> RoundDown(unrounded, increment),
                               loss      |-> unrounded % increment]

TiersFrom(r, recommended, increment) ==
  [conservative |-> Tier(AtLeastZero(recommended - r.buffer), increment),
   recommended  |-> Tier(recommended, increment),
   maximum      |-> Tier(AtLeastZero(r.cash - r.minimumCash), increment),
   increment |-> increment, cash |-> r.cash, minimumCash |-> r.minimumCash,
   comfortCash |-> r.comfortCash, buffer |-> r.buffer]
Tiers(r, increment) == TiersFrom(r, AtLeastZero(r.cash - r.comfortCash), increment)

OrderedTiers(t) == /\ t.conservative.unrounded <= t.recommended.unrounded
                   /\ t.recommended.unrounded <= t.maximum.unrounded

\* calculateSafeToInvest: blocked readiness withholds the value, and a partial reserve that
\* nobody classified as provisional is an invariant error.
CalculateSafeToInvest(liquidity, readiness, increment) ==
  IF liquidity.status = "invalid" \/ increment <= 0
  THEN Invalid
  ELSE IF readiness = "blocked" \/ liquidity.value = NoValue
  THEN Unavailable
  ELSE IF \/ ~ ValidReserve(liquidity.value)
          \/ liquidity.status = "partial" /\ readiness = "complete"
          \/ ~ OrderedTiers(Tiers(liquidity.value, increment))
  THEN Invalid
  ELSE IF readiness = "provisional"
  THEN Partial(Tiers(liquidity.value, increment))
  ELSE Complete(Tiers(liquidity.value, increment))

----------------------------------------------------------------------------
(* The automatic allocation on primary income *)

\* The cash above what everything else than the funds requires.
NonSinkingMinimum(r) == r.uncovered + Larger(r.operationalEssential, r.minimumReserve)
Allocatable(r) == AtLeastZero(r.cash - r.ringFenced - NonSinkingMinimum(r))

AutomaticallyFunded(funds) ==
  {fund \in funds : fund.policy = "on_primary_income" /\ InUse(fund)}

\* By due date, then priority, then id.
Precedes(f, g) == \/ f.due < g.due
                  \/ f.due = g.due /\ f.priority < g.priority
                  \/ f.due = g.due /\ f.priority = g.priority /\ f.id < g.id

\* Mutant: everything that is missing, not what this cycle owes.
RemainingOf(fund, due) == SumOver({d \in due.byFund : d.fund = fund.id}, LAMBDA d : d.remaining)

OutstandingOf(fund, due) ==
  SumOver({d \in due.byFund : d.fund = fund.id}, LAMBDA d : d.outstanding)

\* The funds take their outstanding amounts in order until nothing is left: what a fund finds
\* is what the funds before it did not take.
Allocations(r, due, funds) ==
  LET eligible == AutomaticallyFunded(funds)
      taken(fund) == SumOver({f \in eligible : Precedes(f, fund)}, LAMBDA f : OutstandingOf(f, due))
      given(fund) == Smaller(OutstandingOf(fund, due), AtLeastZero(Allocatable(r) - taken(fund)))
  IN  {[fund |-> f.id, amount |-> given(f)] : f \in {g \in eligible : given(g) > 0}}

AutomaticAllocations(liquidity, sinking, funds) ==
  IF ~ UniqueBy(funds, LAMBDA fund : fund.id)
  THEN Invalid
  ELSE IF liquidity.status # "complete" \/ sinking.status # "complete"
  THEN Unavailable
  ELSE Complete(Allocations(liquidity.value, sinking.value, funds))

----------------------------------------------------------------------------
(* Cash drag: idle cash above comfort over a window of days.               *)
(*   observation  [date, cash, comfort, status]                            *)
(*   settings     [windowDays, minimumCompleteDays, minimumPositiveDays,   *)
(*                 absolute, relative]                                     *)

ValidDragSettings(s) ==
  /\ 0 < s.minimumPositiveDays
  /\ s.minimumPositiveDays <= s.minimumCompleteDays
  /\ s.minimumCompleteDays <= s.windowDays
  /\ s.absolute >= 0 /\ s.relative.num >= 0 /\ s.relative.den > 0

ValidObservations(observations, today) ==
  /\ UniqueBy(observations, LAMBDA o : o.date)
  /\ \A o \in observations : o.cash >= 0 /\ o.comfort >= 0 /\ o.date < today

\* validateCurrentValues: the safe amount reconciles with the liquidity it came from.
Reconciles(r, t) ==
  /\ ValidReserve(r)
  /\ t = Tiers(r, t.increment)
  /\ t.increment > 0
  /\ t.conservative.rounded <= t.recommended.rounded
  /\ t.recommended.rounded <= t.maximum.rounded

InWindow(observations, today, s) == {o \in observations : o.date >= today - (s.windowDays - 1)}

\* The current day is one of the days of the window, known from the current liquidity.
Excesses(observations, today, liquidity, s) ==
  LET complete == {o \in InWindow(observations, today, s) : o.status = "complete"}
      past == {[date |-> o.date, excess |-> AtLeastZero(o.cash - o.comfort)] : o \in complete}
      current == IF liquidity.status = "complete"
                 THEN {[date |-> today, excess |-> liquidity.value.currentExcess]}
                 ELSE {}
  IN  past \union current

Suppressed(reason, condition) == IF condition THEN {reason} ELSE {}

AboveThreshold(total, complete, threshold) ==
  complete = 0 \/ HalfEvenDivide(total, Larger(complete, 1)) > threshold

DragReasons(liquidity, safe, s, complete, positive, total, threshold) ==
  Suppressed("current_liquidity_not_complete", liquidity.status # "complete")
  \union Suppressed("current_safe_to_invest_not_complete", safe.status # "complete")
  \union Suppressed("insufficient_complete_history", complete < s.minimumCompleteDays)
  \union Suppressed("insufficient_positive_excess_days", positive < s.minimumPositiveDays)
  \union Suppressed("no_current_excess", liquidity.value.currentExcess = 0)
  \union Suppressed("no_current_investable_capacity", safe.value.recommended.rounded = 0)
  \union Suppressed("average_excess_not_above_threshold", ~ AboveThreshold(total, complete, threshold))

DragAssessment(window, liquidity, safe, s, reasons, complete, positive, total, threshold) ==
  [eligible |-> reasons = {}, reasons |-> reasons, completeDays |-> complete,
   incompleteDays |-> window + 1 - complete,
   positiveDays |-> positive, totalExcess |-> total, threshold |-> threshold,
   actionCap |-> safe.value.recommended.rounded]

DragFrom(window, liquidity, safe, s, complete, positive, total, threshold) ==
  [status |-> IF \/ liquidity.status # "complete" \/ safe.status # "complete"
                 \/ complete < s.minimumCompleteDays
              THEN "partial" ELSE "complete",
   value  |-> DragAssessment(window, liquidity, safe, s,
                DragReasons(liquidity, safe, s, complete, positive, total, threshold),
                complete, positive, total, threshold)]
DragOver(window, days, liquidity, safe, s) ==
  DragFrom(window, liquidity, safe, s, Cardinality(days),
           Cardinality({d \in days : d.excess > 0}), SumOver(days, LAMBDA d : d.excess),
           Larger(s.absolute, MultiplyFractionHalfEven(liquidity.value.comfortCash,
                                                       s.relative.num, s.relative.den)))

CalculateCashDrag(observations, today, liquidity, safe, s) ==
  IF \/ "invalid" \in {liquidity.status, safe.status}
     \/ ~ ValidDragSettings(s)
     \/ ~ ValidObservations(observations, today)
  THEN Invalid
  ELSE IF liquidity.value = NoValue \/ safe.value = NoValue
  THEN Unavailable
  ELSE IF \/ ~ Reconciles(liquidity.value, safe.value)
          \/ safe.status = "complete" /\ liquidity.status # "complete"
          \/ liquidity.value.start # today
  THEN Invalid
  ELSE DragOver(Cardinality(InWindow(observations, today, s)),
                Excesses(observations, today, liquidity, s), liquidity, safe, s)
==============================================================================
