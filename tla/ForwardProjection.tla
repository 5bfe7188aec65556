-------------------------- MODULE ForwardProjection --------------------------
(***************************************************************************)
(* The forward projection: the cash and the thresholds of each day of the  *)
(* stress horizon, from expected flows and per-day protection.             *)
(*   source  [flows      [id, date, kind, amount],                         *)
(*            protection [date, ringFenced, sinkingDue, uncovered,         *)
(*                        essential, normal, minimumTarget, comfortTarget, *)
(*                        completeness],                                   *)
(*            coverage   statuses of salary, spending, obligations and     *)
(*                       sinking protection,                               *)
(*            occurrences [id, plan, date], plan, through]                 *)
(* StressHorizonDays is the one horizon the settings accept.               *)
(***************************************************************************)
EXTENDS Integers, Sequences, ExactMath, Metrics

CONSTANT StressHorizonDays
ASSUME HorizonAssumption == StressHorizonDays \in Nat \ {0}

Outflows == {"normal_spending", "committed_obligation", "sinking_funded_spending"}
Horizon(effective) == effective + 1 .. effective + StressHorizonDays
Statuses(coverage) == {coverage[k] : k \in DOMAIN coverage}

\* createRecurringInvestmentSchedule, createForwardProjectionCashFlow and
\* createForwardLiquidityProtectionDay.
ValidSchedule(s) == /\ UniqueBy(s.occurrences, LAMBDA o : o.id)
                    /\ \A o \in s.occurrences : o.plan = s.plan /\ o.date <= s.through
ValidFlow(f) == f.amount > 0
ValidProtection(p) ==
  /\ \A n \in {p.ringFenced, p.sinkingDue, p.uncovered, p.essential, p.minimumTarget} : n >= 0
  /\ p.essential <= p.normal
  /\ p.minimumTarget <= p.comfortTarget

ValidProjectionSource(s, effective) ==
  /\ ValidSchedule(s)
  /\ \A f \in s.flows : ValidFlow(f) /\ f.date \in Horizon(effective)
  /\ \A p \in s.protection : ValidProtection(p) /\ p.date \in Horizon(effective)
  /\ UniqueBy(s.flows, LAMBDA f : f.id)
  /\ UniqueBy(s.protection, LAMBDA p : p.date)

\* What a set of flows does to cash.
NetFlow(flows) == SumOver(flows, LAMBDA f : IF f.kind \in Outflows THEN -f.amount ELSE f.amount)

\* Only the days that have a protection appear; the flows of the others are not counted.
DayOn(s, p, protected, net, base) ==
  [date         |-> p.date,
   net          |-> net,
   base         |-> base,
   minimum      |-> protected + Larger(p.essential, p.minimumTarget),
   comfort      |-> protected + Larger(p.normal, p.comfortTarget),
   completeness |-> IF p.completeness = "complete" /\ Statuses(s.coverage) = {"complete"}
                    THEN "complete" ELSE "partial"]
ProjectionDay(s, p, cash) ==
  LET evaluated == {x.date : x \in {y \in s.protection : y.date <= p.date}}
  IN  DayOn(s, p, p.ringFenced + p.sinkingDue + p.uncovered,
            NetFlow({f \in s.flows : f.date = p.date}),
            cash + NetFlow({f \in s.flows : f.date \in evaluated}))

ProjectionOf(liquidity, s, effective, days) ==
  [status |-> IF /\ liquidity.status = "complete"
                 /\ Statuses(s.coverage) = {"complete"}
                 /\ Cardinality(days) = StressHorizonDays
                 /\ \A d \in days : d.completeness = "complete"
              THEN "complete" ELSE "partial",
   value  |-> [effective |-> effective, days |-> days, coverage |-> s.coverage,
               plan |-> s.plan, occurrences |-> s.occurrences, through |-> s.through]]
AssembleForwardLiquidityProjection(liquidity, s, effective) ==
  IF liquidity.value = NoValue
  THEN Unavailable
  ELSE IF ~ ValidProjectionSource(s, effective)
  THEN Invalid
  ELSE IF "unavailable" \in Statuses(s.coverage)
  THEN Unavailable
  ELSE ProjectionOf(liquidity, s, effective,
                    {ProjectionDay(s, p, liquidity.value.cash) : p \in s.protection})
==============================================================================
