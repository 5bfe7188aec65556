-------------------------- MODULE CapitalConversion --------------------------
(***************************************************************************)
(* Capital created in a period, and the share of income it is.  The inputs *)
(* c are                                                                   *)
(*   ledger          accounts, transactions, contributions                 *)
(*   flows           [id, tx, at, kind, source, amount, reimbursable,      *)
(*                   related]     the classification of the transactions   *)
(*   ambiguities     [tx, at, kind, material]                              *)
(*   reconciliations [id, account, tx, at, variance, material]             *)
(*   period, historyCoverage, reserve (a history of the sinking funds)     *)
(***************************************************************************)
EXTENDS NetWorth, SinkingFunds

\* An unlinked reversal has no original transaction.
Unlinked == 0

IsReversal(f) == f.kind \in {"refund", "reimbursement"}

\* transactionAmountMinor: what the flow changed in the account.
SignedAmount(f) == IF f.kind = "consumption" THEN -f.amount ELSE f.amount

\* A flow is booked, at the instant of its transaction, and for its amount.
ValidFlowTransaction(c, f) ==
  \E x \in c.ledger.transactions :
     /\ x.id = f.tx /\ x.booked /\ x.at = f.at
     /\ x.kind = IF f.kind = "cash_reconciliation_adjustment" THEN "valuation_adjustment"
                                                              ELSE "external_flow"
     /\ Cardinality(x.entries) = 1
     /\ \A e \in x.entries : e.currency = EUR
     /\ Total(x.entries) = SignedAmount(f)

ValidFlows(c) ==
  /\ UniqueBy(c.flows, LAMBDA f : f.id) /\ UniqueBy(c.flows, LAMBDA f : f.tx)
  /\ \A f \in c.flows : /\ f.amount # 0
                        /\ f.kind = "consumption" \/ IsReversal(f) => f.amount > 0
                        /\ ValidFlowTransaction(c, f)

\* Reversals give back at most the consumption they are linked to.
ValidReversals(c) ==
  \A f \in c.flows : IsReversal(f) /\ f.related # Unlinked =>
     \E original \in c.flows :
        /\ original.tx = f.related /\ original.kind = "consumption"
        /\ f.kind = "reimbursement" => original.reimbursable
        /\ SumOver({o \in c.flows : IsReversal(o) /\ o.related = f.related}, LAMBDA o : o.amount)
             <= original.amount

\* An ambiguity is about an unclassified transaction, or about an unlinked reversal, and every
\* unlinked reversal has one.
ReversalOfAmbiguity(a) == CASE a.kind = "unlinked_refund"        -> {"refund"}
                            [] a.kind = "unlinked_reimbursement" -> {"reimbursement"}
                            [] OTHER                             -> {}
ValidAmbiguity(c, a) ==
  /\ \E x \in c.ledger.transactions : x.id = a.tx /\ x.kind = "external_flow" /\ x.at = a.at
  /\ IF ReversalOfAmbiguity(a) = {}
     THEN \A f \in c.flows : f.tx # a.tx
     ELSE \E f \in c.flows : /\ f.tx = a.tx /\ f.kind \in ReversalOfAmbiguity(a)
                             /\ f.related = Unlinked
ValidAmbiguities(c) ==
  /\ UniqueBy(c.ambiguities, LAMBDA a : a.tx)
  /\ \A a \in c.ambiguities : ValidAmbiguity(c, a)
  /\ \A f \in c.flows : IsReversal(f) /\ f.related = Unlinked =>
        \E a \in c.ambiguities : a.tx = f.tx /\ f.kind \in ReversalOfAmbiguity(a)

\* Every adjustment of a cash account belongs to the one reconciliation that found it.
Adjustments(c) == {f \in c.flows : f.kind = "cash_reconciliation_adjustment"}
ValidReconciliation(c, r) ==
  \E a \in c.ledger.accounts, x \in c.ledger.transactions, f \in Adjustments(c) :
     /\ a.id = r.account /\ a.subtype = "cash"
     /\ x.id = r.tx /\ x.kind = "valuation_adjustment" /\ x.booked /\ x.at = r.at
     /\ {e.account : e \in x.entries} = {r.account} /\ Total(x.entries) = r.variance
     /\ f.tx = r.tx /\ f.amount = r.variance
ValidReconciliations(c) ==
  /\ UniqueBy(c.reconciliations, LAMBDA r : r.id) /\ UniqueBy(c.reconciliations, LAMBDA r : r.tx)
  /\ \A r \in c.reconciliations : ValidReconciliation(c, r)
  /\ Cardinality(Adjustments(c)) = Cardinality(c.reconciliations)

ReserveChange(c) == ReservationEffect([c.reserve EXCEPT !.flows = c.flows], c.period)

\* reserved is what the reserves changed by.
ValidCapitalInputs(c, reserved) ==
  /\ ValidLedger(c.ledger)
  /\ ValidPeriod(c.period) /\ ValidPeriod(c.historyCoverage)
  /\ ValidFlows(c) /\ ValidReversals(c) /\ ValidAmbiguities(c) /\ ValidReconciliations(c)
  /\ c.period.end <= c.reserve.asOf
  /\ reserved.status # "invalid"

----------------------------------------------------------------------------

\* Flows of the kinds that count, in the period; unlinked reversals do not.
FlowTotal(c, kinds) ==
  SumOver({f \in c.flows : /\ PeriodContains(c.period, f.at) /\ f.kind \in kinds
                           /\ IsReversal(f) => f.related # Unlinked}, LAMBDA f : f.amount)

BreakdownOf(c, income, net, reserved) ==
  [recognizedIncome |-> income, netConsumption |-> net, reserveChange |-> reserved,
   otherExternal |-> FlowTotal(c, {"other_external_flow"}),
   adjustments |-> FlowTotal(c, {"cash_reconciliation_adjustment"}),
   capitalCreated |-> income - net - reserved]
\* Mutant: what came back counts as spent.
GrossBreakdown(c, reserved) ==
  BreakdownOf(c, FlowTotal(c, {"earned_income"}), FlowTotal(c, {"consumption"}),
    IF reserved.value = NoValue THEN 0 ELSE reserved.value)

CapitalBreakdown(c, reserved) ==
  BreakdownOf(c, FlowTotal(c, {"earned_income"}),
    FlowTotal(c, {"consumption"}) - FlowTotal(c, {"refund", "reimbursement"}),
    IF reserved.value = NoValue THEN 0 ELSE reserved.value)

\* quality: gaps and material doubts withhold the value, lesser doubts make it partial.
CoveredHistory(c) == /\ c.historyCoverage.start <= c.period.start
                     /\ c.period.end <= c.historyCoverage.end
Unclassified(c) ==
  {x \in c.ledger.transactions : /\ x.booked /\ x.kind = "external_flow"
                                 /\ PeriodContains(c.period, x.at)
                                 /\ \A f \in c.flows : f.tx # x.id
                                 /\ \A a \in c.ambiguities : a.tx # x.id}
AmbiguitiesIn(c) == {a \in c.ambiguities : PeriodContains(c.period, a.at)}

Quality(c, reserved) ==
  IF \/ ~ CoveredHistory(c) \/ reserved.value = NoValue
     \/ Unclassified(c) # {} \/ \E a \in AmbiguitiesIn(c) : a.material
  THEN "unavailable"
  ELSE IF \/ AmbiguitiesIn(c) # {}
          \/ \E r \in c.reconciliations : PeriodContains(c.period, r.at) /\ r.material
  THEN "partial"
  ELSE "complete"

OfQuality(quality, v) == CASE quality = "complete" -> Complete(v)
                           [] quality = "partial"  -> Partial(v)
                           [] OTHER                -> Unavailable

CapitalFrom(c, reserved) ==
  IF ValidCapitalInputs(c, reserved)
  THEN OfQuality(Quality(c, reserved), CapitalBreakdown(c, reserved)) ELSE Invalid
CalculateCapitalCreated(c) == CapitalFrom(c, ReserveChange(c))

RateOf(quality, b) ==
  IF b.recognizedIncome <= 0
  THEN Unavailable
  ELSE OfQuality(quality, [num |-> b.capitalCreated, den |-> b.recognizedIncome])
RateFrom(c, reserved) ==
  IF ValidCapitalInputs(c, reserved)
  THEN RateOf(Quality(c, reserved), CapitalBreakdown(c, reserved)) ELSE Invalid
CalculateCapitalConversionRate(c) == RateFrom(c, ReserveChange(c))

RollingRates(c, periods) ==
  [i \in DOMAIN periods |-> CalculateCapitalConversionRate([c EXCEPT !.period = periods[i]])]
==============================================================================
