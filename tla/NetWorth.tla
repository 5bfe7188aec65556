------------------------------- MODULE NetWorth -------------------------------
(***************************************************************************)
(* Net worth and the current positions.  Both value the same accounts from *)
(* the same facts p = [ledger, snapshots, valuations, asOf], each with its *)
(* own code.                                                               *)
(***************************************************************************)
EXTENDS Ledger

\* createReportableAmount: EUR is its own worth, another currency needs a rate that keeps the
\* sign, and only another currency can miss one.
Sign(n) == IF n > 0 THEN 1 ELSE IF n < 0 THEN -1 ELSE 0
ValidValue(v) ==
  CASE v.status = "missing_fx" -> v.currency # EUR
    [] v.currency = EUR        -> v.original = v.reporting
    [] OTHER                   -> Sign(v.original) = Sign(v.reporting)

ValidSource(p, s, source) ==
  /\ s.asOf <= s.staleAt
  /\ ValidValue(s.value)
  /\ \E a \in p.ledger.accounts :
        a.id = s.account /\ a.source = source /\ a.currency = s.value.currency

\* validatePositionFacts: one authoritative value per account and instant, of its own kind.
ValidPositionFacts(p) ==
  /\ UniqueBy(p.snapshots, LAMBDA s : <<s.account, s.asOf>>)
  /\ UniqueBy(p.valuations, LAMBDA s : <<s.account, s.asOf>>)
  /\ \A s \in p.snapshots : ValidSource(p, s, "balance_snapshot")
  /\ \A s \in p.valuations : ValidSource(p, s, "portfolio_valuation")

\* latestByAccount: the values of an account that are known at the instant, none or the last.
Known(values, account, asOf) == {s \in values : s.account = account /\ s.asOf <= asOf}
LatestByAccount(values, account, asOf) ==
  {s \in Known(values, account, asOf) : \A o \in Known(values, account, asOf) : o.asOf <= s.asOf}

Included(p) == {a \in p.ledger.accounts : a.included}

\* validateBrokerageCashTreatment: the cash at a broker is counted exactly once.
ValidBrokerageCash(p) ==
  \A a \in Included(p) : a.subtype = "investment" =>
     \A s \in LatestByAccount(p.valuations, a.id, p.asOf) :
        LET linked == {c \in Included(p) : c.cashFor = a.id}
        IN  IF s.treatment = "included_in_market_value"
            THEN linked = {}
            ELSE Cardinality(linked) = 1

\* The value of one account: its amount, if there is one, and the warning it gives rise to.
None == "none"
Found(amount, warning) == [known |-> TRUE, amount |-> amount, warning |-> warning]
Missing(warning) == [known |-> FALSE, amount |-> 0, warning |-> warning]

ValueOf(s, asOf) ==
  CASE s.value.status = "missing_fx"                      -> Missing("missing_fx")
    [] s.value.status # "missing_fx" /\ asOf > s.staleAt  -> Found(s.value.reporting, "stale")
    [] OTHER                                              -> Found(s.value.reporting, None)
FromValues(latest, asOf) ==
  IF latest = {} THEN Missing("missing_value") ELSE ValueOf(CHOOSE s \in latest : TRUE, asOf)

AccountValue(p, account) ==
  IF account.source = "ledger"
  THEN Found(LedgerBalance(p.ledger, account.id, p.asOf), None)
  ELSE FromValues(LatestByAccount(IF account.source = "balance_snapshot" THEN p.snapshots
                                  ELSE p.valuations, account.id, p.asOf), p.asOf)

Worth(p, subtypes) == SumOver({a \in Included(p) : a.subtype \in subtypes},
                              LAMBDA a : AccountValue(p, a).amount)

NetWorthOf(liquid, investments, other, liabilities) ==
  [liquidCash |-> liquid, investmentMarketValue |-> investments, otherAssets |-> other,
   liabilities |-> liabilities, total |-> liquid + investments + other - liabilities]
Breakdown(p) == NetWorthOf(Worth(p, {"bank", "cash"}), Worth(p, {"investment"}),
                           Worth(p, {"other_asset"}), Worth(p, {"liability"}))

ValidPositions(p) ==
  /\ ValidLedger(p.ledger) /\ ValidPositionFacts(p) /\ ValidBrokerageCash(p)
  /\ \A a \in Included(p) :
        a.subtype \in {"investment", "other_asset", "liability"} => AccountValue(p, a).amount >= 0

CalculateNetWorth(p) ==
  IF ~ ValidPositions(p)
  THEN Invalid
  ELSE IF Included(p) = {} \/ \E a \in Included(p) : ~ AccountValue(p, a).known
  THEN Unavailable
  ELSE [status |-> IF \A a \in Included(p) : AccountValue(p, a).warning = None
                   THEN "complete" ELSE "partial",
        value  |-> Breakdown(p)]

\* calculateCurrentPositions: one component of the positions, over the accounts of its own
\* subtypes; it exists even when no account has that subtype.
Position(p, subtypes) ==
  LET accounts == {a \in Included(p) : a.subtype \in subtypes}
      stale(a) == a.source # "ledger" /\ AccountValue(p, a).warning = "stale"
  IN  IF ~ ValidPositions(p)
      THEN Invalid
      ELSE IF \E a \in accounts : ~ AccountValue(p, a).known
      THEN Unavailable
      ELSE [status |-> IF \E a \in accounts : stale(a) THEN "partial" ELSE "complete",
            value  |-> Worth(p, subtypes)]

LiquidCash(p) == Position(p, {"bank", "cash"})
InvestmentMarketValue(p) == Position(p, {"investment"})
==============================================================================
