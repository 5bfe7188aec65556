----------------------------- MODULE MCHousehold -----------------------------
(***************************************************************************)
(* Two households in April 2026.  One is established: a bank account and a *)
(* purse, three months that are classified and observed, a fund and a      *)
(* declared plan.  The other starts from a bank account alone.             *)
(***************************************************************************)
EXTENDS HouseholdProperties

On(month, day) == LocalDateOrdinal(<<2026, month, day>>)

Bank == [id |-> 1, subtype |-> "bank", currency |-> EUR, included |-> TRUE,
         source |-> "balance_snapshot", cashFor |-> NoAccount]
Purse == [id |-> 2, subtype |-> "cash", currency |-> EUR, included |-> TRUE,
          source |-> "ledger", cashFor |-> NoAccount]

At(id, account, month, day, kind, amount) ==
  [id |-> id, at |-> Noon(On(month, day)), booked |-> TRUE, kind |-> kind,
   entries |-> {[id |-> <<id, account>>, tx |-> id, account |-> account, amount |-> amount,
                 currency |-> EUR, role |-> kind]},
   created |-> Noon(On(month, day))]

Salaries == {At(10 + m, 1, m, 28, "external_flow", 100000) : m \in 1 .. 3}
Purchases == {At(20 + m, 1, m, 10, "external_flow", -60000) : m \in 1 .. 3}
BankOpening == At(1, 1, 1, 1, "opening_balance", 300000)
PurseOpening == At(2, 2, 1, 1, "opening_balance", 2000)

Food == [category |-> "food", necessity |-> "essential", cadence |-> "variable", irregular |-> FALSE]
Leisure == [category |-> "leisure", necessity |-> "discretionary", cadence |-> "variable",
            irregular |-> FALSE]

Refund == [kind |-> "refund", source |-> "none", reimbursable |-> FALSE]
Other == [kind |-> "other_external_flow", source |-> "none", reimbursable |-> FALSE]

EmptyFacts == [accounts |-> {Bank}, transactions |-> {BankOpening}, contributions |-> {},
               flows |-> {}, ambiguities |-> {}, reconciliations |-> {}, resolutions |-> {},
               funds |-> {}, allocations |-> {}, observations |-> {}, triggers |-> {},
               snapshots |-> {}, valuations |-> {}, attributions |-> {}]

Evening == Noon(On(4, 20))
Snapshot(amount) == [account |-> 1, asOf |-> Evening - 1, staleAt |-> Evening - 1 + 2 * TicksPerDay,
                     value |-> [status |-> "available", original |-> amount, currency |-> EUR,
                                reporting |-> amount]]
Reconciled == [account |-> 1, sourceAsOf |-> Evening - 1, difference |-> 0, status |-> "reconciled"]

Classified(x, class, amount) == FlowAs(x, class, amount, Unlinked)

EstablishedFacts ==
  [EmptyFacts EXCEPT
     !.accounts = {Bank, Purse},
     !.transactions = {BankOpening, PurseOpening} \union Salaries \union Purchases,
     !.flows = {Classified(x, Salary, 100000) : x \in Salaries}
                 \union {Classified(x, Purchase, 60000) : x \in Purchases},
     !.triggers = {[tx |-> x.id, date |-> DateOf(x.at)] : x \in Salaries},
     !.observations = {ObservationAs(Classified(x, Purchase, 60000), Food) : x \in Purchases},
     !.funds = {[id |-> 1, target |-> 50000, due |-> On(5, 5), priority |-> 0, committed |-> TRUE,
                 status |-> "active", policy |-> "on_primary_income", createdAt |-> Noon(On(1, 2))]},
     !.snapshots = {Snapshot(420000)}]

Complete4 == [schedule |-> TRUE, needs |-> TRUE, obligations |-> TRUE, restricted |-> TRUE]
Quiet == [declarations |-> {}, needs |-> {}, obligations |-> {}, restricted |-> {}, payDay |-> 28,
          complete |-> Complete4]
Busy == [Quiet EXCEPT !.declarations = {[id |-> 1, amount |-> 30000, necessity |-> "essential", day |-> 25]}]
\* Two equal debits on the 25th, one of which is also entered by hand.
Twice == [Busy EXCEPT
            !.declarations = @ \union {[id |-> 2, amount |-> 30000, necessity |-> "essential", day |-> 25]},
            !.needs = {[id |-> 1, schedule |-> NoSchedule, state |-> "scheduled", direction |-> "debit",
                        due |-> On(4, 25), necessity |-> "essential", amount |-> 30000]}]
Leisurely == [Quiet EXCEPT
                !.declarations = {[id |-> 1, amount |-> 20000, necessity |-> "discretionary", day |-> 25]}]

AtBoundary == Period(DayStart(On(1, 1)), Evening)
EstablishedContext ==
  [InitialContext(AtBoundary, On(4, 20)) EXCEPT
     !.declared = TRUE, !.payDay = 28, !.scheduleComplete = TRUE,
     !.quality = [needs |-> "complete", obligations |-> "complete", restricted |-> "complete",
                  liquidBalance |-> "unavailable", classification |-> "unavailable",
                  reservations |-> "unavailable"]]

Version1 == [version |-> 1, from |-> On(1, 1), materiality |-> 5000, fallback |-> NoFallback]

Established ==
  [facts |-> EstablishedFacts, context |-> EstablishedContext,
   profile |-> [InitialProfile(AtBoundary, On(4, 20)) EXCEPT !.boundary = DayStart(On(1, 1))],
   settings |-> {Version1},
   bank |-> [coverage |-> <<[from |-> On(1, 1) - 1, through |-> On(4, 20)]>>,
             reconciliations |-> {Reconciled}],
   now |-> Evening, left |-> 1]

\* Two imports of today wait for a decision, the second with a balance that is off by 40.00.
Income == At(31, 1, 4, 19, "external_flow", 20000)
Spent == At(32, 1, 4, 20, "external_flow", -4000)
Doubt(x, kind, material) == [tx |-> x.id, at |-> x.at, kind |-> kind, material |-> material]
Doubtful ==
  [Established EXCEPT
     !.facts.transactions = @ \union {Income, Spent},
     !.facts.ambiguities = {Doubt(Income, "unclassified_external_flow", TRUE),
                            Doubt(Spent, "unresolved_transfer", FALSE)},
     !.facts.snapshots = {Snapshot(436000)}]
Drifting ==
  [Doubtful EXCEPT
     !.facts.ambiguities = {Doubt(Spent, "unclassified_external_flow", FALSE)},
     !.facts.flows = @ \union {Classified(Income, Other, 20000)},
     !.facts.snapshots = {Snapshot(440000)},
     !.bank.reconciliations = {[Reconciled EXCEPT !.difference = 4000]}]

\* The purse was counted twice, a purchase was refunded, and a second fund is due before payday.
Count(id, day, variance) ==
  [tx |-> At(id, 2, 4, day, "valuation_adjustment", variance),
   r |-> [id |-> id, account |-> 2, tx |-> id, at |-> Noon(On(4, day)), variance |-> variance,
          material |-> FALSE]]
Counts2 == {Count(41, 15, -500), Count(42, 16, 500)}
Returned == At(33, 1, 3, 15, "external_flow", 10000)
GivenBack == FlowAs(Returned, Refund, 10000, 23)
Counted ==
  [Established EXCEPT
     !.facts.transactions = @ \union {c.tx : c \in Counts2} \union {Returned},
     !.facts.flows = @ \union {FlowAs(c.tx, Adjustment, c.r.variance, Unlinked) : c \in Counts2}
                       \union {GivenBack},
     !.facts.observations = @ \union {ObservationAs(GivenBack, Food)},
     !.facts.reconciliations = {c.r : c \in Counts2},
     !.facts.funds = @ \union {[id |-> 2, target |-> 9000, due |-> On(4, 26), priority |-> 1,
                               committed |-> TRUE, status |-> "active",
                               policy |-> "on_primary_income", createdAt |-> Noon(On(1, 2))]},
     !.facts.allocations = {[id |-> 1, fund |-> 2, kind |-> "allocation", amount |-> 4000,
                             at |-> Noon(On(2, 3)), tx |-> NoTx]},
     !.facts.resolutions = {[of |-> 41, kind |-> "reversed_adjustment", tx |-> 42,
                             at |-> Noon(On(4, 17))]},
     !.facts.snapshots = {Snapshot(430000)}]
Unbounded == [Counted EXCEPT !.profile.boundary = NoBoundary, !.facts.resolutions = {}]

Fresh ==
  [facts |-> EmptyFacts, context |-> NoContext, profile |-> NoProfile, settings |-> {},
   bank |-> [coverage |-> << >>, reconciliations |-> {}], now |-> Evening, left |-> 4]

\* The decisions count from April on, and the owner estimated what a month costs.
Estimated ==
  [Established EXCEPT
     !.profile.boundary = DayStart(On(4, 1)), !.facts.funds = {},
     !.settings = {[Version1 EXCEPT !.fallback = [normal |-> 60000, essential |-> 50000,
                                                  historyStart |-> On(4, 1), cash |-> 0]]}]

MCHouseholds == {Established, Doubtful, Drifting, Counted, Unbounded, Estimated, Fresh}
MCMovements == {[amount |-> 20000, doubt |-> "unclassified_external_flow", drift |-> 0, dated |-> 0],
                [amount |-> -4000, doubt |-> "unresolved_transfer", drift |-> 0, dated |-> 1],
                [amount |-> -4000, doubt |-> "unclassified_external_flow", drift |-> 4000, dated |-> 1]}
MCClasses == {Purchase, Other, Refund}
MCSemantics == {Food}
MCCashAmounts == {-1000, 700}
MCCounts == {1500}
MCPlans == {Busy, Twice, Leisurely}
MCSavings == {[target |-> 30000, due |-> On(5, 10)]}
MCReservations == {20000, 500000}
MCThresholds == {3000}
MCEstimates == {[normal |-> 60000, essential |-> 50000, historyStart |-> On(1, 1), cash |-> 0]}
MCBoundaryDates == {On(2, 1), On(3, 12), On(4, 16)}
MCOpenings == {1000}
MCLastDate == On(4, 22)

\* A household that only corrects what it called its flows.
MCOneHousehold == {Established}
MCNothing == {}

\* The turns of years and months: a common year, a leap year, and two centuries.
Turns == {<<1, 1, 1>>, <<4, 2, 27>>, <<1900, 2, 27>>, <<2000, 2, 27>>, <<2000, 12, 30>>,
          <<2026, 2, 27>>, <<2026, 4, 29>>, <<2026, 12, 30>>, <<2028, 2, 27>>, <<2100, 2, 27>>,
          <<9998, 12, 30>>}
MCDates == UNION {LocalDateOrdinal(d) .. LocalDateOrdinal(d) + 2 : d \in Turns}

\* A contribution of 500.00 on the first two of three days, and cash that lasts for some of it.
Occurring == {[id |-> 1, plan |-> 1, date |-> On(4, 21)], [id |-> 2, plan |-> 1, date |-> On(4, 22)]}
Projected(cash) ==
  [effective |-> On(4, 20), plan |-> 1, occurrences |-> Occurring, through |-> On(4, 30),
   coverage |-> [salary |-> "complete", spending |-> "complete", obligations |-> "complete",
                 sinking |-> "complete"],
   days |-> {[date |-> On(4, d), net |-> 0, base |-> cash, minimum |-> 10000, comfort |-> 12000,
              completeness |-> "complete"] : d \in 21 .. 23}]
Capacity(n) == IF n = NoValue THEN Partial([plan |-> 1, window |-> << >>, sustainable |-> NoValue])
               ELSE Complete([plan |-> 1, window |-> << >>, sustainable |-> n])
DecisionOf(cash, capacity) ==
  [plan |-> 1, capacity |-> Capacity(capacity),
   liquidity |-> Complete([cash |-> cash, start |-> On(4, 20)]),
   sti |-> Unavailable, drag |-> Unavailable, projection |-> Projected(cash),
   current |-> 50000, issued |-> NotIssued, step |-> 5000]
MCDecisions == {DecisionOf(12000 + extra, capacity) :
                  extra \in {0, 9000, 20000, 47000, 70000, 99000}, capacity \in {NoValue, 12000, 44000}}
==============================================================================
