------------------------------ MODULE Forecast ------------------------------
(***************************************************************************)
(* The financial forecast: month by month, what capital becomes under a    *)
(* rate of return, from planned flows and expenses.                        *)
(*   flows     [id, month, cash, investment]                               *)
(*   expenses  [id, month, kind, upper, priority, committed]  an expense   *)
(*             of unknown amount makes its month and all later ones        *)
(*             unavailable once it counts                                  *)
(* A monthly factor is the exact fraction num/den: the code computes the   *)
(* twelfth root to 64 digits and rounds the product to the nearest unit,   *)
(* ties to even.                                                           *)
(***************************************************************************)
EXTENDS LocalCalendar, Metrics

ValidAssumption(a) == (a.kind = "contributions_only") = (a.num = 0)
ValidForecastSettings(s) ==
  /\ \A a \in s.scenarios : ValidAssumption(a) /\ a.num >= 0 /\ a.den > 0
  /\ UniqueBy(s.scenarios, LAMBDA a : a.rate)
  /\ Cardinality({a \in s.scenarios : a.default}) = 1

ValidExpense(e) == e.upper >= 0
ValidForecastInputs(q) ==
  /\ UniqueBy(q.flows, LAMBDA f : f.id)
  /\ UniqueBy(q.expenses, LAMBDA e : e.id)
  /\ \A e \in q.expenses : ValidExpense(e)
  /\ q.included \subseteq {e.id : e \in q.expenses}

\* Mandatory, committed and chosen expenses count; a range counts with its upper end.
Counts(e, q) == e.priority = "mandatory" \/ e.committed \/ e.id \in q.included

\* The state before the first month, and the months one after another.
Opening(cash, investment) ==
  [status |-> "open", month |-> <<0, 0>>, cash |-> cash, investment |-> investment, return |-> 0,
   cashChange |-> 0, investmentChange |-> 0, expenses |-> 0]

MonthAfter(prior, month, return, flows, due) ==
  LET cashChange == SumOver(flows, LAMBDA f : f.cash)
      investmentChange == SumOver(flows, LAMBDA f : f.investment)
      expenses == SumOver(due, LAMBDA e : e.upper)
  IN  IF \E e \in due : e.kind = "unknown"
      THEN [prior EXCEPT !.month = month, !.status = "unavailable"]
      ELSE IF prior.investment + return + investmentChange < 0
      THEN [prior EXCEPT !.month = month, !.status = "invalid"]
      ELSE [status           |-> "open",
            month            |-> month,
            cash             |-> prior.cash + cashChange - expenses,
            investment       |-> prior.investment + return + investmentChange,
            return           |-> prior.return + return,
            cashChange       |-> prior.cashChange + cashChange,
            investmentChange |-> prior.investmentChange + investmentChange,
            expenses         |-> prior.expenses + expenses]
NextMonth(prior, month, factor, q) ==
  IF prior.status \in {"unavailable", "invalid"}
  THEN [prior EXCEPT !.month = month]
  ELSE MonthAfter(prior, month,
                  MultiplyFractionHalfEven(prior.investment, factor.num, factor.den),
                  {f \in q.flows : f.month = month},
                  {e \in q.expenses : e.month = month /\ Counts(e, q)})

ScenarioPath(factor, cash, investment, q) ==
  LET path[n \in 0 .. q.months] ==
        IF n = 0 THEN Opening(cash, investment)
        ELSE NextMonth(path[n - 1], AddYearMonths(q.start, n - 1), factor, q)
  IN  path

ForecastFrom(cash, investment, q, scenarios) ==
  LET ends == {scenarios[a][q.months].status : a \in DOMAIN scenarios}
  IN  IF investment.value < 0 \/ ~ ValidForecastInputs(q) \/ "invalid" \in ends
      THEN Invalid
      ELSE IF "unavailable" \in ends \/ {cash.status, investment.status} # {"complete"}
      THEN Partial(scenarios)
      ELSE Complete(scenarios)
CalculateFinancialForecast(cash, investment, q, settings) ==
  IF ~ ValidForecastSettings(settings)
  THEN Invalid
  ELSE IF cash.value = NoValue \/ investment.value = NoValue
  THEN Unavailable
  ELSE ForecastFrom(cash, investment, q,
         [a \in settings.scenarios |-> ScenarioPath(a, cash.value, investment.value, q)])
==============================================================================
