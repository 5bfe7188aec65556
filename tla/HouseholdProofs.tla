---------------------------- MODULE HouseholdProofs ----------------------------
(***************************************************************************)
(* Theorems about the facts of a household and about their evaluations.    *)
(***************************************************************************)
EXTENDS HouseholdProperties, SumTheorems, SequenceTheorems

-----------------------------------------------------------------------------
(* What an evaluation says                                                 *)

Keeps(i, j) == \A name \in DOMAIN i : name \in DOMAIN j /\ j[name] = i[name]

(***************************************************************************)
(* A calculation adds what it finds and leaves the rest.                   *)
(***************************************************************************)
LEMMA ExtendedKeeps ==
    ASSUME NEW i, NEW found
    PROVE  /\ Keeps(i, Extended(i, found))
           /\ \A name \in DOMAIN found : name \notin DOMAIN i =>
                 name \in DOMAIN Extended(i, found) /\ Extended(i, found)[name] = found[name]
           /\ DOMAIN Extended(i, found) = DOMAIN i \union DOMAIN found
  BY DEF Keeps, Extended

(***************************************************************************)
(* What two calculations leave, both of them leave.                        *)
(***************************************************************************)
LEMMA KeepsOn == ASSUME NEW i, NEW j, NEW k, Keeps(i, j), Keeps(j, k) PROVE Keeps(i, k)
  BY DEF Keeps

(***************************************************************************)
(* Each of them.                                                           *)
(***************************************************************************)
LEMMA StageKeeps ==
    ASSUME NEW i
    PROVE  /\ Keeps(i, WithCapital(i)) /\ Keeps(i, WithWealth(i)) /\ Keeps(i, WithDays(i))
           /\ Keeps(i, WithDrag(i)) /\ Keeps(i, WithEves(i)) /\ Keeps(i, WithCapacity(i))
           /\ Keeps(i, WithProjection(i)) /\ Keeps(i, WithDecision(i)) /\ Keeps(i, WithForecast(i))
<1>1. \A found : Keeps(i, Extended(i, found))
  BY ExtendedKeeps
<1>2. Keeps(i, WithCapital(i))
  BY <1>1, Zenon DEF WithCapital
<1>3. Keeps(i, WithWealth(i))
  BY <1>1, Zenon DEF WithWealth
<1>4. Keeps(i, WithDays(i))
  BY <1>1, Zenon DEF WithDays
<1>5. Keeps(i, WithDrag(i))
  BY <1>1, Zenon DEF WithDrag
<1>6. Keeps(i, WithEves(i))
  BY <1>1, Zenon DEF WithEves
<1>7. Keeps(i, WithCapacity(i))
  BY <1>1, Zenon DEF WithCapacity
<1>8. Keeps(i, WithProjection(i))
  BY <1>1, Zenon DEF WithProjection
<1>9. Keeps(i, WithDecision(i))
  BY <1>1, Zenon DEF WithDecision
<1>10. Keeps(i, WithForecast(i))
  BY <1>1, Zenon DEF WithForecast
<1> QED
  BY <1>2, <1>3, <1>4, <1>5, <1>6, <1>7, <1>8, <1>9, <1>10

(***************************************************************************)
(* The whole evaluation keeps its input and the amounts of the moment, and *)
(* adds the capital that was created.                                      *)
(***************************************************************************)
LEMMA EvaluationKeeps ==
    ASSUME NEW i, "throws" \notin DOMAIN i, "created" \notin DOMAIN i,
           {"now", "current"} \subseteq DOMAIN i, ~ EvaluateNow(i).throws
    PROVE  /\ EvaluateNow(i).now = i.now /\ EvaluateNow(i).current = i.current
           /\ EvaluateNow(i).created =
                CalculateCapitalCreated(CapitalInput(i, i.ccrPeriod))
           /\ ~ i.now.throws
<1> DEFINE c == WithCapital(i)
           w == WithWealth(c)
           d == WithDays(w)
           g == WithDrag(d)
           e == WithEves(g)
           p == WithCapacity(e)
           q == WithProjection(p)
           s == WithDecision(q)
           f == WithForecast(s)
<1>1. Keeps(i, c) /\ "created" \in DOMAIN c /\ c.created = CalculateCapitalCreated(CapitalInput(i, i.ccrPeriod))
  <2>1. Keeps(i, c)
    BY StageKeeps, Zenon
  <2>2. "created" \in DOMAIN c /\ c.created = CalculateCapitalCreated(CapitalInput(i, i.ccrPeriod))
    BY DEF WithCapital, CapitalMetrics, Extended
  <2> QED
    BY <2>1, <2>2
<1>2. /\ Keeps(c, w) /\ Keeps(w, d) /\ Keeps(d, g) /\ Keeps(g, e)
      /\ Keeps(e, p) /\ Keeps(p, q) /\ Keeps(q, s) /\ Keeps(s, f)
  BY StageKeeps, Zenon
<1>5. EvaluateNow(i) = IF i.now.throws THEN Throws ELSE Outcome(f)
  BY DEF EvaluateNow
<1> HIDE DEF c, w, d, g, e, p, q, s, f
<1>6. Keeps(c, f)
  BY <1>2, KeepsOn
<1>7. ~ i.now.throws /\ EvaluateNow(i) = Outcome(f)
  BY <1>5 DEF Throws
<1>8. EvaluateNow(i) = Extended([throws |-> FALSE], f)
  BY <1>7 DEF Outcome, Throws
<1>9. ASSUME NEW name \in DOMAIN c, name # "throws" PROVE EvaluateNow(i)[name] = c[name]
  <2>1. name \in DOMAIN f /\ f[name] = c[name]
    BY <1>6, <1>9 DEF Keeps
  <2> QED
    BY <1>8, <1>9, <2>1 DEF Extended
<1>10. {"now", "current"} \subseteq DOMAIN c /\ c.now = i.now /\ c.current = i.current
  BY <1>1 DEF Keeps
<1> QED
  BY <1>1, <1>7, <1>9, <1>10

(***************************************************************************)
(* Each calculation of a checkpoint leaves what it was given.              *)
(***************************************************************************)
LEMMA CheckpointStageKeeps ==
    ASSUME NEW c
    PROVE  /\ Keeps(c, WithPositions(c)) /\ Keeps(c, WithSinking(c)) /\ Keeps(c, WithBaseline(c))
           /\ Keeps(c, WithLiquidity(c)) /\ Keeps(c, WithReadiness(c)) /\ Keeps(c, WithSafe(c))
           /\ Keeps(c, WithVerdict(c))
<1>1. \A found : Keeps(c, Extended(c, found))
  BY ExtendedKeeps
<1>2. Keeps(c, WithPositions(c))
  BY <1>1, Zenon DEF WithPositions
<1>3. Keeps(c, WithSinking(c))
  BY <1>1, Zenon DEF WithSinking
<1>4. Keeps(c, WithBaseline(c))
  BY <1>1, Zenon DEF WithBaseline
<1>5. Keeps(c, WithLiquidity(c))
  BY <1>1, Zenon DEF WithLiquidity
<1>6. Keeps(c, WithReadiness(c))
  BY <1>1, Zenon DEF WithReadiness
<1>7. Keeps(c, WithSafe(c))
  BY <1>1, Zenon DEF WithSafe
<1>8. Keeps(c, WithVerdict(c))
  BY <1>1, Zenon DEF WithVerdict
<1> QED
  BY <1>2, <1>3, <1>4, <1>5, <1>6, <1>7, <1>8

(***************************************************************************)
(* The fields each of them adds.                                           *)
(***************************************************************************)
LEMMA StageAdds ==
    ASSUME NEW c
    PROVE  /\ DOMAIN WithSinking(c) = DOMAIN c \union {"sinking", "funded"}
           /\ DOMAIN WithBaseline(c) = DOMAIN c \union {"baseline"}
           /\ DOMAIN WithLiquidity(c) = DOMAIN c \union {"liquidity"}
           /\ DOMAIN WithReadiness(c) = DOMAIN c \union {"readiness"}
           /\ DOMAIN WithSafe(c) = DOMAIN c \union {"safe"}
<1>1. \A a, b : DOMAIN Extended(c, [sinking |-> a, funded |-> b]) = DOMAIN c \union {"sinking", "funded"}
  BY DEF Extended
<1>2. \A a : DOMAIN Extended(c, [baseline |-> a]) = DOMAIN c \union {"baseline"}
  BY DEF Extended
<1>3. \A a : DOMAIN Extended(c, [liquidity |-> a]) = DOMAIN c \union {"liquidity"}
  BY DEF Extended
<1>4. \A a : DOMAIN Extended(c, [readiness |-> a]) = DOMAIN c \union {"readiness"}
  BY DEF Extended
<1>5. \A a : DOMAIN Extended(c, [safe |-> a]) = DOMAIN c \union {"safe"}
  BY DEF Extended
<1>6. DOMAIN WithSinking(c) = DOMAIN c \union {"sinking", "funded"}
  BY <1>1, Zenon DEF WithSinking
<1>7. DOMAIN WithBaseline(c) = DOMAIN c \union {"baseline"}
  BY <1>2, Zenon DEF WithBaseline
<1>8. DOMAIN WithLiquidity(c) = DOMAIN c \union {"liquidity"}
  BY <1>3, Zenon DEF WithLiquidity
<1>9. DOMAIN WithReadiness(c) = DOMAIN c \union {"readiness"}
  BY <1>4, Zenon DEF WithReadiness
<1>10. DOMAIN WithSafe(c) = DOMAIN c \union {"safe"}
  BY <1>5, Zenon DEF WithSafe
<1> QED
  BY <1>6, <1>7, <1>8, <1>9, <1>10

(***************************************************************************)
(* Cash, readiness and funds at an instant.                                *)
(***************************************************************************)
CashAt(f, at) == LiquidCash([ledger |-> LedgerAt(f, at), snapshots |-> f.snapshots,
                             valuations |-> f.valuations, asOf |-> at])
ReadyAs(k) == Readiness(k, AcceptedFallback(k.baseline, k.settings.baseline.fallback, k.context,
                                            k.active.ambiguities, k.date))
ScheduleAt(f, ctx, at, date, cycles) ==
  Extended(HistoryOf(ActiveAt(f, at), ctx, at),
           [cycles |-> cycles, paySchedule |-> ctx.paySchedule, today |-> date])
SinkingAt(f, ctx, at, date, cycles) ==
  IF cycles = Invalid THEN Invalid ELSE CurrentCycleSinkingDue(ScheduleAt(f, ctx, at, date, cycles.value))

(***************************************************************************)
(* A checkpoint says what the cash, the funds and the readiness are at     *)
(* its instant, and one that does not throw has found the cash.            *)
(***************************************************************************)
LEMMA CheckpointFinds ==
    ASSUME NEW f, NEW ctx, NEW at, NEW date, NEW policy,
           NEW c, c = Checkpoint(f, ctx, at, date, policy)
    PROVE  /\ c.cash = CashAt(f, at)
           /\ \E k : /\ k.context = ctx /\ k.active = ActiveAt(f, at) /\ k.cash = c.cash
                     /\ c.readiness = ReadyAs(k)
           /\ ~ c.throws => c.cash # Invalid
           /\ c.sinking = SinkingAt(f, ctx, at, date, c.cycles)
           /\ c.active = ActiveAt(f, at)
<1> DEFINE c0 == [facts |-> f, context |-> ctx, asOf |-> at, date |-> date, settings |-> policy,
                  active |-> ActiveAt(f, at), ledger |-> LedgerAt(f, at)]
           c1 == WithPositions(c0)
           c2 == WithSinking(c1)
           c3 == WithBaseline(c2)
           c4 == WithLiquidity(c3)
           c5 == WithReadiness(c4)
           c6 == WithSafe(c5)
           c7 == WithVerdict(c6)
<1>0. c = c7
  BY DEF Checkpoint
<1>1. /\ DOMAIN c0 = {"facts", "context", "asOf", "date", "settings", "active", "ledger"}
      /\ c0.facts = f /\ c0.context = ctx /\ c0.asOf = at /\ c0.date = date
      /\ c0.active = ActiveAt(f, at) /\ c0.ledger = LedgerAt(f, at)
  OBVIOUS
<1>2. /\ Keeps(c1, c2) /\ Keeps(c2, c3) /\ Keeps(c3, c4) /\ Keeps(c4, c5) /\ Keeps(c5, c6)
      /\ Keeps(c6, c7)
  BY CheckpointStageKeeps, Zenon
<1> HIDE DEF c0, c2, c3, c4, c5, c6, c7
<1>3. /\ DOMAIN c1 = {"facts", "context", "asOf", "date", "settings", "active", "ledger",
                      "cash", "cycles", "history"}
      /\ c1.context = ctx /\ c1.date = date /\ c1.cash = CashAt(f, at)
      /\ c1.history = HistoryOf(ActiveAt(f, at), ctx, at) /\ c1.active = ActiveAt(f, at)
  BY <1>1 DEF WithPositions, Extended, CashAt
<1> HIDE DEF c1
<1>4. /\ "sinking" \in DOMAIN c2
      /\ c2.sinking = IF c1.cycles = Invalid THEN Invalid
                      ELSE CurrentCycleSinkingDue(Extended(c1.history,
                             [cycles |-> c1.cycles.value, paySchedule |-> c1.context.paySchedule,
                              today |-> c1.date]))
  <2>1. c2 = WithSinking(c1)
    BY DEF c2
  <2> DEFINE due == IF c1.cycles = Invalid THEN Invalid
                      ELSE CurrentCycleSinkingDue(Extended(c1.history,
                             [cycles |-> c1.cycles.value, paySchedule |-> c1.context.paySchedule,
                              today |-> c1.date]))
             covered == FundedConsumptionCoverage(c1.history)
  <2>2. c2 = Extended(c1, [sinking |-> due, funded |-> covered])
    BY <2>1, Zenon DEF WithSinking
  <2> HIDE DEF due, covered
  <2>3. "sinking" \in DOMAIN c2 /\ c2.sinking = due
    BY <2>2, <1>3 DEF Extended
  <2> QED
    BY <2>3 DEF due
<1>5. Keeps(c1, c7) /\ Keeps(c2, c7)
  BY <1>2, KeepsOn
<1>6. c7.cash = c1.cash /\ c7.cycles = c1.cycles /\ c7.sinking = c2.sinking
  BY <1>3, <1>4, <1>5 DEF Keeps
<1>7. c7.sinking = SinkingAt(f, ctx, at, date, c7.cycles)
  <2>1. c7.sinking = IF c7.cycles = Invalid THEN Invalid
                     ELSE CurrentCycleSinkingDue(ScheduleAt(f, ctx, at, date, c7.cycles.value))
    BY <1>3, <1>4, <1>6, Zenon DEF ScheduleAt
  <2> QED
    BY <2>1, Zenon DEF SinkingAt
<1>8. /\ "readiness" \in DOMAIN c5 /\ c5.readiness = ReadyAs(c4)
      /\ c4.context = ctx /\ c4.active = ActiveAt(f, at) /\ c4.cash = c1.cash
  <2>1. /\ DOMAIN c2 = DOMAIN c1 \union {"sinking", "funded"}
        /\ DOMAIN c3 = DOMAIN c2 \union {"baseline"}
        /\ DOMAIN c4 = DOMAIN c3 \union {"liquidity"}
    BY StageAdds, Zenon DEF c2, c3, c4
  <2>2. c5 = Extended(c4, [readiness |-> ReadyAs(c4)])
    BY Zenon DEF c5, WithReadiness, ReadyAs
  <2>3. "readiness" \in DOMAIN c5 /\ c5.readiness = ReadyAs(c4)
    BY <1>3, <2>1, <2>2 DEF Extended
  <2>4. Keeps(c1, c4)
    BY <1>2, KeepsOn
  <2> QED
    BY <1>3, <2>3, <2>4 DEF Keeps
<1>9. c7.readiness = ReadyAs(c4)
  <2>1. Keeps(c5, c7)
    BY <1>2, KeepsOn
  <2> QED
    BY <1>8, <2>1 DEF Keeps
<1>10. ~ c7.throws => c7.cash # Invalid
  <2> DEFINE verdict == \/ ~ BookedFlows(c6.ledger.transactions, c6.active.flows)
                        \/ Invalid \in {c6.cash, c6.cycles, c6.sinking, c6.funded, c6.baseline,
                                       c6.liquidity, c6.safe}
  <2>1. /\ DOMAIN c2 = DOMAIN c1 \union {"sinking", "funded"}
        /\ DOMAIN c3 = DOMAIN c2 \union {"baseline"}
        /\ DOMAIN c4 = DOMAIN c3 \union {"liquidity"}
        /\ DOMAIN c5 = DOMAIN c4 \union {"readiness"}
        /\ DOMAIN c6 = DOMAIN c5 \union {"safe"}
    BY StageAdds, Zenon DEF c2, c3, c4, c5, c6
  <2>2. c7 = Extended(c6, [throws |-> verdict])
    BY Zenon DEF c7, WithVerdict
  <2> HIDE DEF verdict
  <2>3. c7.throws = verdict
    BY <1>3, <2>1, <2>2 DEF Extended
  <2>4. c7.cash = c6.cash
    BY <1>2, <1>3, <2>1 DEF Keeps
  <2> QED
    BY <2>3, <2>4, Zenon DEF verdict
<1>11. c7.active = ActiveAt(f, at)
  BY <1>3, <1>5 DEF Keeps
<1> QED
  BY <1>0, <1>3, <1>6, <1>7, <1>8, <1>9, <1>10, <1>11

(***************************************************************************)
(* The context of a run.                                                   *)
(***************************************************************************)
CurrentOf(h, t) == Assembled(h, t, DateOf(t)).current

(***************************************************************************)
(* The input of a run holds the facts at the decision boundary and its     *)
(* own moment, and none of what the calculations find.                     *)
(***************************************************************************)
LEMMA AssembledHas ==
    ASSUME NEW h, NEW t
    PROVE  LET i == Assembled(h, t, DateOf(t))
           IN  /\ {"throws", "created", "now", "policy"} \intersect DOMAIN i = {}
               /\ {"current", "ccrPeriod", "facts", "asOf", "today"} \subseteq DOMAIN i
               /\ i.facts = FactsOf(h) /\ i.asOf = t /\ i.today = DateOf(t)
<1> DEFINE today == DateOf(t)
           base == FactsOf(h)
           covered == CoveredByBank(ContextAtBoundary(h, t), h.bank.coverage)
           current == RunContext(EvidenceBacked(h, base, covered, t, today), today)
<1>1. Assembled(h, t, DateOf(t)) = AssembledFrom(h, t, today, base, covered)
  BY Zenon DEF Assembled
<1> HIDE DEF today, base, covered
<1>2. /\ {"throws", "created", "now", "policy"} \intersect DOMAIN AssembledFrom(h, t, today, base, covered) = {}
      /\ {"current", "ccrPeriod", "facts", "asOf", "today"} \subseteq
            DOMAIN AssembledFrom(h, t, today, base, covered)
      /\ AssembledFrom(h, t, today, base, covered).facts = base
      /\ AssembledFrom(h, t, today, base, covered).asOf = t
      /\ AssembledFrom(h, t, today, base, covered).today = today
  BY DEF AssembledFrom
<1> QED
  BY <1>1, <1>2 DEF today, base

(***************************************************************************)
(* A report that is no failure belongs to a run that had what it needs,    *)
(* and says what the checkpoint of its moment says.                        *)
(***************************************************************************)
LEMMA ReportSays ==
    ASSUME NEW h, NEW t, EvaluationOf(h, t) # NotEvaluated, ~ EvaluationOf(h, t).throws
    PROVE  LET r == EvaluationOf(h, t)
           IN  /\ CanRun(h, t)
               /\ r.planned = CurrentOf(h, t)
               /\ \E policy :
                     LET c == Checkpoint(FactsOf(h), CurrentOf(h, t), t, DateOf(t), policy)
                     IN  /\ r.cash = c.cash /\ r.sinking = c.sinking /\ r.liquidity = c.liquidity
                         /\ r.readiness = c.readiness /\ r.safe = c.safe /\ ~ c.throws
<1> DEFINE i == Assembled(h, t, DateOf(t))
           r == EvaluationOf(h, t)
           s == StateOf(h, t)
<1>1. CanRun(h, t) /\ r = Summary(s)
  BY DEF EvaluationOf
<1>2. s = EvaluateOn(i, SettingsAt(i.settings, i.today))
  BY DEF StateOf, EvaluateFinancialState
<1> HIDE DEF r, s
<1>3. ~ s.throws /\ r.cash = s.now.cash /\ r.sinking = s.now.sinking
      /\ r.liquidity = s.now.liquidity /\ r.readiness = s.now.readiness /\ r.safe = s.now.safe
      /\ r.planned = s.current
  BY <1>1 DEF Summary, r
<1> DEFINE policy == CHOOSE p \in SettingsAt(i.settings, i.today) : TRUE
           c == Checkpoint(i.facts, i.current, i.asOf, i.today, policy)
           j == Extended(i, [policy |-> policy, now |-> c])
<1>4. /\ {"throws", "created", "now", "policy"} \intersect DOMAIN i = {}
      /\ {"current", "ccrPeriod", "facts", "asOf", "today"} \subseteq DOMAIN i
      /\ i.facts = FactsOf(h) /\ i.asOf = t /\ i.today = DateOf(t)
  BY AssembledHas
<1> HIDE DEF i
<1>5. s = EvaluateNow(j)
  BY <1>2, <1>3 DEF EvaluateOn, EvaluateWith, Throws
<1> HIDE DEF c, policy
<1>6. /\ "throws" \notin DOMAIN j /\ "created" \notin DOMAIN j /\ {"now", "current"} \subseteq DOMAIN j
      /\ j.now = c /\ j.current = i.current
  BY <1>4 DEF Extended
<1> HIDE DEF j
<1>7. s.now = c /\ s.current = i.current /\ ~ c.throws
  BY <1>3, <1>5, <1>6, EvaluationKeeps
<1>8. c = Checkpoint(FactsOf(h), CurrentOf(h, t), t, DateOf(t), policy)
  BY <1>4, Zenon DEF c, CurrentOf, i
<1>9. r.planned = CurrentOf(h, t)
  BY <1>3, <1>7, Zenon DEF CurrentOf, i
<1> QED
  BY <1>1, <1>3, <1>7, <1>8, <1>9 DEF r

-----------------------------------------------------------------------------
(* Funds                                                                   *)

(***************************************************************************)
(* What each event of a fund fulfils.                                      *)
(***************************************************************************)
DeltasOf(E) == [e \in E |-> FulfillmentDelta(e)]

(***************************************************************************)
(* Each event of a fund fulfils a number.                                  *)
(***************************************************************************)
LEMMA DeltaType ==
    ASSUME NEW E, \A e \in E : e.amount \in Int
    PROVE  DeltasOf(E) \in [E -> Int] /\ \A e \in E : DeltasOf(E)[e] = FulfillmentDelta(e)
<1>1. ASSUME NEW e \in E PROVE FulfillmentDelta(e) \in Int
  BY DEF FulfillmentDelta
<1> QED
  BY <1>1 DEF DeltasOf

(***************************************************************************)
(* So do all the events together, as the sum the model takes over them.    *)
(***************************************************************************)
LEMMA FulfilledType ==
    ASSUME NEW E, IsFiniteSet(E), \A e \in E : e.amount \in Int
    PROVE  SumOver(E, FulfillmentDelta) \in Int
<1> DEFINE f == DeltasOf(E)
           Next1(g) == [s \in SUBSET E |-> IF s = {} THEN 0
                                           ELSE FulfillmentDelta(Chosen(s)) + g[s \ {Chosen(s)}]]
           iter == CHOOSE g : g = [s \in SUBSET E |->
                                      IF s = {} THEN 0
                                      ELSE FulfillmentDelta(Chosen(s)) + g[s \ {Chosen(s)}]]
<1>1. f \in [E -> Int] /\ \A e \in E : f[e] = FulfillmentDelta(e)
  BY DeltaType
<1>2. SumOver(E, FulfillmentDelta) = iter[E]
  BY DEF SumOver, MapThenSumSet, MapThenFoldSet, Chosen
<1> HIDE DEF f
<1>3. ASSUME NEW g PROVE IsSum(f, E, g) <=> g = Next1(g)
  <2>1. \A s \in SUBSET E : s # {} => f[Chosen(s)] = FulfillmentDelta(Chosen(s))
    BY <1>1, ChosenIn
  <2> DEFINE L == [s \in SUBSET E |-> Body(f, s, g)]
             R == Next1(g)
  <2>2. \A s \in SUBSET E : L[s] = R[s]
    BY <2>1 DEF Body
  <2>3. L = [s \in SUBSET E |-> L[s]] /\ R = [s \in SUBSET E |-> R[s]]
    OBVIOUS
  <2> HIDE DEF L, R
  <2>4. L = R
    BY <2>2, <2>3
  <2> QED
    BY <2>4 DEF IsSum, L, R
<1>4. PICK h \in [SUBSET E -> Int] : IsSum(f, E, h)
  BY <1>1, SumExists
<1>5. iter = Next1(iter)
  <2>1. h = Next1(h)
    BY <1>3, <1>4
  <2> QED
    BY <2>1
<1> HIDE DEF iter
<1>6. IsSum(f, E, iter)
  BY <1>3, <1>5
<1>7. iter \in [SUBSET E -> Int]
  BY <1>1, <1>6, SumType
<1> QED
  BY <1>2, <1>7

(***************************************************************************)
(* A number is not split by one date.                                      *)
(***************************************************************************)
LEMMA WholeShare == ASSUME NEW n \in Nat PROVE CeilDivide(n, 1 + 0) = n
  BY DEF CeilDivide

(***************************************************************************)
(* Without a later pay date a cycle owes all that is missing, whatever was *)
(* fulfilled before it and in it.                                          *)
(***************************************************************************)
LEMMA OwesTheRest ==
    ASSUME NEW s, NEW fund, NEW instant, fund.target \in Nat,
           IsFiniteSet(s.allocations), \A e \in s.allocations : e.amount \in Int,
           FundingDates(s, fund) = {}
    PROVE  RequirementSince(s, fund, instant).outstanding = ProgressNow(s, fund).remaining
<1> DEFINE past == {e \in s.allocations : e.fund = fund.id /\ e.at < instant}
           events == {e \in s.allocations : e.fund = fund.id /\ e.at <= s.asOf}
           before == ProgressBefore(s, fund, instant)
           current == ProgressNow(s, fund)
<1>1. IsFiniteSet(past) /\ IsFiniteSet(events)
  BY FS_Subset
<1>2. SumOver(past, FulfillmentDelta) \in Int /\ SumOver(events, FulfillmentDelta) \in Int
  BY <1>1, FulfilledType
<1>3. /\ before.fulfilled = SumOver(past, FulfillmentDelta)
      /\ before.remaining = AtLeastZero(fund.target - before.fulfilled)
  BY DEF ProgressBefore, ProgressFrom, ProgressOf
<1>4. /\ current.fulfilled = SumOver(events, FulfillmentDelta)
      /\ current.remaining = AtLeastZero(fund.target - current.fulfilled)
  BY DEF ProgressNow, ProgressFrom, ProgressOf
<1>5. RequirementSince(s, fund, instant).outstanding =
        Smaller(AtLeastZero(CeilDivide(before.remaining, 1 + 0)
                              - (current.fulfilled - before.fulfilled)), current.remaining)
  BY FS_EmptySet DEF RequirementSince, RequirementFrom, Owed
<1> HIDE DEF before, current, past, events
<1>6. /\ before.fulfilled \in Int /\ current.fulfilled \in Int
      /\ before.remaining \in Nat /\ current.remaining \in Nat
  BY <1>2, <1>3, <1>4 DEF AtLeastZero
<1>7. CeilDivide(before.remaining, 1 + 0) = before.remaining
  BY <1>6, WholeShare
<1> QED
  BY <1>3, <1>4, <1>5, <1>6, <1>7 DEF AtLeastZero, Smaller, current

(***************************************************************************)
(* A complete schedule has a valid history and one item for each fund, and *)
(* without a pay cycle no fund needs anything.                             *)
(***************************************************************************)
LEMMA CompleteSchedule ==
    ASSUME NEW s, SinkingFundSchedule(s).status = "complete"
    PROVE  LET cycle == CurrentPayCycle(s.cycles, s.asOf)
           IN  /\ HistoryStatus(s) = "complete"
               /\ cycle = NoCycle => NeedingFunding(s) = {}
               /\ SinkingFundSchedule(s).value = {ScheduleItem(s, fund, cycle) : fund \in Existing(s)}
<1> DEFINE cycle == CurrentPayCycle(s.cycles, s.asOf)
           needing == NeedingFunding(s)
           items == {ScheduleItem(s, fund, cycle) : fund \in Existing(s)}
           v == ScheduleIn(s, cycle, needing)
<1>1. SinkingFundSchedule(s) = IfComplete(HistoryStatus(s), v)
  <2>1. SinkingFundSchedule(s) = IF ValidPaySchedule(s.paySchedule) THEN OnHistory(s, v) ELSE Invalid
    BY Zenon DEF SinkingFundSchedule
  <2>2. Invalid.status # "complete"
    BY DEF Invalid
  <2> HIDE DEF v
  <2>3. SinkingFundSchedule(s) = OnHistory(s, v)
    BY <2>1, <2>2
  <2> QED
    BY <2>3 DEF OnHistory
<1>2. HistoryStatus(s) \in {"invalid", "unavailable", "complete"}
  BY DEF HistoryStatus
<1>3. HistoryStatus(s) = "complete" /\ SinkingFundSchedule(s) = v
  <2> HIDE DEF v
  <2> QED
    BY <1>1, <1>2 DEF IfComplete, Invalid, Unavailable
<1> HIDE DEF cycle, needing
<1>4. v.status = "complete"
  BY <1>3
<1>5. v = Complete(items) /\ (cycle = NoCycle => needing = {})
  <2> HIDE DEF items
  <2>1. ~ \E fund \in needing : s.paySchedule.through < fund.due
    BY <1>4 DEF ScheduleIn, Unavailable
  <2>2. InSequence(s.cycles)
    BY <1>4, <2>1 DEF ScheduleIn, Invalid, Unavailable
  <2>3. ~ (cycle = NoCycle /\ needing # {})
    BY <1>4, <2>1, <2>2 DEF ScheduleIn, Invalid, Unavailable
  <2>4. ~ (cycle # NoCycle /\ s.today < (IF cycle = NoCycle THEN 0 ELSE cycle.startDate))
    BY <1>4, <2>1, <2>2, <2>3 DEF ScheduleIn, Invalid, Unavailable
  <2>5. v = Complete(items)
    BY <2>1, <2>2, <2>3, <2>4 DEF ScheduleIn, items
  <2> QED
    BY <2>3, <2>5
<1>6. v.value = items
  BY <1>5 DEF Complete
<1> QED
  BY <1>3, <1>5, <1>6 DEF cycle, needing

(***************************************************************************)
(* The same of what the current cycle asks for: an amount for each fund in *)
(* use, and all that is missing if no pay date is left before it is due.   *)
(***************************************************************************)
LEMMA DueAsksForTheRest ==
    ASSUME NEW s, IsFiniteSet(s.allocations), CurrentCycleSinkingDue(s).status = "complete"
    PROVE  \A d \in CurrentCycleSinkingDue(s).value.byFund :
              \E fund \in Existing(s) :
                 /\ d.fund = fund.id
                 /\ InUse(fund) /\ FundingDates(s, fund) = {} => d.outstanding = d.remaining
<1> DEFINE m == SinkingFundSchedule(s)
           cycle == CurrentPayCycle(s.cycles, s.asOf)
<1>1. /\ m.status = "complete"
      /\ CurrentCycleSinkingDue(s) = Complete(SinkingDue({DueOf(i) : i \in m.value}))
  BY Zenon DEF CurrentCycleSinkingDue, OfComplete
<1>2. CurrentCycleSinkingDue(s).value.byFund = {DueOf(i) : i \in m.value}
  BY <1>1 DEF Complete, SinkingDue
<1>3. /\ HistoryStatus(s) = "complete"
      /\ cycle = NoCycle => NeedingFunding(s) = {}
      /\ m.value = {ScheduleItem(s, fund, cycle) : fund \in Existing(s)}
  BY <1>1, CompleteSchedule
<1>4. /\ \A e \in s.allocations : e.amount \in Int
      /\ \A fund \in s.funds : fund.target \in Nat
  BY <1>3 DEF HistoryStatus, ValidEventsOfFunds, ValidAllocation, ValidFund
<1> HIDE DEF m, cycle
<1>5. ASSUME NEW fund \in Existing(s), InUse(fund), FundingDates(s, fund) = {}
      PROVE  ScheduleItem(s, fund, cycle).requirement.outstanding
               = ScheduleItem(s, fund, cycle).progress.remaining
  <2>1. fund \in s.funds /\ fund.target \in Nat
    BY <1>4 DEF Existing
  <2>2. /\ ScheduleItem(s, fund, cycle).progress = ProgressNow(s, fund)
        /\ ScheduleItem(s, fund, cycle).requirement =
             IF cycle # NoCycle THEN Requirement(s, fund, cycle) ELSE NoRequirement
    BY <1>5 DEF ScheduleItem, ItemOf
  <2>3. CASE cycle # NoCycle
    <3>1. ScheduleItem(s, fund, cycle).requirement =
            RequirementSince(s, fund, Larger(fund.createdAt, cycle.start))
      BY <2>2, <2>3 DEF Requirement
    <3> QED
      BY <1>4, <1>5, <2>1, <2>2, <3>1, OwesTheRest
  <2>4. CASE cycle = NoCycle
    <3>1. ~ (ProgressNow(s, fund).remaining > 0)
      BY <1>3, <1>5, <2>4 DEF NeedingFunding
    <3>2. ProgressNow(s, fund).remaining \in Nat
      <4> DEFINE events == {e \in s.allocations : e.fund = fund.id /\ e.at <= s.asOf}
      <4>1. SumOver(events, FulfillmentDelta) \in Int
        BY <1>4, FulfilledType, FS_Subset
      <4>2. ProgressNow(s, fund).remaining = AtLeastZero(fund.target - SumOver(events, FulfillmentDelta))
        BY DEF ProgressNow, ProgressFrom, ProgressOf
      <4> HIDE DEF events
      <4> QED
        BY <2>1, <4>1, <4>2 DEF AtLeastZero
    <3> QED
      BY <2>2, <2>4, <3>1, <3>2 DEF NoRequirement
  <2> QED
    BY <2>3, <2>4
<1>6. ASSUME NEW fund \in Existing(s)
      PROVE  /\ DueOf(ScheduleItem(s, fund, cycle)).fund = fund.id
             /\ DueOf(ScheduleItem(s, fund, cycle)).outstanding
                  = ScheduleItem(s, fund, cycle).requirement.outstanding
             /\ DueOf(ScheduleItem(s, fund, cycle)).remaining
                  = ScheduleItem(s, fund, cycle).progress.remaining
  BY DEF DueOf, ScheduleItem, ItemOf
<1>7. TAKE d \in CurrentCycleSinkingDue(s).value.byFund
<1>8. PICK fund \in Existing(s) : d = DueOf(ScheduleItem(s, fund, cycle))
  BY <1>2, <1>3, <1>7
<1> QED
  BY <1>5, <1>6, <1>8
-----------------------------------------------------------------------------
(* Stored rows                                                             *)

(***************************************************************************)
(* A finite set of natural numbers is bounded.                             *)
(***************************************************************************)
LEMMA BoundOfFinite ==
    ASSUME NEW S, IsFiniteSet(S), S \subseteq Nat
    PROVE  \E n \in Nat : S \subseteq 0..n
<1> DEFINE T == {U \in SUBSET S : \E n \in Nat : U \subseteq 0..n}
<1>1. {} \in T
  OBVIOUS
<1>2. ASSUME NEW U \in SUBSET S, NEW x \in S, U \in T PROVE U \cup {x} \in T
  <2>1. PICK n \in Nat : U \subseteq 0..n
    BY <1>2
  <2>2. CASE x <= n
    BY <2>1, <2>2
  <2>3. CASE ~ (x <= n)
    <3>1. U \cup {x} \subseteq 0..x
      BY <2>1, <2>3
    <3> QED
      BY <3>1
  <2> QED
    BY <2>2, <2>3
<1> HIDE DEF T
<1>3. SUBSET S \subseteq T
  BY <1>1, <1>2, InductionOnSubsets
<1>4. S \in T
  BY <1>3
<1> QED
  BY <1>4 DEF T

(***************************************************************************)
(* A set of natural numbers has a least element.                           *)
(***************************************************************************)
LEMMA LeastNumber == ASSUME NEW S, S \subseteq Nat, S # {} PROVE \E m \in S : \A n \in S : m <= n
<1>1. PICK m \in S : \A n \in S : ~ (<<n, m>> \in OpToRel(<, Nat))
  BY WFMin, NatLessThanWellFounded
<1>2. ASSUME NEW n \in S PROVE m <= n
  <2>1. n \in Nat /\ m \in Nat
    OBVIOUS
  <2>2. ~ (n < m)
    BY <1>1, <2>1 DEF OpToRel
  <2> QED
    BY <2>1, <2>2
<1> QED
  BY <1>2

(***************************************************************************)
(* Min finds it.                                                           *)
(***************************************************************************)
LEMMA MinIsNat == ASSUME NEW S, S \subseteq Nat, S # {} PROVE Min(S) \in Nat
<1>1. \E m \in S : \A n \in S : m <= n
  BY LeastNumber
<1>2. Min(S) \in S
  BY <1>1, Zenon DEF Min
<1> QED
  BY <1>2

(***************************************************************************)
(* The number after the greatest one in use is in use nowhere, and neither *)
(* are the ones that follow (the ids the commands give).                   *)
(***************************************************************************)
LEMMA NextIsFree ==
    ASSUME NEW S, IsFiniteSet(S), S \subseteq Nat
    PROVE  1 + Max({0} \union S) \in Nat /\ \A n \in S : n < 1 + Max({0} \union S)
<1> DEFINE R == {0} \union S
<1>1. IsFiniteSet(R) /\ R \subseteq Nat /\ 0 \in R
  <2>1. IsFiniteSet(S \union {0}) /\ R = S \union {0}
    BY FS_AddElement
  <2> QED
    BY <2>1
<1> HIDE DEF R
<1>2. PICK n \in Nat : R \subseteq 0..n
  BY <1>1, BoundOfFinite
<1>3. PICK m \in R : \A x \in R : x <= m
  BY <1>1, <1>2, Greatest
<1>4. \A y \in R : m >= y
  BY <1>1, <1>3
<1>5. Max(R) \in R /\ \A y \in R : Max(R) >= y
  BY <1>4, Zenon DEF Max
<1>6. \A x \in S : x \in R
  BY DEF R
<1>7. Max(R) \in Nat
  BY <1>1, <1>5
<1>8. 1 + Max(R) \in Nat /\ \A x \in S : x < 1 + Max(R)
  BY <1>1, <1>5, <1>6, <1>7
<1> QED
  BY <1>8 DEF R

(***************************************************************************)
(* The same of rows.                                                       *)
(***************************************************************************)
LEMMA NextRowIsNew ==
    ASSUME NEW rows, Named(rows)
    PROVE  LET id == 1 + Max({0} \union {x.id : x \in rows})
           IN  id \in Nat /\ \A x \in rows : x.id < id
<1> DEFINE S == {x.id : x \in rows}
           f == [x \in rows |-> x.id]
<1>1. S \subseteq Nat /\ \A x \in rows : x.id \in S
  BY DEF Named
<1>2. f \in Surjection(rows, S)
  BY DEF Surjection
<1>3. IsFiniteSet(S)
  BY <1>2, FS_Surjection DEF Named
<1> HIDE DEF S
<1> QED
  BY <1>1, <1>3, NextIsFree DEF S

(***************************************************************************)
(* A row of a new name leaves the rows named.                              *)
(***************************************************************************)
LEMMA OneMoreRow ==
    ASSUME NEW rows, Named(rows), NEW x, x.id \in Nat, \A y \in rows : y.id # x.id
    PROVE  Named(rows \union {x})
<1>1. IsFiniteSet(rows \union {x})
  BY FS_AddElement DEF Named
<1> QED
  BY <1>1 DEF Named, UniqueBy

(***************************************************************************)
(* A transaction of a new name, that can be told from every other.         *)
(***************************************************************************)
NewTransaction(transactions, x) ==
  /\ {"id", "kind", "entries", "at", "created"} \subseteq DOMAIN x
  /\ x.at \in Int /\ x.created \in Nat /\ ValidTransaction(x)
  /\ x.id \in Nat /\ \A y \in transactions : y.id # x.id

(***************************************************************************)
(* The facts with the transaction among them are stored facts.             *)
(***************************************************************************)
LEMMA OneMoreTransaction ==
    ASSUME NEW f, Stored(f), NEW x, NewTransaction(f.transactions, x)
    PROVE  /\ StoredTransactions(f.transactions \union {x})
           /\ StoredFlows(f.flows, f.transactions \union {x})
           /\ StoredAmbiguities(f.ambiguities, f.flows, f.transactions \union {x})
           /\ \A g \in f.flows : g.tx # x.id /\ g.id # x.id
           /\ \A o \in f.observations : o.flow # x.id
           /\ \A a \in f.ambiguities : a.tx # x.id
<1>1. StoredTransactions(f.transactions \union {x})
  BY OneMoreRow DEF Stored, StoredTransactions, NewTransaction
<1>2. \A g \in f.flows : g.tx # x.id /\ g.id # x.id
  BY DEF Stored, StoredFlows, NewTransaction
<1>3. \A o \in f.observations : o.flow # x.id
  BY <1>2 DEF Stored, StoredObservations
<1>4. \A a \in f.ambiguities : a.tx # x.id
  BY DEF Stored, StoredAmbiguities, NewTransaction
<1>5. StoredFlows(f.flows, f.transactions \union {x})
  BY DEF Stored, StoredFlows, UniqueBy
<1>6. StoredAmbiguities(f.ambiguities, f.flows, f.transactions \union {x})
  BY DEF Stored, StoredAmbiguities, UniqueBy
<1> QED
  BY <1>1, <1>2, <1>3, <1>4, <1>5, <1>6

(***************************************************************************)
(* A flow of a transaction that has none.                                  *)
(***************************************************************************)
NewFlow(flows, transactions, g) ==
  /\ {"id", "tx"} \subseteq DOMAIN g /\ g.id = g.tx
  /\ (\E x \in transactions : x.id = g.tx) /\ \A o \in flows : o.tx # g.tx

(***************************************************************************)
(* The flows with the new one among them, and their observations, are      *)
(* stored ones.                                                            *)
(***************************************************************************)
LEMMA OneMoreFlow ==
    ASSUME NEW flows, NEW transactions, NEW observations, NEW g, NewFlow(flows, transactions, g),
           StoredFlows(flows, transactions), StoredObservations(observations, flows)
    PROVE  /\ StoredFlows(flows \union {g}, transactions)
           /\ StoredObservations(observations, flows \union {g})
<1>1. StoredFlows(flows \union {g}, transactions)
  BY DEF StoredFlows, NewFlow, UniqueBy
<1>2. StoredObservations(observations, flows \union {g})
  BY DEF StoredObservations, UniqueBy
<1> QED
  BY <1>1, <1>2

(***************************************************************************)
(* A description may be added to a flow that has none.                     *)
(***************************************************************************)
LEMMA OneMoreObservation ==
    ASSUME NEW flows, NEW observations, NEW o, StoredObservations(observations, flows),
           \E g \in flows : g.id = o.flow, \A p \in observations : p.flow # o.flow
    PROVE  StoredObservations(observations \union {o}, flows)
  BY DEF StoredObservations, UniqueBy

(***************************************************************************)
(* The first account and the first entry of a new transaction are valid.   *)
(***************************************************************************)
LEMMA BookedIsValid ==
    ASSUME NEW id, NEW at, NEW kind, NEW account, NEW amount,
           kind \in {"external_flow", "valuation_adjustment", "opening_balance"}
    PROVE  LET x == Booked(id, at, kind, OneEntry(id, account, amount, kind))
           IN  /\ {"id", "kind", "entries", "at", "created"} \subseteq DOMAIN x /\ x.id = id
               /\ x.at = at /\ x.created = now /\ ValidTransaction(x)
<1> DEFINE e == [id |-> <<id, account>>, tx |-> id, account |-> account, amount |-> amount,
                 currency |-> EUR, role |-> kind]
           x == Booked(id, at, kind, OneEntry(id, account, amount, kind))
<1>1. /\ {"id", "kind", "entries", "at", "created"} \subseteq DOMAIN x
      /\ x.id = id /\ x.at = at /\ x.created = now /\ x.kind = kind /\ x.booked
      /\ x.entries = {e} /\ e.tx = id /\ e.role = kind
  BY DEF Booked, OneEntry
<1> HIDE DEF x, e
<1>2. x.entries # {} /\ (\A y \in x.entries : y.tx = x.id) /\ UniqueBy(x.entries, LAMBDA y : y.id)
  BY <1>1 DEF UniqueBy
<1>3. EntriesWith(x, x.kind) = x.entries /\ Cardinality(x.entries) = 1
  BY <1>1, FS_Singleton DEF EntriesWith
<1>4. x.kind \notin {"internal_transfer", "investment_contribution"}
  BY <1>1
<1>5. ValidTransaction(x)
  BY <1>1, <1>2, <1>3, <1>4 DEF ValidTransaction
<1> QED
  BY <1>1, <1>5 DEF x

-----------------------------------------------------------------------------
(* What every behavior keeps                                               *)

Clocked    == now \in Nat /\ left \in Nat
ForSalaries == allocatedFor \subseteq {t.tx : t \in facts.triggers}
Latest     == report = EvaluationOf(Household, now)
Consistent == Clocked /\ Stored(facts) /\ StoredSettings(settings) /\ ForSalaries
Backed ==
  /\ StoredValues(facts.snapshots, now) /\ StoredValues(facts.valuations, now)
  /\ StoredPlans(profile, context) /\ StoredBank(bank)
IInv       == Consistent /\ Backed /\ Latest

(***************************************************************************)
(* A command takes one instant.                                            *)
(***************************************************************************)
LEMMA CommandTicks == ASSUME Clocked, Command PROVE Clocked'
  BY DEF Clocked, Command

(***************************************************************************)
(* Commands that change the facts only leave the rest consistent.          *)
(***************************************************************************)
LEMMA FactsOnlyKeeps ==
    ASSUME Consistent, Command, FactsOnly, Stored(facts'), facts.triggers \subseteq facts'.triggers
    PROVE  Consistent'
<1>1. Clocked'
  BY CommandTicks DEF Consistent
<1>2. StoredSettings(settings)' /\ Stored(facts)'
  BY Zenon DEF Consistent, FactsOnly
<1>3. ForSalaries'
  BY DEF Consistent, FactsOnly, ForSalaries
<1> QED
  BY <1>1, <1>2, <1>3 DEF Consistent

(***************************************************************************)
(* The number of a new transaction.                                        *)
(***************************************************************************)
LEMMA NextTxIsNew ==
    ASSUME Stored(facts) PROVE NextTx \in Nat /\ \A x \in facts.transactions : x.id # NextTx
<1>1. NextTx \in Nat /\ \A x \in facts.transactions : x.id < NextTx
  BY NextRowIsNew DEF Stored, StoredTransactions, NextTx
<1>2. \A x \in facts.transactions : x.id \in Nat
  BY DEF Stored, StoredTransactions, Named
<1> QED
  BY <1>1, <1>2

(***************************************************************************)
(* Today is a date.                                                        *)
(***************************************************************************)
LEMMA TodayIsNat == ASSUME Clocked PROVE Today \in Nat
  BY ClockAssumption DEF Clocked, Today, DateOf

(***************************************************************************)
(* The moments of a date are instants.                                     *)
(***************************************************************************)
LEMMA NoonIsInt ==
    ASSUME Clocked, NEW k \in Int PROVE Noon(Today - k) \in Int /\ DayStart(Today) \in Int
<1>1. Today - k \in Int /\ Today \in Int
  BY TodayIsNat
<1> QED
  BY <1>1, ClockAssumption DEF Noon, DayStart

(***************************************************************************)
(* A booked transaction of one entry under that number is new.             *)
(***************************************************************************)
LEMMA BookedIsNew ==
    ASSUME Stored(facts), Clocked, NEW at \in Int, NEW account, NEW amount,
           NEW kind \in {"external_flow", "valuation_adjustment", "opening_balance"}
    PROVE  NewTransaction(facts.transactions,
                          Booked(NextTx, at, kind, OneEntry(NextTx, account, amount, kind)))
  BY NextTxIsNew, BookedIsValid DEF NewTransaction, Clocked

(***************************************************************************)
(* The import of a movement.                                               *)
(***************************************************************************)
LEMMA ImportKeeps ==
    ASSUME Consistent, NEW m \in Movements, ImportBankMovement(m) PROVE Consistent'
<1> DEFINE id == NextTx
           x == Booked(id, Noon(Today - m.dated), "external_flow",
                       OneEntry(id, BankAccount.id, m.amount, "external_flow"))
           a == [tx |-> id, at |-> x.at, kind |-> m.doubt, material |-> Material(m.amount)]
<1>1. /\ Command /\ DOMAIN facts' = DOMAIN facts
      /\ facts'.transactions = facts.transactions \union {x}
      /\ facts'.ambiguities = facts.ambiguities \union {a}
      /\ facts'.flows = facts.flows /\ facts'.observations = facts.observations
      /\ facts'.funds = facts.funds /\ facts'.allocations = facts.allocations
      /\ facts'.triggers = facts.triggers
      /\ UNCHANGED <<settings, allocatedFor>>
  BY DEF ImportBankMovement, Consistent, Stored, FactNames
<1>2. NewTransaction(facts.transactions, x) /\ x.id = id /\ a.tx = id
  <2>1. Noon(Today - m.dated) \in Int
    BY NoonIsInt, MovementsAssumption DEF Consistent
  <2> QED
    BY <2>1, BookedIsNew DEF Consistent, Booked
<1> HIDE DEF x, a, id
<1>3. /\ StoredTransactions(facts'.transactions) /\ StoredFlows(facts'.flows, facts'.transactions)
      /\ StoredAmbiguities(facts.ambiguities, facts'.flows, facts'.transactions)
      /\ \A g \in facts.flows : g.tx # id
      /\ \A b \in facts.ambiguities : b.tx # id
  <2>1. /\ StoredTransactions(facts.transactions \union {x})
        /\ StoredFlows(facts.flows, facts.transactions \union {x})
        /\ StoredAmbiguities(facts.ambiguities, facts.flows, facts.transactions \union {x})
        /\ \A g \in facts.flows : g.tx # x.id
        /\ \A b \in facts.ambiguities : b.tx # x.id
    BY <1>2, OneMoreTransaction, Zenon DEF Consistent
  <2> QED
    BY <1>1, <1>2, <2>1
<1>4. StoredAmbiguities(facts'.ambiguities, facts'.flows, facts'.transactions)
  BY <1>1, <1>2, <1>3 DEF StoredAmbiguities, UniqueBy
<1>5. Stored(facts')
  BY <1>1, <1>3, <1>4 DEF Consistent, Stored
<1>6. Clocked'
  BY <1>1, CommandTicks DEF Consistent
<1> QED
  BY <1>1, <1>5, <1>6 DEF Consistent, ForSalaries

(***************************************************************************)
(* A flow for a transaction whose only doubt is resolved by it.            *)
(***************************************************************************)
Resolving(x, g) ==
  /\ g.tx = x.id /\ g.id = x.id /\ {"id", "tx"} \subseteq DOMAIN g
  /\ FlowsOf(x.id) = {} /\ AmbiguitiesOf(x.id, {"unclassified_external_flow"}) # {}
  /\ DOMAIN facts' = DOMAIN facts
  /\ facts'.flows = facts.flows \union {g}
  /\ facts'.ambiguities = facts.ambiguities \ AmbiguitiesOf(x.id, {"unclassified_external_flow"})
  /\ facts'.transactions = facts.transactions /\ facts'.observations = facts.observations
  /\ facts'.funds = facts.funds /\ facts'.allocations = facts.allocations
  /\ facts.triggers \subseteq facts'.triggers

(***************************************************************************)
(* Whatever resolves a doubt so leaves the facts stored.                   *)
(***************************************************************************)
LEMMA ClassifiedKeeps ==
    ASSUME Stored(facts), NEW x \in facts.transactions, NEW g, Resolving(x, g)
    PROVE  Stored(facts')
<1>1. \A o \in facts.flows : o.tx # g.tx
  BY DEF Resolving, FlowsOf
<1>2. NewFlow(facts.flows, facts.transactions, g)
  BY <1>1 DEF NewFlow, Resolving
<1>3. /\ StoredFlows(facts.flows \union {g}, facts.transactions)
      /\ StoredObservations(facts.observations, facts.flows \union {g})
  BY <1>2, OneMoreFlow DEF Stored
<1>4. StoredAmbiguities(facts'.ambiguities, facts'.flows, facts'.transactions)
  <2>1. \A a \in facts'.ambiguities : a \in facts.ambiguities /\ a.tx # x.id
    BY DEF Stored, StoredAmbiguities, AmbiguitiesOf, Resolving, UniqueBy
  <2> QED
    BY <2>1 DEF Stored, StoredAmbiguities, Resolving, UniqueBy
<1> QED
  BY <1>3, <1>4 DEF Stored, Resolving

(***************************************************************************)
(* A salary.                                                               *)
(***************************************************************************)
LEMMA SalaryKeeps ==
    ASSUME Consistent, NEW x \in facts.transactions, ClassifyPrimarySalary(x) PROVE Consistent'
<1> DEFINE g == FlowAs(x, Salary, EntryOf(x).amount, Unlinked)
<1>1. Command /\ FactsOnly /\ facts.triggers \subseteq facts'.triggers
  BY DEF ClassifyPrimarySalary, Consistent, Stored, FactNames
<1>2. g.tx = x.id /\ g.id = x.id /\ {"id", "tx"} \subseteq DOMAIN g
  BY DEF FlowAs
<1>3. Resolving(x, g)
  <2> HIDE DEF g
  <2>1. facts' = [facts EXCEPT
                 !.flows = @ \union {g},
                 !.triggers = @ \union {[tx |-> x.id, date |-> DateOf(x.at)]},
                 !.ambiguities = @ \ AmbiguitiesOf(x.id, {"unclassified_external_flow"})]
    BY DEF ClassifyPrimarySalary, g
  <2>2. FlowsOf(x.id) = {} /\ AmbiguitiesOf(x.id, {"unclassified_external_flow"}) # {}
    BY DEF ClassifyPrimarySalary
  <2> QED
    BY <1>1, <1>2, <2>1, <2>2 DEF Resolving, Consistent, Stored, FactNames
<1> QED
  BY <1>1, <1>3, ClassifiedKeeps, FactsOnlyKeeps DEF Consistent

(***************************************************************************)
(* Another class.                                                          *)
(***************************************************************************)
LEMMA ExternalKeeps ==
    ASSUME Consistent, NEW x \in facts.transactions, NEW class, NEW related,
           ClassifyExternalFlow(x, class, related)
    PROVE  Consistent'
<1> DEFINE amount == EntryOf(x).amount
           g == FlowAs(x, class, IF class.kind = "consumption" THEN -amount ELSE amount, related)
<1>1. Command /\ FactsOnly /\ facts.triggers \subseteq facts'.triggers
  BY DEF ClassifyExternalFlow, Consistent, Stored, FactNames
<1>2. g.tx = x.id /\ g.id = x.id /\ {"id", "tx"} \subseteq DOMAIN g
  BY DEF FlowAs
<1>3. Resolving(x, g)
  <2> HIDE DEF g
  <2>1. facts' = [facts EXCEPT
                 !.flows = @ \union {g},
                 !.ambiguities = @ \ AmbiguitiesOf(x.id, {"unclassified_external_flow"})]
    BY Zenon DEF ClassifyExternalFlow, g
  <2>2. FlowsOf(x.id) = {} /\ AmbiguitiesOf(x.id, {"unclassified_external_flow"}) # {}
    BY DEF ClassifyExternalFlow
  <2> QED
    BY <1>1, <1>2, <2>1, <2>2 DEF Resolving, Consistent, Stored, FactNames
<1> QED
  BY <1>1, <1>3, ClassifiedKeeps, FactsOnlyKeeps DEF Consistent

(***************************************************************************)
(* A description.                                                          *)
(***************************************************************************)
LEMMA ObserveKeeps ==
    ASSUME Consistent, NEW f \in facts.flows, NEW s, ObserveSpending(f, s) PROVE Consistent'
<1> DEFINE o == ObservationAs(f, s)
<1>1. Command /\ FactsOnly /\ facts' = [facts EXCEPT !.observations = @ \union {o}]
      /\ ~ Described(f)
  BY Zenon DEF ObserveSpending
<1>2. o.flow = f.id
  BY DEF ObservationAs
<1> HIDE DEF o
<1>3. StoredObservations(facts.observations \union {o}, facts.flows)
  <2>1. (\E g \in facts.flows : g.id = o.flow) /\ \A p \in facts.observations : p.flow # o.flow
    BY <1>1, <1>2 DEF Described
  <2> QED
    BY <2>1, OneMoreObservation DEF Consistent, Stored
<1>4. Stored(facts') /\ facts'.triggers = facts.triggers
  BY <1>1, <1>3 DEF Consistent, Stored, FactNames
<1> QED
  BY <1>1, <1>4, FactsOnlyKeeps

(***************************************************************************)
(* A correction keeps the name of the flow, and its transaction.           *)
(***************************************************************************)
LEMMA CorrectKeeps ==
    ASSUME Consistent, NEW f \in facts.flows, NEW class, NEW related,
           CorrectClassification(f, class, related)
    PROVE  Consistent'
<1> DEFINE g == [f EXCEPT !.kind = class.kind, !.source = class.source,
                          !.reimbursable = class.reimbursable, !.related = related]
<1>1. Command /\ FactsOnly /\ facts' = [facts EXCEPT !.flows = (@ \ {f}) \union {g}]
  BY Zenon DEF CorrectClassification
<1>2. {"id", "tx"} \subseteq DOMAIN f /\ f.id = f.tx
  BY DEF Consistent, Stored, StoredFlows
<1>3. {"id", "tx"} \subseteq DOMAIN g /\ g.id = f.id /\ g.tx = f.tx
  BY <1>2
<1> HIDE DEF g
<1>4. StoredFlows((facts.flows \ {f}) \union {g}, facts.transactions)
  BY <1>2, <1>3 DEF Consistent, Stored, StoredFlows, UniqueBy
<1>5. StoredObservations(facts.observations, (facts.flows \ {f}) \union {g})
  BY <1>3 DEF Consistent, Stored, StoredObservations, UniqueBy
<1>6. StoredAmbiguities(facts.ambiguities, (facts.flows \ {f}) \union {g}, facts.transactions)
  BY <1>3 DEF Consistent, Stored, StoredAmbiguities, UniqueBy
<1>7. Stored(facts') /\ facts'.triggers = facts.triggers
  BY <1>1, <1>4, <1>5, <1>6 DEF Consistent, Stored, FactNames
<1> QED
  BY <1>1, <1>7, FactsOnlyKeeps

(***************************************************************************)
(* A confirmed transfer is the same transaction with other entries.        *)
(***************************************************************************)
LEMMA ConfirmKeeps ==
    ASSUME Consistent, NEW a \in facts.ambiguities, NEW to, ConfirmTransfer(a, to)
    PROVE  Consistent'
<1> DEFINE x == Tx(a.tx)
           y == Transfer(x, to)
           X == (facts.transactions \ {x}) \union {y}
<1>1. /\ Command /\ FactsOnly /\ ValidTransaction(y)
      /\ facts' = [facts EXCEPT !.transactions = (@ \ {x}) \union {y}, !.ambiguities = @ \ {a}]
  BY Zenon DEF ConfirmTransfer
<1>2. x \in facts.transactions /\ x.id = a.tx
  <2>1. \E z \in facts.transactions : z.id = a.tx
    BY DEF Consistent, Stored, StoredAmbiguities
  <2> QED
    BY <2>1, Zenon DEF Tx
<1> HIDE DEF x
<1>3. {"id", "kind", "entries", "at", "created"} \subseteq DOMAIN x /\ x.at \in Int /\ x.created \in Nat
  BY <1>2 DEF Consistent, Stored, StoredTransactions
<1>4. y.id = x.id /\ y.at = x.at /\ y.created = x.created /\ DOMAIN y = DOMAIN x
  BY <1>3 DEF Transfer
<1> HIDE DEF y
<1>5. StoredTransactions(X)
  <2>1. IsFiniteSet(X)
    BY FS_RemoveElement, FS_AddElement DEF Consistent, Stored, StoredTransactions, Named
  <2>2. Named(X)
    BY <1>2, <1>4, <2>1 DEF Consistent, Stored, StoredTransactions, Named, UniqueBy
  <2>3. \A z \in X : /\ {"id", "kind", "entries", "at", "created"} \subseteq DOMAIN z
                     /\ z.at \in Int /\ z.created \in Nat /\ ValidTransaction(z)
    BY <1>1, <1>3, <1>4 DEF Consistent, Stored, StoredTransactions
  <2> QED
    BY <2>2, <2>3 DEF StoredTransactions
<1>6. ASSUME NEW z \in facts.transactions PROVE \E w \in X : w.id = z.id
  <2>1. CASE z = x
    BY <1>4, <2>1
  <2>2. CASE z # x
    BY <2>2
  <2> QED
    BY <2>1, <2>2
<1> HIDE DEF X
<1>7. StoredFlows(facts.flows, X)
  BY <1>6 DEF Consistent, Stored, StoredFlows
<1>8. StoredAmbiguities(facts.ambiguities \ {a}, facts.flows, X)
  BY <1>6 DEF Consistent, Stored, StoredAmbiguities, UniqueBy
<1>9. Stored(facts') /\ facts'.triggers = facts.triggers
  BY <1>1, <1>5, <1>7, <1>8 DEF Consistent, Stored, FactNames, X
<1> QED
  BY <1>1, <1>9, FactsOnlyKeeps

(***************************************************************************)
(* A rejected one.                                                         *)
(***************************************************************************)
LEMMA RejectKeeps ==
    ASSUME Consistent, NEW a \in facts.ambiguities, RejectTransfer(a) PROVE Consistent'
<1>1. StoredAmbiguities(facts.ambiguities \ {a}, facts.flows, facts.transactions)
  BY DEF Consistent, Stored, StoredAmbiguities, UniqueBy
<1>2. Stored(facts') /\ facts'.triggers = facts.triggers
  BY <1>1 DEF Consistent, Stored, FactNames, RejectTransfer
<1> QED
  BY <1>2, FactsOnlyKeeps DEF RejectTransfer

(***************************************************************************)
(* What is recorded in cash comes with its class.                          *)
(***************************************************************************)
WithClass(x, g) ==
  /\ NewTransaction(facts.transactions, x)
  /\ g.tx = x.id /\ g.id = x.id /\ {"id", "tx"} \subseteq DOMAIN g

(***************************************************************************)
(* The facts with both of them are stored facts.                           *)
(***************************************************************************)
LEMMA RecordedKeeps ==
    ASSUME Stored(facts), NEW x, NEW g, WithClass(x, g)
    PROVE  /\ StoredTransactions(facts.transactions \union {x})
           /\ StoredFlows(facts.flows \union {g}, facts.transactions \union {x})
           /\ StoredObservations(facts.observations, facts.flows \union {g})
           /\ \A o \in facts.observations : o.flow # g.id
           /\ StoredAmbiguities(facts.ambiguities, facts.flows \union {g},
                                facts.transactions \union {x})
<1> DEFINE X == facts.transactions \union {x}
<1>1. /\ StoredTransactions(X)
      /\ StoredFlows(facts.flows, X)
      /\ StoredAmbiguities(facts.ambiguities, facts.flows, X)
      /\ \A h \in facts.flows : h.tx # x.id /\ h.id # x.id
      /\ \A o \in facts.observations : o.flow # x.id
      /\ \A a \in facts.ambiguities : a.tx # x.id
  BY OneMoreTransaction, Zenon DEF WithClass
<1>2. x \in X
  OBVIOUS
<1> HIDE DEF X
<1>3. NewFlow(facts.flows, X, g)
  BY <1>1, <1>2 DEF NewFlow, WithClass
<1>4. StoredFlows(facts.flows \union {g}, X) /\ StoredObservations(facts.observations, facts.flows \union {g})
  BY <1>1, <1>3, OneMoreFlow DEF Stored
<1>5. StoredAmbiguities(facts.ambiguities, facts.flows \union {g}, X)
  BY <1>1 DEF StoredAmbiguities, WithClass
<1> QED
  BY <1>1, <1>4, <1>5 DEF X, WithClass

(***************************************************************************)
(* Spending and earning in cash.                                           *)
(***************************************************************************)
LEMMA CashKeeps ==
    ASSUME Consistent, NEW amount, NEW s, RecordCash(amount, s) PROVE Consistent'
<1> DEFINE id == NextTx
           account == CHOOSE a \in CashAccounts : TRUE
           x == Booked(id, now, "external_flow", OneEntry(id, account.id, amount, "external_flow"))
           g == IF amount < 0 THEN FlowAs(x, Purchase, -amount, Unlinked)
                              ELSE FlowAs(x, OtherIncome, amount, Unlinked)
           O == IF amount < 0 THEN {ObservationAs(g, s)} ELSE {}
<1>1. /\ Command /\ FactsOnly
      /\ facts' = [facts EXCEPT !.transactions = @ \union {x}, !.flows = @ \union {g},
                                !.observations = @ \union O]
  BY Zenon DEF RecordCash
<1>2. NewTransaction(facts.transactions, x) /\ x.id = id
  <2>1. now \in Int
    BY DEF Consistent, Clocked
  <2> QED
    BY <2>1, BookedIsNew DEF Consistent, Booked
<1> HIDE DEF id
<1>3. g.tx = x.id /\ g.id = x.id /\ {"id", "tx"} \subseteq DOMAIN g
  <2> HIDE DEF x
  <2> QED
    BY DEF FlowAs
<1>4. \A o \in O : o.flow = g.id
  BY DEF ObservationAs
<1>5. O = {} \/ \E o \in O : O = {o}
  OBVIOUS
<1> HIDE DEF x, g, O
<1>6. /\ StoredTransactions(facts.transactions \union {x})
      /\ StoredFlows(facts.flows \union {g}, facts.transactions \union {x})
      /\ StoredObservations(facts.observations, facts.flows \union {g})
      /\ \A o \in facts.observations : o.flow # g.id
      /\ StoredAmbiguities(facts.ambiguities, facts.flows \union {g}, facts.transactions \union {x})
  BY <1>2, <1>3, RecordedKeeps DEF WithClass, Consistent
<1>7. StoredObservations(facts.observations \union O, facts.flows \union {g})
  BY <1>4, <1>5, <1>6 DEF StoredObservations, UniqueBy
<1>8. Stored(facts') /\ facts'.triggers = facts.triggers
  BY <1>1, <1>6, <1>7 DEF Consistent, Stored, FactNames
<1> QED
  BY <1>1, <1>8, FactsOnlyKeeps

(***************************************************************************)
(* The adjustment of a count.                                              *)
(***************************************************************************)
LEMMA CountKeeps ==
    ASSUME Consistent, NEW counted, ReconcileCash(counted) PROVE Consistent'
<1> DEFINE id == NextTx
           account == CHOOSE a \in CashAccounts : TRUE
           variance == counted - Balance(account.id, now)
           x == Booked(id, now, "valuation_adjustment",
                       OneEntry(id, account.id, variance, "valuation_adjustment"))
           g == FlowAs(x, Adjustment, variance, Unlinked)
           r == [id |-> id, account |-> account.id, tx |-> id, at |-> now,
                 variance |-> variance, material |-> Material(variance)]
<1>1. /\ Command /\ FactsOnly
      /\ facts' = [facts EXCEPT !.transactions = @ \union {x}, !.flows = @ \union {g},
                                !.reconciliations = @ \union {r}]
  BY Zenon DEF ReconcileCash
<1> HIDE DEF variance, r
<1>2. NewTransaction(facts.transactions, x) /\ x.id = id
  <2>1. now \in Int
    BY DEF Consistent, Clocked
  <2> QED
    BY <2>1, BookedIsNew DEF Consistent, Booked
<1> HIDE DEF id
<1>3. g.tx = x.id /\ g.id = x.id /\ {"id", "tx"} \subseteq DOMAIN g
  <2> HIDE DEF x
  <2> QED
    BY DEF FlowAs
<1> HIDE DEF x, g
<1>4. /\ StoredTransactions(facts.transactions \union {x})
      /\ StoredFlows(facts.flows \union {g}, facts.transactions \union {x})
      /\ StoredObservations(facts.observations, facts.flows \union {g})
      /\ StoredAmbiguities(facts.ambiguities, facts.flows \union {g}, facts.transactions \union {x})
  BY <1>2, <1>3, RecordedKeeps DEF WithClass, Consistent
<1>5. Stored(facts') /\ facts'.triggers = facts.triggers
  BY <1>1, <1>4 DEF Consistent, Stored, FactNames
<1> QED
  BY <1>1, <1>5, FactsOnlyKeeps

(***************************************************************************)
(* Its resolution.                                                         *)
(***************************************************************************)
LEMMA ResolveKeeps ==
    ASSUME Consistent, NEW r, NEW kind, NEW x, ResolveReconciliation(r, kind, x) PROVE Consistent'
<1>1. /\ Command /\ FactsOnly
      /\ facts' = [facts EXCEPT !.resolutions = @ \union {[of |-> r.id, kind |-> kind, tx |-> x.id,
                                                           at |-> now]}]
  BY Zenon DEF ResolveReconciliation
<1>2. Stored(facts') /\ facts'.triggers = facts.triggers
  BY <1>1 DEF Consistent, Stored, FactNames
<1> QED
  BY <1>1, <1>2, FactsOnlyKeeps

(***************************************************************************)
(* The first purse.                                                        *)
(***************************************************************************)
LEMMA PurseKeeps ==
    ASSUME Consistent, NEW opening, NEW at \in Int, BootstrapCashAccount(opening, at) PROVE Consistent'
<1> DEFINE id == NextTx
           account == [id |-> 1 + Max({0} \union {a.id : a \in facts.accounts}), subtype |-> "cash",
                       currency |-> EUR, included |-> TRUE, source |-> "ledger",
                       cashFor |-> NoAccount]
           x == Booked(id, at, "opening_balance", OneEntry(id, account.id, opening, "opening_balance"))
<1>1. /\ Command /\ FactsOnly
      /\ facts' = [facts EXCEPT !.accounts = @ \union {account}, !.transactions = @ \union {x}]
  BY Zenon DEF BootstrapCashAccount
<1> HIDE DEF account
<1>2. NewTransaction(facts.transactions, x)
  BY BookedIsNew DEF Consistent
<1> HIDE DEF x
<1>3. /\ StoredTransactions(facts.transactions \union {x})
      /\ StoredFlows(facts.flows, facts.transactions \union {x})
      /\ StoredAmbiguities(facts.ambiguities, facts.flows, facts.transactions \union {x})
  BY <1>2, OneMoreTransaction DEF Consistent
<1>4. Stored(facts') /\ facts'.triggers = facts.triggers
  BY <1>1, <1>3 DEF Consistent, Stored, FactNames
<1> QED
  BY <1>1, <1>4, FactsOnlyKeeps

(***************************************************************************)
(* A new fund, under a number of its own.                                  *)
(***************************************************************************)
LEMMA FundKeeps ==
    ASSUME Consistent, NEW saving, CreateFund(saving) PROVE Consistent'
<1> DEFINE id == 1 + Max({0} \union {f.id : f \in facts.funds})
           fund == [id |-> id, target |-> saving.target,
                    due |-> saving.due, priority |-> NextPriority,
                    committed |-> TRUE, status |-> "active", policy |-> "manual",
                    createdAt |-> now]
<1>1. Command /\ FactsOnly /\ facts' = [facts EXCEPT !.funds = @ \union {fund}]
  BY Zenon DEF CreateFund
<1>2. fund.id = id /\ fund.createdAt = now /\ now \in Int
  BY DEF Consistent, Clocked
<1> HIDE DEF fund
<1>3. id \in Nat /\ \A f \in facts.funds : f.id < id
  BY NextRowIsNew DEF Consistent, Stored
<1> HIDE DEF id
<1>4. \A f \in facts.funds : f.id # fund.id
  BY <1>2, <1>3 DEF Consistent, Stored, Named
<1>5. Named(facts.funds \union {fund})
  BY <1>2, <1>3, <1>4, OneMoreRow DEF Consistent, Stored
<1>6. Dated(facts.funds \union {fund})
  BY <1>2 DEF Consistent, Stored, Dated
<1>7. Stored(facts') /\ facts'.triggers = facts.triggers
  BY <1>1, <1>5, <1>6 DEF Consistent, Stored, FactNames
<1> QED
  BY <1>1, <1>7, FactsOnlyKeeps

(***************************************************************************)
(* An amount the owner reserves.                                           *)
(***************************************************************************)
LEMMA ReservationKeeps ==
    ASSUME Consistent, NEW fund, NEW amount, AllocateManually(fund, amount) PROVE Consistent'
<1> DEFINE e == AllocationOf(NextAllocation, fund.id, amount)
<1>1. Command /\ FactsOnly /\ facts' = [facts EXCEPT !.allocations = @ \union {e}]
  BY Zenon DEF AllocateManually
<1>2. e.id = NextAllocation
  BY DEF AllocationOf
<1> HIDE DEF e
<1>3. NextAllocation \in Nat /\ \A o \in facts.allocations : o.id < NextAllocation
  BY NextRowIsNew DEF Consistent, Stored, NextAllocation
<1>4. \A o \in facts.allocations : o.id # e.id
  BY <1>2, <1>3 DEF Consistent, Stored, Named
<1>5. Named(facts.allocations \union {e})
  BY <1>2, <1>3, <1>4, OneMoreRow DEF Consistent, Stored
<1>6. Stored(facts') /\ facts'.triggers = facts.triggers
  BY <1>1, <1>5 DEF Consistent, Stored, FactNames
<1> QED
  BY <1>1, <1>6, FactsOnlyKeeps

(***************************************************************************)
(* The place of an allocation in its plan, which numbers it.               *)
(***************************************************************************)
Rank(P, p) == Cardinality({q \in P : q.fund < p.fund})

(***************************************************************************)
(* Another fund has another rank.                                          *)
(***************************************************************************)
LEMMA RanksDiffer ==
    ASSUME NEW P, IsFiniteSet(P), \A p \in P : p.fund \in Int,
           NEW p \in P, NEW q \in P, p.fund < q.fund
    PROVE  Rank(P, p) \in Nat /\ Rank(P, q) \in Nat /\ Rank(P, p) < Rank(P, q)
<1> DEFINE A == {o \in P : o.fund < p.fund}
           B == {o \in P : o.fund < q.fund}
<1>1. IsFiniteSet(A) /\ IsFiniteSet(B)
  BY FS_Subset
<1>2. A \subseteq B /\ A # B
  <2>1. p \in B /\ p \notin A
    OBVIOUS
  <2>2. ASSUME NEW o \in A PROVE o \in B
    <3>1. o \in P /\ o.fund \in Int /\ p.fund \in Int /\ q.fund \in Int /\ o.fund < p.fund
      OBVIOUS
    <3>2. o.fund < q.fund
      BY <3>1
    <3> QED
      BY <3>1, <3>2
  <2> QED
    BY <2>1, <2>2
<1> HIDE DEF A, B
<1>3. Cardinality(A) \in Nat /\ Cardinality(B) \in Nat /\ Cardinality(A) < Cardinality(B)
  BY <1>1, <1>2, FS_Subset, FS_CardinalityType
<1> QED
  BY <1>3 DEF Rank, A, B

(***************************************************************************)
(* The allocations of a plan can be told from each other and from every    *)
(* allocation before.                                                      *)
(***************************************************************************)
LEMMA BatchIsNamed ==
    ASSUME NEW rows, Named(rows), NEW id \in Nat, \A x \in rows : x.id < id,
           NEW P, IsFiniteSet(P), \A p \in P : p.fund \in Int,
           \A p, q \in P : p.fund = q.fund => p = q
    PROVE  Named(rows \union {AllocationOf(id + Rank(P, p), p.fund, p.amount) : p \in P})
<1> DEFINE New(p) == AllocationOf(id + Rank(P, p), p.fund, p.amount)
           N == {New(p) : p \in P}
           f == [p \in P |-> New(p)]
<1>1. ASSUME NEW p \in P PROVE New(p).id = id + Rank(P, p) /\ Rank(P, p) \in Nat
  <2>1. Rank(P, p) \in Nat
    BY FS_Subset, FS_CardinalityType DEF Rank
  <2> QED
    BY <2>1 DEF AllocationOf
<1>2. IsFiniteSet(N)
  <2> HIDE DEF New
  <2>1. f \in Surjection(P, N)
    BY DEF Surjection
  <2> QED
    BY <2>1, FS_Surjection
<1>3. IsFiniteSet(rows \union N)
  BY <1>2, FS_Union DEF Named
<1> HIDE DEF New
<1>4. \A x \in N : x.id \in Nat /\ \A y \in rows : y.id # x.id
  BY <1>1 DEF Named
<1>5. ASSUME NEW p \in P, NEW q \in P, New(p).id = New(q).id PROVE p = q
  <2>1. Rank(P, p) = Rank(P, q)
    BY <1>1, <1>5
  <2>2. ~ (p.fund < q.fund) /\ ~ (q.fund < p.fund)
    BY <2>1, RanksDiffer
  <2> QED
    BY <2>2
<1>6. \A x, y \in N : x.id = y.id => x = y
  BY <1>5
<1>7. Named(rows \union N)
  BY <1>3, <1>4, <1>6 DEF Named, UniqueBy
<1> QED
  BY <1>7 DEF New

(***************************************************************************)
(* What a plan allocates goes to funds that exist, each of them once.      *)
(***************************************************************************)
LEMMA PlanIsOnePerFund ==
    ASSUME NEW liquidity, NEW sinking, NEW funds, Named(funds),
           AutomaticAllocations(liquidity, sinking, funds).value # NoValue
    PROVE  LET P == AutomaticAllocations(liquidity, sinking, funds).value
           IN  /\ IsFiniteSet(P) /\ \A p \in P : p.fund \in Nat
               /\ \A p, q \in P : p.fund = q.fund => p = q
<1> DEFINE P == AutomaticAllocations(liquidity, sinking, funds).value
           due == sinking.value
           eligible == AutomaticallyFunded(funds)
           taken(fund) == SumOver({f \in eligible : Precedes(f, fund)}, LAMBDA f : OutstandingOf(f, due))
           given(fund) == Smaller(OutstandingOf(fund, due),
                                  AtLeastZero(Allocatable(liquidity.value) - taken(fund)))
           F == {g \in eligible : given(g) > 0}
           h == [f \in F |-> [fund |-> f.id, amount |-> given(f)]]
<1>1. P = Allocations(liquidity.value, due, funds)
  <2>1. Invalid.value = NoValue /\ Unavailable.value = NoValue
    BY DEF Invalid, Unavailable
  <2>2. AutomaticAllocations(liquidity, sinking, funds)
          = Complete(Allocations(liquidity.value, due, funds))
    BY <2>1 DEF AutomaticAllocations
  <2> QED
    BY <2>2 DEF Complete
<1>2. P = {[fund |-> f.id, amount |-> given(f)] : f \in F}
  BY <1>1, Zenon DEF Allocations
<1>3. F \subseteq funds
  BY DEF AutomaticallyFunded
<1> HIDE DEF P, given, F
<1>4. IsFiniteSet(F)
  BY <1>3, FS_Subset DEF Named
<1>5. h \in Surjection(F, P)
  BY <1>2 DEF Surjection
<1>6. IsFiniteSet(P)
  BY <1>4, <1>5, FS_Surjection
<1>7. \A p \in P : p.fund \in Nat
  BY <1>2, <1>3 DEF Named
<1>8. \A p, q \in P : p.fund = q.fund => p = q
  <2>1. ASSUME NEW f \in F, NEW g \in F, f.id = g.id PROVE f = g
    BY <1>3, <2>1 DEF Named, UniqueBy
  <2> QED
    BY <1>2, <2>1
<1> QED
  BY <1>6, <1>7, <1>8 DEF P

(***************************************************************************)
(* The allocation of a salary.                                             *)
(***************************************************************************)
LEMMA AutomaticKeeps ==
    ASSUME Consistent, NEW t \in facts.triggers, AllocateAutomatically(t) PROVE Consistent'
<1> DEFINE P == AutomaticAllocations(report.liquidity, report.sinking, facts.funds).value
           N == {AllocationOf(NextAllocation + Rank(P, p), p.fund, p.amount) : p \in P}
<1>1. /\ Command /\ P # NoValue /\ facts' = [facts EXCEPT !.allocations = @ \union N]
      /\ allocatedFor' = allocatedFor \union {t.tx}
      /\ UNCHANGED settings
  BY Zenon DEF AllocateAutomatically, Rank
<1>2. IsFiniteSet(P) /\ (\A p \in P : p.fund \in Nat) /\ \A p, q \in P : p.fund = q.fund => p = q
  BY <1>1, PlanIsOnePerFund DEF Consistent, Stored
<1>3. NextAllocation \in Nat /\ \A o \in facts.allocations : o.id < NextAllocation
  BY NextRowIsNew DEF Consistent, Stored, NextAllocation
<1>4. Named(facts.allocations)
  BY DEF Consistent, Stored
<1> HIDE DEF P
<1>5. \A p \in P : p.fund \in Int
  BY <1>2
<1>6. Named(facts.allocations \union N)
  BY <1>2, <1>3, <1>4, <1>5, BatchIsNamed
<1> HIDE DEF N
<1>7. Stored(facts') /\ facts'.triggers = facts.triggers
  BY <1>1, <1>6 DEF Consistent, Stored, FactNames
<1>8. ForSalaries'
  BY <1>1, <1>7 DEF Consistent, ForSalaries
<1>9. Clocked' /\ StoredSettings(settings)'
  BY <1>1, CommandTicks DEF Consistent
<1> QED
  BY <1>7, <1>8, <1>9 DEF Consistent

(***************************************************************************)
(* A version of the settings starts on a day that has none.                *)
(***************************************************************************)
LEMMA VersionKeeps ==
    ASSUME Consistent, Command, NEW payload, NewSettings(payload) PROVE Consistent'
<1> DEFINE S == {s.version : s \in settings}
           f == [s \in settings |-> s.version]
           new == [version |-> NextVersion, from |-> Today, materiality |-> payload.materiality,
                   fallback |-> payload.fallback]
<1>1. /\ \A s \in settings : s.from # Today
      /\ settings' = settings \union {new} /\ UNCHANGED <<facts, allocatedFor>>
  BY DEF NewSettings
<1>2. new.version = NextVersion /\ new.from = Today
  OBVIOUS
<1> HIDE DEF new
<1>3. NextVersion \in Nat /\ \A s \in settings : s.version < NextVersion
  <2>1. S \subseteq Nat /\ \A s \in settings : s.version \in S
    BY DEF Consistent, StoredSettings
  <2>2. f \in Surjection(settings, S)
    BY DEF Surjection
  <2>3. IsFiniteSet(S)
    BY <2>2, FS_Surjection DEF Consistent, StoredSettings
  <2>4. NextVersion = 1 + Max({0} \union S)
    BY DEF NextVersion
  <2> HIDE DEF S
  <2> QED
    BY <2>1, <2>3, <2>4, NextIsFree
<1>4. IsFiniteSet(settings \union {new})
  BY FS_AddElement DEF Consistent, StoredSettings
<1>5. \A s \in settings : s.version \in Nat /\ s.version # new.version /\ s.from # new.from
  BY <1>1, <1>2, <1>3 DEF Consistent, StoredSettings
<1>6. StoredSettings(settings \union {new})
  BY <1>2, <1>3, <1>4, <1>5 DEF Consistent, StoredSettings, UniqueBy
<1>7. Clocked'
  BY CommandTicks DEF Consistent
<1> QED
  BY <1>1, <1>6, <1>7 DEF Consistent, ForSalaries

(***************************************************************************)
(* The morning after any day is a moment.                                  *)
(***************************************************************************)
LEMMA MorningKeeps == ASSUME Consistent, NextDay PROVE Consistent'
<1>1. Today \in Nat
  BY TodayIsNat DEF Consistent
<1>2. DayStart(Today + 1) + 1 \in Nat
  BY <1>1, ClockAssumption DEF DayStart
<1>3. now' \in Nat /\ UNCHANGED <<facts, settings, left, allocatedFor>>
  BY <1>2 DEF NextDay
<1> QED
  BY <1>3 DEF Consistent, Clocked, ForSalaries

(***************************************************************************)
(* What a behavior may start from is consistent.                           *)
(***************************************************************************)
LEMMA ConsistentStart == ASSUME Init PROVE IInv
<1>1. PICK h \in Households : /\ facts = h.facts /\ settings = h.settings /\ now = h.now
                              /\ context = h.context /\ profile = h.profile /\ bank = h.bank
                              /\ left = h.left /\ allocatedFor = {}
                              /\ report = EvaluationOf(Household, now)
  BY DEF Init
<1> QED
  BY <1>1, HouseholdsAssumption DEF IInv, Consistent, Backed, Latest, Clocked, ForSalaries

(***************************************************************************)
(* Every step leaves the facts consistent.                                 *)
(***************************************************************************)
LEMMA ConsistentStep == ASSUME Consistent, Next PROVE Consistent'
<1>1. CASE BankNext
  BY <1>1, ImportKeeps, SalaryKeeps, ExternalKeeps, ObserveKeeps DEF BankNext
<1>2. CASE CorrectionNext
  BY <1>2, CorrectKeeps, ConfirmKeeps, RejectKeeps DEF CorrectionNext
<1>3. CASE CashNext
  <2>1. now \in Int /\ DayStart(Today) \in Int
    BY NoonIsInt DEF Consistent, Clocked
  <2> QED
    BY <1>3, <2>1, CashKeeps, CountKeeps, ResolveKeeps, PurseKeeps DEF CashNext
<1>4. CASE OwnerNext
  <2>1. CASE \E saving \in Savings : CreateFund(saving)
    BY <2>1, FundKeeps
  <2>2. CASE \E fund \in facts.funds, amount \in Reservations : AllocateManually(fund, amount)
    BY <2>2, ReservationKeeps
  <2>3. CASE \E t \in facts.triggers : AllocateAutomatically(t)
    BY <2>3, AutomaticKeeps
  <2>4. CASE \E threshold \in Thresholds : ChangeMateriality(threshold)
    <3>1. PICK threshold \in Thresholds : ChangeMateriality(threshold)
      BY <2>4
    <3>2. Command /\ \E payload : NewSettings(payload)
      BY <3>1, Zenon DEF ChangeMateriality
    <3> QED
      BY <3>2, VersionKeeps
  <2>5. CASE \E estimate \in OwnerEstimates : ProvideEstimate(estimate)
    <3>1. PICK estimate \in OwnerEstimates : ProvideEstimate(estimate)
      BY <2>5
    <3>2. Command /\ \E payload : NewSettings(payload)
      BY <3>1, Zenon DEF ProvideEstimate
    <3> QED
      BY <3>2, VersionKeeps
  <2>6. CASE \/ \E plan \in Plans : UpdatePlanning(plan)
             \/ BootstrapProfile \/ \E date \in BoundaryDates : SetDecisionBoundary(date)
    <3>1. Command /\ UNCHANGED <<facts, settings, allocatedFor>>
      BY <2>6 DEF UpdatePlanning, BootstrapProfile, SetDecisionBoundary
    <3>2. Clocked'
      BY <3>1, CommandTicks DEF Consistent
    <3> QED
      BY <3>1, <3>2 DEF Consistent, ForSalaries
  <2> QED
    BY <1>4, <2>1, <2>2, <2>3, <2>4, <2>5, <2>6 DEF OwnerNext
<1>5. CASE NextDay
  BY <1>5, MorningKeeps
<1> QED
  BY <1>1, <1>2, <1>3, <1>4, <1>5 DEF Next

(***************************************************************************)
(* An instant is some whole days and a part of one.                        *)
(***************************************************************************)
LEMMA DaysAndRest ==
    ASSUME NEW n \in Nat, NEW d \in Nat \ {0}
    PROVE  n \div d \in Nat /\ n % d \in 0 .. d - 1 /\ n = d * (n \div d) + (n % d)
  OBVIOUS

(***************************************************************************)
(* Time goes on.                                                           *)
(***************************************************************************)
LEMMA TomorrowIsLater ==
    ASSUME NEW n \in Nat, NEW d \in Nat \ {0} PROVE n < (n \div d + 1) * d + 1
<1>1. n \div d \in Nat /\ n % d \in 0 .. d - 1 /\ n = d * (n \div d) + (n % d)
  OBVIOUS
<1>2. (n \div d + 1) * d = d * (n \div d) + d
  BY <1>1
<1> QED
  BY <1>1, <1>2

(***************************************************************************)
(* What a step does to the clock, to the balances and to the accounts.     *)
(***************************************************************************)
Later == now' \in Int /\ now < now'
OnlyAdds ==
  /\ facts'.snapshots = facts.snapshots /\ facts'.valuations = facts.valuations
  /\ facts'.contributions = facts.contributions
SameAccounts == facts'.accounts = facts.accounts

(***************************************************************************)
(* What was known is still of the past at a later moment.                  *)
(***************************************************************************)
LEMMA LaterKeepsValues ==
    ASSUME Clocked, NEW values, StoredValues(values, now), Later PROVE StoredValues(values, now')
  BY DEF StoredValues, Clocked, Later

(***************************************************************************)
(* A command is accepted at a later moment than the last.                  *)
(***************************************************************************)
LEMMA CommandIsLater == ASSUME Clocked, Command PROVE Later
  BY DEF Clocked, Command, Later

(***************************************************************************)
(* So is the night.                                                        *)
(***************************************************************************)
LEMMA NextDayIsLater == ASSUME Clocked, NextDay PROVE Later
<1>1. Today \in Nat /\ Today = now \div TicksPerDay /\ now \in Nat
  BY TodayIsNat DEF Today, DateOf, Clocked
<1>2. now' = (Today + 1) * TicksPerDay + 1
  BY DEF NextDay, DayStart
<1>3. now' \in Int
  BY <1>1, <1>2, ClockAssumption
<1>4. now < (now \div TicksPerDay + 1) * TicksPerDay + 1
  BY <1>1, ClockAssumption, TomorrowIsLater
<1> QED
  BY <1>1, <1>2, <1>3, <1>4 DEF Later

(***************************************************************************)
(* A sequence that is not empty has a last element.                        *)
(***************************************************************************)
LEMMA LastOfSequence ==
    ASSUME NEW S, NEW c \in Seq(S), c # << >> PROVE Len(c) \in Nat \ {0} /\ c[Len(c)] \in S
  OBVIOUS

(***************************************************************************)
(* What the import leaves of the bank's evidence: one difference for each  *)
(* account, and days that are covered.                                     *)
(***************************************************************************)
LEMMA ImportBacks ==
    ASSUME Consistent, Backed, NEW m, ImportBankMovement(m)
    PROVE  StoredValues(facts'.snapshots, now') /\ facts'.valuations = facts.valuations
           /\ facts'.contributions = facts.contributions /\ SameAccounts /\ StoredBank(bank')
<1>1. Clocked /\ Later /\ now \in Int /\ Today \in Int
  BY CommandIsLater, TodayIsNat DEF Consistent, ImportBankMovement, Clocked
<1> DEFINE coverage == CoveredThrough(bank.coverage, Today)
           rest == {r \in bank.reconciliations : r.account # BankAccount.id}
<1>2. /\ \A s \in facts'.snapshots : s \in facts.snapshots \/ s.asOf = now
      /\ facts'.valuations = facts.valuations /\ facts'.contributions = facts.contributions
      /\ facts'.accounts = facts.accounts
      /\ \E r : r.account = BankAccount.id
                /\ bank' = [coverage |-> coverage, reconciliations |-> rest \union {r}]
  <2> DEFINE snapshot(provider) ==
               [account |-> BankAccount.id, asOf |-> now, staleAt |-> now + SnapshotLifetime,
                value |-> [status |-> "available", original |-> provider,
                           currency |-> EUR, reporting |-> provider]]
  <2>1. PICK x, a, s, r :
           /\ facts' = [facts EXCEPT !.transactions = @ \union {x}, !.ambiguities = @ \union {a},
                          !.snapshots = IF \E o \in @ : o.account = BankAccount.id /\ o.asOf = now
                                        THEN @ ELSE @ \union {s}]
           /\ s.asOf = now /\ r.account = BankAccount.id
           /\ bank' = [coverage |-> coverage, reconciliations |-> rest \union {r}]
    <3> DEFINE x == Booked(NextTx, Noon(Today - m.dated), "external_flow",
                      OneEntry(NextTx, BankAccount.id, m.amount, "external_flow"))
               a == [tx |-> NextTx, at |-> x.at, kind |-> m.doubt, material |-> Material(m.amount)]
               provider == SumOver({y \in facts.transactions : y.booked /\ DateOf(y.at) <= Today},
                             LAMBDA y : Total({e \in y.entries : e.account = BankAccount.id}))
                           + m.amount + m.drift
               s == snapshot(provider)
               r == [account |-> BankAccount.id, sourceAsOf |-> now, difference |-> m.drift,
                     status |-> IF Larger(m.drift, -m.drift) > Threshold
                                THEN "material_mismatch" ELSE "reconciled"]
    <3>1. /\ facts' = [facts EXCEPT !.transactions = @ \union {x}, !.ambiguities = @ \union {a},
                          !.snapshots = IF \E o \in @ : o.account = BankAccount.id /\ o.asOf = now
                                        THEN @ ELSE @ \union {s}]
          /\ bank' = [coverage |-> coverage, reconciliations |-> rest \union {r}]
      BY Zenon DEF ImportBankMovement
    <3>2. s.asOf = now /\ r.account = BankAccount.id
      OBVIOUS
    <3> HIDE DEF x, a, s, r, coverage, rest
    <3> QED
      BY <3>1, <3>2
  <2> HIDE DEF coverage, rest
  <2>2. DOMAIN facts = FactNames
    BY DEF Consistent, Stored
  <2>3. /\ facts'.snapshots \subseteq facts.snapshots \union {s}
        /\ facts'.valuations = facts.valuations /\ facts'.contributions = facts.contributions
        /\ facts'.accounts = facts.accounts
    BY <2>1, <2>2 DEF FactNames
  <2> QED
    BY <2>1, <2>3
<1>3. StoredValues(facts'.snapshots, now')
  BY <1>1, <1>2 DEF Backed, StoredValues, Later
<1>4. coverage \in Seq([from : Int, through : Int]) /\ coverage # << >>
  <2>1. bank.coverage \in Seq([from : Int, through : Int])
    BY DEF Backed, StoredBank
  <2>2. CASE bank.coverage = << >>
    BY <1>1, <2>2 DEF CoveredThrough
  <2>3. CASE bank.coverage # << >>
    <3> DEFINE c == bank.coverage
               n == Len(c)
    <3>1. n \in Nat \ {0} /\ c[n] \in [from : Int, through : Int]
      <4>1. c \in Seq([from : Int, through : Int]) /\ c # << >>
        BY <2>1, <2>3
      <4> QED
        BY <4>1, LastOfSequence
    <3>2. Larger(c[n].through, Today) \in Int
      BY <1>1, <3>1 DEF Larger
    <3>3. coverage = [c EXCEPT ![n] = [c[n] EXCEPT !.through = Larger(c[n].through, Today)]]
      BY <2>3 DEF CoveredThrough
    <3>4. [c[n] EXCEPT !.through = Larger(c[n].through, Today)] \in [from : Int, through : Int]
      BY <3>1, <3>2
    <3> QED
      BY <2>1, <3>1, <3>3, <3>4
  <2> QED
    BY <2>2, <2>3
<1> HIDE DEF coverage
<1>5. StoredBank(bank')
  <2>1. UniqueBy(bank.reconciliations, LAMBDA r : r.account)
    BY DEF Backed, StoredBank
  <2> QED
    BY <1>2, <1>4, <2>1 DEF StoredBank, UniqueBy
<1> QED
  BY <1>2, <1>3, <1>5 DEF SameAccounts

(***************************************************************************)
(* Every step but the import leaves the balances, and every step but the   *)
(* first purse the accounts.                                               *)
(***************************************************************************)
LEMMA StepsAdd ==
    ASSUME Consistent, Next
    PROVE  /\ OnlyAdds \/ \E m \in Movements : ImportBankMovement(m)
           /\ SameAccounts \/ \E opening, at : BootstrapCashAccount(opening, at)
<1>1. DOMAIN facts = FactNames
  BY DEF Consistent, Stored
<1>2. CASE BankNext
  BY <1>1, <1>2 DEF BankNext, ImportBankMovement, ClassifyPrimarySalary, ClassifyExternalFlow, ObserveSpending,
       FactNames, OnlyAdds, SameAccounts
<1>3. CASE CorrectionNext
  BY <1>1, <1>3 DEF CorrectionNext, CorrectClassification, ConfirmTransfer, RejectTransfer,
       FactNames, OnlyAdds, SameAccounts
<1>4. CASE CashNext
  BY <1>1, <1>4 DEF CashNext, RecordCash, ReconcileCash, ResolveReconciliation, BootstrapCashAccount,
       FactNames, OnlyAdds, SameAccounts
<1>5. CASE OwnerNext
  <2>1. CASE \/ \E saving \in Savings : CreateFund(saving)
             \/ \E fund \in facts.funds, amount \in Reservations : AllocateManually(fund, amount)
             \/ \E t \in facts.triggers : AllocateAutomatically(t)
    BY <1>1, <2>1 DEF CreateFund, AllocateManually, AllocateAutomatically, FactNames, OnlyAdds, SameAccounts
  <2>2. CASE UNCHANGED facts
    BY <2>2 DEF OnlyAdds, SameAccounts
  <2> QED
    BY <1>5, <2>1, <2>2 DEF OwnerNext, ChangeMateriality, ProvideEstimate, NewSettings, UpdatePlanning,
         BootstrapProfile, SetDecisionBoundary
<1>6. CASE NextDay
  BY <1>6 DEF NextDay, OnlyAdds, SameAccounts
<1> QED
  BY <1>2, <1>3, <1>4, <1>5, <1>6 DEF Next

(***************************************************************************)
(* Every step but those of the owner's plans leaves the context and the    *)
(* profile.                                                                *)
(***************************************************************************)
LEMMA StepsPlan ==
    ASSUME Next
    PROVE  \/ UNCHANGED <<context, profile>>
           \/ \E plan \in Plans : UpdatePlanning(plan)
           \/ BootstrapProfile
           \/ \E date \in BoundaryDates : SetDecisionBoundary(date)
<1>1. CASE BankNext
  BY <1>1 DEF BankNext, ImportBankMovement, ClassifyPrimarySalary, ClassifyExternalFlow,
       ObserveSpending, FactsOnly
<1>2. CASE CorrectionNext
  BY <1>2 DEF CorrectionNext, CorrectClassification, ConfirmTransfer, RejectTransfer, FactsOnly
<1>3. CASE CashNext
  BY <1>3 DEF CashNext, RecordCash, ReconcileCash, ResolveReconciliation, BootstrapCashAccount, FactsOnly
<1>4. CASE OwnerNext
  BY <1>4 DEF OwnerNext, CreateFund, AllocateManually, AllocateAutomatically, ChangeMateriality,
       ProvideEstimate, NewSettings, FactsOnly
<1>5. CASE NextDay
  BY <1>5 DEF NextDay
<1> QED
  BY <1>1, <1>2, <1>3, <1>4, <1>5 DEF Next

(***************************************************************************)
(* Only the import changes what is kept of the bank.                       *)
(***************************************************************************)
LEMMA StepsKeepBank ==
    ASSUME Next PROVE bank' = bank \/ \E m \in Movements : ImportBankMovement(m)
<1>1. CASE BankNext
  BY <1>1 DEF BankNext, ClassifyPrimarySalary, ClassifyExternalFlow, ObserveSpending, FactsOnly
<1>2. CASE CorrectionNext
  BY <1>2 DEF CorrectionNext, CorrectClassification, ConfirmTransfer, RejectTransfer, FactsOnly
<1>3. CASE CashNext
  BY <1>3 DEF CashNext, RecordCash, ReconcileCash, ResolveReconciliation, BootstrapCashAccount, FactsOnly
<1>4. CASE OwnerNext
  BY <1>4 DEF OwnerNext, CreateFund, AllocateManually, AllocateAutomatically, ChangeMateriality,
       ProvideEstimate, NewSettings, UpdatePlanning, BootstrapProfile, SetDecisionBoundary, FactsOnly
<1>5. CASE NextDay
  BY <1>5 DEF NextDay
<1> QED
  BY <1>1, <1>2, <1>3, <1>4, <1>5 DEF Next

(***************************************************************************)
(* What the owner plans never says that the history is classified.         *)
(***************************************************************************)
LEMMA PlansBack ==
    ASSUME Consistent, Backed, Next
    PROVE  StoredPlans(profile', context')
<1>1. CASE UNCHANGED <<context, profile>>
  BY <1>1 DEF Backed
<1>2. CASE \E plan \in Plans : UpdatePlanning(plan)
  <2>1. PICK plan \in Plans : UpdatePlanning(plan)
    BY <1>2
  <2>2. StoredContext(context)
    BY <2>1 DEF UpdatePlanning, Backed, StoredPlans
  <2>3. /\ DOMAIN context' = ContextNames /\ DOMAIN context'.quality = QualityNames
        /\ context'.historyCoverage = context.historyCoverage
        /\ context'.quality.classification = context.quality.classification
        /\ profile' = profile
    <3> DEFINE q == [context.quality EXCEPT
                       !.needs = Declared(plan.complete.needs, plan.needs),
                       !.obligations = Declared(plan.complete.obligations, plan.obligations),
                       !.restricted = Declared(plan.complete.restricted, plan.restricted)]
    <3>1. DOMAIN q = QualityNames /\ q.classification = context.quality.classification
      BY <2>2 DEF StoredContext, QualityNames
    <3>2. DOMAIN context' = ContextNames /\ context'.historyCoverage = context.historyCoverage
      BY <2>1, <2>2 DEF UpdatePlanning, StoredContext, ContextNames
    <3>3. context'.quality = q
      BY <2>1, <2>2 DEF UpdatePlanning, StoredContext, ContextNames
    <3>4. profile' = profile
      BY <2>1 DEF UpdatePlanning
    <3> QED
      BY <3>1, <3>2, <3>3, <3>4
  <2>4. StoredContext(context')
    BY <2>2, <2>3 DEF StoredContext
  <2> QED
    BY <2>3, <2>4 DEF StoredPlans, Backed
<1>3. CASE BootstrapProfile
  <2> DEFINE S == {x.created : x \in facts.transactions}
             period == Period(Min(S), now)
  <2>1. /\ context' = InitialContext(period, Today) /\ profile' = InitialProfile(period, Today)
        /\ facts.transactions # {}
    BY <1>3, Zenon DEF BootstrapProfile
  <2>2. Min(S) \in Nat
    <3>1. S \subseteq Nat /\ S # {}
      BY <2>1 DEF Consistent, Stored, StoredTransactions
    <3> QED
      BY <3>1, MinIsNat
  <2>3. period.start \in Int
    BY <2>2 DEF Period
  <2> HIDE DEF period
  <2>4. StoredContext(context')
    BY <2>1, <2>3 DEF InitialContext, StoredContext, ContextNames, QualityNames
  <2>5. {"boundary", "ccrPeriod"} \subseteq DOMAIN profile' /\ profile'.boundary \in Int
    BY <2>1 DEF InitialProfile, NoBoundary
  <2> QED
    BY <2>4, <2>5 DEF StoredPlans
<1>4. CASE \E date \in BoundaryDates : SetDecisionBoundary(date)
  <2>1. PICK date \in BoundaryDates : SetDecisionBoundary(date)
    BY <1>4
  <2> DEFINE start == DayStart(date)
  <2>2. start \in Int
    BY BoundaryDatesAssumption, ClockAssumption DEF DayStart
  <2>3. /\ profile # NoProfile
        /\ profile' = [profile EXCEPT !.boundary = start, !.ccrPeriod = Period(start, now)]
        /\ context' = [context EXCEPT !.historyCoverage = Period(start, now),
                                      !.reservationCoverage = Period(start, now + 1)]
    BY <2>1, Zenon DEF SetDecisionBoundary
  <2>4. StoredContext(context) /\ {"boundary", "ccrPeriod"} \subseteq DOMAIN profile
    BY <2>3 DEF Backed, StoredPlans
  <2> HIDE DEF start
  <2>5. StoredContext(context')
    BY <2>2, <2>3, <2>4 DEF StoredContext, ContextNames, Period
  <2>6. {"boundary", "ccrPeriod"} \subseteq DOMAIN profile' /\ profile'.boundary \in Int
    BY <2>2, <2>3, <2>4
  <2> QED
    BY <2>5, <2>6 DEF StoredPlans
<1> QED
  BY <1>1, <1>2, <1>3, <1>4, StepsPlan

(***************************************************************************)
(* Every step keeps what is known of the balances.                         *)
(***************************************************************************)
LEMMA BackedStep == ASSUME Consistent, Backed, Next PROVE Backed'
<1>1. Later /\ Clocked
  <2>1. Command \/ NextDay
    <3>1. CASE BankNext
      BY <3>1 DEF BankNext, ImportBankMovement, ClassifyPrimarySalary, ClassifyExternalFlow, ObserveSpending
    <3>2. CASE CorrectionNext
      BY <3>2 DEF CorrectionNext, CorrectClassification, ConfirmTransfer, RejectTransfer
    <3>3. CASE CashNext
      BY <3>3 DEF CashNext, RecordCash, ReconcileCash, ResolveReconciliation, BootstrapCashAccount
    <3>4. CASE OwnerNext
      BY <3>4 DEF OwnerNext, CreateFund, AllocateManually, AllocateAutomatically, ChangeMateriality,
                  ProvideEstimate, UpdatePlanning, BootstrapProfile, SetDecisionBoundary
    <3> QED
      BY <3>1, <3>2, <3>3, <3>4 DEF Next
  <2> QED
    BY <2>1, CommandIsLater, NextDayIsLater DEF Consistent
<1>2. StoredPlans(profile', context')
  BY PlansBack
<1>3. StoredValues(facts'.snapshots, now') /\ StoredValues(facts'.valuations, now')
  <2>1. CASE OnlyAdds
    BY <1>1, <2>1, LaterKeepsValues DEF OnlyAdds, Backed
  <2>2. CASE \E m \in Movements : ImportBankMovement(m)
    BY <1>1, <2>2, ImportBacks, LaterKeepsValues DEF Backed
  <2> QED
    BY <2>1, <2>2, StepsAdd
<1>4. StoredBank(bank')
  BY StepsKeepBank, ImportBacks DEF Backed
<1> QED
  BY <1>2, <1>3, <1>4 DEF Backed

(***************************************************************************)
(* Every step evaluates.                                                   *)
(***************************************************************************)
LEMMA EvaluateIsLatest == ASSUME Evaluate PROVE Latest'
  BY DEF Evaluate, Latest

(***************************************************************************)
(* So the report is the latest after every step.                           *)
(***************************************************************************)
LEMMA LatestStep == ASSUME Next PROVE Latest'
<1>1. Evaluate
  <2>1. CASE BankNext
    BY <2>1 DEF BankNext, ImportBankMovement, ClassifyPrimarySalary, ClassifyExternalFlow, ObserveSpending
  <2>2. CASE CorrectionNext
    BY <2>2 DEF CorrectionNext, CorrectClassification, ConfirmTransfer, RejectTransfer
  <2>3. CASE CashNext
    BY <2>3 DEF CashNext, RecordCash, ReconcileCash, ResolveReconciliation, BootstrapCashAccount
  <2>4. CASE OwnerNext
    BY <2>4 DEF OwnerNext, CreateFund, AllocateManually, AllocateAutomatically, ChangeMateriality,
                ProvideEstimate, UpdatePlanning, BootstrapProfile, SetDecisionBoundary
  <2>5. CASE NextDay
    BY <2>5 DEF NextDay
  <2> QED
    BY <2>1, <2>2, <2>3, <2>4, <2>5 DEF Next
<1> QED
  BY <1>1, EvaluateIsLatest

(***************************************************************************)
(* The invariant of every behavior.                                        *)
(***************************************************************************)
THEOREM HouseholdInvariant == Spec => []IInv
<1>1. Init => IInv
  BY ConsistentStart
<1>2. IInv /\ [Next]_vars => IInv'
  <2> SUFFICES ASSUME IInv, [Next]_vars PROVE IInv'
      OBVIOUS
  <2>1. CASE Next
    BY <2>1, ConsistentStep, BackedStep, LatestStep DEF IInv
  <2>2. CASE UNCHANGED vars
    BY <2>2 DEF IInv, Consistent, Backed, Latest, Clocked, ForSalaries, vars, Household
  <2> QED
    BY <2>1, <2>2
<1> QED
  BY <1>1, <1>2, PTL DEF Spec

-----------------------------------------------------------------------------
(* What follows for every state                                            *)

(***************************************************************************)
(* Every stored fact can be named, and a transaction has one class or one  *)
(* doubt, whatever commands were accepted in whatever order.               *)
(***************************************************************************)
LEMMA TypeFollows == ASSUME IInv PROVE TypeOK
<1>1. now \in Nat /\ left \in Nat /\ ForSalaries /\ Stored(facts) /\ StoredSettings(settings)
  BY DEF IInv, Consistent, Clocked
<1>2. report # NotEvaluated => report.throws \in BOOLEAN
  <2>1. report = EvaluationOf(Household, now)
    BY DEF IInv, Latest
  <2>2. Summary(StateOf(Household, now)).throws \in BOOLEAN
    BY DEF Summary
  <2> QED
    BY <2>1, <2>2 DEF EvaluationOf
<1>3. UniqueBy(facts.transactions, LAMBDA x : x.id) /\ \A x \in facts.transactions : ValidTransaction(x)
  BY <1>1 DEF Stored, StoredTransactions, Named
<1>4. UniqueBy(facts.flows, LAMBDA f : f.tx)
  BY <1>1 DEF Stored, StoredFlows
<1>5. UniqueBy(facts.observations, LAMBDA o : o.flow)
  BY <1>1 DEF Stored, StoredObservations
<1>6. UniqueBy(facts.allocations, LAMBDA e : e.id)
  BY <1>1 DEF Stored, Named
<1>7. UniqueBy(settings, LAMBDA s : s.from) /\ UniqueBy(settings, LAMBDA s : s.version)
  BY <1>1 DEF StoredSettings
<1>8. \A a \in facts.ambiguities : FlowsOf(a.tx) = {}
  BY <1>1 DEF Stored, StoredAmbiguities, FlowsOf
<1> QED
  BY <1>1, <1>2, <1>3, <1>4, <1>5, <1>6, <1>7, <1>8 DEF TypeOK, ForSalaries

(***************************************************************************)
(* Every stored fact can be named, a transaction has one class or one      *)
(* doubt, and money is reserved for salaries that happened, for every      *)
(* household that starts so.                                               *)
(***************************************************************************)
THEOREM FactsAreWellFormed == Spec => []TypeOK
  BY HouseholdInvariant, TypeFollows, PTL

(***************************************************************************)
(* The facts at the decision boundary keep the funds and what is reserved. *)
(***************************************************************************)
LEMMA BoundaryKeepsReserves ==
    ASSUME Stored(facts)
    PROVE  /\ FactsOf(Household).funds = facts.funds
           /\ FactsOf(Household).allocations = facts.allocations
           /\ FactsOf(Household).accounts = facts.accounts
           /\ FactsOf(Household).transactions = facts.transactions
           /\ FactsOf(Household).snapshots = facts.snapshots
           /\ FactsOf(Household).valuations = facts.valuations
           /\ FactsOf(Household).reconciliations = facts.reconciliations
           /\ FactsOf(Household).resolutions = facts.resolutions
<1>1. Household.facts = facts
  BY DEF Household
<1> QED
  BY <1>1 DEF Stored, FactNames, FactsOf, FactsAtBoundary

(***************************************************************************)
(* The amounts of a report belong to funds that exist.                     *)
(***************************************************************************)
LEMMA LastCycleFollows == ASSUME IInv PROVE LastCycleAsksForTheRest
<1> SUFFICES ASSUME report # NotEvaluated, ~ report.throws, report.sinking.status = "complete",
                    NEW d \in report.sinking.value.byFund, NEW f \in facts.funds,
                    d.fund = f.id, InUse(f),
                    \A date \in report.planned.paySchedule.dates : ~ (Today < date /\ date <= f.due)
             PROVE  d.outstanding = d.remaining
    BY DEF LastCycleAsksForTheRest
<1> DEFINE h == Household
           ctx == CurrentOf(h, now)
           base == FactsOf(h)
<1>1. report = EvaluationOf(h, now) /\ Stored(facts)
  BY DEF IInv, Latest, Consistent
<1>2. PICK c, policy : /\ c = Checkpoint(base, ctx, now, DateOf(now), policy)
                       /\ report.sinking = c.sinking
  BY <1>1, ReportSays
<1>3. report.planned = ctx
  BY <1>1, ReportSays
<1> HIDE DEF ctx, base
<1> DEFINE s == ScheduleAt(base, ctx, now, DateOf(now), c.cycles.value)
<1>4. c.sinking = SinkingAt(base, ctx, now, DateOf(now), c.cycles)
  BY <1>2, CheckpointFinds
<1>5. report.sinking = CurrentCycleSinkingDue(s)
  BY <1>2, <1>4 DEF SinkingAt, Invalid
<1>6. /\ s.funds = {g \in base.funds : g.createdAt <= now}
      /\ s.allocations = {e \in base.allocations : e.at <= now}
      /\ s.today = Today /\ s.paySchedule = ctx.paySchedule /\ s.asOf = now
  BY DEF ScheduleAt, HistoryOf, ActiveAt, Extended, Today
<1>7. base.funds = facts.funds /\ base.allocations = facts.allocations
  BY <1>1, BoundaryKeepsReserves DEF base
<1>8. IsFiniteSet(s.allocations)
  BY <1>1, <1>6, <1>7, FS_Subset DEF Stored, Named
<1> HIDE DEF s
<1>9. PICK fund \in Existing(s) :
         /\ d.fund = fund.id
         /\ InUse(fund) /\ FundingDates(s, fund) = {} => d.outstanding = d.remaining
  BY <1>5, <1>8, DueAsksForTheRest
<1>10. fund = f
  <2>1. fund \in facts.funds
    BY <1>6, <1>7, <1>9 DEF Existing
  <2> QED
    BY <1>1, <1>9, <2>1 DEF Stored, Named, UniqueBy
<1>11. FundingDates(s, f) = {}
  <2>1. \A date \in s.paySchedule.dates : ~ (date > s.today /\ date <= f.due)
    <3>1. \A date \in s.paySchedule.dates : ~ (Today < date /\ date <= f.due)
      BY <1>3, <1>6
    <3> QED
      BY <1>6, <3>1
  <2> QED
    BY <2>1 DEF FundingDates
<1> QED
  BY <1>9, <1>10, <1>11

(***************************************************************************)
(* In the last pay cycle before a fund is due everything that is missing   *)
(* is asked for, whatever was reserved, released or counted before.        *)
(***************************************************************************)
THEOREM NothingIsLeftForLater == Spec => []LastCycleAsksForTheRest
  BY HouseholdInvariant, LastCycleFollows, PTL

-----------------------------------------------------------------------------
(* What a complete answer rests on                                         *)

(***************************************************************************)
(* An answer that is ready without reservation has complete cash, a bank   *)
(* that agrees, a classified history, no doubt and no material variance.   *)
(* A fallback that was accepted cannot stand in for a class: it is itself  *)
(* a reservation.                                                          *)
(***************************************************************************)
LEMMA ReadyMeans ==
    ASSUME NEW k, ReadyAs(k).kind = "complete"
    PROVE  /\ k.cash.status = "complete"
           /\ k.context.quality.liquidBalance = "complete"
           /\ k.context.quality.classification = "complete"
           /\ k.active.ambiguities = {}
           /\ \A r \in k.active.reconciliations : ~ r.material
<1> DEFINE accepted == AcceptedFallback(k.baseline, k.settings.baseline.fallback, k.context,
                                        k.active.ambiguities, k.date)
           A == k.active.ambiguities
           R == k.active.reconciliations
<1>1. Blockers(k, accepted) = {} /\ ~ Provisional(A, R, accepted)
  <2>1. ReadyAs(k).kind = IF Blockers(k, accepted) # {} THEN "blocked"
                          ELSE IF Provisional(A, R, accepted) THEN "provisional" ELSE "complete"
    BY DEF ReadyAs, Readiness, ReadinessOf
  <2> HIDE DEF accepted, A, R
  <2> QED
    BY <2>1
<1>2. accepted => A # {} /\ \A a \in A : a.kind = "unclassified_external_flow" /\ ~ a.material
  BY DEF AcceptedFallback
<1> HIDE DEF accepted
<1>3. ~ accepted
  BY <1>1, <1>2 DEF Provisional
<1>4. /\ k.cash.status = "complete" /\ k.context.quality.liquidBalance = "complete"
      /\ k.context.quality.classification = "complete"
      /\ \A a \in A : ~ Blocks(a, accepted)
      /\ \A r \in R : ~ r.material
  BY <1>1, <1>3 DEF Blockers, Unready
<1>5. A = {}
  <2>1. ASSUME NEW a \in A PROVE FALSE
    BY <1>1, <1>3, <1>4 DEF Blocks, Provisional
  <2> QED
    BY <2>1
<1> QED
  BY <1>4, <1>5

(***************************************************************************)
(* Complete cash has a balance of every bank account that is not stale.    *)
(***************************************************************************)
LEMMA CompleteCashIsCurrent ==
    ASSUME NEW f, NEW at, CashAt(f, at).status = "complete", NEW a \in BankAccounts(f)
    PROVE  \E s \in f.snapshots : s.account = a.id /\ s.asOf <= at /\ ~ (at > s.staleAt)
<1> DEFINE p == [ledger |-> LedgerAt(f, at), snapshots |-> f.snapshots,
                 valuations |-> f.valuations, asOf |-> at]
           latest == LatestByAccount(f.snapshots, a.id, at)
           s == CHOOSE o \in latest : TRUE
           accounts == {b \in Included(p) : b.subtype \in {"bank", "cash"}}
<1>1. p.ledger.accounts = f.accounts /\ p.snapshots = f.snapshots /\ p.asOf = at
  BY DEF LedgerAt
<1>2. CashAt(f, at) = Position(p, {"bank", "cash"})
  BY Zenon DEF CashAt, LiquidCash
<1> HIDE DEF p
<1>3. a.subtype = "bank" /\ a \in Included(p)
  BY <1>1 DEF BankAccounts, Included
<1>4. /\ ValidPositions(p)
      /\ \A b \in accounts : /\ AccountValue(p, b).known
                             /\ ~ (b.source # "ledger" /\ AccountValue(p, b).warning = "stale")
  BY <1>2 DEF Position, Invalid, Unavailable
<1>5. a.source = "balance_snapshot"
  BY <1>1, <1>3, <1>4 DEF ValidPositions, ValidLedger, ValidAccount, BankAccounts
<1>6. /\ AccountValue(p, a).known /\ AccountValue(p, a).warning # "stale"
      /\ AccountValue(p, a) = FromValues(latest, at)
  <2>1. AccountValue(p, a) = FromValues(latest, at)
    BY <1>1, <1>5 DEF AccountValue
  <2> QED
    BY <1>3, <1>4, <1>5, <2>1
<1> HIDE DEF latest
<1>7. latest # {} /\ s \in latest /\ FromValues(latest, at) = ValueOf(s, at)
  BY <1>6 DEF FromValues, Missing
<1> HIDE DEF s
<1>8. ~ (at > s.staleAt)
  BY <1>6, <1>7 DEF ValueOf, Missing, Found
<1>9. s \in f.snapshots /\ s.account = a.id /\ s.asOf <= at
  BY <1>7 DEF latest, LatestByAccount, Known
<1> QED
  BY <1>8, <1>9

-----------------------------------------------------------------------------
(* What a safe amount rests on                                             *)

(***************************************************************************)
(* The context at the decision boundary, as far as the bank covers it.     *)
(***************************************************************************)
CoveredOf(h, t) == CoveredByBank(ContextAtBoundary(h, t), h.bank.coverage)

(***************************************************************************)
(* Planning the day leaves what is known of the quality.                   *)
(***************************************************************************)
LEMMA PlanningKeepsQuality ==
    ASSUME NEW ctx, "quality" \in DOMAIN ctx, NEW date
    PROVE  RunContext(ctx, date).quality = ctx.quality
<1> DEFINE schedule == PayScheduleFor(ctx, date)
           income == NextIncomeFor(ctx, date, schedule)
           planned == [ctx EXCEPT !.nextIncome = income, !.paySchedule = schedule]
           end == WindowEnd(income, date)
<1>1. RunContext(ctx, date) = WithOccurrences(planned, date, end)
  BY Zenon DEF RunContext, PlannedFor, Planned
<1> HIDE DEF schedule, income, end
<1>2. planned.quality = ctx.quality /\ "quality" \in DOMAIN planned
  OBVIOUS
<1> HIDE DEF planned
<1>3. WithOccurrences(planned, date, end).quality = planned.quality
  <2> DEFINE scheduled == ScheduledFor(planned, date, end)
             more == Derived({s \in scheduled : Upcoming(s, date, end)}, planned.needs)
  <2>1. CASE planned.declared
    <3>1. WithOccurrences(planned, date, end)
            = [planned EXCEPT !.scheduled = scheduled, !.needs = @ \union more]
      BY <2>1, Zenon DEF WithOccurrences, WithDeclared
    <3> HIDE DEF scheduled, more
    <3> QED
      BY <1>2, <3>1
  <2>2. CASE ~ planned.declared
    BY <1>2, <2>2 DEF WithOccurrences
  <2> QED
    BY <2>1, <2>2
<1> QED
  BY <1>1, <1>2, <1>3

(***************************************************************************)
(* The evidence states the quality of the balances and of the              *)
(* classification.                                                         *)
(***************************************************************************)
LEMMA EvidenceJudges ==
    ASSUME NEW h, NEW t, NEW f, NEW covered, NEW months,
           DOMAIN covered = ContextNames, DOMAIN covered.quality = QualityNames
    PROVE  LET e == EvidenceOver(h, f, covered, t, months)
           IN  /\ "quality" \in DOMAIN e
               /\ e.quality.liquidBalance = LiquidBalanceQuality(h, f, t)
               /\ e.quality.classification = ClassificationQuality(h, f, covered, t, months)
<1> DEFINE coverage == IF HasBankEvidence(h.bank)
                       THEN {MonthEvidence(h, f, covered, m, t) : m \in months}
                       ELSE covered.monthCoverage
           liquid == LiquidBalanceQuality(h, f, t)
           reservations == ReservationQuality(f, covered, t)
           classified == ClassificationQuality(h, f, covered, t, months)
           e1 == [covered EXCEPT !.monthCoverage = coverage]
           e2 == [e1 EXCEPT !.quality = [e1.quality EXCEPT !.liquidBalance = liquid]]
           e3 == [e2 EXCEPT !.quality = [e2.quality EXCEPT !.reservations = reservations]]
           e4 == [e3 EXCEPT !.quality = [e3.quality EXCEPT !.classification = classified]]
<1>1. EvidenceOver(h, f, covered, t, months) = e4
  BY Zenon DEF EvidenceOver
<1> HIDE DEF coverage, liquid, reservations, classified
<1>2. DOMAIN e1 = ContextNames /\ DOMAIN e1.quality = QualityNames
  BY DEF ContextNames
<1> HIDE DEF e1
<1>3. /\ DOMAIN e2 = ContextNames /\ DOMAIN e2.quality = QualityNames
      /\ e2.quality.liquidBalance = liquid
  BY <1>2 DEF ContextNames, QualityNames
<1> HIDE DEF e2
<1>4. /\ DOMAIN e3 = ContextNames /\ DOMAIN e3.quality = QualityNames
      /\ e3.quality.liquidBalance = liquid
  BY <1>3 DEF ContextNames, QualityNames
<1> HIDE DEF e3
<1>5. /\ "quality" \in DOMAIN e4
      /\ e4.quality.liquidBalance = liquid /\ e4.quality.classification = classified
  BY <1>4 DEF ContextNames, QualityNames
<1> HIDE DEF e4
<1> QED
  BY <1>1, <1>5 DEF liquid, classified

(***************************************************************************)
(* The context of a run has the quality that the evidence states.          *)
(***************************************************************************)
LEMMA CurrentJudges ==
    ASSUME NEW h, NEW t, DOMAIN CoveredOf(h, t) = ContextNames,
           DOMAIN CoveredOf(h, t).quality = QualityNames
    PROVE  /\ CurrentOf(h, t).quality.liquidBalance = LiquidBalanceQuality(h, FactsOf(h), t)
           /\ \E months : CurrentOf(h, t).quality.classification
                            = ClassificationQuality(h, FactsOf(h), CoveredOf(h, t), t, months)
<1> DEFINE base == FactsOf(h)
           covered == CoveredOf(h, t)
           months == EvidenceMonthsOf(covered, DateOf(t))
           e == EvidenceOver(h, base, covered, t, months)
<1>1. CurrentOf(h, t) = RunContext(e, DateOf(t))
  <2>1. Assembled(h, t, DateOf(t)) = AssembledFrom(h, t, DateOf(t), base, covered)
    BY Zenon DEF Assembled, CoveredOf
  <2>2. e = EvidenceBacked(h, base, covered, t, DateOf(t))
    BY Zenon DEF EvidenceBacked
  <2> HIDE DEF base, covered, e
  <2>3. AssembledFrom(h, t, DateOf(t), base, covered).current
          = RunContext(EvidenceBacked(h, base, covered, t, DateOf(t)), DateOf(t))
    BY DEF AssembledFrom
  <2> QED
    BY <2>1, <2>2, <2>3, Zenon DEF CurrentOf
<1>2. /\ "quality" \in DOMAIN e
      /\ e.quality.liquidBalance = LiquidBalanceQuality(h, base, t)
      /\ e.quality.classification = ClassificationQuality(h, base, covered, t, months)
  <2> HIDE DEF base, months
  <2> QED
    BY EvidenceJudges
<1> HIDE DEF e, months
<1>3. CurrentOf(h, t).quality = e.quality
  BY <1>1, <1>2, PlanningKeepsQuality
<1> QED
  BY <1>2, <1>3, Zenon

(***************************************************************************)
(* A date starts at an instant, in Riga and in UTC.                        *)
(***************************************************************************)
LEMMA InstantsAreInt ==
    ASSUME NEW date \in Int
    PROVE  DayStart(date) \in Int /\ UtcStart(date) \in Int
<1>1. TicksPerDay \in Int
  BY ClockAssumption
<1>2. DayStart(date) \in Int
  BY <1>1 DEF DayStart
<1> QED
  BY <1>2 DEF UtcStart

(***************************************************************************)
(* The context at a decision boundary keeps its quality, and its history   *)
(* starts at the boundary.                                                 *)
(***************************************************************************)
LEMMA BoundaryContext ==
    ASSUME NEW h, NEW t \in Int, StoredContext(h.context), h.profile.boundary \in Int
    PROVE  LET c == ContextAtBoundary(h, t)
           IN  /\ DOMAIN c = ContextNames /\ DOMAIN c.quality = QualityNames
               /\ c.quality = h.context.quality
               /\ c.historyCoverage.start = IF Bounded(h) THEN h.profile.boundary
                                            ELSE h.context.historyCoverage.start
               /\ c.historyCoverage.start \in Int
  BY DEF ContextAtBoundary, StoredContext, Bounded, Period, ContextNames

(***************************************************************************)
(* The last interval of the bank never lets the history start later than   *)
(* both of them.                                                           *)
(***************************************************************************)
LEMMA CoverageNarrows ==
    ASSUME NEW c, DOMAIN c = ContextNames, DOMAIN c.quality = QualityNames,
           c.historyCoverage.start \in Int, NEW coverage \in Seq([from : Int, through : Int])
    PROVE  LET d == CoveredByBank(c, coverage)
               since == UtcStart(coverage[Len(coverage)].from)
           IN  /\ DOMAIN d = ContextNames /\ DOMAIN d.quality = QualityNames
               /\ coverage = << >> => d = c
               /\ coverage # << >> => /\ d.historyCoverage.start \in Int
                                      /\ Larger(c.historyCoverage.start, since) \in Int
                                      /\ d.historyCoverage.start <= Larger(c.historyCoverage.start, since)
<1> DEFINE d == CoveredByBank(c, coverage)
           history == c.historyCoverage
           last == coverage[Len(coverage)]
           interval == Period(UtcStart(last.from), UtcStart(last.through + 1))
           common == Period(Larger(history.start, interval.start), Smaller(history.end, interval.end))
           whole == interval.start <= history.start /\ history.end <= interval.end
           covers == IF ValidPeriod(common) THEN common ELSE c.historyCoverage
           class == IF whole THEN c.quality.classification ELSE "partial"
           d1 == [c EXCEPT !.historyCoverage = covers]
           d2 == [d1 EXCEPT !.quality = [d1.quality EXCEPT !.classification = class]]
<1>1. CASE coverage = << >>
  <2>1. CoveredByBank(c, coverage) = c
    BY <1>1 DEF CoveredByBank
  <2> QED
    BY <1>1, <2>1
<1>2. CASE coverage # << >>
  <2>1. d1.quality.classification = c.quality.classification
    BY DEF ContextNames
  <2>2. d = d2
    <3>1. CoveredByBank(c, coverage)
            = [c EXCEPT !.historyCoverage = covers,
                        !.quality.classification = IF whole THEN @ ELSE "partial"]
      BY <1>2, Zenon DEF CoveredByBank
    <3> HIDE DEF covers, whole
    <3> QED
      BY <2>1, <3>1, Zenon
  <2>3. last.from \in Int
    <3> DEFINE Interval == [from : Int, through : Int]
    <3>1. coverage \in Seq(Interval) /\ \A k \in Interval : k.from \in Int
      OBVIOUS
    <3> HIDE DEF Interval
    <3>2. Len(coverage) \in Nat /\ (Len(coverage) = 0 => coverage = << >>)
      BY <3>1, LenProperties, EmptySeq
    <3>3. Len(coverage) \in 1 .. Len(coverage)
      BY <1>2, <3>2
    <3>4. last \in Interval
      BY <3>1, <3>3, ElementOfSeq
    <3> QED
      BY <3>1, <3>4
  <2>4. interval.start = UtcStart(last.from) /\ UtcStart(last.from) \in Int
    BY <2>3, InstantsAreInt DEF Period
  <2>5. /\ covers.start \in Int /\ covers.start <= Larger(history.start, UtcStart(last.from))
        /\ Larger(history.start, UtcStart(last.from)) \in Int
    <3>1. common.start = Larger(history.start, UtcStart(last.from))
      BY <2>4 DEF Period
    <3> HIDE DEF common, interval
    <3> QED
      BY <2>4, <3>1 DEF Larger
  <2> HIDE DEF covers, class, whole, last
  <2>6. DOMAIN d1 = ContextNames /\ d1.historyCoverage = covers /\ DOMAIN d1.quality = QualityNames
    BY DEF ContextNames
  <2> HIDE DEF d1
  <2>7. /\ DOMAIN d2 = ContextNames /\ DOMAIN d2.quality = QualityNames
        /\ d2.historyCoverage = covers
    BY <2>6 DEF ContextNames, QualityNames
  <2> HIDE DEF d2
  <2> QED
    BY <1>2, <2>2, <2>5, <2>7 DEF d, last
<1> QED
  BY <1>1, <1>2

(***************************************************************************)
(* What the decision boundary leaves of the facts is among them.           *)
(***************************************************************************)
LEMMA BoundaryLeavesSome ==
    ASSUME Stored(facts), NEW f, f = FactsOf(Household)
    PROVE  /\ f.flows \subseteq facts.flows /\ f.observations \subseteq facts.observations
           /\ \A a \in facts.ambiguities :
                 Bounded(Household) => (a.at >= profile.boundary => a \in f.ambiguities)
           /\ ~ Bounded(Household) => f.ambiguities = facts.ambiguities
<1>1. Household.facts = facts /\ Household.profile = profile
  BY DEF Household
<1>2. CASE Bounded(Household)
  <2> DEFINE flows == {g \in facts.flows : g.at >= profile.boundary}
             doubts == {a \in facts.ambiguities : a.at >= profile.boundary}
             described == {o \in facts.observations : \E g \in flows : g.id = o.flow}
             paid == {p \in facts.triggers : \E x \in facts.transactions :
                                                x.id = p.tx /\ x.at >= profile.boundary}
  <2>1. f = [facts EXCEPT !.flows = flows, !.ambiguities = doubts, !.observations = described,
                          !.triggers = paid]
    BY <1>1, <1>2, Zenon DEF FactsOf, FactsAtBoundary
  <2> HIDE DEF flows, doubts, described, paid
  <2>2. f.flows = flows /\ f.observations = described /\ f.ambiguities = doubts
    BY <2>1 DEF Stored, FactNames
  <2>3. flows \subseteq facts.flows /\ described \subseteq facts.observations
    BY DEF flows, described
  <2>4. \A a \in facts.ambiguities : a.at >= profile.boundary => a \in doubts
    BY Zenon DEF doubts
  <2> QED
    BY <1>2, <2>2, <2>3, <2>4
<1>3. CASE ~ Bounded(Household)
  BY <1>1, <1>3 DEF FactsOf
<1> QED
  BY <1>2, <1>3

(***************************************************************************)
(* A complete classification comes from the bank: the context never claims *)
(* it, and every transaction of the history is complete.                   *)
(***************************************************************************)
LEMMA ClassifiedMeans ==
    ASSUME NEW h, NEW f, NEW covered, NEW t, NEW months,
           ClassificationQuality(h, f, covered, t, months) = "complete",
           ~ HasBankEvidence(h.bank) => covered.quality.classification # "complete"
    PROVE  /\ HasBankEvidence(h.bank)
           /\ f.ambiguities = {}
           /\ \A x \in f.transactions :
                 covered.historyCoverage.start <= x.at /\ x.at <= t => CompleteTransaction(f, x)
<1> DEFINE decision == {x \in f.transactions : covered.historyCoverage.start <= x.at /\ x.at <= t}
           all == \A x \in decision : CompleteTransaction(f, x)
<1>1. ClassificationQuality(h, f, covered, t, months)
        = IF ~ HasBankEvidence(h.bank) THEN covered.quality.classification
          ELSE IF months = {} THEN "unavailable"
          ELSE IF f.ambiguities = {} /\ all THEN "complete" ELSE "partial"
  BY Zenon DEF ClassificationQuality
<1> HIDE DEF all
<1>2. HasBankEvidence(h.bank) /\ f.ambiguities = {} /\ all
  BY <1>1
<1> QED
  BY <1>2 DEF all

(***************************************************************************)
(* A complete balance has an exact difference for every account of the     *)
(* bank.                                                                   *)
(***************************************************************************)
LEMMA ReconciledMeans ==
    ASSUME NEW h, NEW f, NEW t, LiquidBalanceQuality(h, f, t) = "complete",
           HasBankEvidence(h.bank)
    PROVE  \A a \in BankAccounts(f) : \E r \in EvidenceOf(h.bank, a) : Exact(r)
<1> DEFINE cash == LiquidCash([ledger |-> LedgerAt(f, t), snapshots |-> f.snapshots,
                               valuations |-> f.valuations, asOf |-> t])
           exact == \A a \in BankAccounts(f) : \E r \in EvidenceOf(h.bank, a) : Exact(r)
           none == \E a \in BankAccounts(f) : EvidenceOf(h.bank, a) = {}
<1>1. LiquidBalanceQuality(h, f, t)
        = IF ~ HasBankEvidence(h.bank) THEN h.context.quality.liquidBalance
          ELSE IF cash.status = "complete" /\ exact THEN "complete"
          ELSE IF cash.status = "unavailable" \/ none THEN "unavailable" ELSE "partial"
  BY Zenon DEF LiquidBalanceQuality, BalanceQualityOf
<1> HIDE DEF cash, exact, none
<1>2. exact
  BY <1>1
<1> QED
  BY <1>2 DEF exact

(***************************************************************************)
(* What is trusted rests on evidence.                                      *)
(***************************************************************************)
LEMMA TrustedMeans ==
    ASSUME IInv, Trusted, NEW f, f = FactsOf(Household)
    PROVE  /\ profile # NoProfile
           /\ CashAt(f, now).status = "complete"
           /\ CurrentOf(Household, now).quality.liquidBalance = "complete"
           /\ CurrentOf(Household, now).quality.classification = "complete"
           /\ ActiveAt(f, now).ambiguities = {}
           /\ \A r \in ActiveAt(f, now).reconciliations : ~ r.material
<1> DEFINE h == Household
           ctx == CurrentOf(h, now)
<1>1. report = EvaluationOf(h, now) /\ report # NotEvaluated /\ ~ report.throws
      /\ report.readiness.kind = "complete"
  BY DEF IInv, Latest, Trusted
<1>2. PICK c, policy : /\ c = Checkpoint(f, ctx, now, DateOf(now), policy)
                       /\ report.readiness = c.readiness
  BY <1>1, ReportSays
<1>3. CanRun(h, now) /\ h.profile = profile
  BY <1>1, ReportSays DEF Household
<1> HIDE DEF h, ctx
<1>4. c.cash = CashAt(f, now)
      /\ \E k : /\ k.context = ctx /\ k.active = ActiveAt(f, now) /\ k.cash = c.cash
                /\ c.readiness = ReadyAs(k)
  BY <1>2, CheckpointFinds
<1>5. PICK k : /\ k.context = ctx /\ k.active = ActiveAt(f, now) /\ k.cash = c.cash
               /\ c.readiness = ReadyAs(k)
  BY <1>4
<1>6. /\ k.cash.status = "complete"
      /\ k.context.quality.liquidBalance = "complete"
      /\ k.context.quality.classification = "complete"
      /\ k.active.ambiguities = {}
      /\ \A r \in k.active.reconciliations : ~ r.material
  <2>1. ReadyAs(k).kind = "complete"
    BY <1>1, <1>2, <1>5
  <2> QED
    BY <2>1, ReadyMeans
<1>7. profile # NoProfile
  BY <1>3 DEF CanRun
<1> QED
  BY <1>4, <1>5, <1>6, <1>7 DEF ctx, h

(***************************************************************************)
(* The history of a run reaches back to where the facts count, and         *)
(* without an interval of the bank its classification is not complete.     *)
(***************************************************************************)
LEMMA HistoryReaches ==
    ASSUME IInv, profile # NoProfile, NEW covered, covered = CoveredOf(Household, now)
    PROVE  /\ DOMAIN covered = ContextNames /\ DOMAIN covered.quality = QualityNames
           /\ bank.coverage = << >> => covered.quality.classification # "complete"
           /\ bank.coverage # << >> => /\ covered.historyCoverage.start \in Int /\ Since \in Int
                                       /\ covered.historyCoverage.start <= Since
<1> DEFINE h == Household
           c == ContextAtBoundary(h, now)
           since == UtcStart(bank.coverage[Len(bank.coverage)].from)
<1>1. h.profile = profile /\ h.context = context /\ h.bank = bank
  BY DEF Household
<1>2. /\ StoredContext(context) /\ profile.boundary \in Int
      /\ bank.coverage \in Seq([from : Int, through : Int]) /\ now \in Int
  BY DEF IInv, Backed, StoredPlans, StoredBank, Consistent, Clocked
<1> HIDE DEF h
<1>3. /\ DOMAIN c = ContextNames /\ DOMAIN c.quality = QualityNames
      /\ c.quality = context.quality
      /\ c.historyCoverage.start = IF Bounded(h) THEN profile.boundary
                                   ELSE context.historyCoverage.start
      /\ c.historyCoverage.start \in Int
  BY <1>1, <1>2, BoundaryContext
<1>4. covered = CoveredByBank(c, bank.coverage)
  BY <1>1 DEF CoveredOf, h
<1> HIDE DEF c
<1>5. /\ DOMAIN covered = ContextNames /\ DOMAIN covered.quality = QualityNames
      /\ bank.coverage = << >> => covered = c
      /\ bank.coverage # << >> => /\ covered.historyCoverage.start \in Int
                                  /\ Larger(c.historyCoverage.start, since) \in Int
                                  /\ covered.historyCoverage.start
                                       <= Larger(c.historyCoverage.start, since)
  BY <1>2, <1>3, <1>4, CoverageNarrows
<1>6. Since = Larger(c.historyCoverage.start, since)
  <2>1. Bounded(h) <=> Boundary # NoBoundary
    BY <1>1 DEF Bounded, Boundary
  <2>2. c.historyCoverage.start = IF Boundary = NoBoundary THEN context.historyCoverage.start
                                  ELSE Boundary
    BY <1>3, <2>1 DEF Boundary
  <2> HIDE DEF since
  <2> QED
    BY <2>2, Zenon DEF Since, since
<1>7. context.quality.classification # "complete"
  BY <1>2 DEF StoredContext
<1> HIDE DEF since
<1> QED
  BY <1>3, <1>5, <1>6, <1>7

(***************************************************************************)
(* The invariant of a household is enough for the evidence.                *)
(***************************************************************************)
LEMMA EvidenceFollows == IInv => SafeAmountIsEvidenced
<1> SUFFICES ASSUME IInv, Trusted
             PROVE  /\ \A a \in BankAccounts(facts) :
                          /\ \E s \in facts.snapshots :
                                s.account = a.id /\ s.asOf <= now /\ ~ (now > s.staleAt)
                          /\ \A r \in bank.reconciliations : r.account = a.id => r.difference = 0
                    /\ \A x \in facts.transactions :
                          ExternalFlow(x) /\ Since <= x.at /\ x.at <= now =>
                            \E g \in FlowsOf(x.id) : Spending(g) => Described(g)
                    /\ \A a \in facts.ambiguities : ~ (a.at >= Boundary /\ a.at <= now)
                    /\ \A r \in facts.reconciliations :
                          r.material /\ r.at <= now => \E y \in facts.resolutions : y.of = r.id
  BY Zenon DEF SafeAmountIsEvidenced
<1> DEFINE h == Household
           f == FactsOf(h)
           covered == CoveredOf(h, now)
<1>1. /\ f.accounts = facts.accounts /\ f.transactions = facts.transactions
      /\ f.snapshots = facts.snapshots /\ f.reconciliations = facts.reconciliations
      /\ f.resolutions = facts.resolutions
  BY BoundaryKeepsReserves DEF IInv, Consistent
<1>2. /\ f.flows \subseteq facts.flows /\ f.observations \subseteq facts.observations
      /\ \A a \in facts.ambiguities :
            Bounded(h) => (a.at >= profile.boundary => a \in f.ambiguities)
      /\ ~ Bounded(h) => f.ambiguities = facts.ambiguities
  BY BoundaryLeavesSome DEF IInv, Consistent
<1>3. /\ profile # NoProfile
      /\ CashAt(f, now).status = "complete"
      /\ CurrentOf(h, now).quality.liquidBalance = "complete"
      /\ CurrentOf(h, now).quality.classification = "complete"
      /\ ActiveAt(f, now).ambiguities = {}
      /\ \A r \in ActiveAt(f, now).reconciliations : ~ r.material
  BY TrustedMeans
<1>4. /\ DOMAIN covered = ContextNames /\ DOMAIN covered.quality = QualityNames
      /\ bank.coverage = << >> => covered.quality.classification # "complete"
      /\ bank.coverage # << >> => /\ covered.historyCoverage.start \in Int /\ Since \in Int
                                  /\ covered.historyCoverage.start <= Since
  BY <1>3, HistoryReaches
<1>5. PICK months : /\ LiquidBalanceQuality(h, f, now) = "complete"
                    /\ ClassificationQuality(h, f, covered, now, months) = "complete"
  BY <1>3, <1>4, CurrentJudges
<1>6. h.bank = bank /\ h.profile = profile
  BY DEF Household
<1> HIDE DEF h, f, covered
<1>7. HasBankEvidence(bank) => bank.coverage # << >>
  BY DEF IInv, Backed, StoredBank, HasBankEvidence
<1>8. ~ HasBankEvidence(bank) => bank.coverage = << >>
  BY DEF HasBankEvidence
<1>9. /\ HasBankEvidence(bank)
      /\ \A x \in f.transactions :
            covered.historyCoverage.start <= x.at /\ x.at <= now => CompleteTransaction(f, x)
  BY <1>4, <1>5, <1>6, <1>8, ClassifiedMeans
<1>10. \A a \in BankAccounts(f) : \E r \in EvidenceOf(bank, a) : Exact(r)
  BY <1>5, <1>6, <1>9, ReconciledMeans
<1>11. ASSUME NEW a \in BankAccounts(facts)
       PROVE  /\ \E s \in facts.snapshots : s.account = a.id /\ s.asOf <= now /\ ~ (now > s.staleAt)
              /\ \A r \in bank.reconciliations : r.account = a.id => r.difference = 0
  <2>1. a \in BankAccounts(f)
    BY <1>1 DEF BankAccounts
  <2>2. \E s \in f.snapshots : s.account = a.id /\ s.asOf <= now /\ ~ (now > s.staleAt)
    BY <1>3, <2>1, CompleteCashIsCurrent
  <2>3. PICK e \in bank.reconciliations : e.account = a.id /\ e.difference = 0
    BY <1>10, <2>1 DEF EvidenceOf, Exact
  <2>4. \A r \in bank.reconciliations : r.account = a.id => r = e
    BY <2>3 DEF IInv, Backed, StoredBank, UniqueBy
  <2> QED
    BY <1>1, <2>2, <2>3, <2>4
<1>12. ASSUME NEW x \in facts.transactions, ExternalFlow(x), Since <= x.at, x.at <= now
       PROVE  \E g \in FlowsOf(x.id) : Spending(g) => Described(g)
  <2>1. x.at \in Int /\ now \in Int
    BY DEF IInv, Consistent, Clocked, Stored, StoredTransactions
  <2>2. covered.historyCoverage.start <= x.at
    <3>1. /\ covered.historyCoverage.start \in Int /\ Since \in Int
          /\ covered.historyCoverage.start <= Since
      BY <1>4, <1>7, <1>9
    <3> QED
      BY <1>12, <2>1, <3>1
  <2>3. CompleteTransaction(f, x)
    BY <1>1, <1>9, <1>12, <2>2
  <2>4. PICK g \in f.flows : /\ g.tx = x.id
                             /\ Spending(g) => \E o \in f.observations : o.flow = g.id
    BY <1>12, <2>3, Zenon DEF CompleteTransaction, ExternalFlow
  <2>5. g \in FlowsOf(x.id)
    BY <1>2, <2>4 DEF FlowsOf
  <2>6. Spending(g) => Described(g)
    BY <1>2, <2>4, Zenon DEF Described
  <2> QED
    BY <2>5, <2>6
<1>13. ASSUME NEW a \in facts.ambiguities, a.at >= Boundary, a.at <= now
       PROVE  FALSE
  <2>1. a \in f.ambiguities
    BY <1>2, <1>3, <1>6, <1>13 DEF Boundary
  <2>2. ActiveAt(f, now).ambiguities = {d \in f.ambiguities : d.at <= now}
    BY DEF ActiveAt
  <2> QED
    BY <1>3, <1>13, <2>1, <2>2
<1>14. ASSUME NEW r \in facts.reconciliations, r.material, r.at <= now
       PROVE  \E y \in facts.resolutions : y.of = r.id
  <2>1. ActiveAt(f, now).reconciliations
          = {q \in f.reconciliations : q.at <= now /\ q.id \notin Resolved(f, now)}
    BY DEF ActiveAt
  <2>2. r.id \in Resolved(f, now)
    BY <1>1, <1>3, <1>14, <2>1
  <2> QED
    BY <1>1, <2>2 DEF Resolved
<1> QED
  BY <1>11, <1>12, <1>13, <1>14

(***************************************************************************)
(* An amount that is safe to invest without reservation rests on current   *)
(* and exact bank balances, on a class for every transaction the bank      *)
(* covers, and on no doubt or material variance that is left.              *)
(***************************************************************************)
THEOREM SafeIsEvidenced == Spec => []SafeAmountIsEvidenced
  BY HouseholdInvariant, EvidenceFollows, PTL

-----------------------------------------------------------------------------
(* What changes the cash *)

(***************************************************************************)
(* The worth of accounts is that of their values.                          *)
(***************************************************************************)
LEMMA WorthFollowsValues ==
    ASSUME NEW p, NEW q, NEW subtypes, Included(p) = Included(q),
           \A a \in Included(p) : AccountValue(p, a).amount = AccountValue(q, a).amount
    PROVE  Worth(p, subtypes) = Worth(q, subtypes)
<1> DEFINE S == {a \in Included(p) : a.subtype \in subtypes}
           R == {a \in Included(q) : a.subtype \in subtypes}
           F(g) == [s \in SUBSET S |-> IF s = {} THEN 0
                                       ELSE AccountValue(p, Chosen(s)).amount + g[s \ {Chosen(s)}]]
           G(g) == [s \in SUBSET S |-> IF s = {} THEN 0
                                       ELSE AccountValue(q, Chosen(s)).amount + g[s \ {Chosen(s)}]]
           f == CHOOSE g : g = [s \in SUBSET S |->
                                  IF s = {} THEN 0
                                  ELSE AccountValue(p, Chosen(s)).amount + g[s \ {Chosen(s)}]]
           h == CHOOSE g : g = [s \in SUBSET S |->
                                  IF s = {} THEN 0
                                  ELSE AccountValue(q, Chosen(s)).amount + g[s \ {Chosen(s)}]]
<1>1. R = S
  OBVIOUS
<1>2. Worth(p, subtypes) = f[S] /\ Worth(q, subtypes) = h[S]
  BY <1>1 DEF Worth, SumOver, MapThenSumSet, MapThenFoldSet, Chosen
<1>3. ASSUME NEW g PROVE F(g) = G(g)
  <2>1. \A s \in SUBSET S : s # {} => AccountValue(p, Chosen(s)).amount = AccountValue(q, Chosen(s)).amount
    BY ChosenIn
  <2>2. \A s \in SUBSET S : F(g)[s] = G(g)[s]
    BY <2>1
  <2> QED
    BY <2>2
<1>4. \A g : (g = F(g)) <=> (g = G(g))
  BY <1>3
<1>5. f = h
  <2> HIDE DEF S
  <2> QED
    BY <1>4
<1> QED
  BY <1>2, <1>5

(***************************************************************************)
(* An instant at which nothing happened changes no balance.                *)
(***************************************************************************)
LEMMA QuietInstant ==
    ASSUME NEW f, NEW g, NEW t \in Int, NEW u, u = t + 1,
           g.accounts = f.accounts, g.transactions = f.transactions,
           g.snapshots = f.snapshots, g.valuations = f.valuations,
           \A x \in f.transactions : x.at \in Int /\ x.at # u,
           StoredValues(f.snapshots, t), StoredValues(f.valuations, t),
           CashAt(f, t) # Invalid, CashAt(g, u) # Invalid
    PROVE  CashAt(g, u).value = CashAt(f, t).value
<1> DEFINE p == [ledger |-> LedgerAt(f, t), snapshots |-> f.snapshots,
                 valuations |-> f.valuations, asOf |-> t]
           q == [ledger |-> LedgerAt(g, u), snapshots |-> g.snapshots,
                 valuations |-> g.valuations, asOf |-> u]
           kinds == {"bank", "cash"}
<1>1. CashAt(f, t) = Position(p, kinds) /\ CashAt(g, u) = Position(q, kinds)
  BY Zenon DEF CashAt, LiquidCash
<1>2. \A x \in f.transactions : x.at <= u <=> x.at <= t
  OBVIOUS
<1>3. p.ledger.transactions = q.ledger.transactions /\ p.ledger.accounts = q.ledger.accounts
      /\ \A x \in p.ledger.transactions : x \in f.transactions
  BY <1>2 DEF LedgerAt
<1>4. /\ p.asOf = t /\ q.asOf = u /\ p.snapshots = f.snapshots /\ q.snapshots = f.snapshots
      /\ p.valuations = f.valuations /\ q.valuations = f.valuations
  OBVIOUS
<1> HIDE DEF p, q
<1>5. \A id : LedgerBalance(p.ledger, id, t) = LedgerBalance(q.ledger, id, u)
  <2>1. {x \in p.ledger.transactions : x.booked /\ x.at <= t}
          = {x \in q.ledger.transactions : x.booked /\ x.at <= u}
    BY <1>2, <1>3
  <2> QED
    BY <2>1 DEF LedgerBalance
<1>6. ASSUME NEW values, StoredValues(values, t), NEW id
      PROVE  LatestByAccount(values, id, t) = LatestByAccount(values, id, u)
  <2>1. Known(values, id, t) = Known(values, id, u)
    BY <1>6 DEF Known, StoredValues
  <2> QED
    BY <2>1, Zenon DEF LatestByAccount
<1>7. ASSUME NEW latest
      PROVE  /\ FromValues(latest, t).amount = FromValues(latest, u).amount
             /\ FromValues(latest, t).known = FromValues(latest, u).known
  <2>1. ASSUME NEW s PROVE /\ ValueOf(s, t).amount = ValueOf(s, u).amount
                           /\ ValueOf(s, t).known = ValueOf(s, u).known
    BY DEF ValueOf, Found, Missing
  <2> QED
    BY <2>1 DEF FromValues
<1>8. \A a : /\ AccountValue(p, a).amount = AccountValue(q, a).amount
             /\ AccountValue(p, a).known = AccountValue(q, a).known
  <2> TAKE a
  <2>1. CASE a.source = "ledger"
    BY <1>4, <1>5, <2>1 DEF AccountValue, Found
  <2>2. CASE a.source = "balance_snapshot"
    <3>1. LatestByAccount(f.snapshots, a.id, t) = LatestByAccount(f.snapshots, a.id, u)
      BY <1>6
    <3> QED
      BY <1>4, <1>7, <2>2, <3>1 DEF AccountValue
  <2>3. CASE a.source # "ledger" /\ a.source # "balance_snapshot"
    <3>1. LatestByAccount(f.valuations, a.id, t) = LatestByAccount(f.valuations, a.id, u)
      BY <1>6
    <3> QED
      BY <1>4, <1>7, <2>3, <3>1 DEF AccountValue
  <2> QED
    BY <2>1, <2>2, <2>3
<1>9. Included(p) = Included(q)
  BY <1>3 DEF Included
<1>10. Worth(p, kinds) = Worth(q, kinds)
  BY <1>8, <1>9, WorthFollowsValues
<1>11. /\ Position(p, kinds).value = IF \E a \in Included(p) : a.subtype \in kinds /\ ~ AccountValue(p, a).known
                                     THEN NoValue ELSE Worth(p, kinds)
       /\ Position(q, kinds).value = IF \E a \in Included(q) : a.subtype \in kinds /\ ~ AccountValue(q, a).known
                                     THEN NoValue ELSE Worth(q, kinds)
  <2>1. ASSUME NEW r, Position(r, kinds) # Invalid
        PROVE  Position(r, kinds).value
                 = IF \E a \in Included(r) : a.subtype \in kinds /\ ~ AccountValue(r, a).known
                   THEN NoValue ELSE Worth(r, kinds)
    BY <2>1 DEF Position, Unavailable
  <2> QED
    BY <1>1, <2>1
<1> QED
  BY <1>1, <1>8, <1>9, <1>10, <1>11

(***************************************************************************)
(* The decision boundary hides no money.                                   *)
(***************************************************************************)
LEMMA BoundaryKeepsMoney ==
    ASSUME NEW h, DOMAIN h.facts = FactNames, NEW f, f = FactsOf(h)
    PROVE  /\ f.accounts = h.facts.accounts /\ f.transactions = h.facts.transactions
           /\ f.snapshots = h.facts.snapshots /\ f.valuations = h.facts.valuations
  BY DEF FactNames, FactsOf, FactsAtBoundary

(***************************************************************************)
(* The cash a run reports is that of its facts.                            *)
(***************************************************************************)
LEMMA CashReported ==
    ASSUME NEW h, NEW t, EvaluationOf(h, t) # NotEvaluated, ~ EvaluationOf(h, t).throws
    PROVE  /\ EvaluationOf(h, t).cash = CashAt(FactsOf(h), t)
           /\ CashAt(FactsOf(h), t) # Invalid
<1> DEFINE f == FactsOf(h)
           ctx == CurrentOf(h, t)
<1>1. PICK c, policy : /\ c = Checkpoint(f, ctx, t, DateOf(t), policy)
                       /\ EvaluationOf(h, t).cash = c.cash /\ ~ c.throws
  BY ReportSays
<1> HIDE DEF ctx, f
<1>2. c.cash = CashAt(f, t) /\ (~ c.throws => c.cash # Invalid)
  BY <1>1, CheckpointFinds
<1> QED
  BY <1>1, <1>2 DEF f

(***************************************************************************)
(* The night brings another date.                                          *)
(***************************************************************************)
LEMMA TomorrowIsAnotherDay ==
    ASSUME NEW n \in Nat, NEW d \in Nat \ {0}
    PROVE  ((n \div d + 1) * d + 1) \div d # n \div d
<1> DEFINE q == n \div d
           m == (q + 1) * d + 1
<1>1. q \in Nat
  OBVIOUS
<1> HIDE DEF q
<1>2. m \in Nat /\ m = d * q + d + 1
  BY <1>1
<1> HIDE DEF m
<1>3. m \div d \in Nat /\ m % d \in 0 .. d - 1 /\ m = d * (m \div d) + (m % d)
  BY <1>2, DaysAndRest
<1>4. m \div d = q => m <= d * q + d - 1
  BY <1>1, <1>3
<1>5. m \div d # q
  BY <1>1, <1>2, <1>4
<1> QED
  BY <1>5 DEF m, q

(***************************************************************************)
(* A step that leaves the transactions leaves the accounts, and one that   *)
(* leaves the date takes an instant.                                       *)
(***************************************************************************)
LEMMA QuietStep ==
    ASSUME IInv, Next, Today' = Today, facts'.transactions = facts.transactions
    PROVE  now' = now + 1 /\ facts'.accounts = facts.accounts /\ facts'.valuations = facts.valuations
<1>1. Command
  <2>1. Command \/ NextDay
    <3>1. CASE BankNext
      BY <3>1 DEF BankNext, ImportBankMovement, ClassifyPrimarySalary, ClassifyExternalFlow, ObserveSpending
    <3>2. CASE CorrectionNext
      BY <3>2 DEF CorrectionNext, CorrectClassification, ConfirmTransfer, RejectTransfer
    <3>3. CASE CashNext
      BY <3>3 DEF CashNext, RecordCash, ReconcileCash, ResolveReconciliation, BootstrapCashAccount
    <3>4. CASE OwnerNext
      BY <3>4 DEF OwnerNext, CreateFund, AllocateManually, AllocateAutomatically, ChangeMateriality,
           ProvideEstimate, NewSettings, UpdatePlanning, BootstrapProfile, SetDecisionBoundary
    <3> QED
      BY <3>1, <3>2, <3>3, <3>4 DEF Next
  <2>2. NextDay => Today' # Today
    <3>1. now \in Nat /\ TicksPerDay \in Nat \ {0}
      BY ClockAssumption DEF IInv, Consistent, Clocked
    <3>2. NextDay => now' = (now \div TicksPerDay + 1) * TicksPerDay + 1
      BY DEF NextDay, DayStart, Today, DateOf
    <3> QED
      BY <3>1, <3>2, TomorrowIsAnotherDay DEF Today, DateOf
  <2> QED
    BY <2>1, <2>2
<1>2. OnlyAdds \/ \E m \in Movements : ImportBankMovement(m)
  BY StepsAdd DEF IInv
<1>3. SameAccounts \/ \E opening, at : BootstrapCashAccount(opening, at)
  BY StepsAdd DEF IInv
<1>4. ~ \E opening, at : BootstrapCashAccount(opening, at)
  <2> SUFFICES ASSUME NEW opening, NEW at, BootstrapCashAccount(opening, at) PROVE FALSE
    OBVIOUS
  <2> DEFINE account == [id |-> 1 + Max({0} \union {a.id : a \in facts.accounts}), subtype |-> "cash",
                         currency |-> EUR, included |-> TRUE, source |-> "ledger", cashFor |-> NoAccount]
             x == Booked(NextTx, at, "opening_balance",
                         OneEntry(NextTx, account.id, opening, "opening_balance"))
  <2>1. facts' = [facts EXCEPT !.accounts = @ \union {account}, !.transactions = @ \union {x}]
    BY Zenon DEF BootstrapCashAccount
  <2>2. x.id = NextTx
    BY DEF Booked
  <2> HIDE DEF account, x
  <2>3. x \in facts'.transactions
    BY <2>1 DEF IInv, Consistent, Stored, FactNames
  <2>4. \A y \in facts.transactions : y.id # NextTx
    BY NextTxIsNew DEF IInv, Consistent
  <2> QED
    BY <2>2, <2>3, <2>4
<1>5. facts'.valuations = facts.valuations
  <2>1. ASSUME NEW m \in Movements, ImportBankMovement(m) PROVE facts'.valuations = facts.valuations
    BY <2>1, ImportBacks DEF IInv
  <2> QED
    BY <1>2, <2>1 DEF OnlyAdds
<1> QED
  BY <1>1, <1>3, <1>4, <1>5 DEF Command, SameAccounts

(***************************************************************************)
(* A step without money leaves the cash that is reported.                  *)
(***************************************************************************)
LEMMA CashStays ==
    ASSUME IInv, IInv', [Next]_vars, BothEvaluated, Today' = Today,
           facts'.transactions = facts.transactions, facts'.snapshots = facts.snapshots,
           \A x \in facts.transactions : x.at # now'
    PROVE  report'.cash.value = report.cash.value
<1> DEFINE h == Household
           k == Household'
           f == FactsOf(h)
           g == FactsOf(k)
<1>1. CASE UNCHANGED vars
  BY <1>1 DEF vars
<1>2. CASE Next
  <2>1. now' = now + 1 /\ facts'.accounts = facts.accounts /\ facts'.valuations = facts.valuations
    BY <1>2, QuietStep
  <2>2. /\ report = EvaluationOf(h, now) /\ report # NotEvaluated /\ ~ report.throws
        /\ report' = EvaluationOf(k, now') /\ report' # NotEvaluated /\ ~ report'.throws
    BY DEF IInv, Latest, BothEvaluated
  <2>3. h.facts = facts /\ k.facts = facts' /\ DOMAIN facts = FactNames /\ DOMAIN facts' = FactNames
    BY DEF IInv, Consistent, Stored, Household
  <2> HIDE DEF h, k
  <2>4. report.cash = CashAt(f, now) /\ CashAt(f, now) # Invalid
    BY <2>2, CashReported
  <2>5. report'.cash = CashAt(g, now') /\ CashAt(g, now') # Invalid
    BY <2>2, CashReported
  <2>6. /\ f.accounts = facts.accounts /\ f.transactions = facts.transactions
        /\ f.snapshots = facts.snapshots /\ f.valuations = facts.valuations
    BY <2>3, BoundaryKeepsMoney
  <2>7. /\ g.accounts = facts.accounts /\ g.transactions = facts.transactions
        /\ g.snapshots = facts.snapshots /\ g.valuations = facts.valuations
    BY <2>1, <2>3, BoundaryKeepsMoney
  <2> HIDE DEF f, g
  <2>8. /\ now \in Int /\ \A x \in facts.transactions : x.at \in Int /\ x.at # now'
        /\ StoredValues(facts.snapshots, now) /\ StoredValues(facts.valuations, now)
    BY DEF IInv, Consistent, Clocked, Backed, Stored, StoredTransactions
  <2>9. CashAt(g, now').value = CashAt(f, now).value
    BY <2>1, <2>4, <2>5, <2>6, <2>7, <2>8, QuietInstant
  <2> QED
    BY <2>4, <2>5, <2>9
<1> QED
  BY <1>1, <1>2

(***************************************************************************)
(* Classes, doubts, plans, reserves, settings and the decision boundary    *)
(* never change how much cash there is.                                    *)
(***************************************************************************)
THEOREM OnlyMoneyMovesCash == Spec => CashFollowsMoney
<1>1. IInv /\ IInv' /\ [Next]_vars =>
        [/\ BothEvaluated /\ Today' = Today
         /\ facts'.transactions = facts.transactions /\ facts'.snapshots = facts.snapshots
         /\ \A x \in facts.transactions : x.at # now'
         => report'.cash.value = report.cash.value]_vars
  BY CashStays
<1> QED
  BY <1>1, HouseholdInvariant, PTL DEF Spec, CashFollowsMoney

-----------------------------------------------------------------------------
(* Capital created                                                         *)

(***************************************************************************)
(* The amounts of rows, and what transactions moved.                       *)
(***************************************************************************)
AmountsOf(S) == [x \in S |-> x.amount]
MovedBy(S)   == [x \in S |-> Total(x.entries)]
MovedSum(S)  == SumOver(S, LAMBDA x : Total(x.entries))
DeltasIn(S)  == [e \in S |-> AllocationDelta(e)]
DeltaSum(S)  == SumOver(S, AllocationDelta)

(***************************************************************************)
(* Amounts that are integers add up to an integer.                         *)
(***************************************************************************)
LEMMA TotalOfAmounts ==
    ASSUME NEW S, IsFiniteSet(S), \A x \in S : x.amount \in Int
    PROVE  /\ AmountsOf(S) \in [S -> Int]
           /\ Total(S) = TotalOf(AmountsOf(S), S)
           /\ Total(S) \in Int
<1> DEFINE F(g) == [s \in SUBSET S |-> IF s = {} THEN 0
                                       ELSE Chosen(s).amount + g[s \ {Chosen(s)}]]
           G(g) == [s \in SUBSET S |-> IF s = {} THEN 0
                                       ELSE AmountsOf(S)[Chosen(s)] + g[s \ {Chosen(s)}]]
           f == CHOOSE g : g = [s \in SUBSET S |->
                                  IF s = {} THEN 0
                                  ELSE Chosen(s).amount + g[s \ {Chosen(s)}]]
           h == CHOOSE g : g = [s \in SUBSET S |->
                                  IF s = {} THEN 0
                                  ELSE AmountsOf(S)[Chosen(s)] + g[s \ {Chosen(s)}]]
<1>1. Total(S) = f[S]
  BY DEF Total, SumOver, MapThenSumSet, MapThenFoldSet, Chosen
<1>2. TotalOf(AmountsOf(S), S) = h[S]
  BY DEF TotalOf, MapThenSumSet, MapThenFoldSet, Chosen
<1>3. ASSUME NEW g PROVE F(g) = G(g)
  <2>1. \A s \in SUBSET S : s # {} => AmountsOf(S)[Chosen(s)] = Chosen(s).amount
    BY ChosenIn DEF AmountsOf
  <2>2. \A s \in SUBSET S : F(g)[s] = G(g)[s]
    BY <2>1
  <2> QED
    BY <2>2
<1>4. \A g : (g = F(g)) <=> (g = G(g))
  BY <1>3
<1>5. f = h
  BY <1>4
<1> HIDE DEF f, h
<1>6. AmountsOf(S) \in [S -> Int]
  BY DEF AmountsOf
<1>7. TotalOf(AmountsOf(S), S) \in Int
  BY <1>6, TotalType
<1> QED
  BY <1>1, <1>2, <1>5, <1>6, <1>7

(***************************************************************************)
(* So does what transactions moved,                                        *)
(***************************************************************************)
LEMMA SumOfMoved ==
    ASSUME NEW S, IsFiniteSet(S), \A x \in S : Total(x.entries) \in Int
    PROVE  /\ MovedBy(S) \in [S -> Int]
           /\ MovedSum(S) = TotalOf(MovedBy(S), S)
<1> DEFINE F(g) == [s \in SUBSET S |-> IF s = {} THEN 0
                                       ELSE Total(Chosen(s).entries) + g[s \ {Chosen(s)}]]
           G(g) == [s \in SUBSET S |-> IF s = {} THEN 0
                                       ELSE MovedBy(S)[Chosen(s)] + g[s \ {Chosen(s)}]]
           f == CHOOSE g : g = [s \in SUBSET S |->
                                  IF s = {} THEN 0
                                  ELSE Total(Chosen(s).entries) + g[s \ {Chosen(s)}]]
           h == CHOOSE g : g = [s \in SUBSET S |->
                                  IF s = {} THEN 0
                                  ELSE MovedBy(S)[Chosen(s)] + g[s \ {Chosen(s)}]]
<1>1. MovedSum(S) = f[S]
  BY DEF MovedSum, SumOver, MapThenSumSet, MapThenFoldSet, Chosen
<1>2. TotalOf(MovedBy(S), S) = h[S]
  BY DEF TotalOf, MapThenSumSet, MapThenFoldSet, Chosen
<1>3. ASSUME NEW g PROVE F(g) = G(g)
  <2>1. \A s \in SUBSET S : s # {} => MovedBy(S)[Chosen(s)] = Total(Chosen(s).entries)
    BY ChosenIn DEF MovedBy
  <2>2. \A s \in SUBSET S : F(g)[s] = G(g)[s]
    BY <2>1
  <2> QED
    BY <2>2
<1>4. \A g : (g = F(g)) <=> (g = G(g))
  BY <1>3
<1>5. f = h
  BY <1>4
<1> HIDE DEF f, h
<1>6. MovedBy(S) \in [S -> Int]
  BY DEF MovedBy
<1> QED
  BY <1>1, <1>2, <1>5, <1>6

(***************************************************************************)
(* and what events changed a reserve by.                                   *)
(***************************************************************************)
LEMMA SumOfDeltas ==
    ASSUME NEW S, IsFiniteSet(S), \A e \in S : e.amount \in Int
    PROVE  /\ DeltasIn(S) \in [S -> Int] /\ DeltaSum(S) = TotalOf(DeltasIn(S), S)
           /\ DeltaSum(S) \in Int
<1> DEFINE F(g) == [s \in SUBSET S |-> IF s = {} THEN 0
                                       ELSE AllocationDelta(Chosen(s)) + g[s \ {Chosen(s)}]]
           G(g) == [s \in SUBSET S |-> IF s = {} THEN 0
                                       ELSE DeltasIn(S)[Chosen(s)] + g[s \ {Chosen(s)}]]
           f == CHOOSE g : g = [s \in SUBSET S |->
                                  IF s = {} THEN 0
                                  ELSE AllocationDelta(Chosen(s)) + g[s \ {Chosen(s)}]]
           h == CHOOSE g : g = [s \in SUBSET S |->
                                  IF s = {} THEN 0
                                  ELSE DeltasIn(S)[Chosen(s)] + g[s \ {Chosen(s)}]]
<1>1. DeltaSum(S) = f[S]
  BY DEF DeltaSum, SumOver, MapThenSumSet, MapThenFoldSet, Chosen
<1>2. TotalOf(DeltasIn(S), S) = h[S]
  BY DEF TotalOf, MapThenSumSet, MapThenFoldSet, Chosen
<1>3. ASSUME NEW g PROVE F(g) = G(g)
  <2>1. \A s \in SUBSET S : s # {} => DeltasIn(S)[Chosen(s)] = AllocationDelta(Chosen(s))
    BY ChosenIn DEF DeltasIn
  <2>2. \A s \in SUBSET S : F(g)[s] = G(g)[s]
    BY <2>1
  <2> QED
    BY <2>2
<1>4. \A g : (g = F(g)) <=> (g = G(g))
  BY <1>3
<1>5. f = h
  BY <1>4
<1> HIDE DEF f, h
<1>6. ASSUME NEW e \in S PROVE AllocationDelta(e) \in Int
  BY DEF AllocationDelta
<1>7. DeltasIn(S) \in [S -> Int]
  BY <1>6 DEF DeltasIn
<1>8. TotalOf(DeltasIn(S), S) \in Int
  BY <1>7, TotalType
<1> QED
  BY <1>1, <1>2, <1>5, <1>7, <1>8

(***************************************************************************)
(* The flows of a period, those that are no adjustments, and the external  *)
(* transactions of the period.                                             *)
(***************************************************************************)
InPeriod(c) == {f \in c.flows : PeriodContains(c.period, f.at)}
Genuine(c) == {f \in InPeriod(c) : f.kind # "cash_reconciliation_adjustment"}
OfKinds(c, kinds) == {f \in InPeriod(c) : f.kind \in kinds}
ExternalIn(c) == {x \in c.ledger.transactions : ExternalFlow(x) /\ PeriodContains(c.period, x.at)}
SignedBy(S) == [f \in S |-> SignedAmount(f)]

\* What makes an answer about capital complete.
Explained(c) ==
  /\ UniqueBy(c.ledger.transactions, LAMBDA x : x.id)
  /\ ValidFlows(c) /\ ValidAmbiguities(c)
  /\ Unclassified(c) = {} /\ AmbiguitiesIn(c) = {}
\* Rows whose amounts can be added up.
Countable(c) ==
  /\ IsFiniteSet(c.ledger.transactions) /\ IsFiniteSet(c.flows)
  /\ \A f \in c.flows : f.amount \in Int /\ f.kind \in FlowKinds

(***************************************************************************)
(* A flow has the transaction it is named after, at its instant and for    *)
(* its amount.                                                             *)
(***************************************************************************)
LEMMA FlowIsBooked ==
    ASSUME NEW c, Explained(c), NEW f \in c.flows, NEW x \in c.ledger.transactions, x.id = f.tx
    PROVE  /\ x.booked /\ x.at = f.at
           /\ f.kind # "cash_reconciliation_adjustment" => x.kind = "external_flow"
           /\ f.kind = "cash_reconciliation_adjustment" => x.kind = "valuation_adjustment"
           /\ Total(x.entries) = SignedAmount(f)
<1>1. PICK y \in c.ledger.transactions :
         /\ y.id = f.tx /\ y.booked /\ y.at = f.at
         /\ y.kind = IF f.kind = "cash_reconciliation_adjustment" THEN "valuation_adjustment"
                                                                  ELSE "external_flow"
         /\ Total(y.entries) = SignedAmount(f)
  BY DEF Explained, ValidFlows, ValidFlowTransaction
<1>2. x = y
  BY <1>1 DEF Explained, UniqueBy
<1> QED
  BY <1>1, <1>2

(***************************************************************************)
(* Without a doubt in the period, no transaction of the period is          *)
(* doubtful, and every reversal of the period is linked.                   *)
(***************************************************************************)
LEMMA NothingIsDoubted ==
    ASSUME NEW c, Explained(c)
    PROVE  /\ \A x \in ExternalIn(c) : \E f \in c.flows : f.tx = x.id
           /\ \A f \in InPeriod(c) : IsReversal(f) => f.related # Unlinked
<1>1. ASSUME NEW a \in c.ambiguities, NEW x \in c.ledger.transactions, x.id = a.tx,
             PeriodContains(c.period, x.at)
      PROVE  FALSE
  <2>1. PICK y \in c.ledger.transactions : y.id = a.tx /\ y.at = a.at
    BY Zenon DEF Explained, ValidAmbiguities, ValidAmbiguity
  <2>2. y = x
    BY <1>1, <2>1 DEF Explained, UniqueBy
  <2>3. a \in AmbiguitiesIn(c)
    BY <1>1, <2>1, <2>2 DEF AmbiguitiesIn
  <2> QED
    BY <2>3 DEF Explained
<1>2. ASSUME NEW x \in ExternalIn(c)
      PROVE  \E f \in c.flows : f.tx = x.id
  <2>1. x \in c.ledger.transactions /\ ExternalFlow(x) /\ PeriodContains(c.period, x.at)
    BY DEF ExternalIn
  <2>2. \A a \in c.ambiguities : a.tx # x.id
    BY <1>1, <2>1
  <2>3. x \notin Unclassified(c)
    BY DEF Explained
  <2> QED
    BY <2>1, <2>2, <2>3 DEF Unclassified, ExternalFlow
<1>3. ASSUME NEW f \in InPeriod(c), IsReversal(f), f.related = Unlinked
      PROVE  FALSE
  <2>1. f \in c.flows /\ PeriodContains(c.period, f.at)
    BY DEF InPeriod
  <2>2. PICK a \in c.ambiguities : a.tx = f.tx
    BY <1>3, <2>1, Zenon DEF Explained, ValidAmbiguities
  <2>3. PICK x \in c.ledger.transactions : x.id = f.tx /\ x.at = f.at
    BY <2>1 DEF Explained, ValidFlows, ValidFlowTransaction
  <2> QED
    BY <1>1, <2>1, <2>2, <2>3
<1> QED
  BY <1>2, <1>3

(***************************************************************************)
(* The classified flows of the period are its external transactions: what  *)
(* the former change together the latter moved.                            *)
(***************************************************************************)
LEMMA FlowsAreTransactions ==
    ASSUME NEW c, Explained(c), Countable(c)
    PROVE  /\ IsFiniteSet(Genuine(c))
           /\ SignedBy(Genuine(c)) \in [Genuine(c) -> Int]
           /\ MovedSum(ExternalIn(c)) = TotalOf(SignedBy(Genuine(c)), Genuine(c))
<1>1. PICK G : G = Genuine(c)
  OBVIOUS
<1>2. PICK X : X = ExternalIn(c)
  OBVIOUS
<1>3. PICK m : m = [f \in G |-> CHOOSE x \in c.ledger.transactions : x.id = f.tx]
  OBVIOUS
<1>4. \A f \in G : /\ f \in c.flows /\ PeriodContains(c.period, f.at)
                   /\ f.kind # "cash_reconciliation_adjustment"
                   /\ f.amount \in Int
  BY <1>1 DEF Genuine, InPeriod, Countable
<1>5. IsFiniteSet(G) /\ IsFiniteSet(X)
  <2>1. G \subseteq c.flows /\ X \subseteq c.ledger.transactions
    BY <1>2, <1>4 DEF ExternalIn
  <2> QED
    BY <2>1, FS_Subset DEF Countable
<1>6. ASSUME NEW f \in G
      PROVE  m[f] \in X /\ m[f].id = f.tx /\ Total(m[f].entries) = SignedAmount(f)
  <2>1. \E x \in c.ledger.transactions : x.id = f.tx
    BY <1>4 DEF Explained, ValidFlows, ValidFlowTransaction
  <2>2. m[f] \in c.ledger.transactions /\ m[f].id = f.tx
    BY <1>3, <2>1
  <2>3. m[f].booked /\ m[f].at = f.at /\ m[f].kind = "external_flow"
        /\ Total(m[f].entries) = SignedAmount(f)
    BY <1>4, <2>2, FlowIsBooked
  <2>4. m[f] \in X
    BY <1>2, <1>4, <2>2, <2>3 DEF ExternalIn, ExternalFlow
  <2> QED
    BY <2>2, <2>3, <2>4
<1>7. m \in [G -> X]
  BY <1>3, <1>6
<1>8. \A f, g \in G : m[f] = m[g] => f = g
  <2> SUFFICES ASSUME NEW f \in G, NEW g \in G, m[f] = m[g] PROVE f = g
    OBVIOUS
  <2>1. f.tx = g.tx
    BY <1>6
  <2> QED
    BY <1>4, <2>1 DEF Explained, ValidFlows, UniqueBy
<1>9. \A x \in X : \E f \in G : m[f] = x
  <2> SUFFICES ASSUME NEW x \in X PROVE \E f \in G : m[f] = x
    OBVIOUS
  <2>1. x \in c.ledger.transactions /\ ExternalFlow(x) /\ PeriodContains(c.period, x.at)
    BY <1>2 DEF ExternalIn
  <2>2. PICK f \in c.flows : f.tx = x.id
    BY <1>2, NothingIsDoubted
  <2>3. x.at = f.at /\ f.kind # "cash_reconciliation_adjustment"
    BY <2>1, <2>2, FlowIsBooked DEF ExternalFlow
  <2>4. f \in G
    BY <1>1, <2>1, <2>2, <2>3 DEF Genuine, InPeriod
  <2>5. m[f] = x
    <3>1. m[f].id = x.id /\ m[f] \in c.ledger.transactions
      BY <1>2, <1>6, <2>2, <2>4 DEF ExternalIn
    <3> QED
      BY <2>1, <3>1 DEF Explained, UniqueBy
  <2> QED
    BY <2>4, <2>5
<1>10. SignedBy(G) \in [G -> Int] /\ \A f \in G : SignedBy(G)[f] = SignedAmount(f)
  BY <1>4 DEF SignedBy, SignedAmount
<1>11. \A x \in X : Total(x.entries) \in Int
  <2> SUFFICES ASSUME NEW x \in X PROVE Total(x.entries) \in Int
    OBVIOUS
  <2>1. PICK f \in G : m[f] = x
    BY <1>9
  <2>2. Total(x.entries) = SignedBy(G)[f]
    BY <1>6, <1>10, <2>1
  <2> QED
    BY <1>10, <2>2
<1>12. MovedBy(X) \in [X -> Int] /\ MovedSum(X) = TotalOf(MovedBy(X), X)
  BY <1>5, <1>11, SumOfMoved
<1>13. \A f \in G : SignedBy(G)[f] = MovedBy(X)[m[f]]
  BY <1>6, <1>10 DEF MovedBy
<1>14. TotalOf(SignedBy(G), G) = TotalOf(MovedBy(X), X)
  BY <1>5, <1>7, <1>8, <1>9, <1>10, <1>12, <1>13, TotalMoves
<1> QED
  BY <1>1, <1>2, <1>5, <1>10, <1>12, <1>14

(***************************************************************************)
(* Flows of one class change what their amounts add up to, and consumption *)
(* the opposite.                                                           *)
(***************************************************************************)
LEMMA ClassTotal ==
    ASSUME NEW c, Countable(c), NEW kinds, NEW K, K = OfKinds(c, kinds)
    PROVE  /\ IsFiniteSet(K) /\ Total(K) \in Int
           /\ SignedBy(K) \in [K -> Int]
           /\ "consumption" \notin kinds => TotalOf(SignedBy(K), K) = Total(K)
           /\ kinds = {"consumption"} => TotalOf(SignedBy(K), K) = - Total(K)
<1>1. \A f \in K : f \in c.flows /\ f.kind \in kinds /\ f.amount \in Int
  BY DEF OfKinds, InPeriod, Countable
<1>2. IsFiniteSet(K)
  <2>1. K \subseteq c.flows
    BY <1>1
  <2> QED
    BY <2>1, FS_Subset DEF Countable
<1>3. AmountsOf(K) \in [K -> Int] /\ Total(K) = TotalOf(AmountsOf(K), K) /\ Total(K) \in Int
  BY <1>1, <1>2, TotalOfAmounts
<1>4. SignedBy(K) \in [K -> Int] /\ \A f \in K : SignedBy(K)[f] = SignedAmount(f)
  BY <1>1 DEF SignedBy, SignedAmount
<1>5. \A f \in K : AmountsOf(K)[f] = f.amount
  BY DEF AmountsOf
<1>6. ASSUME "consumption" \notin kinds PROVE TotalOf(SignedBy(K), K) = Total(K)
  <2>1. \A f \in K : SignedBy(K)[f] = AmountsOf(K)[f]
    BY <1>1, <1>4, <1>5, <1>6 DEF SignedAmount
  <2> QED
    BY <1>2, <1>3, <1>4, <2>1, TotalSame
<1>7. ASSUME kinds = {"consumption"} PROVE TotalOf(SignedBy(K), K) = - Total(K)
  <2>1. \A f \in K : SignedBy(K)[f] = - AmountsOf(K)[f]
    BY <1>1, <1>4, <1>5, <1>7 DEF SignedAmount
  <2> QED
    BY <1>2, <1>3, <1>4, <2>1, TotalNegated
<1> QED
  BY <1>2, <1>3, <1>4, <1>6, <1>7

(***************************************************************************)
(* What two classes without a flow in common change together.              *)
(***************************************************************************)
LEMMA ClassesTogether ==
    ASSUME NEW A, NEW B, IsFiniteSet(A), IsFiniteSet(B), A \cap B = {},
           SignedBy(A) \in [A -> Int], SignedBy(B) \in [B -> Int]
    PROVE  /\ IsFiniteSet(A \cup B) /\ SignedBy(A \cup B) \in [A \cup B -> Int]
           /\ TotalOf(SignedBy(A \cup B), A \cup B)
                = TotalOf(SignedBy(A), A) + TotalOf(SignedBy(B), B)
<1>1. PICK f : f = SignedBy(A \cup B)
  OBVIOUS
<1>2. \A x \in A : SignedAmount(x) \in Int
  <2> TAKE x \in A
  <2>1. SignedBy(A)[x] = SignedAmount(x)
    BY DEF SignedBy
  <2> QED
    BY <2>1
<1>3. \A x \in B : SignedAmount(x) \in Int
  <2> TAKE x \in B
  <2>1. SignedBy(B)[x] = SignedAmount(x)
    BY DEF SignedBy
  <2> QED
    BY <2>1
<1>4. f \in [A \cup B -> Int]
  BY <1>1, <1>2, <1>3 DEF SignedBy
<1>5. Part(f, A) = SignedBy(A) /\ Part(f, B) = SignedBy(B)
  BY <1>1 DEF Part, SignedBy
<1>6. TotalOf(f, A \cup B) = TotalOf(Part(f, A), A) + TotalOf(Part(f, B), B)
  BY <1>4, TotalSplits
<1>7. IsFiniteSet(A \cup B)
  BY FS_Union
<1> QED
  BY <1>1, <1>4, <1>5, <1>6, <1>7

(***************************************************************************)
(* Income, less what was spent and not returned, and what came otherwise   *)
(* is what the transactions moved.                                         *)
(***************************************************************************)
LEMMA ClassesExplain ==
    ASSUME NEW c, Explained(c), Countable(c)
    PROVE  /\ FlowTotal(c, {"earned_income"}) \in Int /\ FlowTotal(c, {"consumption"}) \in Int
           /\ FlowTotal(c, {"refund", "reimbursement"}) \in Int
           /\ FlowTotal(c, {"other_external_flow"}) \in Int
           /\ MovedSum(ExternalIn(c))
                = FlowTotal(c, {"earned_income"}) - FlowTotal(c, {"consumption"})
                  + FlowTotal(c, {"refund", "reimbursement"})
                  + FlowTotal(c, {"other_external_flow"})
<1> DEFINE I == OfKinds(c, {"earned_income"})
           S == OfKinds(c, {"consumption"})
           R == OfKinds(c, {"refund", "reimbursement"})
           O == OfKinds(c, {"other_external_flow"})
<1>1. ASSUME NEW kinds PROVE FlowTotal(c, kinds) = Total(OfKinds(c, kinds))
  <2>1. OfKinds(c, kinds) = {f \in c.flows : /\ PeriodContains(c.period, f.at) /\ f.kind \in kinds
                                             /\ IsReversal(f) => f.related # Unlinked}
    <3>1. \A f \in InPeriod(c) : IsReversal(f) => f.related # Unlinked
      BY NothingIsDoubted
    <3> QED
      BY <3>1, Zenon DEF OfKinds, InPeriod
  <2> QED
    BY <2>1, Zenon DEF FlowTotal, Total
<1>2. \A f \in Genuine(c) : f.kind \in FlowKinds \ {"cash_reconciliation_adjustment"}
  BY DEF Genuine, InPeriod, Countable
<1>3. Genuine(c) = ((I \cup S) \cup R) \cup O
  BY <1>2 DEF Genuine, OfKinds, FlowKinds
<1>4. I \cap S = {} /\ (I \cup S) \cap R = {} /\ ((I \cup S) \cup R) \cap O = {}
  BY DEF OfKinds
<1>5. /\ IsFiniteSet(I) /\ Total(I) \in Int /\ SignedBy(I) \in [I -> Int]
      /\ TotalOf(SignedBy(I), I) = Total(I)
  <2> HIDE DEF I
  <2>1. I = OfKinds(c, {"earned_income"}) /\ "consumption" \notin {"earned_income"}
    BY DEF I
  <2> QED
    BY <2>1, ClassTotal
<1>6. /\ IsFiniteSet(S) /\ Total(S) \in Int /\ SignedBy(S) \in [S -> Int]
      /\ TotalOf(SignedBy(S), S) = - Total(S)
  <2> HIDE DEF S
  <2>1. S = OfKinds(c, {"consumption"})
    BY DEF S
  <2> QED
    BY <2>1, ClassTotal
<1>7. /\ IsFiniteSet(R) /\ Total(R) \in Int /\ SignedBy(R) \in [R -> Int]
      /\ TotalOf(SignedBy(R), R) = Total(R)
  <2> HIDE DEF R
  <2>1. R = OfKinds(c, {"refund", "reimbursement"}) /\ "consumption" \notin {"refund", "reimbursement"}
    BY DEF R
  <2> QED
    BY <2>1, ClassTotal
<1>8. /\ IsFiniteSet(O) /\ Total(O) \in Int /\ SignedBy(O) \in [O -> Int]
      /\ TotalOf(SignedBy(O), O) = Total(O)
  <2> HIDE DEF O
  <2>1. O = OfKinds(c, {"other_external_flow"}) /\ "consumption" \notin {"other_external_flow"}
    BY DEF O
  <2> QED
    BY <2>1, ClassTotal
<1>9. /\ FlowTotal(c, {"earned_income"}) = Total(I) /\ FlowTotal(c, {"consumption"}) = Total(S)
      /\ FlowTotal(c, {"refund", "reimbursement"}) = Total(R)
      /\ FlowTotal(c, {"other_external_flow"}) = Total(O)
  BY <1>1
<1> HIDE DEF I, S, R, O
<1>10. PICK IS : IS = I \cup S
  OBVIOUS
<1>11. PICK ISR : ISR = IS \cup R
  OBVIOUS
<1>12. /\ IsFiniteSet(IS) /\ SignedBy(IS) \in [IS -> Int]
       /\ TotalOf(SignedBy(IS), IS) = TotalOf(SignedBy(I), I) + TotalOf(SignedBy(S), S)
  BY <1>4, <1>5, <1>6, <1>10, ClassesTogether
<1>13. /\ IsFiniteSet(ISR) /\ SignedBy(ISR) \in [ISR -> Int]
       /\ TotalOf(SignedBy(ISR), ISR) = TotalOf(SignedBy(IS), IS) + TotalOf(SignedBy(R), R)
  BY <1>4, <1>7, <1>10, <1>11, <1>12, ClassesTogether
<1>14. TotalOf(SignedBy(ISR \cup O), ISR \cup O)
         = TotalOf(SignedBy(ISR), ISR) + TotalOf(SignedBy(O), O)
  BY <1>4, <1>8, <1>10, <1>11, <1>13, ClassesTogether
<1>15. MovedSum(ExternalIn(c)) = TotalOf(SignedBy(ISR \cup O), ISR \cup O)
  <2>1. Genuine(c) = ISR \cup O
    BY <1>3, <1>10, <1>11
  <2>2. MovedSum(ExternalIn(c)) = TotalOf(SignedBy(Genuine(c)), Genuine(c))
    BY FlowsAreTransactions
  <2> QED
    BY <2>1, <2>2
<1> QED
  BY <1>5, <1>6, <1>7, <1>8, <1>9, <1>12, <1>13, <1>14, <1>15

(***************************************************************************)
(* The reserves changed by an amount, if it is known.                      *)
(***************************************************************************)
LEMMA ReserveIsAnAmount ==
    ASSUME NEW h, IsFiniteSet(h.allocations), NEW period,
           ReservationEffect(h, period).value # NoValue
    PROVE  ReservationEffect(h, period).value \in Int
<1> DEFINE events == {e \in h.allocations : PeriodContains(period, e.at)}
           change == SumOver(events, AllocationDelta)
           covered == h.coverage.start <= period.start /\ period.end <= h.coverage.end
<1>1. ReservationEffect(h, period)
        = IF period.end > h.asOf THEN Invalid
          ELSE OnHistory(h, IF covered THEN Complete(change) ELSE Unavailable)
  BY Zenon DEF ReservationEffect
<1> HIDE DEF change, covered
<1>2. HistoryStatus(h) # "invalid" /\ ReservationEffect(h, period).value = change
  BY <1>1 DEF OnHistory, IfComplete, Invalid, Unavailable, Complete
<1>3. \A e \in h.allocations : e.amount \in Nat
  BY <1>2 DEF HistoryStatus, ValidEventsOfFunds, ValidAllocation
<1>4. IsFiniteSet(events) /\ \A e \in events : e.amount \in Int
  <2>1. events \subseteq h.allocations
    OBVIOUS
  <2> QED
    BY <1>3, <2>1, FS_Subset
<1> HIDE DEF events
<1>5. DeltaSum(events) \in Int
  BY <1>4, SumOfDeltas
<1>6. DeltaSum(events) = change
  BY Zenon DEF DeltaSum, change
<1> QED
  BY <1>2, <1>5, <1>6

(***************************************************************************)
(* A complete answer about capital explains what the transactions moved.   *)
(***************************************************************************)
LEMMA CapitalExplains ==
    ASSUME NEW c, Countable(c), IsFiniteSet(c.reserve.allocations),
           NEW answer, answer = CalculateCapitalCreated(c), answer.status = "complete"
    PROVE  answer.value.capitalCreated + answer.value.reserveChange + answer.value.otherExternal
             = MovedSum(ExternalIn(c))
<1>1. PICK reserved : reserved = ReserveChange(c)
  OBVIOUS
<1>2. answer = CapitalFrom(c, reserved)
  BY <1>1, Zenon DEF CalculateCapitalCreated
<1>3. ValidCapitalInputs(c, reserved) /\ answer = OfQuality(Quality(c, reserved), CapitalBreakdown(c, reserved))
  BY <1>2 DEF CapitalFrom, Invalid
<1>4. Quality(c, reserved) = "complete" /\ answer.value = CapitalBreakdown(c, reserved)
  BY <1>3 DEF OfQuality, Partial, Complete, Unavailable
<1>5. reserved.value # NoValue /\ Unclassified(c) = {} /\ AmbiguitiesIn(c) = {}
  BY <1>4, Zenon DEF Quality
<1>6. Explained(c)
  BY <1>3, <1>5 DEF Explained, ValidCapitalInputs, ValidLedger
<1>7. reserved.value \in Int
  <2>1. PICK h : h = [c.reserve EXCEPT !.flows = c.flows]
    OBVIOUS
  <2>2. h.allocations = c.reserve.allocations
    BY <2>1
  <2>3. reserved = ReservationEffect(h, c.period)
    BY <1>1, <2>1, Zenon DEF ReserveChange
  <2> QED
    BY <1>5, <2>2, <2>3, ReserveIsAnAmount
<1> DEFINE income == FlowTotal(c, {"earned_income"})
           spent == FlowTotal(c, {"consumption"})
           back == FlowTotal(c, {"refund", "reimbursement"})
           other == FlowTotal(c, {"other_external_flow"})
<1>8. /\ answer.value.capitalCreated = income - (spent - back) - reserved.value
      /\ answer.value.reserveChange = reserved.value
      /\ answer.value.otherExternal = other
  BY <1>4, <1>5 DEF CapitalBreakdown, BreakdownOf
<1>9. /\ income \in Int /\ spent \in Int /\ back \in Int /\ other \in Int
      /\ MovedSum(ExternalIn(c)) = income - spent + back + other
  BY <1>6, ClassesExplain
<1> HIDE DEF income, spent, back, other
<1> QED
  BY <1>7, <1>8, <1>9

-----------------------------------------------------------------------------
(* Amounts stay numbers                                                    *)

(***************************************************************************)
(* The facts a step adds to, or takes doubts and values from, keep their   *)
(* numbers.                                                                *)
(***************************************************************************)
LEMMA SameNumbers ==
    ASSUME InNumbers(facts), facts'.transactions = facts.transactions, facts'.flows = facts.flows
    PROVE  InNumbers(facts')
  BY DEF InNumbers

(***************************************************************************)
(* One entry is a number if its amount is.                                 *)
(***************************************************************************)
LEMMA OneNumber ==
    ASSUME NEW id, NEW account, NEW amount \in Int, NEW role
    PROVE  /\ IsFiniteSet(OneEntry(id, account, amount, role))
           /\ \A e \in OneEntry(id, account, amount, role) : e.amount \in Int
<1> DEFINE e == [id |-> <<id, account>>, tx |-> id, account |-> account, amount |-> amount,
                 currency |-> EUR, role |-> role]
<1>1. OneEntry(id, account, amount, role) = {e} /\ e.amount = amount
  BY DEF OneEntry
<1> HIDE DEF e
<1>2. IsFiniteSet({e})
  BY FS_Singleton
<1> QED
  BY <1>1, <1>2

(***************************************************************************)
(* So is a booked transaction of it,                                       *)
(***************************************************************************)
LEMMA BookedNumber ==
    ASSUME NEW id, NEW at, NEW kind, NEW account, NEW amount \in Int, NEW role
    PROVE  NumberedEntries(Booked(id, at, kind, OneEntry(id, account, amount, role)))
<1> DEFINE E == OneEntry(id, account, amount, role)
<1>1. IsFiniteSet(E) /\ \A e \in E : e.amount \in Int
  BY OneNumber
<1> HIDE DEF E
<1>2. Booked(id, at, kind, E).entries = E
  BY DEF Booked
<1> QED
  BY <1>1, <1>2, Zenon DEF NumberedEntries, E

(***************************************************************************)
(* and a flow of a class.                                                  *)
(***************************************************************************)
LEMMA ClassNumber ==
    ASSUME NEW x, NEW class, class.kind \in FlowKinds, NEW amount \in Int, NEW related
    PROVE  NumberedFlow(FlowAs(x, class, amount, related))
  BY DEF NumberedFlow, FlowAs

(***************************************************************************)
(* The entry that is looked at is one of them.                             *)
(***************************************************************************)
LEMMA EntryIsNumber ==
    ASSUME Consistent, InNumbers(facts), NEW x \in facts.transactions
    PROVE  EntryOf(x) \in x.entries /\ EntryOf(x).amount \in Int
<1>1. x.entries # {}
  BY DEF Consistent, Stored, StoredTransactions, ValidTransaction
<1>2. EntryOf(x) \in x.entries
  BY <1>1 DEF EntryOf
<1> QED
  BY <1>2 DEF InNumbers, NumberedEntries

(***************************************************************************)
(* The balance of an account is a number.                                  *)
(***************************************************************************)
LEMMA BalanceIsNumber ==
    ASSUME Consistent, InNumbers(facts), NEW account, NEW at PROVE Balance(account, at) \in Int
<1> DEFINE B == {x \in facts.transactions : x.booked /\ x.at <= at}
           m == [x \in B |-> x.entries]
           S == {x.entries : x \in B}
           E == {e \in UNION S : e.account = account}
<1>1. Balance(account, at) = Total(E)
  BY DEF Balance, LedgerBalance
<1>2. IsFiniteSet(S)
  <2>1. IsFiniteSet(B)
    <3>1. B \subseteq facts.transactions /\ IsFiniteSet(facts.transactions)
      BY DEF Consistent, Stored, StoredTransactions, Named
    <3> QED
      BY <3>1, FS_Subset
  <2>2. (\A x \in B : m[x] \in S) /\ (\A z \in S : \E x \in B : m[x] = z)
    OBVIOUS
  <2> HIDE DEF B, m, S
  <2> QED
    BY <2>1, <2>2, FiniteImage
<1>3. \A T \in S : IsFiniteSet(T) /\ \A e \in T : e.amount \in Int
  BY DEF InNumbers, NumberedEntries
<1> HIDE DEF S
<1>4. IsFiniteSet(UNION S)
  BY <1>2, <1>3, FS_UNION
<1>5. E \subseteq UNION S /\ \A e \in E : e.amount \in Int
  BY <1>3
<1>6. IsFiniteSet(E)
  BY <1>4, <1>5, FS_Subset
<1> QED
  BY <1>1, <1>5, <1>6, TotalOfAmounts

(***************************************************************************)
(* What the bank books, and what its movements are called.                 *)
(***************************************************************************)
LEMMA BankNumbers ==
    ASSUME Consistent, InNumbers(facts), BankNext PROVE InNumbers(facts')
<1>0. DOMAIN facts = FactNames
  BY DEF Consistent, Stored
<1>1. ASSUME NEW m \in Movements, ImportBankMovement(m) PROVE InNumbers(facts')
  <2> DEFINE id == NextTx
             x == Booked(id, Noon(Today - m.dated), "external_flow",
                         OneEntry(id, BankAccount.id, m.amount, "external_flow"))
  <2>1. facts'.transactions = facts.transactions \union {x} /\ facts'.flows = facts.flows
    BY <1>0, <1>1 DEF ImportBankMovement, FactNames
  <2>2. NumberedEntries(x)
    BY MovementsAssumption, BookedNumber
  <2> HIDE DEF x
  <2> QED
    BY <2>1, <2>2 DEF InNumbers
<1>2. ASSUME NEW x \in facts.transactions, ClassifyPrimarySalary(x) PROVE InNumbers(facts')
  <2> DEFINE g == FlowAs(x, Salary, EntryOf(x).amount, Unlinked)
  <2>1. facts'.transactions = facts.transactions /\ facts'.flows = facts.flows \union {g}
    BY <1>0, <1>2 DEF ClassifyPrimarySalary, FactNames
  <2>2. NumberedFlow(g)
    <3>1. Salary.kind \in FlowKinds
      BY DEF Salary, FlowKinds
    <3> QED
      BY <3>1, EntryIsNumber, ClassNumber
  <2> HIDE DEF g
  <2> QED
    BY <2>1, <2>2 DEF InNumbers
<1>3. ASSUME NEW x \in facts.transactions, NEW class, NEW related,
             ClassifyExternalFlow(x, class, related)
      PROVE  InNumbers(facts')
  <2> DEFINE amount == EntryOf(x).amount
             signed == IF class.kind = "consumption" THEN -amount ELSE amount
             g == FlowAs(x, class, signed, related)
  <2>1. facts' = [facts EXCEPT
                 !.flows = @ \union {g},
                 !.ambiguities = @ \ AmbiguitiesOf(x.id, {"unclassified_external_flow"})]
    BY <1>3, Zenon DEF ClassifyExternalFlow
  <2>2. class.kind \in FlowKinds
    BY <1>3 DEF ClassifyExternalFlow, ParsesBankClass, ParsesClass, FlowKinds
  <2>3. signed \in Int
    BY EntryIsNumber
  <2> HIDE DEF signed
  <2>4. NumberedFlow(g)
    BY <2>2, <2>3, ClassNumber
  <2> HIDE DEF g
  <2>5. facts'.transactions = facts.transactions /\ facts'.flows = facts.flows \union {g}
    BY <1>0, <2>1 DEF FactNames
  <2> QED
    BY <2>4, <2>5 DEF InNumbers
<1>4. ASSUME NEW f \in facts.flows, NEW s, ObserveSpending(f, s) PROVE InNumbers(facts')
  <2>1. facts'.transactions = facts.transactions /\ facts'.flows = facts.flows
    BY <1>0, <1>4 DEF ObserveSpending, FactNames
  <2> QED
    BY <2>1, SameNumbers
<1> QED
  BY <1>1, <1>2, <1>3, <1>4 DEF BankNext

(***************************************************************************)
(* The entries of a confirmed transfer.                                    *)
(***************************************************************************)
LEMMA TransferNumbers ==
    ASSUME NEW x, "entries" \in DOMAIN x, EntryOf(x).amount \in Int, NEW to
    PROVE  NumberedEntries(Transfer(x, to))
<1> DEFINE e == EntryOf(x)
           source == IF e.amount < 0 THEN e.account ELSE to
           destination == IF e.amount < 0 THEN to ELSE e.account
           amount == Larger(e.amount, -e.amount)
           A == OneEntry(x.id, source, -amount, "transfer_source")
           B == OneEntry(x.id, destination, amount, "transfer_destination")
<1>1. Transfer(x, to) = [x EXCEPT !.kind = "internal_transfer", !.entries = A \union B]
  BY Zenon DEF Transfer
<1>2. amount \in Int /\ -amount \in Int
  BY DEF Larger
<1> HIDE DEF amount, source, destination
<1>3. /\ IsFiniteSet(A) /\ \A k \in A : k.amount \in Int
      /\ IsFiniteSet(B) /\ \A k \in B : k.amount \in Int
  BY <1>2, OneNumber
<1> HIDE DEF A, B
<1>4. Transfer(x, to).entries = A \union B
  BY <1>1
<1>5. IsFiniteSet(A \union B)
  BY <1>3, FS_Union
<1> QED
  BY <1>3, <1>4, <1>5 DEF NumberedEntries

(***************************************************************************)
(* Corrections and confirmations.                                          *)
(***************************************************************************)
LEMMA CorrectionNumbers ==
    ASSUME Consistent, InNumbers(facts), CorrectionNext PROVE InNumbers(facts')
<1>0. DOMAIN facts = FactNames
  BY DEF Consistent, Stored
<1>1. ASSUME NEW f \in facts.flows, NEW class, NEW related, CorrectClassification(f, class, related)
      PROVE  InNumbers(facts')
  <2> DEFINE g == [f EXCEPT !.kind = class.kind, !.source = class.source,
                            !.reimbursable = class.reimbursable, !.related = related]
  <2>1. facts' = [facts EXCEPT !.flows = (@ \ {f}) \union {g}]
    BY <1>1, Zenon DEF CorrectClassification
  <2>2. class.kind \in FlowKinds
    BY <1>1 DEF CorrectClassification, ParsesClass, FlowKinds
  <2>3. NumberedFlow(g)
    <3>1. NumberedFlow(f)
      BY DEF InNumbers
    <3> QED
      BY <2>2, <3>1 DEF NumberedFlow
  <2> HIDE DEF g
  <2>4. facts'.transactions = facts.transactions /\ facts'.flows = (facts.flows \ {f}) \union {g}
    BY <1>0, <2>1 DEF FactNames
  <2> QED
    BY <2>3, <2>4 DEF InNumbers
<1>2. ASSUME NEW a \in facts.ambiguities, NEW to, ConfirmTransfer(a, to) PROVE InNumbers(facts')
  <2> DEFINE x == Tx(a.tx)
             y == Transfer(x, to)
  <2>1. facts' = [facts EXCEPT !.transactions = (@ \ {x}) \union {y}, !.ambiguities = @ \ {a}]
    BY <1>2, Zenon DEF ConfirmTransfer
  <2>2. x \in facts.transactions
    <3>1. \E z \in facts.transactions : z.id = a.tx
      BY DEF Consistent, Stored, StoredAmbiguities
    <3> QED
      BY <3>1, Zenon DEF Tx
  <2> HIDE DEF x
  <2>3. NumberedEntries(y)
    <3>1. "entries" \in DOMAIN x
      BY <2>2 DEF Consistent, Stored, StoredTransactions
    <3> QED
      BY <2>2, <3>1, EntryIsNumber, TransferNumbers
  <2> HIDE DEF y
  <2>4. facts'.transactions = (facts.transactions \ {x}) \union {y} /\ facts'.flows = facts.flows
    BY <1>0, <2>1 DEF FactNames
  <2> QED
    BY <2>3, <2>4 DEF InNumbers
<1>3. ASSUME NEW a \in facts.ambiguities, RejectTransfer(a) PROVE InNumbers(facts')
  <2>1. facts'.transactions = facts.transactions /\ facts'.flows = facts.flows
    BY <1>0, <1>3 DEF RejectTransfer, FactNames
  <2> QED
    BY <2>1, SameNumbers
<1> QED
  BY <1>1, <1>2, <1>3 DEF CorrectionNext

(***************************************************************************)
(* Cash.                                                                   *)
(***************************************************************************)
LEMMA CashNumbers ==
    ASSUME Consistent, InNumbers(facts), CashNext PROVE InNumbers(facts')
<1>0. DOMAIN facts = FactNames
  BY DEF Consistent, Stored
<1>1. ASSUME NEW amount \in CashAmounts, NEW s, RecordCash(amount, s) PROVE InNumbers(facts')
  <2> DEFINE id == NextTx
             account == CHOOSE a \in CashAccounts : TRUE
             x == Booked(id, now, "external_flow", OneEntry(id, account.id, amount, "external_flow"))
             g == IF amount < 0 THEN FlowAs(x, Purchase, -amount, Unlinked)
                                ELSE FlowAs(x, OtherIncome, amount, Unlinked)
             O == IF amount < 0 THEN {ObservationAs(g, s)} ELSE {}
  <2>1. facts' = [facts EXCEPT !.transactions = @ \union {x}, !.flows = @ \union {g},
                               !.observations = @ \union O]
    BY <1>1, Zenon DEF RecordCash
  <2>2. amount \in Int /\ -amount \in Int
    BY AmountsAssumption
  <2> HIDE DEF id, account, O
  <2>3. NumberedEntries(x)
    BY <2>2, BookedNumber
  <2> HIDE DEF x
  <2>4. NumberedFlow(g)
    <3>1. Purchase.kind \in FlowKinds /\ OtherIncome.kind \in FlowKinds
      BY DEF Purchase, OtherIncome, FlowKinds
    <3>2. /\ NumberedFlow(FlowAs(x, Purchase, -amount, Unlinked))
          /\ NumberedFlow(FlowAs(x, OtherIncome, amount, Unlinked))
      BY <2>2, <3>1, ClassNumber
    <3> QED
      BY <3>2
  <2> HIDE DEF g
  <2>5. facts'.transactions = facts.transactions \union {x} /\ facts'.flows = facts.flows \union {g}
    BY <1>0, <2>1 DEF FactNames
  <2> QED
    BY <2>3, <2>4, <2>5 DEF InNumbers
<1>2. ASSUME NEW counted \in PurseCounts, ReconcileCash(counted) PROVE InNumbers(facts')
  <2> DEFINE id == NextTx
             account == CHOOSE a \in CashAccounts : TRUE
             variance == counted - Balance(account.id, now)
             x == Booked(id, now, "valuation_adjustment",
                         OneEntry(id, account.id, variance, "valuation_adjustment"))
             g == FlowAs(x, Adjustment, variance, Unlinked)
             r == [id |-> id, account |-> account.id, tx |-> id, at |-> now,
                   variance |-> variance, material |-> Material(variance)]
  <2>1. facts' = [facts EXCEPT !.transactions = @ \union {x}, !.flows = @ \union {g},
                               !.reconciliations = @ \union {r}]
    BY <1>2, Zenon DEF ReconcileCash
  <2>2. variance \in Int
    BY AmountsAssumption, BalanceIsNumber
  <2> HIDE DEF id, account, variance, r
  <2>3. NumberedEntries(x)
    BY <2>2, BookedNumber
  <2> HIDE DEF x
  <2>4. NumberedFlow(g)
    <3>1. Adjustment.kind \in FlowKinds
      BY DEF Adjustment, FlowKinds
    <3> QED
      BY <2>2, <3>1, ClassNumber
  <2> HIDE DEF g
  <2>5. facts'.transactions = facts.transactions \union {x} /\ facts'.flows = facts.flows \union {g}
    BY <1>0, <2>1 DEF FactNames
  <2> QED
    BY <2>3, <2>4, <2>5 DEF InNumbers
<1>3. ASSUME NEW r, NEW kind, NEW x, ResolveReconciliation(r, kind, x) PROVE InNumbers(facts')
  <2>1. facts'.transactions = facts.transactions /\ facts'.flows = facts.flows
    BY <1>0, <1>3 DEF ResolveReconciliation, FactNames
  <2> QED
    BY <2>1, SameNumbers
<1>4. ASSUME NEW opening \in Openings, NEW at, BootstrapCashAccount(opening, at)
      PROVE  InNumbers(facts')
  <2> DEFINE id == NextTx
             account == [id |-> 1 + Max({0} \union {a.id : a \in facts.accounts}),
                         subtype |-> "cash", currency |-> EUR, included |-> TRUE,
                         source |-> "ledger", cashFor |-> NoAccount]
             x == Booked(id, at, "opening_balance",
                         OneEntry(id, account.id, opening, "opening_balance"))
  <2>1. facts' = [facts EXCEPT !.accounts = @ \union {account}, !.transactions = @ \union {x}]
    BY <1>4, Zenon DEF BootstrapCashAccount
  <2> HIDE DEF id, account
  <2>2. NumberedEntries(x)
    BY AmountsAssumption, BookedNumber
  <2> HIDE DEF x
  <2>3. facts'.transactions = facts.transactions \union {x} /\ facts'.flows = facts.flows
    BY <1>0, <2>1 DEF FactNames
  <2> QED
    BY <2>2, <2>3 DEF InNumbers
<1> QED
  BY <1>1, <1>2, <1>3, <1>4 DEF CashNext

(***************************************************************************)
(* Every step keeps the amounts numbers.                                   *)
(***************************************************************************)
LEMMA NumbersStep == ASSUME Consistent, InNumbers(facts), Next PROVE InNumbers(facts')
<1>1. CASE OwnerNext
  <2>0. DOMAIN facts = FactNames
    BY DEF Consistent, Stored
  <2>1. facts'.transactions = facts.transactions /\ facts'.flows = facts.flows
    BY <1>1, <2>0 DEF OwnerNext, CreateFund, AllocateManually, AllocateAutomatically,
         ChangeMateriality, ProvideEstimate, NewSettings, UpdatePlanning, BootstrapProfile,
         SetDecisionBoundary, FactNames
  <2> QED
    BY <2>1, SameNumbers
<1>2. CASE NextDay
  BY <1>2 DEF NextDay
<1> QED
  BY <1>1, <1>2, BankNumbers, CorrectionNumbers, CashNumbers DEF Next

(***************************************************************************)
(* All amounts of the facts are numbers, and all flows have a class,       *)
(* whatever is booked, called, corrected, confirmed, counted or resolved.  *)
(***************************************************************************)
THEOREM AmountsAreNumbers == Spec => []InNumbers(facts)
<1>1. Init => InNumbers(facts)
  BY HouseholdsAssumption DEF Init
<1>2. IInv /\ InNumbers(facts) /\ [Next]_vars => InNumbers(facts)'
  <2> SUFFICES ASSUME IInv, InNumbers(facts), [Next]_vars PROVE InNumbers(facts')
    OBVIOUS
  <2>1. CASE Next
    BY <2>1, NumbersStep DEF IInv
  <2>2. CASE UNCHANGED vars
    BY <2>2 DEF vars, InNumbers
  <2> QED
    BY <2>1, <2>2
<1> QED
  BY <1>1, <1>2, HouseholdInvariant, PTL DEF Spec

-----------------------------------------------------------------------------
(* What a run counts                                                       *)

(***************************************************************************)
(* The period that is counted: the history of the run at a decision        *)
(* boundary, and the period of the profile without one.                    *)
(***************************************************************************)
LEMMA AssembledCounts ==
    ASSUME NEW h, NEW t
    PROVE  Assembled(h, t, DateOf(t)).ccrPeriod
             = IF Bounded(h) THEN CoveredOf(h, t).historyCoverage ELSE h.profile.ccrPeriod
<1> DEFINE today == DateOf(t)
           base == FactsOf(h)
           covered == CoveredOf(h, t)
<1>1. Assembled(h, t, DateOf(t)) = AssembledFrom(h, t, today, base, covered)
  BY Zenon DEF Assembled, CoveredOf
<1> HIDE DEF today, base, covered
<1>2. AssembledFrom(h, t, today, base, covered).ccrPeriod
        = IF Bounded(h) THEN covered.historyCoverage ELSE h.profile.ccrPeriod
  BY DEF AssembledFrom
<1> QED
  BY <1>1, <1>2, Zenon DEF covered

(***************************************************************************)
(* The capital that was created is that of the checkpoint of the run, over *)
(* this period.                                                            *)
(***************************************************************************)
LEMMA CreatedReported ==
    ASSUME NEW h, NEW t, EvaluationOf(h, t) # NotEvaluated, ~ EvaluationOf(h, t).throws
    PROVE  \E j : /\ j.facts = FactsOf(h) /\ j.now.active = ActiveAt(FactsOf(h), t)
                  /\ j.ccrPeriod = Assembled(h, t, DateOf(t)).ccrPeriod
                  /\ EvaluationOf(h, t).created
                       = CalculateCapitalCreated(CapitalInput(j, j.ccrPeriod))
<1> DEFINE i == Assembled(h, t, DateOf(t))
           r == EvaluationOf(h, t)
           s == StateOf(h, t)
<1>1. CanRun(h, t) /\ r = Summary(s)
  BY DEF EvaluationOf
<1>2. s = EvaluateOn(i, SettingsAt(i.settings, i.today))
  BY DEF StateOf, EvaluateFinancialState
<1> HIDE DEF r, s
<1>3. ~ s.throws /\ r.created = s.created
  BY <1>1 DEF Summary, r
<1> DEFINE policy == CHOOSE p \in SettingsAt(i.settings, i.today) : TRUE
           c == Checkpoint(i.facts, i.current, i.asOf, i.today, policy)
           j == Extended(i, [policy |-> policy, now |-> c])
<1>4. /\ {"throws", "created", "now", "policy"} \intersect DOMAIN i = {}
      /\ {"current", "ccrPeriod", "facts", "asOf", "today"} \subseteq DOMAIN i
      /\ i.facts = FactsOf(h) /\ i.asOf = t /\ i.today = DateOf(t)
  BY AssembledHas
<1> HIDE DEF i
<1>5. s = EvaluateNow(j)
  BY <1>2, <1>3 DEF EvaluateOn, EvaluateWith, Throws
<1>6. c.active = ActiveAt(FactsOf(h), t)
  BY <1>4, CheckpointFinds
<1> HIDE DEF c, policy
<1>7. /\ "throws" \notin DOMAIN j /\ "created" \notin DOMAIN j /\ {"now", "current"} \subseteq DOMAIN j
      /\ j.now = c /\ j.facts = i.facts /\ j.ccrPeriod = i.ccrPeriod
  BY <1>4 DEF Extended
<1> HIDE DEF j
<1>8. s.created = CalculateCapitalCreated(CapitalInput(j, j.ccrPeriod))
  BY <1>3, <1>5, <1>7, EvaluationKeeps
<1> QED
  BY <1>3, <1>4, <1>6, <1>7, <1>8 DEF r, i

(***************************************************************************)
(* The input of that calculation: the transactions of the facts, and flows *)
(* that can be added up.                                                   *)
(***************************************************************************)
LEMMA CapitalIsCountable ==
    ASSUME Stored(facts), InNumbers(facts), NEW f, f = FactsOf(Household), NEW t,
           NEW j, j.facts = f, j.now.active = ActiveAt(f, t), NEW period,
           NEW c, c = CapitalInput(j, period)
    PROVE  /\ Countable(c) /\ IsFiniteSet(c.reserve.allocations)
           /\ c.ledger.transactions = facts.transactions /\ c.period = period
<1> DEFINE active == ActiveAt(f, t)
<1>1. f.transactions = facts.transactions /\ f.allocations = facts.allocations
  BY BoundaryKeepsReserves
<1>2. f.flows \subseteq facts.flows
  BY BoundaryLeavesSome
<1>3. active.flows \subseteq f.flows /\ active.allocations \subseteq f.allocations
  BY DEF ActiveAt
<1> HIDE DEF active
<1>4. /\ c.ledger.transactions = facts.transactions /\ c.period = period
      /\ c.flows = active.flows /\ c.reserve.allocations = active.allocations
  BY <1>1 DEF CapitalInput, HistoryOf, active
<1>5. IsFiniteSet(facts.transactions) /\ IsFiniteSet(facts.allocations)
  BY DEF Stored, StoredTransactions, Named
<1>6. IsFiniteSet(c.reserve.allocations)
  <2>1. c.reserve.allocations \subseteq facts.allocations
    BY <1>1, <1>3, <1>4
  <2> QED
    BY <1>5, <2>1, FS_Subset
<1>7. IsFiniteSet(facts.flows)
  <2> DEFINE m == [g \in facts.flows |-> CHOOSE x \in facts.transactions : x.id = g.tx]
  <2>1. \A g \in facts.flows : m[g] \in facts.transactions /\ m[g].id = g.tx
    BY DEF Stored, StoredFlows
  <2>2. \A g, h \in facts.flows : g.tx = h.tx => g = h
    BY DEF Stored, StoredFlows, UniqueBy
  <2>3. m \in Injection(facts.flows, facts.transactions)
    <3>1. m \in [facts.flows -> facts.transactions]
      BY <2>1
    <3>2. \A g, h \in facts.flows : m[g] = m[h] => g = h
      <4> HIDE DEF m
      <4> QED
        BY <2>1, <2>2
    <3> HIDE DEF m
    <3> QED
      BY <3>1, <3>2 DEF Injection, IsInjective
  <2> HIDE DEF m
  <2> QED
    BY <1>5, <2>3, FS_Injection
<1>8. IsFiniteSet(c.flows) /\ \A g \in c.flows : g.amount \in Int /\ g.kind \in FlowKinds
  <2>1. c.flows \subseteq facts.flows
    BY <1>2, <1>3, <1>4
  <2>2. IsFiniteSet(c.flows)
    BY <1>7, <2>1, FS_Subset
  <2> QED
    BY <2>1, <2>2 DEF InNumbers, NumberedFlow
<1> QED
  BY <1>4, <1>5, <1>6, <1>8 DEF Countable

(***************************************************************************)
(* The history that the bank covers.                                       *)
(***************************************************************************)
LEMMA CoverageCounts ==
    ASSUME NEW c, DOMAIN c = ContextNames, NEW coverage, coverage # << >>,
           NEW common,
           common = Period(Larger(c.historyCoverage.start, UtcStart(coverage[Len(coverage)].from)),
                           Smaller(c.historyCoverage.end, UtcStart(coverage[Len(coverage)].through + 1)))
    PROVE  CoveredByBank(c, coverage).historyCoverage
             = IF ValidPeriod(common) THEN common ELSE c.historyCoverage
<1> DEFINE last == coverage[Len(coverage)]
           from == UtcStart(last.from)
           through == UtcStart(last.through + 1)
           interval == Period(from, through)
           whole == interval.start <= c.historyCoverage.start /\ c.historyCoverage.end <= interval.end
           narrow == Period(Larger(c.historyCoverage.start, interval.start),
                            Smaller(c.historyCoverage.end, interval.end))
           covers == IF ValidPeriod(narrow) THEN narrow ELSE c.historyCoverage
<1>1. CoveredByBank(c, coverage)
        = [c EXCEPT !.historyCoverage = covers,
                    !.quality.classification = IF whole THEN @ ELSE "partial"]
  BY Zenon DEF CoveredByBank
<1> HIDE DEF from, through
<1>2. interval.start = from /\ interval.end = through
  BY DEF Period
<1>3. narrow = common
  BY <1>2 DEF from, through
<1> HIDE DEF whole, narrow, interval
<1>4. CoveredByBank(c, coverage).historyCoverage = covers
  BY <1>1 DEF ContextNames
<1> QED
  BY <1>3, <1>4

(***************************************************************************)
(* With a decision boundary a run counts the counted period.               *)
(***************************************************************************)
LEMMA RunCounts ==
    ASSUME IInv, profile # NoProfile, Boundary # NoBoundary
    PROVE  Assembled(Household, now, DateOf(now)).ccrPeriod = CountedPeriod
<1> DEFINE h == Household
           c == ContextAtBoundary(h, now)
           last == bank.coverage[Len(bank.coverage)]
           common == Period(Larger(Boundary, UtcStart(last.from)), Smaller(now, UtcStart(last.through + 1)))
<1>1. h.profile = profile /\ h.context = context /\ h.bank = bank
  BY DEF Household
<1>2. StoredContext(context) /\ Boundary = profile.boundary /\ Bounded(h)
  BY <1>1 DEF IInv, Backed, StoredPlans, Boundary, Bounded
<1> HIDE DEF h
<1>3. DOMAIN c = ContextNames /\ c.historyCoverage = Period(Boundary, now)
  BY <1>1, <1>2 DEF ContextAtBoundary, StoredContext, ContextNames, Bounded
<1>4. Assembled(h, now, DateOf(now)).ccrPeriod = CoveredByBank(c, bank.coverage).historyCoverage
  BY <1>1, <1>2, AssembledCounts DEF CoveredOf
<1> HIDE DEF c
<1>5. c.historyCoverage.start = Boundary /\ c.historyCoverage.end = now
  BY <1>3 DEF Period
<1>6. CASE bank.coverage = << >>
  <2>1. CoveredByBank(c, bank.coverage) = c
    BY <1>6 DEF CoveredByBank
  <2>2. CountedPeriod = Period(Boundary, now)
    BY <1>6, Zenon DEF CountedPeriod
  <2> QED
    BY <1>3, <1>4, <2>1, <2>2 DEF h
<1>7. CASE bank.coverage # << >>
  <2>1. CountedPeriod = IF ValidPeriod(common) THEN common ELSE Period(Boundary, now)
    BY <1>7, Zenon DEF CountedPeriod
  <2>2. CoveredByBank(c, bank.coverage).historyCoverage
          = IF ValidPeriod(common) THEN common ELSE c.historyCoverage
    BY <1>3, <1>5, <1>7, CoverageCounts
  <2> HIDE DEF common
  <2> QED
    BY <1>3, <1>4, <2>1, <2>2 DEF h
<1> QED
  BY <1>6, <1>7

(***************************************************************************)
(* The invariant is enough for the explanation.                            *)
(***************************************************************************)
LEMMA ExplanationFollows ==
    ASSUME IInv, InNumbers(facts) PROVE CapitalExplainsTheLedger
<1> SUFFICES ASSUME report # NotEvaluated, ~ report.throws,
                    report.created.status = "complete", Boundary # NoBoundary
             PROVE  report.created.value.capitalCreated + report.created.value.reserveChange
                      + report.created.value.otherExternal
                      = SumOver({x \in facts.transactions :
                                   ExternalFlow(x) /\ PeriodContains(CountedPeriod, x.at)},
                                LAMBDA x : Total(x.entries))
  BY Zenon DEF CapitalExplainsTheLedger
<1>1. report = EvaluationOf(Household, now) /\ profile # NoProfile
  <2>1. report = EvaluationOf(Household, now)
    BY DEF IInv, Latest
  <2>2. CanRun(Household, now) /\ Household.profile = profile
    BY <2>1, ReportSays DEF Household
  <2> QED
    BY <2>1, <2>2 DEF CanRun
<1>2. PICK f : f = FactsOf(Household)
  OBVIOUS
<1>3. PICK j : /\ j.facts = f /\ j.now.active = ActiveAt(f, now)
               /\ j.ccrPeriod = Assembled(Household, now, DateOf(now)).ccrPeriod
               /\ report.created = CalculateCapitalCreated(CapitalInput(j, j.ccrPeriod))
  BY <1>1, <1>2, CreatedReported
<1>4. j.ccrPeriod = CountedPeriod
  BY <1>1, <1>3, RunCounts
<1>5. PICK c : c = CapitalInput(j, CountedPeriod)
  OBVIOUS
<1>6. /\ Countable(c) /\ IsFiniteSet(c.reserve.allocations)
      /\ c.ledger.transactions = facts.transactions /\ c.period = CountedPeriod
  BY <1>2, <1>3, <1>5, CapitalIsCountable DEF IInv, Consistent
<1>7. report.created = CalculateCapitalCreated(c)
  BY <1>3, <1>4, <1>5
<1>8. report.created.value.capitalCreated + report.created.value.reserveChange
        + report.created.value.otherExternal = MovedSum(ExternalIn(c))
  BY <1>6, <1>7, CapitalExplains
<1>9. ExternalIn(c) = {x \in facts.transactions :
                         ExternalFlow(x) /\ PeriodContains(CountedPeriod, x.at)}
  BY <1>6 DEF ExternalIn
<1> QED
  BY <1>8, <1>9, Zenon DEF MovedSum

(***************************************************************************)
(* Capital created that is complete explains what the external             *)
(* transactions of the counted period moved, to the cent.                  *)
(***************************************************************************)
THEOREM CapitalIsExplained == Spec => []CapitalExplainsTheLedger
  BY HouseholdInvariant, AmountsAreNumbers, ExplanationFollows, PTL
=============================================================================
