------------------------------ MODULE PayCycles ------------------------------
(***************************************************************************)
(* Pay cycles: the time between two primary salaries.  They are derived    *)
(* from the salary transactions on every evaluation and never stored.      *)
(*   transactions  [id, at, booked, kind]         canonical transactions   *)
(*   flows         [id, tx, at, kind, source, amount]   economic flows     *)
(*   triggers      [tx, date]   the transactions marked as primary salary  *)
(*   paySchedule   [dates, through]   the expected pay dates, and how far  *)
(*                                    the schedule is known                *)
(***************************************************************************)
EXTENDS Integers, Sequences, SequencesExt, Metrics

NoTx   == 0
NoDate == 0

ValidPaySchedule(schedule) == \A d \in schedule.dates : d <= schedule.through

\* A trigger is a booked, positive primary salary with one classification at its instant.
ValidTrigger(trigger, transactions, flows) ==
  \E x \in transactions, f \in flows :
     /\ x.id = trigger.tx /\ f.tx = trigger.tx
     /\ x.booked /\ x.kind = "external_flow"
     /\ x.at = f.at
     /\ f.kind = "earned_income" /\ f.source = "salary" /\ f.amount > 0

TransactionOf(trigger, transactions) == CHOOSE x \in transactions : x.id = trigger.tx

\* The triggers that have happened, in the order of their instants, then of their ids.
Earlier(s, t, transactions) ==
  LET at(r) == TransactionOf(r, transactions).at
  IN  at(s) < at(t) \/ (at(s) = at(t) /\ s.tx < t.tx)
PlaceOf(t, happened, transactions) ==
  1 + Cardinality({s \in happened : Earlier(s, t, transactions)})
InOrder(happened, transactions) ==
  [i \in 1 .. Cardinality(happened) |->
     CHOOSE t \in happened : PlaceOf(t, happened, transactions) = i]
Eligible(triggers, transactions, asOf) ==
  InOrder({t \in triggers : TransactionOf(t, transactions).at <= asOf}, transactions)

\* createPayCycle: only a closed cycle has an end and a closing salary, and only an open one
\* an expected next pay date, which follows its start.
ValidPayCycle(c) ==
  /\ (c.status = "open") = (c.closing = NoTx)
  /\ c.status = "closed" => c.start < c.end /\ c.closing # c.id
  /\ c.status = "closed" => c.expectedNext = NoDate
  /\ c.expectedNext # NoDate => c.expectedNext > c.startDate

\* The expected date that follows a date, if the schedule has one.
NextExpected(schedule, date) ==
  LET later == {d \in schedule.dates : d > date}
  IN  IF later = {} THEN NoDate ELSE Min(later)

\* The cycle of the i-th salary, closed by the next one.
PayCycleAt(ordered, openings, schedule, i) ==
  LET closed == i < Len(ordered)
  IN  [id           |-> openings[i].id,
       start        |-> openings[i].at,
       startDate    |-> ordered[i].date,
       closing      |-> IF closed THEN openings[i + 1].id ELSE NoTx,
       end          |-> IF closed THEN openings[i + 1].at ELSE NoTx,
       expectedNext |-> IF closed THEN NoDate ELSE NextExpected(schedule, ordered[i].date),
       status       |-> IF closed THEN "closed" ELSE "open"]

CyclesBetween(ordered, openings, schedule) ==
  IF \E i \in 1 .. Len(ordered) - 1 : openings[i].at >= openings[i + 1].at
  THEN Invalid
  ELSE Complete([i \in 1 .. Len(ordered) |-> PayCycleAt(ordered, openings, schedule, i)])

CyclesOf(ordered, transactions, schedule) ==
  CyclesBetween(ordered, [i \in DOMAIN ordered |-> TransactionOf(ordered[i], transactions)], schedule)

BuildPayCycles(transactions, flows, triggers, schedule, asOf) ==
  IF /\ ValidPaySchedule(schedule)
     /\ UniqueBy(triggers, LAMBDA t : t.tx)
     /\ UniqueBy(flows, LAMBDA f : f.tx)
     /\ \A t \in triggers : ValidTrigger(t, transactions, flows)
  THEN CyclesOf(Eligible(triggers, transactions, asOf), transactions, schedule)
  ELSE Invalid

\* currentPayCycle: each cycle must end where the next one starts, and the current one is the
\* cycle that contains the instant.
NoCycle == [id |-> NoTx]
InSequence(cycles) ==
  /\ \A i \in 1 .. Len(cycles) : ValidPayCycle(cycles[i])
  /\ \A i \in 1 .. Len(cycles) - 1 : /\ cycles[i].status = "closed"
                                     /\ cycles[i].end = cycles[i + 1].start
                                     /\ cycles[i].closing = cycles[i + 1].id
CurrentPayCycle(cycles, asOf) ==
  LET current == {i \in 1 .. Len(cycles) : /\ cycles[i].start <= asOf
                                           /\ cycles[i].status = "closed" => asOf < cycles[i].end}
  IN  IF current = {} THEN NoCycle ELSE cycles[Min(current)]
==============================================================================
