------------------------ MODULE TelegramInboxProofs ------------------------
(***************************************************************************)
(* Theorems about TelegramInbox: its types, that no message is lost, that  *)
(* a command takes effect once, and that an entry is corrected once, for   *)
(* any number of workers, messages, crashes and leases outlived; that no   *)
(* reply is sent twice, and that the user is asked to send an entry again  *)
(* only if it had no effect, as long as no live worker outlives its lease. *)
(***************************************************************************)
EXTENDS TelegramInbox, SequenceTheorems, FiniteSetTheorems, TLAPS

-----------------------------------------------------------------------------
(* The parser                                                              *)

Drafts == [kind : {"none", "unknown", "cash_income", "future_expense"}, amount : Int,
           date : Int, due : Int, label : BOOLEAN]

\* Only a correction, which answers a message of the bot, has a target.
Complete(p) == p \in Proposals /\ (p.kind # "correction" => p.target = NoTarget)

Result(r) == r.draft \in Drafts /\ (r.confidence = "high" => Complete(r.proposal))

(***************************************************************************)
(* A member is chosen from a set that is not empty.                        *)
(***************************************************************************)
LEMMA Chosen == ASSUME NEW S, S # {} PROVE (CHOOSE x \in S : TRUE) \in S
  OBVIOUS

(***************************************************************************)
(* A set with one element is not empty.                                    *)
(***************************************************************************)
LEMMA OneIsSome == ASSUME NEW S, Cardinality(S) = 1 PROVE S # {}
  BY FS_EmptySet

(***************************************************************************)
(* What every result holds, by its constructor.                            *)
(***************************************************************************)
LEMMA Constructors ==
    /\ NoDraft \in Drafts
    /\ Result(Throws)
    /\ \A reason : Result(Unsupported(reason))
    /\ \A field, d : d \in Drafts => Result(Clarify(field, d))
    /\ \A p : Complete(p) => Result(High(p))
<1>1. NoDraft \in Drafts BY DEF NoDraft, Draft, Drafts, Absent
<1> HIDE DEF NoDraft
<1>2. Result(Throws) BY <1>1 DEF Throws, Result
<1>3. \A reason : Result(Unsupported(reason)) BY <1>1 DEF Unsupported, Result
<1>4. \A field, d : d \in Drafts => Result(Clarify(field, d)) BY DEF Clarify, Result
<1>5. \A p : Complete(p) => Result(High(p)) BY <1>1 DEF High, Result
<1> QED BY <1>1, <1>2, <1>3, <1>4, <1>5

(***************************************************************************)
(* The fields of a text have their types.                                  *)
(***************************************************************************)
LEMMA TextFields ==
    ASSUME NEW t \in Texts
    PROVE  /\ t.minor \in Int /\ t.day \in Int /\ t.label \in BOOLEAN
           /\ t.reply \in Messages \cup {NoTarget}
           /\ t.dates # {} => (CHOOSE d \in t.dates : TRUE) \in Int
           /\ EconomicDate(t) \in Int
           /\ IncomeSource(t) \in Details
<1>1. /\ t.minor \in Int /\ t.day \in Int /\ t.label \in BOOLEAN /\ t.dates \subseteq Int
      /\ t.reply \in Messages \cup {NoTarget}
  BY DEF Texts
<1>2. t.dates # {} => (CHOOSE d \in t.dates : TRUE) \in Int BY <1>1, Chosen
<1>3. EconomicDate(t) \in Int BY <1>1, <1>2 DEF EconomicDate
<1>4. IncomeSource(t) \in Details BY DEF IncomeSource, Details
<1> QED BY <1>1, <1>2, <1>3, <1>4

(***************************************************************************)
(* Drafts and proposals of well-typed parts.                               *)
(***************************************************************************)
LEMMA Parts ==
    /\ \A k \in {"unknown", "cash_income", "future_expense"}, a, d, e \in Int, l \in BOOLEAN :
          Draft(k, a, d, e, l) \in Drafts
    /\ \A k \in Kinds \ {"correction"}, a, d \in Int, f \in Details :
          Complete(Proposal(k, a, d, f, NoTarget))
    /\ \A a, d \in Int, f \in Details, m \in Messages \cup {NoTarget} :
          Complete(Proposal("correction", a, d, f, m))
    /\ Absent \in Int
<1>1. \A k \in {"unknown", "cash_income", "future_expense"}, a, d, e \in Int, l \in BOOLEAN :
          Draft(k, a, d, e, l) \in Drafts
  BY DEF Draft, Drafts
<1>2. \A k \in Kinds \ {"correction"}, a, d \in Int, f \in Details :
          Complete(Proposal(k, a, d, f, NoTarget))
  BY DEF Proposal, Complete, Proposals
<1>3. \A a, d \in Int, f \in Details, m \in Messages \cup {NoTarget} :
          Complete(Proposal("correction", a, d, f, m))
  BY DEF Proposal, Complete, Proposals, Kinds
<1>4. Absent \in Int BY DEF Absent
<1> QED BY <1>1, <1>2, <1>3, <1>4

(***************************************************************************)
(* A reply to a message of the bot gives a correction or nothing.          *)
(***************************************************************************)
LEMMA CorrectionResult == ASSUME NEW t \in Texts PROVE Result(Correction(t))
<1>1. CASE t.words = {"undo"} /\ t.amount = "none" /\ t.dates = {}
  <2>1. "cancel" \in Details BY DEF Details
  <2>2. Complete(Proposal("correction", Absent, Absent, "cancel", t.reply))
    BY <2>1, TextFields, Parts
  <2>3. DateStatus(t) # "throws"
    <3>1. t.dates # {Impossible} BY <1>1
    <3>2. ~ (Cardinality(t.dates) > 1)
      BY <1>1, FS_EmptySet
    <3> QED BY <3>1, <3>2 DEF DateStatus
  <2>4. Correction(t) = High(Proposal("correction", Absent, Absent, "cancel", t.reply))
    BY <1>1, <2>3 DEF Correction
  <2> QED BY <2>2, <2>4, Constructors
<1>2. CASE ~ (t.words = {"undo"} /\ t.amount = "none" /\ t.dates = {}) /\ DateStatus(t) = "throws"
  BY <1>2, Constructors DEF Correction
<1>3. CASE ~ (t.words = {"undo"} /\ t.amount = "none" /\ t.dates = {}) /\ DateStatus(t) # "throws"
  <2> DEFINE f == CHOOSE f \in CorrectionFields(t) : TRUE
             p == Proposal("correction", t.minor, EconomicDate(t), f, t.reply)
  <2>1. Correction(t) = IF Cardinality(CorrectionFields(t)) # 1
                        THEN Unsupported("invalid_correction") ELSE High(p)
    BY <1>3 DEF Correction
  <2>2. CASE Cardinality(CorrectionFields(t)) # 1 BY <2>1, <2>2, Constructors
  <2>3. CASE Cardinality(CorrectionFields(t)) = 1
    <3>1. f \in CorrectionFields(t) BY <2>3, OneIsSome, Chosen
    <3>2. CorrectionFields(t) \subseteq Details BY DEF CorrectionFields, Details
    <3> HIDE DEF f
    <3>3. Complete(p) BY <3>1, <3>2, TextFields, Parts
    <3> QED BY <2>1, <2>3, <3>3, Constructors
  <2> QED BY <2>2, <2>3
<1> QED BY <1>1, <1>2, <1>3

(***************************************************************************)
(* A future expense, an income, any cash entry.                            *)
(***************************************************************************)
LEMMA FutureResult == ASSUME NEW t \in Texts PROVE Result(ParseFuture(t))
<1> DEFINE status == AmountStatus(t, FALSE)
           amount == IF status = "ok" THEN t.minor ELSE Absent
           due    == IF t.dates = {} THEN Absent ELSE CHOOSE d \in t.dates : TRUE
           draft  == Draft("future_expense", amount, Absent, due, t.label)
           p      == Proposal("future_expense", amount, due, "manual", NoTarget)
<1>1. amount \in Int /\ due \in Int BY TextFields, Parts
<1>2. "manual" \in Details /\ "future_expense" \in Kinds \ {"correction"} BY DEF Details, Kinds
<1> HIDE DEF amount, due, status
<1>3. draft \in Drafts /\ Complete(p) BY <1>1, <1>2, TextFields, Parts
<1> HIDE DEF draft, p
<1>4. \/ ParseFuture(t) = Clarify("amount", draft)
      \/ ParseFuture(t) = Clarify("due_date", draft)
      \/ ParseFuture(t) = Unsupported("invalid_future_expense")
      \/ ParseFuture(t) = Unsupported("past_due_date")
      \/ ParseFuture(t) = Unsupported("missing_label")
      \/ ParseFuture(t) = High(p)
  BY DEF ParseFuture, status, amount, due, draft, p
<1> QED BY <1>3, <1>4, Constructors

(***************************************************************************)
(* An income may lack its amount or its source.                            *)
(***************************************************************************)
LEMMA IncomeResult == ASSUME NEW t \in Texts, NEW status PROVE Result(ParseIncome(t, status))
<1> DEFINE d1 == Draft("cash_income", Absent, EconomicDate(t), Absent, FALSE)
           d2 == Draft("cash_income", t.minor, EconomicDate(t), Absent, FALSE)
           p  == Proposal("cash_income", t.minor, EconomicDate(t), IncomeSource(t), NoTarget)
<1>1. "cash_income" \in Kinds \ {"correction"} BY DEF Kinds
<1>2. d1 \in Drafts /\ d2 \in Drafts /\ Complete(p) BY <1>1, TextFields, Parts
<1> HIDE DEF d1, d2, p
<1>3. \/ ParseIncome(t, status) = Unsupported("salary_not_supported")
      \/ ParseIncome(t, status) = Clarify("amount", d1)
      \/ ParseIncome(t, status) = Clarify("income_source", d2)
      \/ ParseIncome(t, status) = Unsupported("future_cash_activity")
      \/ ParseIncome(t, status) = High(p)
  BY DEF ParseIncome, d1, d2, p
<1> QED BY <1>2, <1>3, Constructors

(***************************************************************************)
(* Counts, income, expenses.                                               *)
(***************************************************************************)
LEMMA CashResult == ASSUME NEW t \in Texts PROVE Result(ParseCash(t))
<1> DEFINE status == AmountStatus(t, TRUE)
           d1 == UnknownDraft(t, status)
           d2 == Draft("unknown", Absent, Absent, Absent, FALSE)
           p1 == Proposal("cash_count", t.minor, EconomicDate(t), "none", NoTarget)
           p2 == Proposal("cash_expense", t.minor, EconomicDate(t), "category", NoTarget)
<1>1. {"cash_count", "cash_expense"} \subseteq Kinds \ {"correction"}
      /\ {"none", "category"} \subseteq Details
  BY DEF Kinds, Details
<1> HIDE DEF status
<1>2. d1 \in Drafts /\ d2 \in Drafts /\ Complete(p1) /\ Complete(p2)
  BY <1>1, TextFields, Parts DEF UnknownDraft
<1> HIDE DEF d1, d2, p1, p2
<1>3. \/ ParseCash(t) = Unsupported(status)
      \/ ParseCash(t) = Clarify("intent", d1)
      \/ ParseCash(t) = Clarify("amount", d2)
      \/ ParseCash(t) = High(p1)
      \/ ParseCash(t) = ParseIncome(t, status)
      \/ ParseCash(t) = Unsupported("unsupported_input")
      \/ ParseCash(t) = Unsupported("future_cash_activity")
      \/ ParseCash(t) = High(p2)
  BY DEF ParseCash, status, d1, d2, p1, p2
<1> QED BY <1>2, <1>3, IncomeResult, Constructors

(***************************************************************************)
(* Whatever a text says, a complete command is well typed.                 *)
(***************************************************************************)
LEMMA TextResult == ASSUME NEW t \in Texts PROVE Result(ParseText(t))
<1> DEFINE d == Draft("unknown", Absent, Absent, Absent, FALSE)
<1>1. d \in Drafts BY Parts
<1> HIDE DEF d
<1>2. \/ ParseText(t) = Correction(t)
      \/ ParseText(t) = Unsupported("bot_command")
      \/ ParseText(t) = Clarify("intent", d)
      \/ ParseText(t) = Throws
      \/ ParseText(t) = Unsupported("invalid_date")
      \/ ParseText(t) = ParseFuture(t)
      \/ ParseText(t) = ParseCash(t)
  BY DEF ParseText, d
<1> QED BY <1>1, <1>2, CorrectionResult, FutureResult, CashResult, Constructors

(***************************************************************************)
(* A draft keeps its type when an amount or a date is filled in.           *)
(***************************************************************************)
LEMMA FilledDraft ==
    ASSUME NEW d \in Drafts, NEW a \in Int, NEW b \in Int
    PROVE  [d EXCEPT !.amount = a] \in Drafts /\ [d EXCEPT !.amount = a, !.date = b] \in Drafts
  BY DEF Drafts

(***************************************************************************)
(* The answer to a question about an income.                               *)
(***************************************************************************)
LEMMA MergeIncomeResult ==
    ASSUME NEW d \in Drafts, NEW t \in Texts, NEW a \in Int PROVE Result(MergeIncome(d, t, a))
<1> DEFINE f == [d EXCEPT !.amount = a]
           p == Proposal("cash_income", a, d.date, IncomeSource(t), NoTarget)
<1>1. f \in Drafts BY FilledDraft
<1>2. "cash_income" \in Kinds \ {"correction"} /\ d.date \in Int BY DEF Kinds, Drafts
<1>3. Complete(p) BY <1>2, TextFields, Parts
<1> HIDE DEF f, p
<1>4. MergeIncome(d, t, a) = Clarify("income_source", f) \/ MergeIncome(d, t, a) = High(p)
  BY DEF MergeIncome, f, p
<1> QED BY <1>1, <1>3, <1>4, Constructors

(***************************************************************************)
(* The answer to a question about a future expense.                        *)
(***************************************************************************)
LEMMA MergeFutureResult ==
    ASSUME NEW d \in Drafts, NEW t \in Texts, NEW a \in Int PROVE Result(MergeFuture(d, t, a))
<1> DEFINE due == IF d.due # Absent THEN d.due
                  ELSE IF Cardinality(t.dates) = 1 THEN CHOOSE x \in t.dates : TRUE
                  ELSE Absent
           f == [d EXCEPT !.amount = a]
           p == Proposal("future_expense", a, due, "manual", NoTarget)
<1>1. f \in Drafts BY FilledDraft
<1>2. due \in Int
  <2>1. d.due \in Int BY DEF Drafts
  <2>2. Cardinality(t.dates) = 1 => (CHOOSE x \in t.dates : TRUE) \in Int
    BY OneIsSome, TextFields
  <2> QED BY <2>1, <2>2, Parts
<1>3. "future_expense" \in Kinds \ {"correction"} /\ "manual" \in Details BY DEF Kinds, Details
<1> HIDE DEF due
<1>4. Complete(p) BY <1>2, <1>3, Parts
<1> HIDE DEF f, p
<1>5. \/ MergeFuture(d, t, a) = Clarify("due_date", f)
      \/ MergeFuture(d, t, a) = Throws
      \/ MergeFuture(d, t, a) = Unsupported("invalid_future_expense")
      \/ MergeFuture(d, t, a) = Unsupported("missing_label")
      \/ MergeFuture(d, t, a) = High(p)
  BY DEF MergeFuture, f, p, due
<1> QED BY <1>1, <1>4, <1>5, Constructors

(***************************************************************************)
(* The answer to a question about what an amount was for.                  *)
(***************************************************************************)
LEMMA MergeUnknownResult ==
    ASSUME NEW d \in Drafts, NEW t \in Texts, NEW a \in Int PROVE Result(MergeUnknown(d, t, a))
<1> DEFINE date == IF d.date # Absent THEN d.date ELSE t.day
           income == Draft("cash_income", a, date, Absent, FALSE)
           f  == [d EXCEPT !.amount = a, !.date = date]
           p1 == Proposal("cash_count", a, date, "none", NoTarget)
           p2 == Proposal("cash_expense", a, date, "category", NoTarget)
<1>1. date \in Int
  <2>1. d.date \in Int BY DEF Drafts
  <2> QED BY <2>1, TextFields
<1>2. {"cash_count", "cash_expense"} \subseteq Kinds \ {"correction"}
      /\ {"none", "category"} \subseteq Details
  BY DEF Kinds, Details
<1> HIDE DEF date
<1>3. f \in Drafts BY <1>1, FilledDraft
<1>4. income \in Drafts /\ Complete(p1) /\ Complete(p2) BY <1>1, <1>2, Parts
<1> HIDE DEF f, income, p1, p2
<1>5. \/ MergeUnknown(d, t, a) = High(p1)
      \/ MergeUnknown(d, t, a) = MergeIncome(income, t, a)
      \/ MergeUnknown(d, t, a) = High(p2)
      \/ MergeUnknown(d, t, a) = Clarify("intent", f)
  BY DEF MergeUnknown, income, f, p1, p2, date
<1> QED BY <1>3, <1>4, <1>5, MergeIncomeResult, Constructors

(***************************************************************************)
(* The answer to any question.                                             *)
(***************************************************************************)
LEMMA AnswerResult ==
    ASSUME NEW d \in Drafts, NEW t \in Texts PROVE Result(MergeClarification(d, t))
<1> DEFINE a == MergedAmount(d, t)
<1>1. a \in Int
  <2>1. d.amount \in Int BY DEF Drafts
  <2> QED BY <2>1, TextFields, Parts DEF MergedAmount
<1> HIDE DEF a
<1>2. \/ MergeClarification(d, t) = Clarify("amount", d)
      \/ MergeClarification(d, t) = MergeIncome(d, t, a)
      \/ MergeClarification(d, t) = MergeFuture(d, t, a)
      \/ MergeClarification(d, t) = MergeUnknown(d, t, a)
  BY DEF MergeClarification, a
<1> QED BY <1>1, <1>2, MergeIncomeResult, MergeFutureResult, MergeUnknownResult, Constructors

-----------------------------------------------------------------------------
(* Types                                                                   *)

Statuses     == {"absent"} \cup Pending \cup Settled
UpdateRows   == [status : Statuses, attempts : Nat, due : BOOLEAN, old : BOOLEAN]
DeliveryRows == [status : {"absent", "pending", "sending", "retryable", "sent", "failed",
                           "uncertain"}, attempts : Nat, due : BOOLEAN]
Questions    == [draft : Drafts, invalid : Nat,
                 status : {"active", "expired", "cancelled", "superseded", "resolved"},
                 lapsed : BOOLEAN]
Readings     == [id : Nat, draft : Drafts, invalid : Nat]
Outcomes     == {"none", "retryable", "terminal", "sent", "failed", "uncertain"}
WorkerRows   == [pc : Pcs, update : Updates \cup {0}, attempt : Nat, reading : Readings,
                 message : Messages \cup {NoTarget}, outcome : Outcomes, page : SUBSET Updates,
                 offset : Nat]

InboxType    == /\ sent \in Seq(Texts) /\ Len(sent) <= MaxUpdates
                /\ acknowledged \in Nat /\ nextOffset \in Nat
UpdateType   == update \in [Updates -> UpdateRows]
QuestionType == clarification \in Seq(Questions)
MoneyType    == /\ effect \in [Updates -> Proposals \cup {NoProposal}]
                /\ applied \in [Updates -> Nat]
                /\ closedLink \subseteq Updates
                /\ DOMAIN command = Updates
DeliveryType == /\ delivery \in [Messages -> DeliveryRows]
                /\ linkMessage \in [Updates -> Messages \cup {NoTarget}]
                /\ chat \in [Messages -> Nat]
WorkerType   == worker \in [Workers -> WorkerRows]
ClockType    == faults \in Nat /\ stalls \in Nat

(***************************************************************************)
(* A worker that acts on an update has one that is in the inbox, one that  *)
(* sends has a message, and what was received was sent.                    *)
(***************************************************************************)
Working    == {"read", "act", "refuse", "fail"}
Sending    == {"send", "complete"}
Present(u) == update[u].status # "absent"

Busy(v, rows) ==
    /\ v.pc \in Working => v.update # 0
    /\ v.update # 0 => rows[v.update].status # "absent"
    /\ v.pc \in Sending => v.message \in Messages
    /\ v.pc = "complete" => v.outcome \in {"retryable", "sent", "failed", "uncertain"}

BusyType     == \A w \in Workers : Busy(worker[w], update)
ReceivedType == /\ \A u \in Updates : Present(u) => u \in 1..Len(sent)
                /\ \A w \in Workers : worker[w].page \subseteq 1..Len(sent)

Types == /\ InboxType /\ UpdateType /\ QuestionType /\ MoneyType /\ DeliveryType
         /\ WorkerType /\ ClockType /\ BusyType /\ ReceivedType

-----------------------------------------------------------------------------
(* Kinds of steps                                                          *)

ClockMoves == UNCHANGED clockVars \/ Fault

Rests(w) == \E pc \in {"expire", "updates", "deliveries", "poll"} : Goto(w, pc)

Continues(w) ==
    /\ worker[w].pc \in Working
    /\ worker' = [worker EXCEPT ![w] = worker'[w]]
    /\ worker'[w] \in WorkerRows /\ worker'[w].pc \in Working
    /\ worker'[w].update = worker[w].update /\ worker'[w].message = worker[w].message
    /\ worker'[w].page = worker[w].page

(***************************************************************************)
(* A worker reads, gives up or goes on; it writes nothing.                 *)
(***************************************************************************)
Turns(w) ==
    /\ Rests(w) \/ Continues(w)
    /\ UNCHANGED <<inboxVars, update, clarification, moneyVars, linkMessage, delivery, chat>>
    /\ ClockMoves

(***************************************************************************)
(* A worker settles its update with a reply and no command.                *)
(***************************************************************************)
Answerings == {"help", "cancel", "clarification", "clarification_cancelled", "unsupported",
               "refused", "none"}

Replies(w) ==
    /\ worker[w].pc \in {"act", "refuse"}
    /\ \E status \in Settled, purpose \in Answerings : Finalize(w, status, purpose)
    /\ \/ UNCHANGED clarification
       \/ Cancel(w) \/ CreateClarification(w) \/ AdvanceClarification(w) \/ CountInvalidAnswer(w)
    /\ UNCHANGED <<inboxVars, moneyVars, linkMessage, chat, clockVars>>

(***************************************************************************)
(* A worker learns, or believes to learn, what became of a message.        *)
(***************************************************************************)
Learns(w) ==
    /\ \E o \in {"sent", "retryable", "failed", "uncertain"} :
          /\ Sends(w, o)
          /\ \/ /\ worker[w].pc = "send"
                /\ UNCHANGED chat \/ (o # "retryable" /\ Reaches(worker[w].message))
             \/ worker[w].pc = "complete" /\ o = "failed" /\ UNCHANGED chat
    /\ UNCHANGED <<inboxVars, update, clarification, moneyVars, linkMessage, delivery>>
    /\ ClockMoves

(***************************************************************************)
(* A worker read by anyone has its type.                                   *)
(***************************************************************************)
LEMMA WorkerFields ==
    ASSUME Types, NEW w \in Workers
    PROVE  /\ worker[w] \in WorkerRows /\ DOMAIN worker = Workers
           /\ worker[w].pc \in Working => worker[w].update \in Updates /\ Text(w) \in Texts
           /\ worker[w].pc \in Sending => worker[w].message \in Messages
<1>1. worker[w] \in WorkerRows /\ DOMAIN worker = Workers BY DEF Types, WorkerType
<1>2. ASSUME worker[w].pc \in Working
      PROVE  worker[w].update \in Updates /\ Text(w) \in Texts
  <2>1. worker[w].update \in Updates BY <1>1, <1>2 DEF Types, BusyType, Busy, WorkerRows
  <2>2. worker[w].update \in 1..Len(sent)
    BY <1>2, <2>1 DEF Types, BusyType, Busy, ReceivedType, Present
  <2>3. sent \in Seq(Texts) BY DEF Types, InboxType
  <2> QED BY <2>1, <2>2, <2>3, ElementOfSeq DEF Text
<1>3. worker[w].pc \in Sending => worker[w].message \in Messages
  BY DEF Types, BusyType, Busy
<1> QED BY <1>1, <1>2, <1>3

(***************************************************************************)
(* Going to another place at rest.                                         *)
(***************************************************************************)
LEMMA RestingType ==
    /\ Resting \in WorkerRows
    /\ \A pc \in Pcs : [Resting EXCEPT !.pc = pc] \in WorkerRows
    /\ NoReading \in Readings
<1>1. NoReading \in Readings
  BY Constructors DEF NoReading, Readings
<1>2. Resting = [pc |-> "expire", update |-> 0, attempt |-> 0, reading |-> NoReading,
                 message |-> NoTarget, outcome |-> "none", page |-> {}, offset |-> 0]
  BY DEF Resting
<1>3. Resting \in WorkerRows
  <2>1. "expire" \in Pcs /\ "none" \in Outcomes BY DEF Pcs, Outcomes
  <2> HIDE DEF NoReading, NoTarget
  <2> QED BY <1>1, <1>2, <2>1 DEF WorkerRows
<1>4. \A pc \in Pcs : [Resting EXCEPT !.pc = pc] \in WorkerRows
  BY <1>3 DEF WorkerRows
<1> QED BY <1>1, <1>3, <1>4

(***************************************************************************)
(* A failure of processing, found by its catch block.                      *)
(***************************************************************************)
LEMMA Failing ==
    ASSUME Types, NEW w \in Workers, NEW kind \in {"retryable", "terminal"}, Fails(w, kind),
           worker[w].pc \in Working
    PROVE  Continues(w)
<1>1. worker[w] \in WorkerRows /\ DOMAIN worker = Workers BY WorkerFields
<1>2. kind \in Outcomes /\ "fail" \in Pcs BY DEF Outcomes, Pcs
<1>3. worker' = [worker EXCEPT ![w].pc = "fail", ![w].outcome = kind] BY DEF Fails
<1>4. worker'[w] = [worker[w] EXCEPT !.pc = "fail", !.outcome = kind] BY <1>1, <1>3
<1>5. worker' = [worker EXCEPT ![w] = worker'[w]] BY <1>3, <1>4
<1>6. /\ worker'[w] \in WorkerRows /\ worker'[w].pc = "fail"
      /\ worker'[w].update = worker[w].update /\ worker'[w].message = worker[w].message
      /\ worker'[w].page = worker[w].page
  BY <1>1, <1>2, <1>4 DEF WorkerRows
<1> QED BY <1>5, <1>6 DEF Continues, Working

(***************************************************************************)
(* Steps that write nothing.                                               *)
(***************************************************************************)
LEMMA TurningSteps ==
    ASSUME Types, NEW w \in Workers,
           \/ ReadClarification(w) \/ RepeatCommand(w) \/ RefuseCorrection(w) \/ ParserThrows(w)
           \/ StatementFails(w) \/ Crash(w) \/ EndDrain(w)
    PROVE  Turns(w)
<1>1. worker[w] \in WorkerRows /\ DOMAIN worker = Workers BY WorkerFields
<1>2. /\ UNCHANGED <<inboxVars, update, clarification, moneyVars, linkMessage, delivery, chat>>
      /\ ClockMoves
  BY DEF ReadClarification, RepeatCommand, RefuseCorrection, ParserThrows, StatementFails, Crash,
         EndDrain, ClockMoves
<1>3. CASE ReadClarification(w)
  <2> DEFINE live == {c \in DOMAIN clarification : /\ clarification[c].status = "active"
                                                   /\ ~clarification[c].lapsed}
             c == CHOOSE c \in live : TRUE
             reading == IF live = {} \/ Text(w).command \in {"help", "cancel"} THEN NoReading
                        ELSE [id |-> c, draft |-> clarification[c].draft,
                              invalid |-> clarification[c].invalid]
  <2>1. worker[w].pc = "read" /\ worker' = [worker EXCEPT ![w].pc = "act", ![w].reading = reading]
    BY <1>3 DEF ReadClarification
  <2>2. reading \in Readings
    <3>1. CASE reading = NoReading BY <3>1, RestingType
    <3>2. CASE live # {} /\ ~ (Text(w).command \in {"help", "cancel"})
      <4>1. c \in live BY <3>2, Chosen
      <4>2. c \in DOMAIN clarification BY <4>1
      <4> HIDE DEF c, live
      <4>3. clarification \in Seq(Questions) BY DEF Types, QuestionType
      <4>4. c \in Nat /\ clarification[c] \in Questions
        BY <4>2, <4>3, LenProperties, ElementOfSeq
      <4>5. [id |-> c, draft |-> clarification[c].draft, invalid |-> clarification[c].invalid]
              \in Readings
        BY <4>4 DEF Questions, Readings
      <4> QED BY <3>2, <4>5
    <3> QED BY <3>1, <3>2
  <2> HIDE DEF reading
  <2>3. worker'[w] = [worker[w] EXCEPT !.pc = "act", !.reading = reading] BY <1>1, <2>1
  <2>4. worker' = [worker EXCEPT ![w] = worker'[w]] BY <2>1, <2>3
  <2>5. "act" \in Pcs BY DEF Pcs
  <2>6. /\ worker'[w] \in WorkerRows /\ worker'[w].pc = "act"
        /\ worker'[w].update = worker[w].update /\ worker'[w].message = worker[w].message
        /\ worker'[w].page = worker[w].page
    BY <1>1, <2>2, <2>3, <2>5 DEF WorkerRows
  <2> QED BY <1>2, <2>1, <2>4, <2>6 DEF Turns, Continues, Working
<1>4. CASE RepeatCommand(w)
  <2>1. \/ Goto(w, "updates")
        \/ Fails(w, "terminal") /\ worker[w].pc = "act"
        \/ Fails(w, "retryable") /\ worker[w].pc = "act"
    BY <1>4 DEF RepeatCommand, Executes, Answers, Acts
  <2> QED BY <1>2, <2>1, Failing DEF Turns, Rests, Working
<1>5. CASE ParserThrows(w) \/ StatementFails(w)
  <2>1. Fails(w, "retryable") /\ worker[w].pc \in Working
    BY <1>5 DEF ParserThrows, StatementFails, Answers, Acts, Working
  <2> QED BY <1>2, <2>1, Failing DEF Turns
<1>6. CASE RefuseCorrection(w)
  <2>1. worker[w].pc = "act" /\ worker' = [worker EXCEPT ![w].pc = "refuse"]
    BY <1>6 DEF RefuseCorrection, Executes, Answers, Acts
  <2>2. worker'[w] = [worker[w] EXCEPT !.pc = "refuse"] BY <1>1, <2>1
  <2>3. worker' = [worker EXCEPT ![w] = worker'[w]] BY <2>1, <2>2
  <2>4. "refuse" \in Pcs BY DEF Pcs
  <2>5. /\ worker'[w] \in WorkerRows /\ worker'[w].pc = "refuse"
        /\ worker'[w].update = worker[w].update /\ worker'[w].message = worker[w].message
        /\ worker'[w].page = worker[w].page
    BY <1>1, <2>2, <2>4 DEF WorkerRows
  <2> QED BY <1>2, <2>1, <2>3, <2>5 DEF Turns, Continues, Working
<1>7. CASE Crash(w) \/ EndDrain(w)
  BY <1>2, <1>7 DEF Crash, EndDrain, Turns, Rests
<1> QED BY <1>3, <1>4, <1>5, <1>6, <1>7

(***************************************************************************)
(* Steps that reply.                                                       *)
(***************************************************************************)
LEMMA ReplyingSteps ==
    ASSUME NEW w \in Workers,
           \/ Help(w) \/ Cancel(w) \/ CreateClarification(w) \/ AdvanceClarification(w)
           \/ CountInvalidAnswer(w) \/ Refuse(w) \/ ReplyToRefusal(w)
    PROVE  Replies(w)
<1>1. {"completed", "awaiting_clarification", "unsupported"} \subseteq Settled BY DEF Settled
<1>2. CASE Help(w) BY <1>1, <1>2 DEF Help, Acts, Replies, Answerings
<1>3. CASE Cancel(w)
  <2>1. /\ Finalize(w, "completed", "cancel") /\ worker[w].pc = "act"
        /\ UNCHANGED <<inboxVars, moneyVars, linkMessage, chat, clockVars>>
    BY <1>3 DEF Cancel, Acts
  <2> QED BY <1>1, <1>3, <2>1 DEF Replies, Answerings
<1>4. CASE CreateClarification(w)
  <2>1. /\ Finalize(w, "awaiting_clarification", "clarification") /\ worker[w].pc = "act"
        /\ UNCHANGED <<inboxVars, moneyVars, linkMessage, chat, clockVars>>
    BY <1>4 DEF CreateClarification, Answers, Acts
  <2> QED BY <1>1, <1>4, <2>1 DEF Replies, Answerings
<1>5. CASE AdvanceClarification(w)
  <2>1. /\ Finalize(w, "awaiting_clarification", "clarification") /\ worker[w].pc = "act"
        /\ UNCHANGED <<inboxVars, moneyVars, linkMessage, chat, clockVars>>
    BY <1>5 DEF AdvanceClarification, Answers, Acts
  <2> QED BY <1>1, <1>5, <2>1 DEF Replies, Answerings
<1>6. CASE CountInvalidAnswer(w)
  <2>1. /\ \/ Finalize(w, "unsupported", "clarification_cancelled")
           \/ Finalize(w, "awaiting_clarification", "clarification")
        /\ worker[w].pc = "act"
        /\ UNCHANGED <<inboxVars, moneyVars, linkMessage, chat, clockVars>>
    BY <1>6 DEF CountInvalidAnswer, Answers, Acts
  <2> QED BY <1>1, <1>6, <2>1 DEF Replies, Answerings
<1>7. CASE Refuse(w) BY <1>1, <1>7 DEF Refuse, Answers, Acts, Replies, Answerings
<1>8. CASE ReplyToRefusal(w) BY <1>1, <1>8 DEF ReplyToRefusal, Replies, Answerings
<1> QED BY <1>2, <1>3, <1>4, <1>5, <1>6, <1>7, <1>8

(***************************************************************************)
(* Steps that learn what became of a message.                              *)
(***************************************************************************)
LEMMA LearningSteps ==
    ASSUME NEW w \in Workers,
           Send(w) \/ SendRefused(w) \/ SendUnclear(w) \/ CompletionFails(w)
    PROVE  Learns(w)
<1>1. CASE Send(w) BY <1>1 DEF Send, Learns, ClockMoves
<1>2. CASE SendRefused(w)
  <2> DEFINE o == IF delivery[worker[w].message].attempts < SendAttempts THEN "retryable" ELSE "failed"
  <2>1. o \in {"sent", "retryable", "failed", "uncertain"} OBVIOUS
  <2>2. /\ worker[w].pc = "send" /\ Fault /\ Sends(w, o)
        /\ UNCHANGED <<inboxVars, update, clarification, moneyVars, linkMessage, delivery, chat>>
    BY <1>2 DEF SendRefused
  <2> HIDE DEF o
  <2> QED BY <2>1, <2>2 DEF Learns, ClockMoves
<1>3. CASE SendUnclear(w)
  <2>1. PICK o \in {"uncertain", "failed"} : Sends(w, o) BY <1>3 DEF SendUnclear
  <2>2. /\ worker[w].pc = "send" /\ Fault
        /\ UNCHANGED chat \/ Reaches(worker[w].message)
        /\ UNCHANGED <<inboxVars, update, clarification, moneyVars, linkMessage, delivery>>
    BY <1>3 DEF SendUnclear
  <2>3. o \in {"sent", "retryable", "failed", "uncertain"} /\ o # "retryable" BY <2>1
  <2> QED BY <2>1, <2>2, <2>3 DEF Learns, ClockMoves
<1>4. CASE CompletionFails(w) BY <1>4 DEF CompletionFails, Learns, ClockMoves
<1> QED BY <1>1, <1>2, <1>3, <1>4

(***************************************************************************)
(* The steps of one worker, by kind.                                       *)
(***************************************************************************)
Steps(w) ==
    \/ Expire(w) \/ ClaimUpdate(w) \/ Turns(w) \/ Replies(w) \/ Execute(w)
    \/ RecordFailure(w) \/ ClaimDelivery(w) \/ Learns(w)
    \/ CompleteDelivery(w) \/ GetUpdates(w) \/ ReadOffset(w) \/ Persist(w)

Kind ==
    \/ UNCHANGED vars \/ UserSends
    \/ \E u \in Updates : UpdateFallsDue(u) \/ RetentionPasses(u)
    \/ \E m \in Messages : DeliveryFallsDue(m)
    \/ \E c \in DOMAIN clarification : ClarificationLapses(c)
    \/ \E w \in Workers : Steps(w)

(***************************************************************************)
(* Next by kinds.                                                          *)
(***************************************************************************)
LEMMA StepKinds == ASSUME Types, [Next]_vars PROVE Kind
<1>1. ASSUME NEW w \in Workers, Loop(w) \/ Breaks(w) PROVE Kind
  <2>1. Steps(w)
    BY <1>1, TurningSteps, ReplyingSteps, LearningSteps DEF Loop, Process, Deliver, Breaks, Steps
  <2> QED BY <2>1 DEF Kind
<1>2. CASE UserSends \/ UNCHANGED vars BY <1>2 DEF Kind
<1>3. CASE TimePasses BY <1>3 DEF Kind, TimePasses
<1> QED BY <1>1, <1>2, <1>3 DEF Next

-----------------------------------------------------------------------------
(* What the steps write                                                    *)

(***************************************************************************)
(* A settled update of a worker, written by finalizeTelegramUpdate.        *)
(***************************************************************************)
LEMMA WrittenUpdate ==
    ASSUME UpdateType, NEW u \in Updates, NEW s \in Statuses,
           update' = [update EXCEPT ![u].status = s, ![u].due = FALSE]
    PROVE  /\ UpdateType'
           /\ \A x \in Updates : x # u => update'[x] = update[x]
           /\ update'[u] = [update[u] EXCEPT !.status = s, !.due = FALSE]
           /\ update'[u].status = s /\ ~ update'[u].due
           /\ update'[u].attempts = update[u].attempts
<1>1. update'[u] = [update[u] EXCEPT !.status = s, !.due = FALSE]
  BY DEF UpdateType
<1>2. \A x \in Updates : x # u => update'[x] = update[x] BY DEF UpdateType
<1>3. update[u] \in UpdateRows BY DEF UpdateType
<1>4. /\ update'[u] \in UpdateRows /\ update'[u].status = s /\ ~ update'[u].due
      /\ update'[u].attempts = update[u].attempts
  <2> DEFINE r == update[u]
             v == update'[u]
  <2>1. r \in UpdateRows /\ v = [r EXCEPT !.status = s, !.due = FALSE] BY <1>1, <1>3
  <2> HIDE DEF r, v
  <2>2. v \in UpdateRows /\ v.status = s /\ ~ v.due /\ v.attempts = r.attempts
    BY <2>1 DEF UpdateRows
  <2> QED BY <2>2 DEF r, v
<1>5. update' = [x \in Updates |-> update'[x]] BY DEF UpdateType
<1>6. \A x \in Updates : update'[x] \in UpdateRows BY <1>2, <1>4 DEF UpdateType
<1>7. UpdateType' BY <1>5, <1>6 DEF UpdateType
<1> QED BY <1>1, <1>2, <1>4, <1>7

(***************************************************************************)
(* The lease of an update.                                                 *)
(***************************************************************************)
Leases(w, u) ==
    /\ u \in Claimable
    /\ update'[u].status = "processing" /\ ~ update'[u].due
    /\ worker' = [worker EXCEPT ![w] = worker'[w]]
    /\ worker'[w] = [Resting EXCEPT !.pc = "read", !.update = u, !.attempt = update[u].attempts + 1]

(***************************************************************************)
(* A claim leases one update and closes the exhausted ones.                *)
(***************************************************************************)
LEMMA ClaimWrites ==
    ASSUME Types, NEW w \in Workers, ClaimUpdate(w)
    PROVE  /\ UpdateType'
           /\ \/ Goto(w, "deliveries") /\ \A x \in Updates \ Exhausted : update'[x] = update[x]
              \/ \E u \in Updates : /\ Leases(w, u)
                                    /\ \A x \in Updates \ (Exhausted \cup {u}) : update'[x] = update[x]
           /\ \A x \in Exhausted : update'[x].status = "failed" /\ ~ update'[x].due
           /\ \A x \in Exhausted \cup Claimable : Present(x)
<1> DEFINE closed == [u \in Updates |-> IF u \in Exhausted
                        THEN [update[u] EXCEPT !.status = "failed", !.due = FALSE] ELSE update[u]]
<1>1. \A x \in Updates : update[x] \in UpdateRows BY DEF Types, UpdateType
<1>2. /\ \A x \in Exhausted : closed[x] = [update[x] EXCEPT !.status = "failed", !.due = FALSE]
      /\ \A x \in Updates \ Exhausted : closed[x] = update[x]
      /\ DOMAIN closed = Updates
  BY DEF Exhausted
<1>3. \A x \in Exhausted : /\ closed[x] \in UpdateRows /\ closed[x].status = "failed"
                           /\ ~ closed[x].due
  <2>1. "failed" \in Statuses BY DEF Statuses, Settled
  <2> QED BY <1>1, <1>2, <2>1 DEF Exhausted, UpdateRows
<1>4. closed \in [Updates -> UpdateRows] BY <1>1, <1>2, <1>3
<1>5. \A x \in Exhausted \cup Claimable : Present(x) BY DEF Exhausted, Claimable, Present
<1>6. \A x \in Exhausted : x \notin Claimable
  <2>1. \A x \in Updates : update[x].attempts \in Nat BY <1>1 DEF UpdateRows
  <2> QED BY <2>1, TelegramAssumption DEF Exhausted, Claimable
<1>7. \/ update' = closed /\ Goto(w, "deliveries")
      \/ \E u \in Claimable :
            /\ update' = [closed EXCEPT ![u].status = "processing", ![u].due = FALSE,
                                        ![u].attempts = @ + 1]
            /\ worker' = [worker EXCEPT ![w] = [Resting EXCEPT
                   !.pc = "read", !.update = u, !.attempt = update[u].attempts + 1]]
  BY DEF ClaimUpdate
<1> HIDE DEF closed
<1>8. CASE update' = closed /\ Goto(w, "deliveries")
  BY <1>2, <1>3, <1>4, <1>5, <1>8 DEF UpdateType
<1>9. ASSUME NEW u \in Claimable,
             update' = [closed EXCEPT ![u].status = "processing", ![u].due = FALSE,
                                      ![u].attempts = @ + 1],
             worker' = [worker EXCEPT ![w] = [Resting EXCEPT
                   !.pc = "read", !.update = u, !.attempt = update[u].attempts + 1]]
      PROVE  /\ UpdateType'
             /\ Leases(w, u) /\ u \in Updates
             /\ \A x \in Updates \ (Exhausted \cup {u}) : update'[x] = update[x]
             /\ \A x \in Exhausted : update'[x].status = "failed" /\ ~ update'[x].due
  <2>1. u \in Updates /\ u \notin Exhausted BY <1>6 DEF Claimable
  <2> DEFINE c == closed[u]
             row == [c EXCEPT !.status = "processing", !.due = FALSE, !.attempts = @ + 1]
  <2>2. update' = [closed EXCEPT ![u] = row] BY <1>9
  <2>3. row \in UpdateRows /\ row.status = "processing" /\ ~ row.due
    <3>1. c \in UpdateRows BY <1>4, <2>1
    <3>2. "processing" \in Statuses BY DEF Statuses, Pending
    <3> HIDE DEF c
    <3>3. c.attempts + 1 \in Nat BY <3>1 DEF UpdateRows
    <3> DEFINE n == c.attempts + 1
               r == [c EXCEPT !.status = "processing", !.due = FALSE, !.attempts = n]
    <3>4. row = r OBVIOUS
    <3> HIDE DEF row, n
    <3>5. r \in UpdateRows /\ r.status = "processing" /\ ~ r.due
      BY <3>1, <3>2, <3>3 DEF UpdateRows, n
    <3> QED BY <3>4, <3>5
  <2> HIDE DEF row, c
  <2>4. /\ update' \in [Updates -> UpdateRows] /\ update'[u] = row
        /\ \A x \in Updates : x # u => update'[x] = closed[x]
    BY <1>4, <2>1, <2>2, <2>3
  <2>5. DOMAIN worker = Workers BY WorkerFields
  <2>6. worker'[w] = [Resting EXCEPT !.pc = "read", !.update = u, !.attempt = update[u].attempts + 1]
    BY <1>9, <2>5
  <2>7. worker' = [worker EXCEPT ![w] = worker'[w]] BY <1>9, <2>6
  <2>8. Leases(w, u) BY <1>9, <2>3, <2>4, <2>6, <2>7 DEF Leases
  <2>9. \A x \in Exhausted : x # u /\ x \in Updates BY <2>1 DEF Exhausted
  <2> QED BY <1>2, <1>3, <2>1, <2>4, <2>8, <2>9 DEF UpdateType
<1> QED BY <1>5, <1>7, <1>8, <1>9

(***************************************************************************)
(* The finalisation of a worker's update.                                  *)
(***************************************************************************)
Settles(w, status, purpose) ==
    /\ worker[w].pc \in Working /\ worker[w].update \in Updates
    /\ Writes(w, status, purpose) /\ purpose \in Purposes \cup {"none"}
    /\ update' = [update EXCEPT ![worker[w].update].status = status,
                                ![worker[w].update].due = FALSE]

(***************************************************************************)
(* A step that replies or executes finalises the update of the worker.     *)
(***************************************************************************)
LEMMA SettlingSteps ==
    ASSUME Types, NEW w \in Workers, Replies(w) \/ Execute(w)
    PROVE  \E status \in Settled, purpose \in Answerings \cup {"confirmation"} :
              Settles(w, status, purpose)
<1>1. worker[w].pc \in Working BY DEF Replies, Execute, Executes, Answers, Acts, Working
<1>2. worker[w].update \in Updates BY <1>1, WorkerFields
<1>3. Answerings \cup {"confirmation"} \subseteq Purposes \cup {"none"} BY DEF Answerings, Purposes
<1>4. CASE Replies(w)
  BY <1>1, <1>2, <1>3, <1>4 DEF Replies, Finalize, Writes, Settles
<1>5. CASE Execute(w)
  <2>1. Writes(w, "completed", "confirmation") /\ "completed" \in Settled
    BY <1>5 DEF Execute, Settled
  <2> QED BY <1>1, <1>2, <1>3, <2>1 DEF Writes, Settles
<1> QED BY <1>4, <1>5

(***************************************************************************)
(* An update stays in the inbox, and comes into it by persisting a page.   *)
(***************************************************************************)
LEMMA UpdateStep ==
    ASSUME Types, [Next]_vars
    PROVE  /\ UpdateType'
           /\ \A u \in Updates : Present(u) => Present(u)'
           /\ \A u \in Updates : Present(u)' =>
                 Present(u) \/ \E w \in Workers : Persist(w) /\ u \in worker[w].page
<1> DEFINE Goal == /\ UpdateType'
                   /\ \A u \in Updates : Present(u) => Present(u)'
                   /\ \A u \in Updates : Present(u)' =>
                         Present(u) \/ \E w \in Workers : Persist(w) /\ u \in worker[w].page
<1>1. \A u \in Updates : update[u] \in UpdateRows BY DEF Types, UpdateType
<1>2. DOMAIN update = Updates BY DEF Types, UpdateType
<1>3. CASE UNCHANGED update BY <1>3 DEF Types, UpdateType, Present
<1>4. ASSUME NEW u \in Updates, UpdateFallsDue(u) \/ RetentionPasses(u) PROVE Goal
  <2>1. \/ update' = [update EXCEPT ![u].due = TRUE] \/ update' = [update EXCEPT ![u].old = TRUE]
    BY <1>4 DEF UpdateFallsDue, RetentionPasses
  <2>2. update'[u] \in UpdateRows /\ update'[u].status = update[u].status
    BY <1>1, <1>2, <2>1 DEF UpdateRows
  <2>3. \A x \in Updates : x # u => update'[x] = update[x] BY <1>2, <2>1
  <2>4. update' = [x \in Updates |-> update'[x]] BY <1>2, <2>1
  <2>5. \A x \in Updates : update'[x] \in UpdateRows BY <1>1, <2>2, <2>3
  <2> QED BY <2>2, <2>3, <2>4, <2>5 DEF UpdateType, Present
<1>5. ASSUME NEW w \in Workers, Expire(w) PROVE Goal
  <2>1. update' = [u \in Updates |->
          IF update[u].old /\ update[u].status \in Pending
            THEN [update[u] EXCEPT !.status = "expired", !.due = FALSE] ELSE update[u]]
    BY <1>5 DEF Expire
  <2>2. \A u \in Updates : \/ update'[u] = update[u]
                           \/ update[u].status \in Pending
                              /\ update'[u] = [update[u] EXCEPT !.status = "expired", !.due = FALSE]
    BY <2>1
  <2>3. ASSUME NEW u \in Updates PROVE update'[u] \in UpdateRows /\ (Present(u)' <=> Present(u))
    <3>1. CASE update'[u] = update[u] BY <1>1, <3>1 DEF Present
    <3>2. CASE /\ update[u].status \in Pending
               /\ update'[u] = [update[u] EXCEPT !.status = "expired", !.due = FALSE]
      <4>1. "expired" \in Statuses BY DEF Statuses, Settled
      <4>2. update'[u] \in UpdateRows /\ update'[u].status = "expired"
        BY <1>1, <3>2, <4>1 DEF UpdateRows
      <4>3. update[u].status # "absent" BY <3>2 DEF Pending
      <4> QED BY <4>2, <4>3 DEF Present
    <3> QED BY <2>2, <3>1, <3>2
  <2>4. update' = [u \in Updates |-> update'[u]] BY <2>1
  <2> QED BY <2>3, <2>4 DEF UpdateType
<1>6. ASSUME NEW w \in Workers, ClaimUpdate(w) PROVE Goal
  BY <1>6, ClaimWrites DEF Present, Leases
<1>7. ASSUME NEW w \in Workers, Replies(w) \/ Execute(w) PROVE Goal
  <2>1. PICK s \in Settled, p \in Answerings \cup {"confirmation"} : Settles(w, s, p)
    BY <1>7, SettlingSteps
  <2>2. /\ UpdateType'
        /\ \A x \in Updates : x # worker[w].update => update'[x] = update[x]
        /\ update'[worker[w].update].status = s
    BY <2>1, WrittenUpdate DEF Settles, Types, Statuses
  <2>3. Present(worker[w].update) /\ s # "absent"
    BY <2>1 DEF Settles, Settled, Types, BusyType, Busy, Present, Updates
  <2> QED BY <2>2, <2>3 DEF Present
<1>8. ASSUME NEW w \in Workers, RecordFailure(w) PROVE Goal
  <2> DEFINE u == worker[w].update
  <2>1. CASE UNCHANGED update BY <2>1, <1>3
  <2>2. CASE ~ UNCHANGED update
    <3>1. /\ update[u].status = "processing"
          /\ \E s \in {"retryable", "failed"} :
                update' = [update EXCEPT ![u].due = FALSE, ![u].status = s]
      BY <1>8, <2>2 DEF RecordFailure
    <3>2. PICK s \in {"retryable", "failed"} :
                update' = [update EXCEPT ![u].due = FALSE, ![u].status = s]
      BY <3>1
    <3>3. u \in Updates BY <1>8, WorkerFields DEF RecordFailure, Working
    <3>4. update'[u] = [update[u] EXCEPT !.due = FALSE, !.status = s] BY <1>2, <3>2, <3>3
    <3>5. s \in Statuses BY DEF Statuses, Pending, Settled
    <3>6. update'[u] \in UpdateRows /\ update'[u].status = s
      BY <1>1, <3>3, <3>4, <3>5 DEF UpdateRows
    <3>7. \A x \in Updates : x # u => update'[x] = update[x] BY <1>2, <3>2
    <3>8. update' = [x \in Updates |-> update'[x]] BY <1>2, <3>2
    <3>9. \A x \in Updates : update'[x] \in UpdateRows BY <1>1, <3>6, <3>7
    <3> HIDE DEF u
    <3> QED BY <3>1, <3>6, <3>7, <3>8, <3>9 DEF UpdateType, Present
  <2> QED BY <2>1, <2>2
<1>9. ASSUME NEW w \in Workers, Persist(w) PROVE Goal
  <2>1. update' = [u \in Updates |->
                 IF u \in worker[w].page /\ update[u].status = "absent"
                   THEN [NoUpdate EXCEPT !.status = IF sent[u].authorised THEN "received"
                                                    ELSE "rejected"]
                   ELSE update[u]]
    BY <1>9 DEF Persist
  <2>2. \A s \in {"received", "rejected"} : /\ [NoUpdate EXCEPT !.status = s] \in UpdateRows
                                            /\ [NoUpdate EXCEPT !.status = s].status = s
    BY DEF NoUpdate, UpdateRows, Statuses, Pending, Settled
  <2>3. \A u \in Updates :
          \/ update'[u] = update[u]
          \/ /\ u \in worker[w].page
             /\ update'[u] \in UpdateRows /\ update'[u].status # "absent"
    BY <2>1, <2>2
  <2>4. update' = [x \in Updates |-> update'[x]] BY <2>1
  <2>5. \A x \in Updates : update'[x] \in UpdateRows BY <1>1, <2>3
  <2> QED BY <1>9, <2>3, <2>4, <2>5 DEF UpdateType, Present
<1>10. \/ UNCHANGED update
       \/ \E u \in Updates : UpdateFallsDue(u) \/ RetentionPasses(u)
       \/ \E w \in Workers : \/ Expire(w) \/ ClaimUpdate(w) \/ Replies(w) \/ Execute(w)
                             \/ RecordFailure(w) \/ Persist(w)
  BY StepKinds DEF Kind, Steps, vars, UserSends, DeliveryFallsDue, ClarificationLapses, Turns, Learns,
                   ClaimDelivery, CompleteDelivery, GetUpdates, ReadOffset
<1> QED BY <1>3, <1>4, <1>5, <1>6, <1>7, <1>8, <1>9, <1>10

(***************************************************************************)
(* What the user has said grows.                                           *)
(***************************************************************************)
LEMMA SentStep ==
    ASSUME Types, [Next]_vars
    PROVE  sent' \in Seq(Texts) /\ Len(sent) <= Len(sent') /\ Len(sent') <= MaxUpdates
<1>1. sent \in Seq(Texts) /\ Len(sent) \in Nat /\ Len(sent) <= MaxUpdates
  BY LenProperties DEF Types, InboxType
<1>2. CASE UserSends
  <2>1. PICK talk \in Conversations :
          /\ Len(sent) < MaxUpdates /\ Len(sent) < Len(talk)
          /\ sent' = Append(sent, talk[Len(sent) + 1])
    BY <1>2 DEF UserSends
  <2>2. talk \in Seq(Texts) BY ConversationAssumption
  <2>3. Len(sent) + 1 \in 1..Len(talk) BY <1>1, <2>1, <2>2, LenProperties
  <2>4. talk[Len(sent) + 1] \in Texts BY <2>2, <2>3, ElementOfSeq
  <2>5. sent' \in Seq(Texts) /\ Len(sent') = Len(sent) + 1
    BY <1>1, <2>1, <2>4, AppendProperties
  <2> QED BY <1>1, <2>1, <2>5, TelegramAssumption
<1>3. UNCHANGED sent \/ UserSends
  BY StepKinds DEF Kind, Steps, vars, inboxVars, UpdateFallsDue, RetentionPasses, DeliveryFallsDue,
       ClarificationLapses, Turns, Learns, Replies, Execute, RecordFailure, ClaimDelivery,
       CompleteDelivery, GetUpdates, ReadOffset, Persist, Expire, ClaimUpdate
<1> QED BY <1>1, <1>2, <1>3

(***************************************************************************)
(* A worker that goes to the top of one of its loops forgets what it read. *)
(***************************************************************************)
LEMMA RestingRow ==
    ASSUME Types, NEW w \in Workers, NEW pc \in Pcs, Goto(w, pc)
    PROVE  /\ worker' = [worker EXCEPT ![w] = worker'[w]]
           /\ worker'[w] \in WorkerRows /\ worker'[w].pc = pc
           /\ worker'[w].update = 0 /\ worker'[w].page = {}
<1>1. DOMAIN worker = Workers BY WorkerFields
<1>2. worker'[w] = [Resting EXCEPT !.pc = pc] BY <1>1 DEF Goto
<1>3. worker' = [worker EXCEPT ![w] = worker'[w]] BY <1>2 DEF Goto
<1>4. worker'[w] \in WorkerRows BY <1>2, RestingType
<1>5. worker'[w].pc = pc /\ worker'[w].update = 0 /\ worker'[w].page = {}
  BY <1>2 DEF Resting
<1> QED BY <1>3, <1>4, <1>5

(***************************************************************************)
(* What a step makes of the worker that takes it.                          *)
(***************************************************************************)
Becomes(w) ==
    \/ \E pc \in {"expire", "updates", "deliveries", "poll"} : Goto(w, pc)
    \/ Continues(w)
    \/ ClaimUpdate(w) /\ \E u \in Updates : Leases(w, u)
    \/ ClaimDelivery(w)
    \/ Learns(w)
    \/ GetUpdates(w)
    \/ ReadOffset(w)

(***************************************************************************)
(* Seven kinds of successors.                                              *)
(***************************************************************************)
LEMMA StepsBecome == ASSUME Types, NEW w \in Workers, Steps(w) PROVE Becomes(w)
<1>1. CASE Expire(w) BY <1>1 DEF Expire, Becomes
<1>2. CASE ClaimUpdate(w) BY <1>2, ClaimWrites DEF Becomes
<1>3. CASE Turns(w) BY <1>3 DEF Turns, Rests, Becomes
<1>4. CASE Replies(w) BY <1>4 DEF Replies, Finalize, Becomes
<1>5. CASE Execute(w)
  <2>1. worker[w].pc \in Working BY <1>5 DEF Execute, Executes, Answers, Acts, Working
  <2>2. Goto(w, "updates") \/ Fails(w, "retryable") BY <1>5 DEF Execute
  <2> QED BY <2>1, <2>2, Failing DEF Becomes
<1>6. CASE RecordFailure(w) BY <1>6 DEF RecordFailure, Becomes
<1>7. CASE CompleteDelivery(w) BY <1>7 DEF CompleteDelivery, Becomes
<1>8. CASE Persist(w) BY <1>8 DEF Persist, Becomes
<1> QED BY <1>1, <1>2, <1>3, <1>4, <1>5, <1>6, <1>7, <1>8 DEF Steps, Becomes

(***************************************************************************)
(* A worker that leases an update, claims, learns, polls or reads.         *)
(***************************************************************************)
LEMMA BusyRows ==
    ASSUME Types, NEW w \in Workers
    PROVE  /\ \A u \in Updates : Leases(w, u) /\ ClaimUpdate(w) =>
                 /\ worker' = [worker EXCEPT ![w] = worker'[w]]
                 /\ worker'[w] \in WorkerRows /\ worker'[w].pc = "read"
                 /\ worker'[w].update = u /\ worker'[w].page = {}
           /\ ClaimDelivery(w) =>
                 /\ worker' = [worker EXCEPT ![w] = worker'[w]]
                 /\ worker'[w] \in WorkerRows /\ worker'[w].pc = "send"
                 /\ worker'[w].update = 0 /\ worker'[w].message \in Deliverable
                 /\ worker'[w].page = {}
                 /\ delivery' = [delivery EXCEPT ![worker'[w].message] =
                       [status |-> "sending", due |-> FALSE,
                        attempts |-> delivery[worker'[w].message].attempts + 1]]
           /\ Learns(w) =>
                 /\ worker' = [worker EXCEPT ![w] = worker'[w]]
                 /\ worker'[w] \in WorkerRows /\ worker'[w].pc = "complete"
                 /\ worker'[w].update = worker[w].update /\ worker'[w].page = worker[w].page
                 /\ worker'[w].message = worker[w].message
                 /\ worker'[w].outcome \in {"retryable", "sent", "failed", "uncertain"}
           /\ GetUpdates(w) =>
                 /\ worker' = [worker EXCEPT ![w] = worker'[w]]
                 /\ worker'[w] \in WorkerRows /\ worker'[w].pc = "persist"
                 /\ worker'[w].update = worker[w].update
                 /\ worker'[w].page = {u \in 1..Len(sent) : u >= acknowledged'}
           /\ ReadOffset(w) =>
                 /\ worker' = [worker EXCEPT ![w] = worker'[w]]
                 /\ worker'[w] \in WorkerRows /\ worker'[w].pc = "offset"
                 /\ worker'[w].update = worker[w].update /\ worker'[w].page = worker[w].page
                 /\ worker'[w].offset = nextOffset
<1>1. worker[w] \in WorkerRows /\ DOMAIN worker = Workers BY WorkerFields
<1>2. {"read", "send", "complete", "persist", "offset"} \subseteq Pcs BY DEF Pcs
<1>3. ASSUME NEW u \in Updates, Leases(w, u)
      PROVE  /\ worker' = [worker EXCEPT ![w] = worker'[w]]
             /\ worker'[w] \in WorkerRows /\ worker'[w].pc = "read"
             /\ worker'[w].update = u /\ worker'[w].page = {}
  <2>1. update[u].attempts + 1 \in Nat
    <3>1. update[u] \in UpdateRows BY DEF Types, UpdateType
    <3> QED BY <3>1 DEF UpdateRows
  <2> DEFINE n == update[u].attempts + 1
  <2>2. worker'[w] = [Resting EXCEPT !.pc = "read", !.update = u, !.attempt = n]
        /\ worker' = [worker EXCEPT ![w] = worker'[w]]
    BY <1>3 DEF Leases
  <2> HIDE DEF n
  <2>3. worker'[w] \in WorkerRows
    BY <1>2, <2>1, <2>2, RestingType DEF WorkerRows, n
  <2>4. worker'[w].pc = "read" /\ worker'[w].update = u /\ worker'[w].page = {}
    BY <2>2 DEF Resting
  <2> QED BY <2>2, <2>3, <2>4
<1>4. ASSUME ClaimDelivery(w)
      PROVE  /\ worker' = [worker EXCEPT ![w] = worker'[w]]
             /\ worker'[w] \in WorkerRows /\ worker'[w].pc = "send"
             /\ worker'[w].update = 0 /\ worker'[w].message \in Deliverable
             /\ worker'[w].page = {}
             /\ delivery' = [delivery EXCEPT ![worker'[w].message] =
                   [status |-> "sending", due |-> FALSE,
                    attempts |-> delivery[worker'[w].message].attempts + 1]]
  <2>1. PICK m \in Deliverable :
          /\ delivery' = [delivery EXCEPT ![m] = [status |-> "sending", due |-> FALSE,
                                                  attempts |-> delivery[m].attempts + 1]]
          /\ worker' = [worker EXCEPT ![w] = [Resting EXCEPT !.pc = "send", !.message = m]]
    BY <1>4 DEF ClaimDelivery
  <2>2. worker'[w] = [Resting EXCEPT !.pc = "send", !.message = m] BY <1>1, <2>1
  <2>3. worker' = [worker EXCEPT ![w] = worker'[w]] BY <2>1, <2>2
  <2>4. m \in Messages BY DEF Deliverable
  <2>5. worker'[w] \in WorkerRows BY <1>2, <2>2, <2>4, RestingType DEF WorkerRows
  <2>6. /\ worker'[w].pc = "send" /\ worker'[w].update = 0 /\ worker'[w].message = m
        /\ worker'[w].page = {}
    BY <2>2 DEF Resting
  <2> QED BY <2>1, <2>3, <2>5, <2>6
<1>5. ASSUME Learns(w)
      PROVE  /\ worker' = [worker EXCEPT ![w] = worker'[w]]
             /\ worker'[w] \in WorkerRows /\ worker'[w].pc = "complete"
             /\ worker'[w].update = worker[w].update /\ worker'[w].page = worker[w].page
             /\ worker'[w].message = worker[w].message
             /\ worker'[w].outcome \in {"retryable", "sent", "failed", "uncertain"}
  <2>1. PICK o \in {"sent", "retryable", "failed", "uncertain"} :
          worker' = [worker EXCEPT ![w].pc = "complete", ![w].outcome = o]
    BY <1>5 DEF Learns, Sends
  <2>2. worker'[w] = [worker[w] EXCEPT !.pc = "complete", !.outcome = o] BY <1>1, <2>1
  <2>3. worker' = [worker EXCEPT ![w] = worker'[w]] BY <2>1, <2>2
  <2>4. o \in Outcomes BY DEF Outcomes
  <2>5. /\ worker'[w] \in WorkerRows /\ worker'[w].pc = "complete" /\ worker'[w].outcome = o
        /\ worker'[w].update = worker[w].update /\ worker'[w].page = worker[w].page
        /\ worker'[w].message = worker[w].message
    BY <1>1, <1>2, <2>2, <2>4 DEF WorkerRows
  <2> QED BY <2>3, <2>5
<1>6. ASSUME GetUpdates(w)
      PROVE  /\ worker' = [worker EXCEPT ![w] = worker'[w]]
             /\ worker'[w] \in WorkerRows /\ worker'[w].pc = "persist"
             /\ worker'[w].update = worker[w].update
             /\ worker'[w].page = {u \in 1..Len(sent) : u >= acknowledged'}
  <2> DEFINE page == {u \in 1..Len(sent) : u >= acknowledged'}
  <2>1. worker' = [worker EXCEPT ![w].pc = "persist", ![w].page = page] BY <1>6 DEF GetUpdates
  <2>2. page \in SUBSET Updates
    <3>1. sent \in Seq(Texts) /\ Len(sent) <= MaxUpdates BY DEF Types, InboxType
    <3>2. Len(sent) \in Nat BY <3>1, LenProperties
    <3> QED BY <3>1, <3>2, TelegramAssumption DEF Updates
  <2> HIDE DEF page
  <2>3. worker'[w] = [worker[w] EXCEPT !.pc = "persist", !.page = page] BY <1>1, <2>1
  <2>4. worker' = [worker EXCEPT ![w] = worker'[w]] BY <2>1, <2>3
  <2>5. /\ worker'[w] \in WorkerRows /\ worker'[w].pc = "persist" /\ worker'[w].page = page
        /\ worker'[w].update = worker[w].update
    BY <1>1, <1>2, <2>2, <2>3 DEF WorkerRows
  <2> QED BY <2>4, <2>5 DEF page
<1>7. ASSUME ReadOffset(w)
      PROVE  /\ worker' = [worker EXCEPT ![w] = worker'[w]]
             /\ worker'[w] \in WorkerRows /\ worker'[w].pc = "offset"
             /\ worker'[w].update = worker[w].update /\ worker'[w].page = worker[w].page
             /\ worker'[w].offset = nextOffset
  <2>1. worker' = [worker EXCEPT ![w].pc = "offset", ![w].offset = nextOffset]
    BY <1>7 DEF ReadOffset
  <2>2. nextOffset \in Nat BY DEF Types, InboxType
  <2>3. worker'[w] = [worker[w] EXCEPT !.pc = "offset", !.offset = nextOffset] BY <1>1, <2>1
  <2>4. worker' = [worker EXCEPT ![w] = worker'[w]] BY <2>1, <2>3
  <2>5. /\ worker'[w] \in WorkerRows /\ worker'[w].pc = "offset"
        /\ worker'[w].update = worker[w].update /\ worker'[w].page = worker[w].page
        /\ worker'[w].offset = nextOffset
    BY <1>1, <1>2, <2>2, <2>3 DEF WorkerRows
  <2> QED BY <2>4, <2>5
<1> QED BY <1>3, <1>4, <1>5, <1>6, <1>7

-----------------------------------------------------------------------------
(* Nothing is lost                                                         *)

(***************************************************************************)
(* Everything below an offset that is stored, held or acknowledged is in   *)
(* the inbox, and a page is all that was sent from the offset on.          *)
(***************************************************************************)
Below(n, rows) == \A u \in Updates : u < n => rows[u].status # "absent"

Paged(v, rows) ==
    /\ v.pc = "offset" => Below(v.offset, rows)
    /\ v.pc \in {"persist", "offset"} =>
          \E a \in Nat, n \in 0..MaxUpdates :
              v.page = {u \in 1..n : u >= a} /\ Below(a, rows)

LossInv == /\ Below(acknowledged, update) /\ Below(nextOffset, update)
           /\ \A w \in Workers : Paged(worker[w], update)

(***************************************************************************)
(* The offset after a page: one more than its last update.                 *)
(***************************************************************************)
LEMMA PageEnd ==
    ASSUME NEW a \in Nat, NEW n \in Nat, NEW page, page = {u \in 1..n : u >= a}
    PROVE  OffsetAfter(page) = 0 \/ OffsetAfter(page) = n + 1
<1>1. CASE page = {} BY <1>1 DEF OffsetAfter
<1>2. CASE page # {}
  <2>1. n \in page /\ \A v \in page : v <= n BY <1>2
  <2>2. \A u \in page : (\A v \in page : v <= u) => u = n BY <2>1
  <2> DEFINE top == CHOOSE u \in page : \A v \in page : v <= u
  <2>3. top \in page /\ \A v \in page : v <= top BY <2>1
  <2>4. top = n BY <2>2, <2>3
  <2> QED BY <1>2, <2>4 DEF OffsetAfter
<1> QED BY <1>1, <1>2

(***************************************************************************)
(* Larger of two.                                                          *)
(***************************************************************************)
LEMMA LargerType ==
    ASSUME NEW a \in Nat, NEW b \in Nat
    PROVE  Larger(a, b) \in Nat /\ (Larger(a, b) = a \/ Larger(a, b) = b)
  BY DEF Larger

(***************************************************************************)
(* The inbox keeps its types.                                              *)
(***************************************************************************)
LEMMA InboxStep ==
    ASSUME Types, LossInv, [Next]_vars
    PROVE  InboxType' /\ Below(acknowledged, update)' /\ Below(nextOffset, update)'
<1>1. sent' \in Seq(Texts) /\ Len(sent') <= MaxUpdates BY SentStep
<1>2. acknowledged \in Nat /\ nextOffset \in Nat BY DEF Types, InboxType
<1>3. \A u \in Updates : update[u].status # "absent" => update'[u].status # "absent"
  BY UpdateStep DEF Present
<1>4. Below(acknowledged, update') /\ Below(nextOffset, update')
  BY <1>3 DEF LossInv, Below
<1>5. CASE UNCHANGED <<acknowledged, nextOffset>>
  BY <1>1, <1>2, <1>4, <1>5 DEF InboxType, Below
<1>6. ASSUME NEW w \in Workers, GetUpdates(w)
      PROVE  InboxType' /\ Below(acknowledged, update)' /\ Below(nextOffset, update)'
  <2>1. acknowledged' = Larger(acknowledged, nextOffset) /\ nextOffset' = nextOffset
    BY <1>6 DEF GetUpdates
  <2> QED BY <1>1, <1>2, <1>4, <2>1, LargerType DEF InboxType, Below
<1>7. ASSUME NEW w \in Workers, Persist(w)
      PROVE  InboxType' /\ Below(acknowledged, update)' /\ Below(nextOffset, update)'
  <2> DEFINE page == worker[w].page
             end == OffsetAfter(page)
  <2>1. worker[w].pc = "offset" /\ acknowledged' = acknowledged
        /\ nextOffset' = Larger(worker[w].offset, end)
    BY <1>7 DEF Persist
  <2>2. PICK a \in Nat, n \in 0..MaxUpdates : page = {u \in 1..n : u >= a} /\ Below(a, update)
    BY <2>1 DEF LossInv, Paged
  <2>3. n \in Nat BY TelegramAssumption
  <2>4. end = 0 \/ end = n + 1 BY <2>2, <2>3, PageEnd
  <2>5. \A u \in page : u \in Updates => update'[u].status # "absent"
    <3>1. ASSUME NEW u \in Updates, u \in page PROVE update'[u].status # "absent"
      <4>1. update'[u] = IF u \in worker[w].page /\ update[u].status = "absent"
                   THEN [NoUpdate EXCEPT !.status = IF sent[u].authorised THEN "received"
                                                    ELSE "rejected"]
                   ELSE update[u]
        BY <1>7 DEF Persist
      <4> QED BY <3>1, <4>1 DEF NoUpdate
    <3> QED BY <3>1
  <2>6. Below(end, update')
    <3>1. ASSUME NEW u \in Updates, u < n + 1 PROVE update'[u].status # "absent"
      <4>1. u \in Nat /\ u >= 1 BY DEF Updates
      <4>2. CASE u < a BY <1>3, <2>2, <4>2 DEF Below
      <4>3. CASE ~ (u < a)
        <5>1. u \in 1..n BY <2>3, <3>1, <4>1
        <5>2. u \in page BY <2>2, <4>1, <4>3, <5>1
        <5> QED BY <2>5, <5>2
      <4> QED BY <4>2, <4>3
    <3>2. CASE end = n + 1 BY <3>1, <3>2 DEF Below
    <3>3. CASE end = 0 BY <3>3 DEF Below, Updates
    <3> QED BY <2>4, <3>2, <3>3
  <2>7. Below(worker[w].offset, update') BY <1>3, <2>1 DEF LossInv, Paged, Below
  <2>8. worker[w].offset \in Nat /\ end \in Nat
    <3>1. worker[w] \in WorkerRows BY WorkerFields
    <3>2. worker[w].offset \in Nat BY <3>1 DEF WorkerRows
    <3> QED BY <2>3, <2>4, <3>2
  <2> HIDE DEF end
  <2>9. nextOffset' \in Nat /\ (nextOffset' = worker[w].offset \/ nextOffset' = end)
    BY <2>1, <2>8, LargerType
  <2>10. Below(nextOffset', update') BY <2>6, <2>7, <2>9
  <2> QED BY <1>1, <1>2, <1>4, <2>1, <2>9, <2>10 DEF InboxType, Below
<1>8. \/ UNCHANGED <<acknowledged, nextOffset>>
      \/ \E w \in Workers : GetUpdates(w) \/ Persist(w)
  BY StepKinds DEF Kind, Steps, vars, inboxVars, UserSends, UpdateFallsDue, RetentionPasses,
       DeliveryFallsDue, ClarificationLapses, Turns, Learns, Replies, Execute, RecordFailure,
       ClaimDelivery, CompleteDelivery, ReadOffset, Expire, ClaimUpdate
<1> QED BY <1>5, <1>6, <1>7, <1>8

(***************************************************************************)
(* A worker that steps, and what holds of it then.                         *)
(***************************************************************************)
LEMMA SteppingWorker ==
    ASSUME Types, LossInv, [Next]_vars, NEW w \in Workers, Steps(w)
    PROVE  /\ worker' = [worker EXCEPT ![w] = worker'[w]]
           /\ worker'[w] \in WorkerRows
           /\ Busy(worker'[w], update')
           /\ worker'[w].page \subseteq 1..Len(sent')
           /\ Paged(worker'[w], update')
<1>1. Becomes(w) BY StepsBecome
<1>2. \A u \in Updates : update[u].status # "absent" => update'[u].status # "absent"
  BY UpdateStep DEF Present
<1>3. Len(sent) \in Nat /\ Len(sent') \in Nat /\ Len(sent) <= Len(sent') /\ Len(sent) <= MaxUpdates
  BY SentStep, LenProperties DEF Types, InboxType
<1>4. worker[w] \in WorkerRows /\ worker[w].page \subseteq 1..Len(sent)
      /\ Busy(worker[w], update) /\ Paged(worker[w], update)
  BY WorkerFields DEF Types, ReceivedType, BusyType, LossInv
<1>5. worker[w].update \in Updates \cup {0} BY <1>4 DEF WorkerRows
<1>6. worker[w].update # 0 => update'[worker[w].update].status # "absent"
  BY <1>2, <1>4, <1>5 DEF Busy
<1>7. worker[w].page \subseteq 1..Len(sent') BY <1>3, <1>4
<1>8. ASSUME NEW pc \in {"expire", "updates", "deliveries", "poll"}, Goto(w, pc)
      PROVE  /\ worker' = [worker EXCEPT ![w] = worker'[w]]
             /\ worker'[w] \in WorkerRows /\ Busy(worker'[w], update')
             /\ worker'[w].page \subseteq 1..Len(sent') /\ Paged(worker'[w], update')
  <2>1. pc \in Pcs BY DEF Pcs
  <2> QED BY <1>8, <2>1, RestingRow DEF Busy, Paged, Working, Sending
<1>9. CASE Continues(w)
  <2>1. worker'[w].pc \in Working /\ worker[w].pc \in Working BY <1>9 DEF Continues
  <2>2. worker[w].update # 0 BY <1>4, <2>1 DEF Busy
  <2> QED BY <1>6, <1>7, <1>9, <2>1, <2>2 DEF Continues, Busy, Paged, Working, Sending
<1>10. ASSUME ClaimUpdate(w), NEW u \in Updates, Leases(w, u)
       PROVE  /\ worker' = [worker EXCEPT ![w] = worker'[w]]
              /\ worker'[w] \in WorkerRows /\ Busy(worker'[w], update')
              /\ worker'[w].page \subseteq 1..Len(sent') /\ Paged(worker'[w], update')
  <2>1. update'[u].status # "absent" BY <1>10 DEF Leases
  <2>2. u # 0 BY DEF Updates
  <2> QED BY <1>10, <2>1, <2>2, BusyRows DEF Busy, Paged, Working, Sending
<1>11. CASE ClaimDelivery(w)
  <2>1. Deliverable \subseteq Messages BY DEF Deliverable
  <2> QED BY <1>11, <2>1, BusyRows DEF Busy, Paged, Working, Sending
<1>12. CASE Learns(w)
  <2>1. worker[w].pc \in Sending BY <1>12 DEF Learns, Sending
  <2>2. worker[w].message \in Messages BY <2>1, WorkerFields
  <2> QED BY <1>6, <1>7, <1>12, <2>2, BusyRows DEF Busy, Paged, Working, Sending
<1>13. CASE GetUpdates(w)
  <2>1. /\ worker' = [worker EXCEPT ![w] = worker'[w]]
        /\ worker'[w] \in WorkerRows /\ worker'[w].pc = "persist"
        /\ worker'[w].update = worker[w].update
        /\ worker'[w].page = {u \in 1..Len(sent) : u >= acknowledged'}
    BY <1>13, BusyRows
  <2>2. acknowledged' \in Nat /\ Below(acknowledged', update')
    BY InboxStep DEF InboxType, Below
  <2>3. Len(sent) \in 0..MaxUpdates BY <1>3, TelegramAssumption
  <2>4. Paged(worker'[w], update') BY <2>1, <2>2, <2>3 DEF Paged
  <2>5. worker'[w].page \subseteq 1..Len(sent') BY <1>3, <2>1
  <2> QED BY <1>6, <2>1, <2>4, <2>5 DEF Busy, Working, Sending
<1>14. CASE ReadOffset(w)
  <2>1. /\ worker' = [worker EXCEPT ![w] = worker'[w]]
        /\ worker'[w] \in WorkerRows /\ worker'[w].pc = "offset"
        /\ worker'[w].update = worker[w].update /\ worker'[w].page = worker[w].page
        /\ worker'[w].offset = nextOffset
    BY <1>14, BusyRows
  <2>2. worker[w].pc = "persist" BY <1>14 DEF ReadOffset
  <2>3. PICK a \in Nat, n \in 0..MaxUpdates :
           worker[w].page = {u \in 1..n : u >= a} /\ Below(a, update)
    BY <1>4, <2>2 DEF Paged
  <2>4. Below(a, update') /\ Below(nextOffset, update') BY <1>2, <2>3 DEF Below, LossInv
  <2>5. Paged(worker'[w], update') BY <2>1, <2>3, <2>4 DEF Paged
  <2> QED BY <1>6, <1>7, <2>1, <2>5 DEF Busy, Working, Sending
<1> QED BY <1>1, <1>8, <1>9, <1>10, <1>11, <1>12, <1>13, <1>14 DEF Becomes

(***************************************************************************)
(* The workers keep their types, and their pages what they stand for.      *)
(***************************************************************************)
LEMMA WorkersStep ==
    ASSUME Types, LossInv, [Next]_vars
    PROVE  WorkerType' /\ BusyType' /\ ReceivedType' /\ \A w \in Workers : Paged(worker'[w], update')
<1>1. \A u \in Updates : update[u].status # "absent" => update'[u].status # "absent"
  BY UpdateStep DEF Present
<1>2. Len(sent) \in Nat /\ Len(sent') \in Nat /\ Len(sent) <= Len(sent')
  BY SentStep, LenProperties DEF Types, InboxType
<1>3. \A u \in Updates : Present(u)' => u \in 1..Len(sent')
  <2>1. ASSUME NEW u \in Updates, Present(u)' PROVE u \in 1..Len(sent)
    BY <2>1, UpdateStep DEF Types, ReceivedType
  <2> QED BY <1>2, <2>1
<1>4. ASSUME NEW w \in Workers, worker'[w] = worker[w]
      PROVE  /\ worker'[w] \in WorkerRows /\ Busy(worker'[w], update')
             /\ worker'[w].page \subseteq 1..Len(sent') /\ Paged(worker'[w], update')
  <2>1. worker[w] \in WorkerRows /\ worker[w].page \subseteq 1..Len(sent)
        /\ Busy(worker[w], update) /\ Paged(worker[w], update)
    BY WorkerFields DEF Types, ReceivedType, BusyType, LossInv
  <2>2. worker[w].update \in Updates \cup {0} BY <2>1 DEF WorkerRows
  <2>3. worker[w].update # 0 => update'[worker[w].update].status # "absent"
    BY <1>1, <2>1, <2>2 DEF Busy
  <2>4. worker[w].page \subseteq 1..Len(sent') BY <1>2, <2>1
  <2>5. \A n : Below(n, update) => Below(n, update') BY <1>1 DEF Below
  <2>6. Paged(worker[w], update') BY <2>1, <2>5 DEF Paged
  <2>7. Busy(worker[w], update') BY <2>1, <2>3 DEF Busy
  <2> QED BY <1>4, <2>1, <2>4, <2>6, <2>7
<1>5. DOMAIN worker = Workers BY DEF Types, WorkerType
<1>6. CASE UNCHANGED worker
  <2>1. \A w \in Workers : worker'[w] = worker[w] BY <1>6
  <2>2. worker' \in [Workers -> WorkerRows] BY <1>6 DEF Types, WorkerType
  <2> QED BY <1>3, <1>4, <2>1, <2>2 DEF WorkerType, BusyType, ReceivedType
<1>7. ASSUME NEW w \in Workers, Steps(w)
      PROVE  WorkerType' /\ BusyType' /\ ReceivedType' /\ \A v \in Workers : Paged(worker'[v], update')
  <2>1. /\ worker' = [worker EXCEPT ![w] = worker'[w]]
        /\ worker'[w] \in WorkerRows /\ Busy(worker'[w], update')
        /\ worker'[w].page \subseteq 1..Len(sent') /\ Paged(worker'[w], update')
    BY <1>7, SteppingWorker
  <2>2. \A v \in Workers : v # w => worker'[v] = worker[v] BY <1>5, <2>1
  <2>3. worker' = [v \in Workers |-> worker'[v]] BY <1>5, <2>1
  <2>4. \A v \in Workers : /\ worker'[v] \in WorkerRows /\ Busy(worker'[v], update')
                           /\ worker'[v].page \subseteq 1..Len(sent') /\ Paged(worker'[v], update')
    BY <1>4, <2>1, <2>2
  <2>5. worker' \in [Workers -> WorkerRows] BY <2>3, <2>4
  <2> QED BY <1>3, <2>4, <2>5 DEF WorkerType, BusyType, ReceivedType
<1>8. UNCHANGED worker \/ \E w \in Workers : Steps(w)
  BY StepKinds DEF Kind, vars, UserSends, UpdateFallsDue, RetentionPasses, DeliveryFallsDue,
       ClarificationLapses
<1> QED BY <1>6, <1>7, <1>8

-----------------------------------------------------------------------------
(* Clarifications, money and the clock                                     *)

(***************************************************************************)
(* What a worker makes of its text is well typed.                          *)
(***************************************************************************)
LEMMA ParsedResult ==
    ASSUME Types, NEW w \in Workers, worker[w].pc \in Working PROVE Result(Parsed(w))
<1>1. Text(w) \in Texts /\ worker[w].reading.draft \in Drafts
  <2>1. worker[w] \in WorkerRows BY WorkerFields
  <2>2. worker[w].reading \in Readings BY <2>1 DEF WorkerRows
  <2> QED BY <2>2, WorkerFields DEF Readings
<1>2. Parsed(w) = ParseText(Text(w))
      \/ Parsed(w) = MergeClarification(worker[w].reading.draft, Text(w))
  BY DEF Parsed
<1> QED BY <1>1, <1>2, TextResult, AnswerResult

(***************************************************************************)
(* A sequence whose elements are replaced.                                 *)
(***************************************************************************)
LEMMA SeqOf ==
    ASSUME NEW S, NEW s \in Seq(S), NEW t,
           DOMAIN t = DOMAIN s, t = [i \in DOMAIN s |-> t[i]], \A i \in DOMAIN s : t[i] \in S
    PROVE  t \in Seq(S)
<1>1. DOMAIN s = 1..Len(s) /\ Len(s) \in Nat BY LenProperties
<1>2. t \in [1..Len(s) -> S] BY <1>1
<1> QED BY <1>1, <1>2, SeqDef

(***************************************************************************)
(* The statuses and the draft of a clarification may change.               *)
(***************************************************************************)
LEMMA QuestionFields ==
    ASSUME NEW q \in Questions
    PROVE  /\ \A s \in {"active", "expired", "cancelled", "superseded", "resolved"} :
                 [q EXCEPT !.status = s] \in Questions
           /\ \A d \in Drafts : [q EXCEPT !.draft = d] \in Questions
           /\ \A n \in Nat : [q EXCEPT !.invalid = n] \in Questions
           /\ [q EXCEPT !.lapsed = TRUE] \in Questions
  BY DEF Questions

(***************************************************************************)
(* Clarifications keep their type.                                         *)
(***************************************************************************)
LEMMA QuestionStep == ASSUME Types, [Next]_vars PROVE QuestionType'
<1>1. /\ clarification \in Seq(Questions)
      /\ \A c \in DOMAIN clarification : clarification[c] \in Questions
  BY ElementOfSeq, LenProperties DEF Types, QuestionType
<1>2. CASE UNCHANGED clarification BY <1>1, <1>2 DEF QuestionType
<1>3. ASSUME DOMAIN clarification' = DOMAIN clarification,
             clarification' = [c \in DOMAIN clarification |-> clarification'[c]],
             \A c \in DOMAIN clarification : clarification'[c] \in Questions
      PROVE  QuestionType'
  BY <1>1, <1>3, SeqOf DEF QuestionType
<1>4. ASSUME NEW status \in {"cancelled", "superseded"}
      PROVE  /\ DOMAIN Closed(status) = DOMAIN clarification
             /\ Closed(status) = [c \in DOMAIN clarification |-> Closed(status)[c]]
             /\ \A c \in DOMAIN clarification : Closed(status)[c] \in Questions
  <2>1. \A c \in DOMAIN clarification : Closed(status)[c] \in Questions
    BY <1>1, QuestionFields DEF Closed
  <2>2. DOMAIN Closed(status) = DOMAIN clarification
        /\ Closed(status) = [c \in DOMAIN clarification |-> Closed(status)[c]]
    BY DEF Closed
  <2> QED BY <2>1, <2>2
<1>5. ASSUME NEW d \in DOMAIN clarification, ClarificationLapses(d) PROVE QuestionType'
  <2>1. clarification' = [clarification EXCEPT ![d].lapsed = TRUE]
    BY <1>5 DEF ClarificationLapses
  <2>2. \A c \in DOMAIN clarification : clarification'[c] =
          IF c = d THEN [clarification[d] EXCEPT !.lapsed = TRUE] ELSE clarification[c]
    BY <1>1, <2>1
  <2>3. \A c \in DOMAIN clarification : clarification'[c] \in Questions
    BY <1>1, <2>2, QuestionFields
  <2>4. DOMAIN clarification' = DOMAIN clarification
        /\ clarification' = [c \in DOMAIN clarification |-> clarification'[c]]
    BY <1>1, <2>1
  <2> QED BY <1>3, <2>3, <2>4
<1>6. ASSUME NEW w \in Workers, Expire(w) PROVE QuestionType'
  <2>1. clarification' = [c \in DOMAIN clarification |->
          IF clarification[c].status = "active" /\ clarification[c].lapsed
            THEN [clarification[c] EXCEPT !.status = "expired"] ELSE clarification[c]]
    BY <1>6 DEF Expire
  <2>2. \A c \in DOMAIN clarification : clarification'[c] \in Questions
    BY <1>1, <2>1, QuestionFields
  <2>3. DOMAIN clarification' = DOMAIN clarification
        /\ clarification' = [c \in DOMAIN clarification |-> clarification'[c]]
    BY <2>1
  <2> QED BY <1>3, <2>2, <2>3
<1>7. ASSUME NEW w \in Workers, Cancel(w) PROVE QuestionType'
  <2>1. clarification' = Closed("cancelled") BY <1>7 DEF Cancel
  <2> QED BY <1>3, <1>4, <2>1
<1>8. ASSUME NEW w \in Workers, CreateClarification(w) PROVE QuestionType'
  <2> DEFINE old == Closed("superseded")
             new == [draft |-> Parsed(w).draft, invalid |-> 0, status |-> "active", lapsed |-> FALSE]
  <2>1. clarification' = Append(old, new) BY <1>8 DEF CreateClarification
  <2>2. worker[w].pc \in Working BY <1>8 DEF CreateClarification, Answers, Acts, Working
  <2>3. Parsed(w).draft \in Drafts BY <2>2, ParsedResult DEF Result
  <2>4. new \in Questions BY <2>3 DEF Questions
  <2>5. old \in Seq(Questions) BY <1>1, <1>4, SeqOf
  <2> HIDE DEF old, new
  <2> QED BY <2>1, <2>4, <2>5, AppendProperties DEF QuestionType
<1>9. ASSUME NEW w \in Workers, AdvanceClarification(w) PROVE QuestionType'
  <2> DEFINE c == worker[w].reading.id
  <2>1. \/ UNCHANGED clarification
        \/ clarification' = [clarification EXCEPT ![c].draft = Parsed(w).draft]
    BY <1>9 DEF AdvanceClarification
  <2>2. worker[w].pc \in Working BY <1>9 DEF AdvanceClarification, Answers, Acts, Working
  <2>3. Parsed(w).draft \in Drafts BY <2>2, ParsedResult DEF Result
  <2> DEFINE d == Parsed(w).draft
  <2> HIDE DEF c, d
  <2>4. CASE clarification' = [clarification EXCEPT ![c].draft = d]
    <3>1. \A x \in DOMAIN clarification : clarification'[x] =
            IF x = c THEN [clarification[x] EXCEPT !.draft = d] ELSE clarification[x]
      BY <1>1, <2>4
    <3>2. d \in Drafts BY <2>3 DEF d
    <3>3. ASSUME NEW x \in DOMAIN clarification PROVE clarification'[x] \in Questions
      <4> DEFINE q == clarification[x]
                 v == clarification'[x]
      <4>1. /\ q \in Questions
            /\ \/ v = q
               \/ v = [q EXCEPT !.draft = d]
        BY <1>1, <3>1
      <4> HIDE DEF q, v
      <4>2. v \in Questions BY <3>2, <4>1 DEF Questions
      <4> QED BY <4>2 DEF v
    <3>4. DOMAIN clarification' = DOMAIN clarification
          /\ clarification' = [x \in DOMAIN clarification |-> clarification'[x]]
      BY <1>1, <2>4
    <3> QED BY <1>3, <3>3, <3>4
  <2> QED BY <1>2, <2>1, <2>4 DEF d
<1>10. ASSUME NEW w \in Workers, CountInvalidAnswer(w) PROVE QuestionType'
  <2> DEFINE c == worker[w].reading.id
             n == worker[w].reading.invalid + 1
  <2>1. \/ clarification' = [clarification EXCEPT ![c].status = "cancelled"]
        \/ clarification' = [clarification EXCEPT ![c].invalid = n]
    BY <1>10 DEF CountInvalidAnswer
  <2>2. n \in Nat
    <3>1. worker[w] \in WorkerRows BY WorkerFields
    <3>2. worker[w].reading \in Readings BY <3>1 DEF WorkerRows
    <3> QED BY <3>2 DEF Readings
  <2> HIDE DEF c, n
  <2>3. \A x \in DOMAIN clarification :
          \/ clarification'[x] = clarification[x]
          \/ clarification'[x] = [clarification[x] EXCEPT !.status = "cancelled"]
          \/ clarification'[x] = [clarification[x] EXCEPT !.invalid = n]
    BY <1>1, <2>1
  <2>4. ASSUME NEW x \in DOMAIN clarification PROVE clarification'[x] \in Questions
    <3> DEFINE q == clarification[x]
               v == clarification'[x]
    <3>1. /\ q \in Questions
          /\ \/ v = q
             \/ v = [q EXCEPT !.status = "cancelled"]
             \/ v = [q EXCEPT !.invalid = n]
      BY <1>1, <2>3
    <3> HIDE DEF q, v
    <3>2. v \in Questions BY <2>2, <3>1 DEF Questions
    <3> QED BY <3>2 DEF v
  <2>5. DOMAIN clarification' = DOMAIN clarification
        /\ clarification' = [x \in DOMAIN clarification |-> clarification'[x]]
    BY <1>1, <2>1
  <2> QED BY <1>3, <2>4, <2>5
<1>11. ASSUME NEW w \in Workers, Execute(w) PROVE QuestionType'
  <2> DEFINE c == worker[w].reading.id
             s == IF ParseText(Text(w)).confidence = "high" THEN "superseded" ELSE "resolved"
  <2>1. \/ UNCHANGED clarification
        \/ clarification' = [clarification EXCEPT ![c].status = s]
    BY <1>11 DEF Execute, Resolved
  <2>2. s \in {"superseded", "resolved"} OBVIOUS
  <2> HIDE DEF c, s
  <2>3. CASE clarification' = [clarification EXCEPT ![c].status = s]
    <3>1. \A x \in DOMAIN clarification : clarification'[x] =
            IF x = c THEN [clarification[x] EXCEPT !.status = s] ELSE clarification[x]
      BY <1>1, <2>3
    <3>2. ASSUME NEW x \in DOMAIN clarification PROVE clarification'[x] \in Questions
      <4> DEFINE q == clarification[x]
                 v == clarification'[x]
      <4>1. /\ q \in Questions
            /\ \/ v = q
               \/ v = [q EXCEPT !.status = s]
        BY <1>1, <3>1
      <4> HIDE DEF q, v
      <4>2. v \in Questions BY <2>2, <4>1 DEF Questions
      <4> QED BY <4>2 DEF v
    <3>3. DOMAIN clarification' = DOMAIN clarification
          /\ clarification' = [x \in DOMAIN clarification |-> clarification'[x]]
      BY <1>1, <2>3
    <3> QED BY <1>3, <3>2, <3>3
  <2> QED BY <1>2, <2>1, <2>3
<1>12. \/ UNCHANGED clarification
       \/ \E c \in DOMAIN clarification : ClarificationLapses(c)
       \/ \E w \in Workers : \/ Expire(w) \/ Cancel(w) \/ CreateClarification(w)
                             \/ AdvanceClarification(w) \/ CountInvalidAnswer(w) \/ Execute(w)
  <2>1. \A w \in Workers : Replies(w) => \/ UNCHANGED clarification \/ Cancel(w)
                             \/ CreateClarification(w) \/ AdvanceClarification(w)
                             \/ CountInvalidAnswer(w)
    BY DEF Replies
  <2> QED BY <2>1, StepKinds DEF Kind, Steps, vars, UserSends, UpdateFallsDue, RetentionPasses,
               DeliveryFallsDue, ClaimUpdate, Turns, Learns, RecordFailure, ClaimDelivery,
               CompleteDelivery, GetUpdates, ReadOffset, Persist
<1> QED BY <1>2, <1>5, <1>6, <1>7, <1>8, <1>9, <1>10, <1>11, <1>12

(***************************************************************************)
(* What a command records: its update, its proposal, its effect.           *)
(***************************************************************************)
Effects(w) ==
    /\ effect' = [effect EXCEPT ![worker[w].update] = effect'[worker[w].update]]
    /\ applied' = [applied EXCEPT ![worker[w].update] = @ + 1]
    /\ effect[worker[w].update] = NoProposal
    /\ effect'[worker[w].update] \in Proposals
    /\ LET p == Parsed(w).proposal
       IN  \/ /\ effect'[worker[w].update].target = NoTarget
              /\ closedLink' = closedLink
           \/ /\ effect'[worker[w].update].target = p.target
              /\ Targets(p) # {}
              /\ closedLink' = closedLink \cup Targets(p)

(***************************************************************************)
(* A command changes facts by such a record, or none.                      *)
(***************************************************************************)
LEMMA ExecuteEffects ==
    ASSUME Types, NEW w \in Workers, Execute(w)
    PROVE  /\ worker[w].update \in Updates /\ worker[w].pc = "act"
           /\ DOMAIN command' = Updates
           /\ UNCHANGED <<effect, applied, closedLink>> \/ Effects(w)
<1> DEFINE u == worker[w].update
           p == Parsed(w).proposal
<1>1. worker[w].pc = "act" BY DEF Execute, Executes, Answers, Acts
<1>2. u \in Updates BY <1>1, WorkerFields DEF Working
<1>3. Complete(p)
  <2>1. Result(Parsed(w)) BY <1>1, ParsedResult DEF Working
  <2>2. Parsed(w).confidence = "high" BY DEF Execute, Executes
  <2> QED BY <2>1, <2>2 DEF Result
<1>4. /\ command' = [command EXCEPT ![u] = @ \cup {p}]
      /\ effect[u] = NoProposal
      /\ p.kind = "correction" => \E v \in Targets(p) : Corrects(p, v)
      /\ \/ /\ effect' = [effect EXCEPT ![u] = Recorded(p)]
            /\ applied' = [applied EXCEPT ![u] = @ + 1]
            /\ closedLink' = IF p.kind = "correction" THEN closedLink \cup Targets(p)
                             ELSE closedLink
         \/ UNCHANGED <<effect, applied, closedLink>>
  BY DEF Execute, FirstCommand
<1> HIDE DEF p, u
<1>5. DOMAIN command' = Updates BY <1>4 DEF Types, MoneyType
<1>6. Recorded(p) \in Proposals /\ (p.kind = "correction" => Recorded(p).target = p.target)
      /\ (p.kind # "correction" => Recorded(p).target = NoTarget)
  <2>1. CASE p.kind # "correction" BY <1>3, <2>1 DEF Recorded, Complete
  <2>2. CASE p.kind = "correction"
    <3> DEFINE v == CHOOSE v \in Targets(p) : TRUE
               k == IF p.detail = "cancel" THEN "cash_cancellation" ELSE effect[v].kind
    <3>1. v \in Targets(p) BY <1>4, <2>2, Chosen
    <3>2. effect[v].kind \in {"cash_expense", "cash_income"} BY <3>1 DEF Targets
    <3>3. k \in Kinds BY <3>2 DEF Kinds
    <3>4. Recorded(p) = [p EXCEPT !.kind = k] BY <2>2 DEF Recorded
    <3> HIDE DEF k, v
    <3> QED BY <1>3, <2>2, <3>3, <3>4 DEF Complete, Proposals
  <2> QED BY <2>1, <2>2
<1>7. CASE effect' = [effect EXCEPT ![u] = Recorded(p)]
  <2>1. effect'[u] = Recorded(p) BY <1>2, <1>7 DEF Types, MoneyType
  <2>2. p.kind = "correction" => Targets(p) # {} BY <1>4
  <2>3. CASE UNCHANGED <<effect, applied, closedLink>> BY <1>1, <1>2, <1>5, <2>3 DEF u
  <2>4. CASE /\ applied' = [applied EXCEPT ![u] = @ + 1]
             /\ closedLink' = IF p.kind = "correction" THEN closedLink \cup Targets(p)
                              ELSE closedLink
    <3>1. effect' = [effect EXCEPT ![u] = effect'[u]] BY <1>7, <2>1
    <3>2. \/ effect'[u].target = NoTarget /\ closedLink' = closedLink
          \/ /\ effect'[u].target = p.target /\ Targets(p) # {}
             /\ closedLink' = closedLink \cup Targets(p)
      BY <1>6, <2>1, <2>2, <2>4
    <3> QED BY <1>1, <1>2, <1>4, <1>5, <1>6, <2>1, <2>4, <3>1, <3>2 DEF Effects, u, p
  <2> QED BY <1>4, <2>3, <2>4
<1> QED BY <1>1, <1>2, <1>4, <1>5, <1>7 DEF u

(***************************************************************************)
(* Money changes by a command only.                                        *)
(***************************************************************************)
LEMMA MoneyMoves ==
    ASSUME Types, [Next]_vars
    PROVE  UNCHANGED moneyVars \/ \E w \in Workers : Execute(w)
  BY StepKinds DEF Kind, Steps, vars, moneyVars, UserSends, UpdateFallsDue, RetentionPasses,
       DeliveryFallsDue, ClarificationLapses, Expire, ClaimUpdate, Turns, Replies, Learns,
       RecordFailure, ClaimDelivery, CompleteDelivery, GetUpdates, ReadOffset, Persist

(***************************************************************************)
(* The records of commands keep their types.                               *)
(***************************************************************************)
LEMMA MoneyStep == ASSUME Types, [Next]_vars PROVE MoneyType'
<1>1. MoneyType BY DEF Types
<1>2. CASE UNCHANGED moneyVars BY <1>1, <1>2 DEF moneyVars, MoneyType
<1>3. ASSUME NEW w \in Workers, Execute(w) PROVE MoneyType'
  <2> DEFINE u == worker[w].update
  <2>1. u \in Updates /\ DOMAIN command' = Updates BY <1>3, ExecuteEffects
  <2>2. CASE UNCHANGED <<effect, applied, closedLink>> BY <1>1, <2>1, <2>2 DEF MoneyType
  <2>3. CASE Effects(w)
    <3> DEFINE e == effect'[u]
    <3>1. effect' = [effect EXCEPT ![u] = e] /\ e \in Proposals BY <2>3 DEF Effects
    <3> HIDE DEF e
    <3>2. effect' \in [Updates -> Proposals \cup {NoProposal}] BY <1>1, <2>1, <3>1 DEF MoneyType
    <3>3. applied' \in [Updates -> Nat] BY <1>1, <2>1, <2>3 DEF MoneyType, Effects
    <3>4. closedLink' \subseteq Updates
      <4>1. Targets(Parsed(w).proposal) \subseteq Updates BY DEF Targets
      <4> QED BY <1>1, <2>3, <4>1 DEF MoneyType, Effects
    <3> QED BY <2>1, <3>2, <3>3, <3>4 DEF MoneyType
  <2> QED BY <1>3, <2>2, <2>3, ExecuteEffects
<1> QED BY <1>2, <1>3, MoneyMoves

(***************************************************************************)
(* Faults and stalls are counted.                                          *)
(***************************************************************************)
LEMMA ClockStep == ASSUME Types, [Next]_vars PROVE ClockType' /\ (stalls' = 0 => stalls = 0)
<1>1. faults \in Nat /\ stalls \in Nat BY DEF Types, ClockType
<1>2. CASE ClockMoves BY <1>1, <1>2 DEF ClockMoves, Fault, ClockType, clockVars
<1>3. ASSUME NEW u \in Updates, UpdateFallsDue(u)
      PROVE  ClockType' /\ (stalls' = 0 => stalls = 0)
  BY <1>1, <1>3 DEF UpdateFallsDue, ClockType
<1>4. ASSUME NEW m \in Messages, DeliveryFallsDue(m)
      PROVE  ClockType' /\ (stalls' = 0 => stalls = 0)
  BY <1>1, <1>4 DEF DeliveryFallsDue, ClockType
<1>5. \/ ClockMoves
      \/ \E u \in Updates : UpdateFallsDue(u)
      \/ \E m \in Messages : DeliveryFallsDue(m)
  <2>1. CASE UNCHANGED vars BY <2>1 DEF vars, clockVars, ClockMoves
  <2>2. ASSUME NEW w \in Workers, Steps(w) PROVE ClockMoves
    <3>1. CASE Execute(w) BY <3>1 DEF Execute, ClockMoves
    <3>2. CASE ~ Execute(w)
      BY <2>2, <3>2 DEF Steps, ClockMoves, Expire, ClaimUpdate, Turns, Replies, Learns, RecordFailure,
           ClaimDelivery, CompleteDelivery, GetUpdates, ReadOffset, Persist
    <3> QED BY <3>1, <3>2
  <2>3. CASE \/ UserSends
             \/ \E u \in Updates : RetentionPasses(u)
             \/ \E c \in DOMAIN clarification : ClarificationLapses(c)
    BY <2>3 DEF UserSends, RetentionPasses, ClarificationLapses, ClockMoves
  <2> QED BY <2>1, <2>2, <2>3, StepKinds DEF Kind
<1> QED BY <1>2, <1>3, <1>4, <1>5

-----------------------------------------------------------------------------
(* Deliveries                                                              *)

DeliveryStatuses == {"absent", "pending", "sending", "retryable", "sent", "failed", "uncertain"}

(***************************************************************************)
(* What a step makes of one delivery.                                      *)
(***************************************************************************)
Queued(m)   == /\ delivery[m].status = "absent"
               /\ delivery'[m].status = "pending" /\ delivery'[m].due
Wakes(m)    == /\ delivery[m].status \in {"retryable", "sending"}
               /\ delivery'[m].status = delivery[m].status
GivenUp(m)  == /\ \/ delivery[m].status \in {"pending", "retryable"}
                  \/ delivery[m].status = "sending" /\ delivery[m].due
               /\ delivery'[m].status \in {"failed", "uncertain"}
Claimed(m)  == \E w \in Workers : /\ ClaimDelivery(w) /\ worker'[w].message = m
                                  /\ m \in Deliverable
                                  /\ delivery'[m].status = "sending" /\ ~ delivery'[m].due
Finished(m) == \E w \in Workers : /\ CompleteDelivery(w) /\ worker[w].message = m
                                  /\ delivery'[m].status = worker[w].outcome
                                  /\ ~ delivery'[m].due
Moves(m)    == \/ delivery'[m] = delivery[m]
               \/ Queued(m) \/ Wakes(m) \/ GivenUp(m) \/ Claimed(m) \/ Finished(m)

(***************************************************************************)
(* Deliveries are a function of rows.                                      *)
(***************************************************************************)
LEMMA DeliveryRow ==
    ASSUME Types, NEW m \in Messages
    PROVE  /\ delivery[m] \in DeliveryRows /\ DOMAIN delivery = Messages
           /\ m[1] \in Updates
  BY DEF Types, DeliveryType, Messages

(***************************************************************************)
(* Queueing inserts a row or nothing.                                      *)
(***************************************************************************)
LEMMA Queueing ==
    ASSUME Types, NEW m \in Messages, NEW x \in Messages
    PROVE  /\ DOMAIN Queue(delivery, m) = Messages
           /\ Queue(delivery, m) = [y \in Messages |-> Queue(delivery, m)[y]]
           /\ Queue(delivery, m)[x] \in DeliveryRows
           /\ \/ Queue(delivery, m)[x] = delivery[x]
              \/ /\ x = m /\ delivery[x].status = "absent"
                 /\ Queue(delivery, m)[x].status = "pending" /\ Queue(delivery, m)[x].due
<1>1. delivery[x] \in DeliveryRows /\ delivery \in [Messages -> DeliveryRows]
  BY DeliveryRow DEF Types, DeliveryType
<1> DEFINE new == [status |-> "pending", attempts |-> 0, due |-> TRUE]
<1>2. new \in DeliveryRows /\ new.status = "pending" /\ new.due BY DEF DeliveryRows
<1>3. Queue(delivery, m) = IF delivery[m].status = "absent" THEN [delivery EXCEPT ![m] = new]
                           ELSE delivery
  BY DEF Queue
<1> HIDE DEF new
<1>4. CASE delivery[m].status = "absent"
  <2>1. Queue(delivery, m) = [delivery EXCEPT ![m] = new] BY <1>3, <1>4
  <2>2. Queue(delivery, m)[x] = IF x = m THEN new ELSE delivery[x] BY <1>1, <2>1
  <2>3. DOMAIN Queue(delivery, m) = Messages
        /\ Queue(delivery, m) = [y \in Messages |-> Queue(delivery, m)[y]]
    BY <1>1, <2>1
  <2> QED BY <1>1, <1>2, <1>4, <2>2, <2>3
<1>5. CASE delivery[m].status # "absent"
  <2>1. Queue(delivery, m) = delivery BY <1>3, <1>5
  <2> QED BY <1>1, <2>1
<1> QED BY <1>4, <1>5

(***************************************************************************)
(* Every delivery keeps its type and makes one of those moves.             *)
(***************************************************************************)
LEMMA DeliveryMoves ==
    ASSUME Types, [Next]_vars
    PROVE  delivery' \in [Messages -> DeliveryRows] /\ \A m \in Messages : Moves(m)
<1> DEFINE Goal == delivery' \in [Messages -> DeliveryRows] /\ \A m \in Messages : Moves(m)
<1>1. delivery \in [Messages -> DeliveryRows] BY DEF Types, DeliveryType
<1>2. CASE UNCHANGED delivery BY <1>1, <1>2 DEF Moves
<1>3. ASSUME NEW m \in Messages, DeliveryFallsDue(m) PROVE Goal
  <2>1. /\ delivery[m].status \in {"retryable", "sending"}
        /\ delivery' = [delivery EXCEPT ![m].due = TRUE]
    BY <1>3 DEF DeliveryFallsDue
  <2>2. delivery[m] \in DeliveryRows BY DeliveryRow
  <2>3. delivery'[m] \in DeliveryRows /\ delivery'[m].status = delivery[m].status
    BY <1>1, <2>1, <2>2 DEF DeliveryRows
  <2>4. \A x \in Messages : x # m => delivery'[x] = delivery[x] BY <1>1, <2>1
  <2>5. delivery' = [x \in Messages |-> delivery'[x]] BY <1>1, <2>1
  <2>6. \A x \in Messages : delivery'[x] \in DeliveryRows BY <1>1, <2>3, <2>4
  <2>7. Wakes(m) BY <2>1, <2>3 DEF Wakes
  <2> QED BY <2>4, <2>5, <2>6, <2>7 DEF Moves
<1>4. ASSUME NEW w \in Workers, Expire(w) PROVE Goal
  <2>1. delivery' = [m \in Messages |->
          IF update[m[1]].old /\ delivery[m].status \in {"pending", "retryable"}
            THEN [delivery[m] EXCEPT !.status = "failed", !.due = FALSE]
          ELSE IF delivery[m].status = "sending" /\ delivery[m].due
            THEN [delivery[m] EXCEPT !.status = "uncertain", !.due = FALSE]
          ELSE delivery[m]]
    BY <1>4 DEF Expire
  <2>2. ASSUME NEW m \in Messages PROVE delivery'[m] \in DeliveryRows /\ Moves(m)
    <3> DEFINE r == delivery[m]
               v == delivery'[m]
    <3>1. r \in DeliveryRows BY DeliveryRow
    <3>2. \/ v = r
          \/ r.status \in {"pending", "retryable"} /\ v = [r EXCEPT !.status = "failed", !.due = FALSE]
          \/ r.status = "sending" /\ r.due /\ v = [r EXCEPT !.status = "uncertain", !.due = FALSE]
      BY <2>1
    <3> HIDE DEF r, v
    <3>3. \/ v = r
          \/ r.status \in {"pending", "retryable"} /\ v \in DeliveryRows /\ v.status = "failed"
          \/ r.status = "sending" /\ r.due /\ v \in DeliveryRows /\ v.status = "uncertain"
      BY <3>1, <3>2 DEF DeliveryRows
    <3> QED BY <3>1, <3>3 DEF v, r, Moves, GivenUp
  <2>3. delivery' = [x \in Messages |-> delivery'[x]] BY <2>1
  <2> QED BY <2>2, <2>3
<1>5. ASSUME NEW w \in Workers, ClaimUpdate(w) PROVE Goal
  <2>1. delivery' = [m \in Messages |->
          IF m[1] \in Exhausted /\ m[2] = "processing_failed"
            THEN Queue(delivery, m)[m] ELSE delivery[m]]
    BY <1>5 DEF ClaimUpdate
  <2>2. \A m \in Messages : delivery'[m] \in DeliveryRows /\ Moves(m)
    BY <1>1, <2>1, Queueing DEF Moves, Queued
  <2>3. delivery' = [x \in Messages |-> delivery'[x]] BY <2>1
  <2> QED BY <2>2, <2>3
<1>6. ASSUME NEW m \in Messages, delivery' = Queue(delivery, m) PROVE Goal
  <2>1. \A x \in Messages : delivery'[x] \in DeliveryRows /\ Moves(x)
    BY <1>6, Queueing DEF Moves, Queued
  <2>2. delivery' = [x \in Messages |-> delivery'[x]] BY <1>6, Queueing
  <2> QED BY <2>1, <2>2
<1>7. ASSUME NEW w \in Workers, Replies(w) \/ Execute(w) PROVE Goal
  <2>1. PICK s \in Settled, p \in Answerings \cup {"confirmation"} : Settles(w, s, p)
    BY <1>7, SettlingSteps
  <2>2. /\ worker[w].update \in Updates
        /\ \/ delivery' = delivery
           \/ p \in Purposes /\ delivery' = Queue(delivery, <<worker[w].update, p>>)
    BY <2>1 DEF Settles, Writes
  <2> QED BY <1>2, <1>6, <2>2 DEF Messages
<1>8. ASSUME NEW w \in Workers, RecordFailure(w) PROVE Goal
  <2>1. worker[w].update \in Updates BY <1>8, WorkerFields DEF RecordFailure, Working
  <2>2. \/ delivery' = delivery
        \/ delivery' = Queue(delivery, <<worker[w].update, "processing_failed">>)
    BY <1>8 DEF RecordFailure
  <2>3. "processing_failed" \in Purposes BY DEF Purposes
  <2> QED BY <1>2, <1>6, <2>1, <2>2, <2>3 DEF Messages
<1>9. ASSUME NEW w \in Workers, ClaimDelivery(w) PROVE Goal
  <2> DEFINE m == worker'[w].message
             new == [status |-> "sending", due |-> FALSE, attempts |-> delivery[m].attempts + 1]
  <2>1. m \in Deliverable /\ delivery' = [delivery EXCEPT ![m] = new] BY <1>9, BusyRows
  <2>2. m \in Messages BY <2>1 DEF Deliverable
  <2>3. delivery[m] \in DeliveryRows BY <2>2, DeliveryRow
  <2>4. delivery[m].attempts + 1 \in Nat BY <2>3 DEF DeliveryRows
  <2>5. new \in DeliveryRows /\ new.status = "sending" /\ ~ new.due BY <2>4 DEF DeliveryRows
  <2> HIDE DEF m, new
  <2>6. delivery'[m] = new /\ \A x \in Messages : x # m => delivery'[x] = delivery[x]
    BY <1>1, <2>1, <2>2
  <2>7. delivery' \in [Messages -> DeliveryRows] BY <1>1, <2>1, <2>2, <2>5
  <2>8. delivery'[m].status = "sending" /\ ~ delivery'[m].due BY <2>5, <2>6
  <2>9. Claimed(m) BY <1>9, <2>1, <2>8 DEF Claimed, m
  <2> QED BY <2>6, <2>7, <2>9 DEF Moves
<1>10. ASSUME NEW w \in Workers, CompleteDelivery(w) PROVE Goal
  <2> DEFINE m == worker[w].message
             o == worker[w].outcome
  <2>1. /\ worker[w].pc = "complete"
        /\ delivery' = [delivery EXCEPT ![m].status = o, ![m].due = FALSE]
    BY <1>10 DEF CompleteDelivery
  <2>2. m \in Messages /\ o \in DeliveryStatuses
    BY <2>1, WorkerFields DEF Types, BusyType, Busy, Sending, DeliveryStatuses
  <2>3. delivery[m] \in DeliveryRows BY <2>2, DeliveryRow
  <2> HIDE DEF m, o
  <2> DEFINE r == delivery[m]
             v == delivery'[m]
  <2>4. v = [r EXCEPT !.status = o, !.due = FALSE] BY <1>1, <2>1, <2>2
  <2>5. \A x \in Messages : x # m => delivery'[x] = delivery[x] BY <1>1, <2>1
  <2>6. delivery' = [x \in Messages |-> delivery'[x]] BY <1>1, <2>1
  <2>7. r \in DeliveryRows BY <2>3
  <2> HIDE DEF r, v
  <2>8. DeliveryRows = [status : DeliveryStatuses, attempts : Nat, due : BOOLEAN]
    BY DEF DeliveryRows, DeliveryStatuses
  <2>9. v \in DeliveryRows /\ v.status = o /\ ~ v.due BY <2>2, <2>4, <2>7, <2>8
  <2>10. Finished(m) BY <1>10, <2>9 DEF Finished, m, o, v
  <2>11. \A x \in Messages : delivery'[x] \in DeliveryRows BY <1>1, <2>5, <2>9 DEF v
  <2> QED BY <2>5, <2>6, <2>10, <2>11 DEF Moves
<1>11. \/ UNCHANGED delivery
       \/ \E m \in Messages : DeliveryFallsDue(m)
       \/ \E w \in Workers : \/ Expire(w) \/ ClaimUpdate(w) \/ Replies(w) \/ Execute(w)
                             \/ RecordFailure(w) \/ ClaimDelivery(w) \/ CompleteDelivery(w)
  BY StepKinds DEF Kind, Steps, vars, UserSends, UpdateFallsDue, RetentionPasses,
       ClarificationLapses, Turns, Learns, GetUpdates, ReadOffset, Persist
<1> QED BY <1>2, <1>3, <1>4, <1>5, <1>7, <1>8, <1>9, <1>10, <1>11

(***************************************************************************)
(* Messages reach the chat when a worker learns that they may have, and a  *)
(* link is found by the message that was sent for it.                      *)
(***************************************************************************)
LEMMA ChatStep ==
    ASSUME Types, [Next]_vars
    PROVE  /\ chat' \in [Messages -> Nat]
           /\ \A m \in Messages :
                 \/ chat'[m] = chat[m]
                 \/ \E w \in Workers : /\ Learns(w) /\ worker[w].pc = "send"
                                       /\ worker[w].message = m /\ chat'[m] = chat[m] + 1
                                       /\ worker'[w].outcome # "retryable"
           /\ linkMessage' \in [Updates -> Messages \cup {NoTarget}]
           /\ \A u \in Updates : \/ linkMessage'[u] = linkMessage[u]
                                 \/ linkMessage'[u][1] = u
<1>1. /\ chat \in [Messages -> Nat] /\ linkMessage \in [Updates -> Messages \cup {NoTarget}]
      /\ DOMAIN worker = Workers
  BY DEF Types, DeliveryType, WorkerType
<1>2. /\ chat' \in [Messages -> Nat]
      /\ \A m \in Messages :
            \/ chat'[m] = chat[m]
            \/ \E w \in Workers : /\ Learns(w) /\ worker[w].pc = "send"
                                  /\ worker[w].message = m /\ chat'[m] = chat[m] + 1
                                  /\ worker'[w].outcome # "retryable"
  <2>1. CASE UNCHANGED chat BY <1>1, <2>1
  <2>2. ASSUME NEW w \in Workers, Learns(w), ~ UNCHANGED chat
        PROVE  /\ worker[w].pc = "send" /\ worker'[w].outcome # "retryable"
               /\ worker[w].message \in Messages
               /\ chat' = [chat EXCEPT ![worker[w].message] = @ + 1]
    <3>1. PICK o \in {"sent", "retryable", "failed", "uncertain"} :
            /\ Sends(w, o) /\ worker[w].pc = "send" /\ o # "retryable"
            /\ Reaches(worker[w].message)
      BY <2>2 DEF Learns
    <3>2. worker' = [worker EXCEPT ![w].pc = "complete", ![w].outcome = o] BY <3>1 DEF Sends
    <3>3. worker'[w] = [worker[w] EXCEPT !.pc = "complete", !.outcome = o] BY <1>1, <3>2
    <3>4. worker[w] \in WorkerRows BY WorkerFields
    <3>5. worker'[w].outcome = o BY <3>3, <3>4 DEF WorkerRows
    <3>6. worker[w].message \in Messages BY <3>1, WorkerFields DEF Sending
    <3> QED BY <3>1, <3>5, <3>6 DEF Reaches
  <2>3. UNCHANGED chat \/ \E w \in Workers : Learns(w)
    BY StepKinds DEF Kind, Steps, vars, UserSends, UpdateFallsDue, RetentionPasses,
       DeliveryFallsDue, ClarificationLapses, Turns, Replies, Execute, Expire, ClaimUpdate,
       RecordFailure, ClaimDelivery, CompleteDelivery, GetUpdates, ReadOffset, Persist
  <2>4. ASSUME NEW w \in Workers, Learns(w), ~ UNCHANGED chat
        PROVE  /\ chat' \in [Messages -> Nat]
               /\ \A m \in Messages :
                     \/ chat'[m] = chat[m]
                     \/ /\ Learns(w) /\ worker[w].pc = "send"
                        /\ worker[w].message = m /\ chat'[m] = chat[m] + 1
                        /\ worker'[w].outcome # "retryable"
    <3> DEFINE x == worker[w].message
    <3>1. x \in Messages /\ chat' = [chat EXCEPT ![x] = @ + 1] BY <2>2, <2>4
    <3> HIDE DEF x
    <3>2. chat' \in [Messages -> Nat] BY <1>1, <3>1
    <3>3. \A m \in Messages : chat'[m] = IF m = x THEN chat[m] + 1 ELSE chat[m] BY <1>1, <3>1
    <3> QED BY <2>2, <2>4, <3>2, <3>3 DEF x
  <2> QED BY <2>1, <2>3, <2>4
<1>3. /\ linkMessage' \in [Updates -> Messages \cup {NoTarget}]
      /\ \A u \in Updates : linkMessage'[u] = linkMessage[u] \/ linkMessage'[u][1] = u
  <2>1. CASE UNCHANGED linkMessage BY <1>1, <2>1
  <2>2. ASSUME NEW w \in Workers, CompleteDelivery(w)
        PROVE  /\ linkMessage' \in [Updates -> Messages \cup {NoTarget}]
               /\ \A u \in Updates : linkMessage'[u] = linkMessage[u] \/ linkMessage'[u][1] = u
    <3> DEFINE m == worker[w].message
    <3>1. m \in Messages
      BY <2>2, WorkerFields DEF CompleteDelivery, Sending
    <3>2. m[1] \in Updates BY <3>1 DEF Messages
    <3>3. UNCHANGED linkMessage \/ linkMessage' = [linkMessage EXCEPT ![m[1]] = m]
      BY <2>2 DEF CompleteDelivery
    <3> HIDE DEF m
    <3>4. CASE linkMessage' = [linkMessage EXCEPT ![m[1]] = m]
      <4>1. \A u \in Updates : linkMessage'[u] = IF u = m[1] THEN m ELSE linkMessage[u]
        BY <1>1, <3>4
      <4>2. linkMessage' \in [Updates -> Messages \cup {NoTarget}] BY <1>1, <3>1, <3>2, <3>4
      <4> QED BY <4>1, <4>2
    <3> QED BY <2>1, <3>3, <3>4
  <2>3. UNCHANGED linkMessage \/ \E w \in Workers : CompleteDelivery(w)
    BY StepKinds DEF Kind, Steps, vars, UserSends, UpdateFallsDue, RetentionPasses,
       DeliveryFallsDue, ClarificationLapses, Turns, Replies, Execute, Expire, ClaimUpdate,
       RecordFailure, ClaimDelivery, Learns, GetUpdates, ReadOffset, Persist
  <2> QED BY <2>1, <2>2, <2>3
<1> QED BY <1>2, <1>3

-----------------------------------------------------------------------------
(* Effects and corrections                                                 *)

(***************************************************************************)
(* An update without an effect has applied nothing.                        *)
(***************************************************************************)
AppliedInv == \A u \in Updates : effect[u] = NoProposal => applied[u] = 0

(***************************************************************************)
(* The message of a link is one about the link's update, and the target of *)
(* a correction is a link that is closed by then.                          *)
(***************************************************************************)
CorrectInv ==
    /\ \A u \in Updates : linkMessage[u] # NoTarget => linkMessage[u][1] = u
    /\ \A u \in Updates : effect[u].target # NoTarget => effect[u].target[1] \in closedLink
    /\ CorrectedOnce

Inv == Types /\ LossInv /\ AppliedInv /\ CorrectInv

(***************************************************************************)
(* A proposal is not the absence of one.                                   *)
(***************************************************************************)
LEMMA SomeProposal == NoProposal \notin Proposals
  BY DEF NoProposal, Proposal, Proposals, Kinds

(***************************************************************************)
(* A command has its effect where there was none.                          *)
(***************************************************************************)
LEMMA AppliedStep == ASSUME Types, AppliedInv, [Next]_vars PROVE AppliedInv'
<1>1. CASE UNCHANGED <<effect, applied>> BY <1>1 DEF AppliedInv
<1>2. ASSUME NEW w \in Workers, Execute(w), Effects(w) PROVE AppliedInv'
  <2> DEFINE u == worker[w].update
  <2>1. u \in Updates BY <1>2, ExecuteEffects
  <2>2. /\ effect' = [effect EXCEPT ![u] = effect'[u]] /\ effect'[u] \in Proposals
        /\ applied' = [applied EXCEPT ![u] = @ + 1]
    BY <1>2 DEF Effects
  <2>3. effect \in [Updates -> Proposals \cup {NoProposal}] /\ applied \in [Updates -> Nat]
    BY DEF Types, MoneyType
  <2>4. \A x \in Updates : x # u => effect'[x] = effect[x] /\ applied'[x] = applied[x]
    BY <2>2, <2>3
  <2>5. effect'[u] # NoProposal BY <2>2, SomeProposal
  <2> QED BY <2>4, <2>5 DEF AppliedInv
<1>3. UNCHANGED <<effect, applied>> \/ \E w \in Workers : Execute(w) /\ Effects(w)
  BY MoneyMoves, ExecuteEffects DEF moneyVars
<1> QED BY <1>1, <1>2, <1>3

(***************************************************************************)
(* A correction takes a target that was open, and closes it.               *)
(***************************************************************************)
LEMMA CorrectStep == ASSUME Types, CorrectInv, [Next]_vars PROVE CorrectInv'
<1>1. \A u \in Updates : linkMessage'[u] # NoTarget => linkMessage'[u][1] = u
  <2>1. \A u \in Updates : linkMessage'[u] = linkMessage[u] \/ linkMessage'[u][1] = u BY ChatStep
  <2> QED BY <2>1 DEF CorrectInv
<1>2. CASE UNCHANGED <<effect, closedLink>>
  BY <1>1, <1>2 DEF CorrectInv, CorrectedOnce
<1>3. ASSUME NEW w \in Workers, Execute(w), Effects(w) PROVE CorrectInv'
  <2> DEFINE u == worker[w].update
             p == Parsed(w).proposal
  <2>1. u \in Updates BY <1>3, ExecuteEffects
  <2>2. /\ effect' = [effect EXCEPT ![u] = effect'[u]]
        /\ \/ effect'[u].target = NoTarget /\ closedLink' = closedLink
           \/ /\ effect'[u].target = p.target /\ Targets(p) # {}
              /\ closedLink' = closedLink \cup Targets(p)
    BY <1>3 DEF Effects
  <2>3. effect \in [Updates -> Proposals \cup {NoProposal}] BY DEF Types, MoneyType
  <2>4. \A x \in Updates : x # u => effect'[x] = effect[x] BY <2>2, <2>3
  <2> HIDE DEF p, u
  <2>5. effect'[u].target # NoTarget =>
          effect'[u].target[1] \in closedLink' /\ effect'[u].target[1] \notin closedLink
    <3>1. ASSUME effect'[u].target # NoTarget
          PROVE  effect'[u].target[1] \in closedLink' /\ effect'[u].target[1] \notin closedLink
      <4>1. effect'[u].target = p.target /\ Targets(p) # {}
            /\ closedLink' = closedLink \cup Targets(p)
        BY <2>2, <3>1
      <4>2. PICK x \in Targets(p) : TRUE BY <4>1
      <4>3. x \in Updates /\ linkMessage[x] = p.target /\ linkMessage[x] # NoTarget
            /\ x \notin closedLink
        BY <4>2 DEF Targets
      <4>4. p.target[1] = x BY <4>3 DEF CorrectInv
      <4> QED BY <4>1, <4>2, <4>3, <4>4
    <3> QED BY <3>1
  <2>6. closedLink \subseteq closedLink' BY <2>2
  <2>7. \A x \in Updates : effect'[x].target # NoTarget => effect'[x].target[1] \in closedLink'
    BY <2>4, <2>5, <2>6 DEF CorrectInv
  <2>8. \A x \in Updates : x # u /\ effect'[x].target # NoTarget =>
           effect'[x].target # effect'[u].target
    BY <2>4, <2>5 DEF CorrectInv
  <2>9. ASSUME NEW x \in Updates, NEW y \in Updates, effect'[x].target # NoTarget,
               effect'[x].target = effect'[y].target
        PROVE  x = y
    <3>1. CASE x = u BY <2>8, <2>9, <3>1
    <3>2. CASE y = u BY <2>8, <2>9, <3>2
    <3>3. CASE x # u /\ y # u
      <4>1. effect[x].target # NoTarget /\ effect[x].target = effect[y].target
        BY <2>4, <2>9, <3>3
      <4> QED BY <4>1 DEF CorrectInv, CorrectedOnce
    <3> QED BY <3>1, <3>2, <3>3
  <2> QED BY <1>1, <2>7, <2>9 DEF CorrectInv, CorrectedOnce
<1>4. UNCHANGED <<effect, closedLink>> \/ \E w \in Workers : Execute(w) /\ Effects(w)
  BY MoneyMoves, ExecuteEffects DEF moneyVars
<1> QED BY <1>2, <1>3, <1>4

-----------------------------------------------------------------------------
(* Theorems                                                                *)

(***************************************************************************)
(* It holds when nothing has been sent.                                    *)
(***************************************************************************)
LEMMA InvInit == Init => Inv
<1> SUFFICES ASSUME Init PROVE Inv OBVIOUS
<1>1. \A w \in Workers : worker[w] = Resting BY DEF Init
<1>2. /\ Resting.pc = "expire" /\ Resting.update = 0 /\ Resting.page = {}
  BY DEF Resting
<1>3. InboxType
  <2>1. sent = <<>> /\ acknowledged = 0 /\ nextOffset = 0 BY DEF Init
  <2>2. sent \in Seq(Texts) /\ Len(sent) = 0 BY <2>1, EmptySeq
  <2> QED BY <2>1, <2>2, TelegramAssumption DEF InboxType
<1>4. UpdateType /\ \A u \in Updates : ~ Present(u)
  <2>1. NoUpdate \in UpdateRows /\ NoUpdate.status = "absent" BY DEF NoUpdate, UpdateRows, Statuses
  <2>2. update = [u \in Updates |-> NoUpdate] BY DEF Init
  <2> QED BY <2>1, <2>2 DEF UpdateType, Present
<1>5. QuestionType
  <2>1. clarification = <<>> BY DEF Init
  <2> QED BY <2>1, EmptySeq DEF QuestionType
<1>6. MoneyType /\ AppliedInv /\ \A u \in Updates : effect[u].target = NoTarget
  <2>1. /\ effect = [u \in Updates |-> NoProposal] /\ applied = [u \in Updates |-> 0]
        /\ closedLink = {} /\ command = [u \in Updates |-> {}]
    BY DEF Init
  <2>2. NoProposal.target = NoTarget BY DEF NoProposal, Proposal
  <2> HIDE DEF NoProposal
  <2> QED BY <2>1, <2>2 DEF MoneyType, AppliedInv
<1>7. DeliveryType /\ \A u \in Updates : linkMessage[u] = NoTarget
  <2>1. NoDelivery \in DeliveryRows BY DEF NoDelivery, DeliveryRows
  <2>2. /\ delivery = [m \in Messages |-> NoDelivery] /\ chat = [m \in Messages |-> 0]
        /\ linkMessage = [u \in Updates |-> NoTarget]
    BY DEF Init
  <2> HIDE DEF NoDelivery, NoTarget
  <2> QED BY <2>1, <2>2 DEF DeliveryType
<1>8. WorkerType
  <2>1. worker = [w \in Workers |-> Resting] BY DEF Init
  <2> QED BY <2>1, RestingType DEF WorkerType
<1>9. ClockType BY DEF Init, ClockType
<1>10. BusyType BY <1>1, <1>2 DEF BusyType, Busy, Working, Sending
<1>11. ReceivedType BY <1>1, <1>2, <1>4 DEF ReceivedType
<1>12. LossInv
  <2>1. acknowledged = 0 /\ nextOffset = 0 BY DEF Init
  <2>2. Below(0, update) BY DEF Below, Updates
  <2> QED BY <1>1, <1>2, <2>1, <2>2 DEF LossInv, Paged
<1>13. CorrectInv BY <1>6, <1>7 DEF CorrectInv, CorrectedOnce
<1> QED BY <1>3, <1>4, <1>5, <1>6, <1>7, <1>8, <1>9, <1>10, <1>11, <1>12, <1>13 DEF Inv, Types

(***************************************************************************)
(* Every step keeps it.                                                    *)
(***************************************************************************)
LEMMA InvStep == Inv /\ [Next]_vars => Inv'
<1> SUFFICES ASSUME Inv, [Next]_vars PROVE Inv' OBVIOUS
<1>1. Types /\ LossInv /\ AppliedInv /\ CorrectInv BY DEF Inv
<1>2. InboxType' /\ LossInv' BY <1>1, InboxStep, WorkersStep DEF LossInv
<1>3. UpdateType' BY <1>1, UpdateStep
<1>4. QuestionType' BY <1>1, QuestionStep
<1>5. MoneyType' BY <1>1, MoneyStep
<1>6. DeliveryType' BY <1>1, DeliveryMoves, ChatStep DEF DeliveryType
<1>7. WorkerType' /\ BusyType' /\ ReceivedType' BY <1>1, WorkersStep
<1>8. ClockType' BY <1>1, ClockStep
<1>9. AppliedInv' /\ CorrectInv' BY <1>1, AppliedStep, CorrectStep
<1> QED BY <1>2, <1>3, <1>4, <1>5, <1>6, <1>7, <1>8, <1>9 DEF Inv, Types

(***************************************************************************)
(* The inductive invariant of the inbox.                                   *)
(***************************************************************************)
THEOREM InboxInvariant == Spec => []Inv
  BY InvInit, InvStep, PTL DEF Spec

(***************************************************************************)
(* The tables and the workers keep their types (telegram.ts, schema.ts).   *)
(***************************************************************************)
THEOREM TelegramTypes == Spec => []TypeOK
<1>1. Inv => TypeOK
  <2> SUFFICES ASSUME Types PROVE TypeOK BY DEF Inv
  <2>1. \A w \in Workers : /\ worker[w].pc \in Pcs /\ worker[w].update \in Updates \cup {0}
                           /\ worker[w].message \in Messages \cup {NoTarget}
    BY WorkerFields DEF WorkerRows
  <2>2. /\ Len(sent) <= MaxUpdates /\ acknowledged \in Nat /\ nextOffset \in Nat
        /\ faults \in Nat /\ stalls \in Nat
    BY DEF Types, InboxType, ClockType
  <2>3. update \in [Updates -> [status : {"absent"} \cup Pending \cup Settled, attempts : Nat,
                               due : BOOLEAN, old : BOOLEAN]]
    BY DEF Types, UpdateType, UpdateRows, Statuses
  <2>4. /\ applied \in [Updates -> Nat] /\ closedLink \subseteq Updates
        /\ linkMessage \in [Updates -> Messages \cup {NoTarget}] /\ chat \in [Messages -> Nat]
    BY DEF Types, MoneyType, DeliveryType
  <2>5. delivery \in [Messages -> [status : {"absent", "pending", "sending", "retryable",
                                            "sent", "failed", "uncertain"},
                                  attempts : Nat, due : BOOLEAN]]
    BY DEF Types, DeliveryType, DeliveryRows
  <2> QED BY <2>1, <2>2, <2>3, <2>4, <2>5 DEF TypeOK
<1> QED BY <1>1, InboxInvariant, PTL

(***************************************************************************)
(* What Telegram may forget is in the inbox, for any number of workers,    *)
(* messages and crashes (persistTelegramUpdatePage).                       *)
(***************************************************************************)
THEOREM NoMessageIsLost == Spec => []NothingIsLost
<1>1. Inv => NothingIsLost BY DEF Inv, LossInv, Below, NothingIsLost
<1> QED BY <1>1, InboxInvariant, PTL

(***************************************************************************)
(* No two corrections compensate the same entry, whoever races for it      *)
(* (findTelegramCorrectionTarget, supersedeTelegramMessageLink).           *)
(***************************************************************************)
THEOREM CorrectedAtMostOnce == Spec => []CorrectedOnce
<1>1. Inv => CorrectedOnce BY DEF Inv, CorrectInv
<1> QED BY <1>1, InboxInvariant, PTL

(***************************************************************************)
(* An accepted update has its financial effect once, over crashes, retries *)
(* and leases outlived (executeProposal, finalizeTelegramUpdate).          *)
(***************************************************************************)
THEOREM AppliesOnce == Spec => AppliedOnce
<1> DEFINE accepted == {u \in Updates : update[u].status # "absent"}
<1>1. Init => Once!Init
  BY DEF Init, Once!Init, NoUpdate
<1>2. Inv /\ [Next]_vars => [Once!Next]_(Once!onceVars)
  <2> SUFFICES ASSUME Inv, [Next]_vars PROVE Once!Next \/ UNCHANGED Once!onceVars OBVIOUS
  <2>1. Types /\ AppliedInv BY DEF Inv
  <2>2. accepted \subseteq accepted' BY <2>1, UpdateStep DEF Present
  <2>3. CASE UNCHANGED <<effect, applied>>
    <3> DEFINE page == accepted' \ accepted
    <3>1. page \in SUBSET (Updates \ accepted) /\ accepted' = accepted \cup page BY <2>2
    <3>2. Once!Accept BY <2>3, <3>1 DEF Once!Accept
    <3> QED BY <3>2 DEF Once!Next
  <2>4. ASSUME NEW w \in Workers, Execute(w), Effects(w) PROVE Once!Next
    <3> DEFINE u == worker[w].update
    <3>1. u \in Updates /\ worker[w].pc = "act" BY <2>1, <2>4, ExecuteEffects
    <3>2. /\ effect' = [effect EXCEPT ![u] = effect'[u]] /\ effect'[u] \in Proposals
          /\ applied' = [applied EXCEPT ![u] = @ + 1] /\ effect[u] = NoProposal
      BY <2>4 DEF Effects
    <3>3. applied[u] = 0 BY <2>1, <3>1, <3>2 DEF AppliedInv
    <3>4. applied' = [applied EXCEPT ![u] = 1] BY <3>2, <3>3
    <3>5. u \in accepted
      <4>1. Busy(worker[w], update) /\ u # 0 BY <2>1, <3>1 DEF Types, BusyType, Updates
      <4> QED BY <3>1, <4>1 DEF Busy
    <3>6. accepted' = accepted
      <4>1. applied'[u] # applied[u]
        <5>1. applied \in [Updates -> Nat] BY <2>1 DEF Types, MoneyType
        <5> QED BY <3>1, <3>3, <3>4, <5>1
      <4>2. \A v \in Workers : ~ Persist(v) BY <4>1 DEF Persist, moneyVars
      <4>3. accepted' \subseteq accepted BY <2>1, <4>2, UpdateStep DEF Present
      <4> QED BY <2>2, <4>3
    <3>7. Once!Apply(u) BY <3>2, <3>3, <3>4, <3>5, <3>6 DEF Once!Apply
    <3> QED BY <3>1, <3>7 DEF Once!Next
  <2>5. UNCHANGED <<effect, applied>> \/ \E w \in Workers : Execute(w) /\ Effects(w)
    BY <2>1, MoneyMoves, ExecuteEffects DEF moneyVars
  <2> QED BY <2>3, <2>4, <2>5
<1> QED BY <1>1, <1>2, InboxInvariant, PTL DEF Spec, AppliedOnce, Once!Spec

-----------------------------------------------------------------------------
(* Replies                                                                 *)

(***************************************************************************)
(* A message whose fate is open has not reached the chat, and a worker     *)
(* that sends one has it for itself.                                       *)
(***************************************************************************)
Untold == {"absent", "pending", "retryable"}

ReplyInv ==
    /\ NoDuplicateReply
    /\ \A m \in Messages : delivery[m].status \in Untold => chat[m] = 0
    /\ \A w \in Workers : worker[w].pc \in Sending =>
          /\ delivery[worker[w].message].status \notin Untold
          /\ worker[w].pc = "send" \/ worker[w].outcome = "retryable"
               => chat[worker[w].message] = 0
    /\ \A v, w \in Workers :
          /\ worker[v].pc \in Sending /\ worker[w].pc \in Sending
          /\ worker[v].message = worker[w].message
          => v = w

(***************************************************************************)
(* A step of one worker leaves the others as they are.                     *)
(***************************************************************************)
LEMMA OneSteps ==
    ASSUME Types, LossInv, [Next]_vars, NEW v \in Workers, NEW w \in Workers, v # w, Steps(w)
    PROVE  worker'[v] = worker[v]
<1>1. worker' = [worker EXCEPT ![w] = worker'[w]] BY SteppingWorker
<1>2. DOMAIN worker = Workers BY WorkerFields
<1> QED BY <1>1, <1>2

(***************************************************************************)
(* A worker sends because it did, because it claims or because it learns.  *)
(***************************************************************************)
LEMMA SenderMoves ==
    ASSUME Types, LossInv, [Next]_vars, NEW w \in Workers, worker'[w].pc \in Sending
    PROVE  worker'[w] = worker[w] \/ ClaimDelivery(w) \/ Learns(w)
<1>1. CASE UNCHANGED worker BY <1>1
<1>2. ASSUME NEW v \in Workers, Steps(v), v # w PROVE worker'[w] = worker[w]
  BY <1>2, OneSteps
<1>3. CASE Steps(w)
  <2>1. Becomes(w) BY <1>3, StepsBecome
  <2>2. \A pc \in {"expire", "updates", "deliveries", "poll"} : ~ Goto(w, pc)
    <3>1. \A pc \in {"expire", "updates", "deliveries", "poll"} : pc \in Pcs /\ pc \notin Sending
      BY DEF Pcs, Sending
    <3> QED BY <3>1, RestingRow
  <2>3. ~ Continues(w) BY DEF Continues, Working, Sending
  <2>4. ~ (ClaimUpdate(w) /\ \E u \in Updates : Leases(w, u)) BY BusyRows DEF Sending
  <2>5. ~ GetUpdates(w) /\ ~ ReadOffset(w) BY BusyRows DEF Sending
  <2> QED BY <2>1, <2>2, <2>3, <2>4, <2>5 DEF Becomes
<1>4. UNCHANGED worker \/ \E v \in Workers : Steps(v)
  BY StepKinds DEF Kind, vars, UserSends, UpdateFallsDue, RetentionPasses, DeliveryFallsDue,
       ClarificationLapses
<1> QED BY <1>1, <1>2, <1>3, <1>4

(***************************************************************************)
(* Only the worker that sends a message finishes it, and then it rests.    *)
(***************************************************************************)
LEMMA FinishedBy ==
    ASSUME Types, ReplyInv, NEW w \in Workers, worker[w].pc \in Sending, worker'[w].pc \in Sending
    PROVE  ~ Finished(worker[w].message)
<1> SUFFICES ASSUME NEW v \in Workers, CompleteDelivery(v), worker[v].message = worker[w].message
             PROVE  FALSE
  BY DEF Finished
<1>1. worker[v].pc \in Sending /\ Goto(v, "deliveries") BY DEF CompleteDelivery, Sending
<1>2. v = w BY <1>1 DEF ReplyInv
<1>3. "deliveries" \in Pcs /\ "deliveries" \notin Sending BY DEF Pcs, Sending
<1>4. worker'[w].pc = "deliveries" BY <1>1, <1>2, <1>3, RestingRow
<1> QED BY <1>3, <1>4

(***************************************************************************)
(* A refusal is learnt when sending, and not of a message that arrived.    *)
(***************************************************************************)
LEMMA Refused ==
    ASSUME Types, NEW w \in Workers, Learns(w)
    PROVE  /\ worker[w].pc \in Sending
           /\ worker'[w].outcome = "retryable" => worker[w].pc = "send"
<1>1. PICK o \in {"sent", "retryable", "failed", "uncertain"} :
        /\ Sends(w, o)
        /\ worker[w].pc = "send" \/ (worker[w].pc = "complete" /\ o = "failed")
  BY DEF Learns
<1>2. worker[w] \in WorkerRows /\ DOMAIN worker = Workers BY WorkerFields
<1>3. worker'[w] = [worker[w] EXCEPT !.pc = "complete", !.outcome = o] BY <1>1, <1>2 DEF Sends
<1>4. worker'[w].outcome = o BY <1>2, <1>3 DEF WorkerRows
<1> QED BY <1>1, <1>4 DEF Sending

(***************************************************************************)
(* A message reaches the chat once.                                        *)
(***************************************************************************)
LEMMA ReplyStep == ASSUME Types, LossInv, ReplyInv, [Next]_vars PROVE ReplyInv'
<1>1. \A m \in Messages : Moves(m) BY DeliveryMoves
<1>2. \A m \in Messages :
        \/ chat'[m] = chat[m]
        \/ \E w \in Workers : /\ Learns(w) /\ worker[w].pc = "send"
                              /\ worker[w].message = m /\ chat'[m] = chat[m] + 1
                              /\ worker'[w].outcome # "retryable"
  BY ChatStep
<1>3. chat \in [Messages -> Nat] BY DEF Types, DeliveryType
<1>4. \A m \in Messages : chat'[m] <= 1
  <2>1. ASSUME NEW m \in Messages PROVE chat'[m] <= 1
    <3>1. chat[m] <= 1 BY <2>1 DEF ReplyInv, NoDuplicateReply
    <3>2. ASSUME NEW w \in Workers, worker[w].pc = "send", worker[w].message = m,
                 chat'[m] = chat[m] + 1
          PROVE  chat'[m] <= 1
      <4>1. chat[m] = 0 BY <3>2 DEF ReplyInv, Sending
      <4> QED BY <3>2, <4>1
    <3> QED BY <1>2, <3>1, <3>2
  <2> QED BY <2>1
<1>5. ASSUME NEW m \in Messages, delivery'[m].status \in Untold PROVE chat'[m] = 0
  <2>1. ASSUME delivery[m].status \in Untold PROVE chat'[m] = 0
    <3>1. chat[m] = 0 BY <2>1 DEF ReplyInv
    <3>2. \A w \in Workers : worker[w].pc = "send" => worker[w].message # m
      BY <2>1 DEF ReplyInv, Sending, Untold
    <3> QED BY <1>2, <3>1, <3>2
  <2>2. ASSUME NEW w \in Workers, CompleteDelivery(w), worker[w].message = m,
               delivery'[m].status = worker[w].outcome
        PROVE  chat'[m] = 0
    <3>1. worker[w].pc = "complete" BY <2>2 DEF CompleteDelivery
    <3>2. worker[w].outcome \in {"retryable", "sent", "failed", "uncertain"}
      BY <3>1 DEF Types, BusyType, Busy
    <3>3. worker[w].outcome = "retryable" BY <1>5, <2>2, <3>2 DEF Untold
    <3>4. chat[m] = 0 BY <2>2, <3>1, <3>3 DEF ReplyInv, Sending
    <3>5. \A v \in Workers : worker[v].pc = "send" => worker[v].message # m
      BY <2>2, <3>1 DEF ReplyInv, Sending
    <3> QED BY <1>2, <3>4, <3>5
  <2>3. delivery[m].status \in Untold \/ Finished(m)
    BY <1>1, <1>5 DEF Moves, Queued, Wakes, GivenUp, Claimed, Untold
  <2> QED BY <2>1, <2>2, <2>3 DEF Finished
<1>6. ASSUME NEW w \in Workers, worker'[w].pc \in Sending
      PROVE  /\ delivery'[worker'[w].message].status \notin Untold
             /\ worker'[w].pc = "send" \/ worker'[w].outcome = "retryable"
                  => chat'[worker'[w].message] = 0
  <2>1. CASE worker'[w] = worker[w] /\ ~ Learns(w)
    <3> DEFINE m == worker[w].message
    <3>1. worker[w].pc \in Sending BY <1>6, <2>1
    <3>2. m \in Messages BY <3>1, WorkerFields
    <3>3. /\ delivery[m].status \notin Untold
          /\ worker[w].pc = "send" \/ worker[w].outcome = "retryable" => chat[m] = 0
      BY <3>1 DEF ReplyInv
    <3>4. ~ Finished(m) BY <1>6, <3>1, FinishedBy
    <3>5. ~ Claimed(m) /\ ~ Queued(m) BY <3>3 DEF Claimed, Deliverable, Queued, Untold
    <3>6. Wakes(m) \/ GivenUp(m) => delivery'[m].status \notin Untold
      BY <3>3 DEF Wakes, GivenUp, Untold
    <3>7. delivery'[m].status \notin Untold BY <1>1, <3>2, <3>3, <3>4, <3>5, <3>6 DEF Moves
    <3>8. \A v \in Workers : worker[v].pc = "send" /\ worker[v].message = m => v = w
      BY <3>1 DEF ReplyInv, Sending
    <3>9. chat'[m] = chat[m] BY <1>2, <2>1, <3>2, <3>8
    <3> HIDE DEF m
    <3>10. worker'[w].message = m /\ worker'[w].pc = worker[w].pc
           /\ worker'[w].outcome = worker[w].outcome
      BY <2>1 DEF m
    <3> QED BY <3>3, <3>7, <3>9, <3>10
  <2>2. CASE ClaimDelivery(w)
    <3> DEFINE m == worker'[w].message
               new == [status |-> "sending", due |-> FALSE, attempts |-> delivery[m].attempts + 1]
    <3>1. m \in Deliverable /\ delivery' = [delivery EXCEPT ![m] = new] BY <2>2, BusyRows
    <3>2. m \in Messages /\ delivery[m].status \in Untold BY <3>1 DEF Deliverable, Untold
    <3>3. chat'[m] = 0 BY <2>2, <3>2 DEF ReplyInv, ClaimDelivery
    <3>4. DOMAIN delivery = Messages BY <3>2, DeliveryRow
    <3>5. new.status \notin Untold BY DEF Untold
    <3> HIDE DEF new, m
    <3>6. delivery'[m] = new BY <3>1, <3>2, <3>4
    <3> QED BY <3>3, <3>5, <3>6 DEF m
  <2>3. CASE Learns(w)
    <3> DEFINE m == worker[w].message
    <3>1. /\ worker[w].pc \in Sending
          /\ worker'[w].outcome = "retryable" => worker[w].pc = "send"
      BY <2>3, Refused
    <3>2. worker'[w].message = m /\ worker'[w].pc = "complete" BY <2>3, BusyRows
    <3>3. m \in Messages BY <3>1, WorkerFields
    <3>4. delivery' = delivery BY <2>3 DEF Learns
    <3>5. delivery[m].status \notin Untold
          /\ (worker[w].pc = "send" => chat[m] = 0)
      BY <3>1 DEF ReplyInv
    <3>6. \A v \in Workers : worker[v].pc = "send" /\ worker[v].message = m => v = w
      BY <3>1 DEF ReplyInv, Sending
    <3>7. worker'[w].outcome = "retryable" => chat'[m] = chat[m] BY <1>2, <3>3, <3>6
    <3> HIDE DEF m
    <3> QED BY <3>1, <3>2, <3>4, <3>5, <3>7
  <2> QED BY <1>6, <2>1, <2>2, <2>3, SenderMoves
<1>7. ASSUME NEW v \in Workers, NEW w \in Workers, v # w,
             worker'[v].pc \in Sending, worker'[w].pc \in Sending,
             ClaimDelivery(w) \/ Learns(w)
      PROVE  worker'[v].message # worker'[w].message
  <2>1. Steps(w) BY <1>7 DEF Steps
  <2>2. worker'[v] = worker[v] BY <1>7, <2>1, OneSteps
  <2>3. worker[v].pc \in Sending /\ delivery[worker[v].message].status \notin Untold
    BY <1>7, <2>2 DEF ReplyInv
  <2>4. CASE ClaimDelivery(w)
    <3>1. worker'[w].message \in Deliverable BY <2>4, BusyRows
    <3> QED BY <2>2, <2>3, <3>1 DEF Deliverable, Untold
  <2>5. CASE Learns(w)
    <3>1. worker'[w].message = worker[w].message /\ worker[w].pc \in Sending
      BY <2>5, BusyRows, Refused
    <3> QED BY <1>7, <2>2, <2>3, <3>1 DEF ReplyInv
  <2> QED BY <1>7, <2>4, <2>5
<1>8. ASSUME NEW v \in Workers, NEW w \in Workers,
             worker'[v].pc \in Sending, worker'[w].pc \in Sending,
             worker'[v].message = worker'[w].message
      PROVE  v = w
  <2>1. CASE worker'[v] = worker[v] /\ worker'[w] = worker[w] BY <1>8, <2>1 DEF ReplyInv
  <2>2. CASE ClaimDelivery(w) \/ Learns(w) BY <1>7, <1>8, <2>2
  <2>3. CASE ClaimDelivery(v) \/ Learns(v) BY <1>7, <1>8, <2>3
  <2> QED BY <1>8, <2>1, <2>2, <2>3, SenderMoves
<1> QED BY <1>4, <1>5, <1>6, <1>8 DEF ReplyInv, NoDuplicateReply

(***************************************************************************)
(* Nothing has been sent at first.                                         *)
(***************************************************************************)
LEMMA ReplyInit == Init => ReplyInv
<1> SUFFICES ASSUME Init PROVE ReplyInv OBVIOUS
<1>1. \A w \in Workers : worker[w].pc \notin Sending BY DEF Init, Resting, Sending
<1>2. \A m \in Messages : chat[m] = 0 BY DEF Init
<1> QED BY <1>1, <1>2 DEF ReplyInv, NoDuplicateReply

(***************************************************************************)
(* A reply reaches the chat at most once, for any number of workers and    *)
(* faults (claimTelegramDelivery, drainDeliveries).                        *)
(***************************************************************************)
THEOREM NoReplyTwice == Spec => []NoDuplicateReply
<1>1. Inv /\ ReplyInv /\ [Next]_vars => ReplyInv' BY ReplyStep DEF Inv
<1>2. ReplyInv => NoDuplicateReply BY DEF ReplyInv
<1> QED BY <1>1, <1>2, ReplyInit, InboxInvariant, PTL DEF Spec

-----------------------------------------------------------------------------
(* Being asked to send again                                               *)

Early     == {"absent", "received", "retryable", "processing"}
GaveUp(u) == delivery[<<u, "processing_failed">>].status # "absent"

(***************************************************************************)
(* As long as no live worker outlives its lease, an update that is not     *)
(* settled had no effect, a worker has its update for itself, and one      *)
(* that was given up is over.                                              *)
(***************************************************************************)
ResendInv ==
    stalls = 0 =>
        /\ \A u \in Updates : update[u].status \in Early => effect[u] = NoProposal
        /\ \A v, w \in Workers :
              worker[v].update # 0 /\ worker[v].update = worker[w].update => v = w
        /\ \A w \in Workers : worker[w].update # 0 =>
              /\ update[worker[w].update].status \notin {"received", "retryable"}
              /\ update[worker[w].update].status = "processing" => ~ update[worker[w].update].due
        /\ \A u \in Updates : GaveUp(u) =>
              update[u].status = "failed" /\ ~ Held(u) /\ effect[u] = NoProposal

(***************************************************************************)
(* What a step makes of one update.                                        *)
(***************************************************************************)
Kept(u)      == /\ update'[u].status = update[u].status
                /\ update'[u].due => update[u].due \/ (stalls' = 0 => ~ Held(u))
Expires(u)   == update[u].status \in Pending /\ update'[u].status = "expired"
ClosedOff(u) == u \in Exhausted /\ update'[u].status = "failed"
Leased(u)    == \E w \in Workers : ClaimUpdate(w) /\ Leases(w, u)
Finalized(u) == \E w \in Workers : worker[w].update = u /\ update'[u].status \in Settled
GivesUp(u)   == \E w \in Workers : /\ RecordFailure(w) /\ worker[w].update = u
                                   /\ update[u].status = "processing"
                                   /\ update'[u].status \in {"retryable", "failed"}
Arrives(u)   == update[u].status = "absent" /\ update'[u].status \in {"received", "rejected"}

(***************************************************************************)
(* Every update makes one of those moves.                                  *)
(***************************************************************************)
LEMMA UpdateMoves ==
    ASSUME Types, [Next]_vars, NEW u \in Updates
    PROVE  \/ Kept(u) \/ Expires(u) \/ ClosedOff(u) \/ Leased(u) \/ Finalized(u)
           \/ GivesUp(u) \/ Arrives(u)
<1> DEFINE Goal == \/ Kept(u) \/ Expires(u) \/ ClosedOff(u) \/ Leased(u) \/ Finalized(u)
                   \/ GivesUp(u) \/ Arrives(u)
<1>1. update \in [Updates -> UpdateRows] /\ update[u] \in UpdateRows BY DEF Types, UpdateType
<1>2. CASE update'[u] = update[u] BY <1>2 DEF Kept
<1>3. ASSUME NEW x \in Updates, UpdateFallsDue(x) PROVE Goal
  <2>1. /\ update' = [update EXCEPT ![x].due = TRUE]
        /\ IF Held(x) THEN stalls' = stalls + 1 ELSE stalls' = stalls
    BY <1>3 DEF UpdateFallsDue
  <2>2. CASE x # u
    <3>1. update'[u] = update[u] BY <1>1, <2>1, <2>2
    <3> QED BY <1>2, <3>1
  <2>3. CASE x = u
    <3>1. update'[u] = [update[u] EXCEPT !.due = TRUE] BY <1>1, <2>1, <2>3
    <3>2. update'[u].status = update[u].status BY <1>1, <3>1 DEF UpdateRows
    <3>3. stalls \in Nat BY DEF Types, ClockType
    <3>4. stalls' = 0 => ~ Held(u) BY <2>1, <2>3, <3>3
    <3> QED BY <3>2, <3>4 DEF Kept
  <2> QED BY <2>2, <2>3
<1>4. ASSUME NEW x \in Updates, RetentionPasses(x) PROVE Goal
  <2>1. update' = [update EXCEPT ![x].old = TRUE] BY <1>4 DEF RetentionPasses
  <2>2. CASE x # u
    <3>1. update'[u] = update[u] BY <1>1, <2>1, <2>2
    <3> QED BY <1>2, <3>1
  <2>3. CASE x = u
    <3>1. update'[u] = [update[u] EXCEPT !.old = TRUE] BY <1>1, <2>1, <2>3
    <3>2. update'[u].status = update[u].status /\ update'[u].due = update[u].due
      BY <1>1, <3>1 DEF UpdateRows
    <3> QED BY <3>2 DEF Kept
  <2> QED BY <2>2, <2>3
<1>5. ASSUME NEW w \in Workers, Expire(w) PROVE Goal
  <2>1. \/ update'[u] = update[u]
        \/ /\ update[u].status \in Pending
           /\ update'[u] = [update[u] EXCEPT !.status = "expired", !.due = FALSE]
    BY <1>5 DEF Expire
  <2>2. CASE /\ update[u].status \in Pending
             /\ update'[u] = [update[u] EXCEPT !.status = "expired", !.due = FALSE]
    <3>1. update'[u].status = "expired" BY <1>1, <2>2 DEF UpdateRows
    <3> QED BY <2>2, <3>1 DEF Expires
  <2> QED BY <1>2, <2>1, <2>2
<1>6. ASSUME NEW w \in Workers, ClaimUpdate(w) PROVE Goal
  <2>1. /\ \/ \A x \in Updates \ Exhausted : update'[x] = update[x]
           \/ \E y \in Updates : /\ Leases(w, y)
                                 /\ \A x \in Updates \ (Exhausted \cup {y}) : update'[x] = update[x]
        /\ \A x \in Exhausted : update'[x].status = "failed"
    BY <1>6, ClaimWrites
  <2>2. CASE u \in Exhausted BY <2>1, <2>2 DEF ClosedOff
  <2>3. CASE u \notin Exhausted
    <3>1. update'[u] = update[u] \/ Leases(w, u) BY <2>1, <2>3
    <3> QED BY <1>2, <1>6, <3>1 DEF Leased
  <2> QED BY <2>2, <2>3
<1>7. ASSUME NEW w \in Workers, Replies(w) \/ Execute(w) PROVE Goal
  <2>1. PICK s \in Settled, p \in Answerings \cup {"confirmation"} : Settles(w, s, p)
    BY <1>7, SettlingSteps
  <2>2. /\ \A x \in Updates : x # worker[w].update => update'[x] = update[x]
        /\ update'[worker[w].update].status = s
    BY <2>1, WrittenUpdate DEF Settles, Types, Statuses
  <2>3. CASE worker[w].update = u BY <2>2, <2>3 DEF Finalized
  <2>4. CASE worker[w].update # u BY <1>2, <2>2, <2>4
  <2> QED BY <2>3, <2>4
<1>8. ASSUME NEW w \in Workers, RecordFailure(w) PROVE Goal
  <2> DEFINE x == worker[w].update
  <2>1. \/ update' = update
        \/ /\ update[x].status = "processing"
           /\ \E s \in {"retryable", "failed"} :
                 update' = [update EXCEPT ![x].due = FALSE, ![x].status = s]
    BY <1>8 DEF RecordFailure
  <2>2. CASE x # u
    <3>1. update'[u] = update[u] BY <1>1, <2>1, <2>2
    <3> QED BY <1>2, <3>1
  <2>3. ASSUME x = u, update[x].status = "processing", NEW s \in {"retryable", "failed"},
               update' = [update EXCEPT ![x].due = FALSE, ![x].status = s]
        PROVE  Goal
    <3>1. update'[u] = [update[u] EXCEPT !.due = FALSE, !.status = s] BY <1>1, <2>3
    <3>2. update'[u].status = s BY <1>1, <3>1 DEF UpdateRows
    <3> QED BY <1>8, <2>3, <3>2 DEF GivesUp
  <2> QED BY <1>2, <2>1, <2>2, <2>3
<1>9. ASSUME NEW w \in Workers, Persist(w) PROVE Goal
  <2>1. update'[u] = IF u \in worker[w].page /\ update[u].status = "absent"
                   THEN [NoUpdate EXCEPT !.status = IF sent[u].authorised THEN "received"
                                                    ELSE "rejected"]
                   ELSE update[u]
    BY <1>9 DEF Persist
  <2>2. \A s \in {"received", "rejected"} : [NoUpdate EXCEPT !.status = s].status = s
    BY DEF NoUpdate
  <2> QED BY <1>2, <2>1, <2>2 DEF Arrives
<1>10. \/ UNCHANGED update
       \/ \E x \in Updates : UpdateFallsDue(x) \/ RetentionPasses(x)
       \/ \E w \in Workers : \/ Expire(w) \/ ClaimUpdate(w) \/ Replies(w) \/ Execute(w)
                             \/ RecordFailure(w) \/ Persist(w)
  BY StepKinds DEF Kind, Steps, vars, UserSends, DeliveryFallsDue, ClarificationLapses, Turns,
                   Learns, ClaimDelivery, CompleteDelivery, GetUpdates, ReadOffset
<1> QED BY <1>2, <1>3, <1>4, <1>5, <1>6, <1>7, <1>8, <1>9, <1>10

(***************************************************************************)
(* A worker holds an update because it did or because it leases it now.    *)
(***************************************************************************)
LEMMA HolderMoves ==
    ASSUME Types, LossInv, [Next]_vars, NEW w \in Workers, worker'[w].update # 0
    PROVE  \/ worker'[w].update = worker[w].update
           \/ /\ ClaimUpdate(w) /\ Leases(w, worker'[w].update)
              /\ worker'[w].update \in Updates
<1>1. CASE UNCHANGED worker BY <1>1
<1>2. ASSUME NEW v \in Workers, Steps(v), v # w PROVE worker'[w] = worker[w]
  BY <1>2, OneSteps
<1>3. CASE Steps(w)
  <2>1. Becomes(w) BY <1>3, StepsBecome
  <2>2. \A pc \in {"expire", "updates", "deliveries", "poll"} : ~ Goto(w, pc)
    <3>1. \A pc \in {"expire", "updates", "deliveries", "poll"} : pc \in Pcs BY DEF Pcs
    <3> QED BY <3>1, RestingRow
  <2>3. ~ ClaimDelivery(w) BY BusyRows
  <2>4. Learns(w) \/ GetUpdates(w) \/ ReadOffset(w) => worker'[w].update = worker[w].update
    BY BusyRows
  <2>5. \A u \in Updates : ClaimUpdate(w) /\ Leases(w, u) => worker'[w].update = u BY BusyRows
  <2> QED BY <2>1, <2>2, <2>3, <2>4, <2>5 DEF Becomes, Continues
<1>4. UNCHANGED worker \/ \E v \in Workers : Steps(v)
  BY StepKinds DEF Kind, vars, UserSends, UpdateFallsDue, RetentionPasses, DeliveryFallsDue,
       ClarificationLapses
<1> QED BY <1>1, <1>2, <1>3, <1>4

(***************************************************************************)
(* An effect is new only when its update completes.                        *)
(***************************************************************************)
LEMMA EffectMoves ==
    ASSUME Types, [Next]_vars, NEW u \in Updates
    PROVE  \/ effect'[u] = effect[u]
           \/ update'[u].status = "completed" /\ Held(u)
<1>1. CASE UNCHANGED effect BY <1>1
<1>2. ASSUME NEW w \in Workers, Execute(w), Effects(w)
      PROVE  \/ effect'[u] = effect[u]
             \/ update'[u].status = "completed" /\ Held(u)
  <2> DEFINE x == worker[w].update
  <2>1. x \in Updates BY <1>2, ExecuteEffects
  <2>2. effect' = [effect EXCEPT ![x] = effect'[x]] BY <1>2 DEF Effects
  <2>3. DOMAIN effect = Updates BY DEF Types, MoneyType
  <2>4. CASE x # u BY <2>2, <2>3, <2>4
  <2>5. CASE x = u
    <3>1. update' = [update EXCEPT ![x].status = "completed", ![x].due = FALSE]
      BY <1>2 DEF Execute, Writes
    <3>2. "completed" \in Statuses BY DEF Statuses, Settled
    <3>3. update'[x].status = "completed" BY <2>1, <3>1, <3>2, WrittenUpdate DEF Types
    <3> QED BY <2>5, <3>3 DEF Held
  <2> QED BY <2>4, <2>5
<1>3. UNCHANGED effect \/ \E w \in Workers : Execute(w) /\ Effects(w)
  BY MoneyMoves, ExecuteEffects DEF moneyVars
<1> QED BY <1>1, <1>2, <1>3

(***************************************************************************)
(* An update is given up by the claim that closes it or by its worker.     *)
(***************************************************************************)
LEMMA GaveUpMoves ==
    ASSUME Types, LossInv, ReplyInv, [Next]_vars, NEW u \in Updates, GaveUp(u)', ~ GaveUp(u)
    PROVE  \/ u \in Exhausted /\ update'[u].status = "failed"
           \/ \E w \in Workers : /\ RecordFailure(w) /\ worker[w].update = u
                                 /\ update[u].status = "processing"
                                 /\ update'[u].status = "failed"
<1> DEFINE m == <<u, "processing_failed">>
           Goal == \/ u \in Exhausted /\ update'[u].status = "failed"
                   \/ \E w \in Workers : /\ RecordFailure(w) /\ worker[w].update = u
                                         /\ update[u].status = "processing"
                                         /\ update'[u].status = "failed"
<1>1. m \in Messages /\ m[1] = u /\ m[2] = "processing_failed" BY DEF Messages, Purposes
<1>2. delivery'[m].status # "absent" /\ delivery[m].status = "absent" BY DEF GaveUp
<1>3. DOMAIN delivery = Messages BY <1>1, DeliveryRow
<1> HIDE DEF m
<1>4. delivery'[m] # delivery[m] BY <1>2
<1>5. ASSUME NEW w \in Workers, ClaimUpdate(w) PROVE Goal
  <2>1. delivery' = [x \in Messages |->
          IF x[1] \in Exhausted /\ x[2] = "processing_failed"
            THEN Queue(delivery, x)[x] ELSE delivery[x]]
    BY <1>5 DEF ClaimUpdate
  <2>2. m[1] \in Exhausted BY <1>1, <1>4, <2>1
  <2> QED BY <1>1, <1>5, <2>2, ClaimWrites
<1>6. ASSUME NEW w \in Workers, Replies(w) \/ Execute(w) PROVE FALSE
  <2>1. PICK s \in Settled, p \in Answerings \cup {"confirmation"} : Settles(w, s, p)
    BY <1>6, SettlingSteps
  <2>2. p # "processing_failed" BY DEF Answerings
  <2>3. /\ worker[w].update \in Updates
        /\ \/ delivery' = delivery
           \/ p \in Purposes /\ delivery' = Queue(delivery, <<worker[w].update, p>>)
    BY <2>1 DEF Settles, Writes
  <2>4. <<worker[w].update, p>> # m BY <1>1, <2>2
  <2>5. ASSUME p \in Purposes PROVE Queue(delivery, <<worker[w].update, p>>)[m] = delivery[m]
    <3>1. <<worker[w].update, p>> \in Messages BY <2>3, <2>5 DEF Messages
    <3> QED BY <1>1, <2>4, <3>1, Queueing
  <2> QED BY <1>4, <2>3, <2>5
<1>7. ASSUME NEW w \in Workers, RecordFailure(w) PROVE Goal
  <2> DEFINE x == worker[w].update
             y == <<x, "processing_failed">>
             retry == worker[w].outcome = "retryable" /\ worker[w].attempt < MaxAttempts
  <2>1. x \in Updates BY <1>7, WorkerFields DEF RecordFailure, Working
  <2>2. \/ delivery' = delivery
        \/ /\ update[x].status = "processing" /\ ~ retry
           /\ update' = [update EXCEPT ![x].due = FALSE, ![x].status = "failed"]
           /\ delivery' = Queue(delivery, y)
    BY <1>7 DEF RecordFailure
  <2>3. y \in Messages BY <2>1 DEF Messages, Purposes
  <2> HIDE DEF retry
  <2>4. CASE /\ update[x].status = "processing"
             /\ update' = [update EXCEPT ![x].due = FALSE, ![x].status = "failed"]
             /\ delivery' = Queue(delivery, y)
    <3>1. m = y BY <1>1, <1>4, <2>3, <2>4, Queueing
    <3>2. x = u BY <1>1, <3>1
    <3>3. update \in [Updates -> UpdateRows] /\ update[x] \in UpdateRows
      BY <2>1 DEF Types, UpdateType
    <3>4. update'[x] = [update[x] EXCEPT !.due = FALSE, !.status = "failed"] BY <2>1, <2>4, <3>3
    <3>5. update'[x].status = "failed" BY <3>3, <3>4 DEF UpdateRows
    <3> QED BY <1>7, <2>4, <3>2, <3>5
  <2> QED BY <1>4, <2>2, <2>4
<1>8. \E w \in Workers : ClaimUpdate(w) \/ Replies(w) \/ Execute(w) \/ RecordFailure(w)
  <2>1. Queued(m)
    <3>1. Moves(m) BY <1>1, DeliveryMoves
    <3>2. ~ Finished(m)
      <4>1. ASSUME NEW w \in Workers, CompleteDelivery(w), worker[w].message = m PROVE FALSE
        <5>1. worker[w].pc \in Sending BY <4>1 DEF CompleteDelivery, Sending
        <5> QED BY <1>2, <4>1, <5>1 DEF ReplyInv, Untold
      <4> QED BY <4>1 DEF Finished
    <3> QED BY <1>2, <1>4, <3>1, <3>2 DEF Moves, Wakes, GivenUp, Claimed, Deliverable
  <2>2. ~ (\E w \in Workers : ClaimDelivery(w) \/ CompleteDelivery(w) \/ Expire(w))
        /\ ~ (\E x \in Messages : DeliveryFallsDue(x))
    <3>1. ASSUME NEW w \in Workers, ClaimDelivery(w) PROVE FALSE
      <4>1. PICK x \in Deliverable : delivery' = [delivery EXCEPT ![x] =
              [status |-> "sending", due |-> FALSE, attempts |-> delivery[x].attempts + 1]]
        BY <3>1 DEF ClaimDelivery
      <4>2. x # m BY <1>2, <4>1 DEF Deliverable
      <4> QED BY <1>1, <1>3, <1>4, <4>1, <4>2
    <3>2. ASSUME NEW w \in Workers, CompleteDelivery(w) PROVE FALSE
      <4> DEFINE x == worker[w].message
      <4>1. delivery' = [delivery EXCEPT ![x].status = worker[w].outcome, ![x].due = FALSE]
            /\ worker[w].pc \in Sending
        BY <3>2 DEF CompleteDelivery, Sending
      <4>2. x # m BY <1>2, <4>1 DEF ReplyInv, Untold
      <4> HIDE DEF x
      <4> QED BY <1>1, <1>3, <1>4, <4>1, <4>2
    <3>3. ASSUME NEW w \in Workers, Expire(w) PROVE FALSE
      <4>1. delivery'[m] = delivery[m] BY <1>1, <1>2, <3>3 DEF Expire
      <4> QED BY <1>4, <4>1
    <3>4. ASSUME NEW x \in Messages, DeliveryFallsDue(x) PROVE FALSE
      <4>1. delivery' = [delivery EXCEPT ![x].due = TRUE] /\ x # m
        BY <1>2, <3>4 DEF DeliveryFallsDue
      <4> QED BY <1>1, <1>3, <1>4, <4>1
    <3> QED BY <3>1, <3>2, <3>3, <3>4
  <2>3. delivery' # delivery BY <1>4
  <2> QED BY <2>2, <2>3, StepKinds DEF Kind, Steps, vars, UserSends, UpdateFallsDue,
        RetentionPasses, ClarificationLapses, Turns, Learns, GetUpdates, ReadOffset, Persist
<1> QED BY <1>5, <1>6, <1>7, <1>8

(***************************************************************************)
(* The invariant is kept while no lease is outlived.                       *)
(***************************************************************************)
LEMMA ResendStep == ASSUME Types, LossInv, ReplyInv, ResendInv, [Next]_vars PROVE ResendInv'
<1> SUFFICES ASSUME stalls' = 0 PROVE ResendInv' BY DEF ResendInv
<1>1. stalls = 0 BY ClockStep
<1>2. /\ \A u \in Updates : update[u].status \in Early => effect[u] = NoProposal
      /\ \A v, w \in Workers :
            worker[v].update # 0 /\ worker[v].update = worker[w].update => v = w
      /\ \A w \in Workers : worker[w].update # 0 =>
            /\ update[worker[w].update].status \notin {"received", "retryable"}
            /\ update[worker[w].update].status = "processing" => ~ update[worker[w].update].due
      /\ \A u \in Updates : GaveUp(u) =>
            update[u].status = "failed" /\ ~ Held(u) /\ effect[u] = NoProposal
  BY <1>1 DEF ResendInv
<1>3. \A u \in Updates : u # 0 BY DEF Updates
<1>4. \A w \in Workers : worker[w].update \in Updates \cup {0}
  BY WorkerFields DEF WorkerRows
<1>5. \A w \in Workers, u \in Updates : RecordFailure(w) => worker'[w].update # u
  <2>1. ASSUME NEW w \in Workers, RecordFailure(w) PROVE worker'[w].update = 0
    <3>1. Goto(w, "updates") /\ "updates" \in Pcs BY <2>1 DEF RecordFailure, Pcs
    <3> QED BY <3>1, RestingRow
  <2> QED BY <1>3, <2>1
<1>6. \A u \in Updates, w \in Workers : Leases(w, u) =>
        /\ update[u].status \in {"received", "retryable", "processing"}
        /\ update[u].status \in {"received", "retryable"} \/ update[u].due
        /\ update'[u].status = "processing" /\ ~ update'[u].due
  BY DEF Leases, Claimable
<1>7. \A u \in Updates, w \in Workers : Leases(w, u) => ~ Held(u)
  <2>1. ASSUME NEW u \in Updates, NEW w \in Workers, Leases(w, u),
               NEW v \in Workers, worker[v].update = u
        PROVE  FALSE
    BY <1>2, <1>3, <1>6, <2>1
  <2> QED BY <2>1 DEF Held
<1>8. ASSUME NEW u \in Updates, update'[u].status \in Early PROVE effect'[u] = NoProposal
  <2>1. effect'[u] = effect[u] BY <1>8, EffectMoves DEF Early
  <2>2. update[u].status \in Early
    <3>1. ~ Expires(u) /\ ~ ClosedOff(u) /\ ~ Finalized(u)
      BY <1>8 DEF Early, Expires, ClosedOff, Finalized, Settled
    <3>2. Kept(u) => update[u].status \in Early BY <1>8 DEF Kept
    <3>3. Leased(u) => update[u].status \in Early BY <1>6 DEF Leased, Early
    <3>4. GivesUp(u) \/ Arrives(u) => update[u].status \in Early BY DEF GivesUp, Arrives, Early
    <3> QED BY <3>1, <3>2, <3>3, <3>4, UpdateMoves
  <2> QED BY <1>2, <2>1, <2>2
<1>9. ASSUME NEW v \in Workers, NEW w \in Workers, worker'[v].update # 0,
             worker'[v].update = worker'[w].update
      PROVE  v = w
  <2> DEFINE u == worker'[v].update
  <2>1. CASE worker'[v].update = worker[v].update /\ worker'[w].update = worker[w].update
    BY <1>2, <1>9, <2>1
  <2>2. ASSUME NEW x \in Workers, NEW y \in Workers, x # y, worker'[x].update = u,
               worker'[y].update = u, ClaimUpdate(x), Leases(x, u), u \in Updates
        PROVE  FALSE
    <3>1. Steps(x) BY <2>2 DEF Steps
    <3>2. worker'[y] = worker[y] BY <2>2, <3>1, OneSteps
    <3>3. worker[y].update = u BY <2>2, <3>2
    <3> QED BY <1>7, <2>2, <3>3 DEF Held
  <2> QED BY <1>9, <2>1, <2>2, HolderMoves
<1>10. ASSUME NEW w \in Workers, worker'[w].update # 0
       PROVE  /\ update'[worker'[w].update].status \notin {"received", "retryable"}
              /\ update'[worker'[w].update].status = "processing"
                   => ~ update'[worker'[w].update].due
  <2> DEFINE u == worker'[w].update
  <2>1. CASE Leases(w, u) /\ u \in Updates BY <1>6, <2>1
  <2>2. CASE u = worker[w].update
    <3>1. u \in Updates BY <1>4, <1>10, <2>2
    <3>2. Held(u) BY <2>2 DEF Held
    <3>3. /\ update[u].status \notin {"received", "retryable"}
          /\ update[u].status = "processing" => ~ update[u].due
      BY <1>2, <1>10, <2>2
    <3>4. update[u].status # "absent" BY <1>10, <2>2 DEF Types, BusyType, Busy
    <3> HIDE DEF u
    <3>5. CASE Kept(u)
      <4>1. /\ update'[u].status \notin {"received", "retryable"}
            /\ update'[u].status = "processing" => ~ update'[u].due
        BY <3>2, <3>3, <3>5 DEF Kept
      <4> QED BY <4>1 DEF u
    <3>6. CASE Expires(u) \/ ClosedOff(u) \/ Finalized(u)
      <4>1. update'[u].status \in Settled BY <3>6 DEF Expires, ClosedOff, Finalized, Settled
      <4>2. update'[u].status \notin {"received", "retryable", "processing"}
        BY <4>1 DEF Settled
      <4> QED BY <4>2 DEF u
    <3>7. CASE Leased(u) BY <1>7, <3>1, <3>2, <3>7 DEF Leased
    <3>8. CASE GivesUp(u)
      <4>1. PICK x \in Workers : RecordFailure(x) /\ worker[x].update = u BY <3>8 DEF GivesUp
      <4>2. x = w BY <1>2, <1>3, <2>2, <3>1, <4>1
      <4> QED BY <1>5, <3>1, <4>1, <4>2 DEF u
    <3>9. ~ Arrives(u) BY <3>4 DEF Arrives
    <3> QED BY <3>1, <3>5, <3>6, <3>7, <3>8, <3>9, UpdateMoves DEF u
  <2> QED BY <1>10, <2>1, <2>2, HolderMoves
<1>11. ASSUME NEW u \in Updates, update'[u].status = "failed", ~ Held(u)
       PROVE  (~ Held(u))' /\ effect'[u] = effect[u]
  <2>1. ASSUME NEW w \in Workers, worker'[w].update = u PROVE FALSE
    <3>1. worker[w].update # u BY <1>11 DEF Held
    <3>2. Leases(w, u) BY <1>3, <2>1, <3>1, HolderMoves
    <3> QED BY <1>6, <1>11, <3>2
  <2>2. effect'[u] = effect[u] BY <1>11, EffectMoves
  <2> QED BY <2>1, <2>2 DEF Held
<1>12. ASSUME NEW u \in Updates, GaveUp(u)'
       PROVE  update'[u].status = "failed" /\ (~ Held(u))' /\ effect'[u] = NoProposal
  <2>1. CASE GaveUp(u)
    <3>1. update[u].status = "failed" /\ ~ Held(u) /\ effect[u] = NoProposal BY <1>2, <2>1
    <3>2. update'[u].status = "failed"
      <4>1. ~ Expires(u) /\ ~ ClosedOff(u) /\ ~ GivesUp(u) /\ ~ Arrives(u)
        BY <3>1 DEF Expires, Pending, ClosedOff, Exhausted, GivesUp, Arrives
      <4>2. ~ Leased(u) BY <1>6, <3>1 DEF Leased
      <4>3. ~ Finalized(u) BY <3>1 DEF Finalized, Held
      <4> QED BY <3>1, <4>1, <4>2, <4>3, UpdateMoves DEF Kept
    <3> QED BY <1>11, <3>1, <3>2
  <2>2. CASE u \in Exhausted /\ update'[u].status = "failed"
    <3>1. update[u].status = "processing" /\ update[u].due BY <2>2 DEF Exhausted
    <3>2. ~ Held(u) BY <1>2, <1>3, <3>1 DEF Held
    <3>3. effect[u] = NoProposal BY <1>2, <3>1 DEF Early
    <3> QED BY <1>11, <2>2, <3>2, <3>3
  <2>3. ASSUME NEW w \in Workers, RecordFailure(w), worker[w].update = u,
               update[u].status = "processing", update'[u].status = "failed"
        PROVE  (~ Held(u))' /\ effect'[u] = NoProposal
    <3>1. effect[u] = NoProposal BY <1>2, <2>3 DEF Early
    <3>2. effect'[u] = effect[u] BY <2>3, EffectMoves
    <3>3. ASSUME NEW x \in Workers, worker'[x].update = u PROVE FALSE
      <4>1. CASE Leases(x, u) BY <1>6, <2>3, <4>1
      <4>2. CASE worker[x].update = u
        <5>1. x = w BY <1>2, <1>3, <2>3, <4>2
        <5> QED BY <1>5, <2>3, <3>3, <5>1
      <4> QED BY <1>3, <3>3, <4>1, <4>2, HolderMoves
    <3> QED BY <3>1, <3>2, <3>3 DEF Held
  <2> QED BY <1>12, <2>1, <2>2, <2>3, GaveUpMoves
<1> QED BY <1>8, <1>9, <1>10, <1>12 DEF ResendInv

(***************************************************************************)
(* Nobody is asked for anything at first.                                  *)
(***************************************************************************)
LEMMA ResendInit == Init => ResendInv
<1> SUFFICES ASSUME Init PROVE ResendInv OBVIOUS
<1>1. \A u \in Updates : effect[u] = NoProposal BY DEF Init
<1>2. \A w \in Workers : worker[w].update = 0 BY DEF Init, Resting
<1>3. \A u \in Updates : ~ GaveUp(u)
  <2>1. delivery = [m \in Messages |-> NoDelivery] /\ NoDelivery.status = "absent"
    BY DEF Init, NoDelivery
  <2>2. \A u \in Updates : <<u, "processing_failed">> \in Messages BY DEF Messages, Purposes
  <2> QED BY <2>1, <2>2 DEF GaveUp
<1> QED BY <1>1, <1>2, <1>3 DEF ResendInv

(***************************************************************************)
(* The user is asked to send an entry again only if it had no effect,      *)
(* unless a live worker outlives its lease (recordTelegramProcessingFailure *)
(* and claimTelegramUpdate).                                               *)
(***************************************************************************)
THEOREM ResendsSafely == Spec => []ResendOnlyWhatHadNoEffect
<1>1. Inv /\ ReplyInv /\ [Next]_vars => ReplyInv' BY ReplyStep DEF Inv
<1>2. Inv /\ ReplyInv /\ ResendInv /\ [Next]_vars => ResendInv' BY ResendStep DEF Inv
<1>3. ResendInv => ResendOnlyWhatHadNoEffect
  BY DEF ResendInv, GaveUp, ResendOnlyWhatHadNoEffect
<1> QED BY <1>1, <1>2, <1>3, ReplyInit, ResendInit, InboxInvariant, PTL DEF Spec
=============================================================================
