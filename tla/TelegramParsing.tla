--------------------------- MODULE TelegramParsing ---------------------------
(***************************************************************************)
(* What the parser makes of a message, without and with a clarification    *)
(* under way. A text is abstracted to what the parser's expressions find   *)
(* in it: a slash command, words, an amount, ISO dates and, for a future   *)
(* expense, whether a label is left once amount and date are cut out.      *)
(* Days are numbers; "impossible" stands for an ISO date without a day in  *)
(* the calendar, such as month 13.                                         *)
(***************************************************************************)
EXTENDS Integers, FiniteSets

Absent == 0           \* a draft field that is not known yet
Impossible == -1      \* validDate() throws a RangeError on such a date

Words == {"maybe", "future", "insurance", "paid", "cash", "cashNumber", "count",
          "received", "salary", "sideHustle", "other", "expense", "amountWord",
          "dateWord", "category", "undo", "yesterday"}

AmountForms == {"none", "bare", "explicit", "several", "invalid", "foreign"}

Draft(kind, amount, date, due, label) ==
    [kind |-> kind, amount |-> amount, date |-> date, due |-> due, label |-> label]

NoDraft == Draft("none", Absent, Absent, Absent, FALSE)

Proposal(kind, amount, date, detail, target) ==
    [kind |-> kind, amount |-> amount, date |-> date, detail |-> detail, target |-> target]

Kinds == {"cash_expense", "cash_income", "cash_count", "future_expense", "correction",
          "cash_cancellation"}
Details == {"none", "category", "side_hustle", "other", "manual", "amount", "date",
            "income_source", "cancel"}

NoTarget == <<0, "none">>
NoProposal == Proposal("none", Absent, Absent, "none", NoTarget)

High(proposal) ==
    [confidence |-> "high", reason |-> "none", draft |-> NoDraft, proposal |-> proposal]

Clarify(field, draft) ==
    [confidence |-> "needs_clarification", reason |-> field, draft |-> draft,
     proposal |-> NoProposal]

Unsupported(reason) ==
    [confidence |-> "unsupported", reason |-> reason, draft |-> NoDraft,
     proposal |-> NoProposal]

\* The parser threw: neither of the results above.
Throws == [confidence |-> "throws", reason |-> "none", draft |-> NoDraft,
           proposal |-> NoProposal]

(***************************************************************************)
(* parseEurAmount: "several" explicit amounts are ambiguous, and an amount *)
(* without a currency counts only where the caller allows it.              *)
(***************************************************************************)
AmountStatus(t, allowBare) ==
    CASE t.amount = "foreign"  -> "unsupported_currency"
      [] t.amount = "invalid"  -> "invalid"
      [] t.amount = "several"  -> "multiple"
      [] t.amount = "explicit" -> "ok"
      [] t.amount = "bare"     -> IF allowBare THEN "ok" ELSE "missing"
      [] t.amount = "none"     -> "missing"

Has(t, words) == t.words \cap words # {}

(***************************************************************************)
(* parseEconomicDate: one ISO date at most, else yesterday or the day the  *)
(* message was sent. Two dates are refused; an impossible one throws.      *)
(***************************************************************************)
DateStatus(t) ==
    CASE Cardinality(t.dates) > 1 -> "invalid"
      [] t.dates = {Impossible}   -> "throws"
      [] OTHER                    -> "ok"

EconomicDate(t) ==
    IF t.dates # {} THEN CHOOSE d \in t.dates : TRUE
    ELSE IF "yesterday" \in t.words THEN t.day - 1
    ELSE t.day

IncomeSource(t) ==
    IF "sideHustle" \in t.words THEN "side_hustle"
    ELSE IF "other" \in t.words THEN "other"
    ELSE "none"

-----------------------------------------------------------------------------
(* correction: a reply to a message of the bot                             *)

CorrectionFields(t) ==
    (IF AmountStatus(t, "amountWord" \in t.words) = "ok" THEN {"amount"} ELSE {})
    \cup (IF "dateWord" \in t.words /\ DateStatus(t) = "ok" THEN {"date"} ELSE {})
    \cup (IF "category" \in t.words THEN {"category"} ELSE {})
    \cup (IF IncomeSource(t) # "none" THEN {"income_source"} ELSE {})

(***************************************************************************)
(* A reply that only says to undo cancels; any other must name exactly one *)
(* corrected field.                                                        *)
(***************************************************************************)
Correction(t) ==
    CASE t.words = {"undo"} /\ t.amount = "none" /\ t.dates = {} ->
           High(Proposal("correction", Absent, Absent, "cancel", t.reply))
      [] DateStatus(t) = "throws" -> Throws
      [] OTHER ->
           IF Cardinality(CorrectionFields(t)) # 1
             THEN Unsupported("invalid_correction")
             ELSE High(Proposal("correction", t.minor, EconomicDate(t),
                                CHOOSE f \in CorrectionFields(t) : TRUE, t.reply))

-----------------------------------------------------------------------------
(* parseTelegramText                                                       *)

IsFuture(t) ==
    \/ "future" \in t.words
    \/ "insurance" \in t.words /\ ~Has(t, {"paid", "cash"})

ParseFuture(t) ==
    LET status == AmountStatus(t, FALSE)
        amount == IF status = "ok" THEN t.minor ELSE Absent
        due    == IF t.dates = {} THEN Absent ELSE CHOOSE d \in t.dates : TRUE
        draft  == Draft("future_expense", amount, Absent, due, t.label)
    IN  CASE status = "missing" -> Clarify("amount", draft)
          [] status # "missing" /\ t.dates = {} -> Clarify("due_date", draft)
          [] status \notin {"missing", "ok"} /\ t.dates # {} ->
               Unsupported("invalid_future_expense")
          [] OTHER ->
               IF due <= t.day THEN Unsupported("past_due_date")
               ELSE IF ~t.label THEN Unsupported("missing_label")
               ELSE High(Proposal("future_expense", amount, due, "manual", NoTarget))

ParseIncome(t, status) ==
    CASE "salary" \in t.words -> Unsupported("salary_not_supported")
      [] "salary" \notin t.words /\ status = "missing" ->
           Clarify("amount", Draft("cash_income", Absent, EconomicDate(t), Absent, FALSE))
      [] OTHER ->
           IF IncomeSource(t) = "none"
             THEN Clarify("income_source",
                          Draft("cash_income", t.minor, EconomicDate(t), Absent, FALSE))
           ELSE IF EconomicDate(t) > t.day THEN Unsupported("future_cash_activity")
           ELSE High(Proposal("cash_income", t.minor, EconomicDate(t), IncomeSource(t),
                              NoTarget))

UnknownDraft(t, status) ==
    Draft("unknown", IF status = "ok" THEN t.minor ELSE Absent, EconomicDate(t), Absent, FALSE)

(***************************************************************************)
(* Cash counts, income and expenses, tried in this order.                  *)
(***************************************************************************)
ParseCash(t) ==
    LET status == AmountStatus(t, TRUE)
    IN  IF status \notin {"ok", "missing"} THEN Unsupported(status)
        ELSE IF "cashNumber" \in t.words THEN Clarify("intent", UnknownDraft(t, status))
        ELSE IF "count" \in t.words
          THEN IF status = "missing"
                 THEN Clarify("amount", Draft("unknown", Absent, Absent, Absent, FALSE))
                 ELSE High(Proposal("cash_count", t.minor, EconomicDate(t), "none", NoTarget))
        ELSE IF "received" \in t.words THEN ParseIncome(t, status)
        ELSE IF status = "missing" THEN Unsupported("unsupported_input")
        ELSE IF ~Has(t, {"paid", "cash"}) THEN Clarify("intent", UnknownDraft(t, status))
        ELSE IF EconomicDate(t) > t.day THEN Unsupported("future_cash_activity")
        ELSE High(Proposal("cash_expense", t.minor, EconomicDate(t), "category", NoTarget))

ParseText(t) ==
    IF t.reply # NoTarget THEN Correction(t)
    ELSE IF t.command # "none" THEN Unsupported("bot_command")
    ELSE IF "maybe" \in t.words
      THEN Clarify("intent", Draft("unknown", Absent, Absent, Absent, FALSE))
    ELSE IF DateStatus(t) = "throws" THEN Throws
    ELSE IF DateStatus(t) = "invalid" THEN Unsupported("invalid_date")
    ELSE IF IsFuture(t) THEN ParseFuture(t)
    ELSE ParseCash(t)

-----------------------------------------------------------------------------
(* mergeClarification: the answer fills what the draft lacks               *)

MergedAmount(draft, t) ==
    IF draft.amount # Absent THEN draft.amount
    ELSE IF AmountStatus(t, TRUE) = "ok" THEN t.minor
    ELSE Absent

MergeIncome(draft, t, amount) ==
    IF IncomeSource(t) = "none"
      THEN Clarify("income_source", [draft EXCEPT !.amount = amount])
      ELSE High(Proposal("cash_income", amount, draft.date, IncomeSource(t), NoTarget))

MergeFuture(draft, t, amount) ==
    LET due == IF draft.due # Absent THEN draft.due
               ELSE IF Cardinality(t.dates) = 1 THEN CHOOSE d \in t.dates : TRUE
               ELSE Absent
    IN  IF due = Absent THEN Clarify("due_date", [draft EXCEPT !.amount = amount])
        ELSE IF due = Impossible THEN Throws
        ELSE IF due <= t.day THEN Unsupported("invalid_future_expense")
        ELSE IF ~draft.label THEN Unsupported("missing_label")
        ELSE High(Proposal("future_expense", amount, due, "manual", NoTarget))

MergeUnknown(draft, t, amount) ==
    LET date   == IF draft.date # Absent THEN draft.date ELSE t.day
        income == Draft("cash_income", amount, date, Absent, FALSE)
    IN  IF "count" \in t.words
          THEN High(Proposal("cash_count", amount, date, "none", NoTarget))
        ELSE IF "received" \in t.words THEN MergeIncome(income, t, amount)
        ELSE IF Has(t, {"expense", "paid"})
          THEN High(Proposal("cash_expense", amount, date, "category", NoTarget))
        ELSE Clarify("intent", [draft EXCEPT !.amount = amount, !.date = date])

MergeClarification(draft, t) ==
    LET amount == MergedAmount(draft, t)
    IN  IF amount = Absent THEN Clarify("amount", draft)
        ELSE IF draft.kind = "cash_income" THEN MergeIncome(draft, t, amount)
        ELSE IF draft.kind = "future_expense" THEN MergeFuture(draft, t, amount)
        ELSE MergeUnknown(draft, t, amount)
=============================================================================
