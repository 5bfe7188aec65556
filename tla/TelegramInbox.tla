---------------------------- MODULE TelegramInbox ----------------------------
(***************************************************************************)
(* The Telegram runtime: the long-poll inbox with its leases and retries,  *)
(* clarifications, the financial command of an update and the delivery of  *)
(* replies, for one owner and one private chat.                            *)
(*                                                                         *)
(* A worker repeats one loop: expire what is too old, drain the claimable  *)
(* updates, drain the deliveries, poll. Every transaction is one step; what *)
(* a worker read before it may be old by then. Wall-clock time appears as  *)
(* actions of their own that let a lease, a delay or a deadline pass. The  *)
(* row of the integration status page and log lines are left out.          *)
(***************************************************************************)
EXTENDS TelegramParsing, Sequences

CONSTANTS
    Workers,        \* worker processes; an overlapping restart makes them two
    MaxUpdates,     \* bound on the messages sent
    Conversations,  \* the sequences of messages the user may send
    MaxAttempts,    \* TELEGRAM_PROCESSING_MAX_ATTEMPTS
    SendAttempts,   \* attempts of a delivery that the provider refuses
    MaxInvalid,     \* invalid answers that cancel a clarification
    MaxFaults,      \* bound on crashes, failed statements, passed deadlines
    MaxStalls       \* bound on the leases that a live worker outlives

ASSUME TelegramAssumption ==
    /\ MaxUpdates \in Nat
    /\ MaxAttempts \in Nat \ {0}
    /\ SendAttempts \in Nat \ {0}
    /\ MaxInvalid \in Nat \ {0}
    /\ MaxFaults \in Nat
    /\ MaxStalls \in Nat

VARIABLES
    sent,           \* the messages of the user, by update id
    acknowledged,   \* update ids below it are forgotten by Telegram
    nextOffset,     \* telegram_poll_state.next_offset, 0 for null
    update,         \* telegram_updates
    clarification,  \* telegram_pending_clarifications in order of creation
    command,        \* requests of the completed commands of an update
    effect,         \* the command of an update that changed facts: its message link
    applied,        \* history: how often a command of an update changed facts
    closedLink,     \* message links that are superseded or cancelled
    linkMessage,    \* bot_message_id of the message link of an update
    delivery,       \* telegram_deliveries by update and purpose
    chat,           \* how often each delivery reached the chat
    worker,         \* control state of the workers and what they have read
    faults,         \* faults so far
    stalls          \* leases outlived so far

inboxVars == <<sent, acknowledged, nextOffset>>
moneyVars == <<command, effect, applied, closedLink>>
clockVars == <<faults, stalls>>
vars == <<sent, acknowledged, nextOffset, update, clarification, command, effect, applied,
          closedLink, linkMessage, delivery, chat, worker, faults, stalls>>

Updates  == 1..MaxUpdates
Purposes == {"help", "cancel", "clarification", "clarification_cancelled", "unsupported",
             "refused", "confirmation", "processing_failed"}
Messages == Updates \X Purposes

\* A message, by what the parser finds in it, and whether the bot listens to its sender.
Texts == [command : {"none", "help", "cancel", "other"}, words : SUBSET Words, amount : AmountForms,
          minor : Int, dates : SUBSET Int, label : BOOLEAN, day : Int,
          reply : Messages \cup {NoTarget}, authorised : BOOLEAN]

ASSUME ConversationAssumption == Conversations \subseteq Seq(Texts)

Pending == {"received", "processing", "retryable"}
Settled == {"awaiting_clarification", "completed", "rejected", "unsupported", "failed",
            "expired"}
NoUpdate   == [status |-> "absent", attempts |-> 0, due |-> FALSE, old |-> FALSE]
NoDelivery == [status |-> "absent", attempts |-> 0, due |-> FALSE]
NoReading  == [id |-> 0, draft |-> NoDraft, invalid |-> 0]
Resting    == [pc |-> "expire", update |-> 0, attempt |-> 0, reading |-> NoReading,
               message |-> NoTarget, outcome |-> "none", page |-> {}, offset |-> 0]

Init ==
    /\ sent = <<>>
    /\ acknowledged = 0
    /\ nextOffset = 0
    /\ update = [u \in Updates |-> NoUpdate]
    /\ clarification = <<>>
    /\ command = [u \in Updates |-> {}]
    /\ effect = [u \in Updates |-> NoProposal]
    /\ applied = [u \in Updates |-> 0]
    /\ closedLink = {}
    /\ linkMessage = [u \in Updates |-> NoTarget]
    /\ delivery = [m \in Messages |-> NoDelivery]
    /\ chat = [m \in Messages |-> 0]
    /\ worker = [w \in Workers |-> Resting]
    /\ faults = 0
    /\ stalls = 0

Goto(w, pc) == worker' = [worker EXCEPT ![w] = [Resting EXCEPT !.pc = pc]]

\* The catch block of processTelegramUpdate, with the kind of failure it found.
Fails(w, kind) == worker' = [worker EXCEPT ![w].pc = "fail", ![w].outcome = kind]

Fault ==
    /\ faults < MaxFaults
    /\ faults' = faults + 1
    /\ UNCHANGED stalls

-----------------------------------------------------------------------------
(* The user and the clock                                                  *)

(***************************************************************************)
(* External: the user sends a message, possibly in reply to one of the     *)
(* bot that reached the chat.                                              *)
(***************************************************************************)
UserSends ==
    /\ Len(sent) < MaxUpdates
    /\ \E talk \in Conversations :
          /\ Len(sent) < Len(talk)
          /\ sent = SubSeq(talk, 1, Len(sent))
          /\ LET t == talk[Len(sent) + 1]
             IN  /\ t.reply # NoTarget => chat[t.reply] > 0
                 /\ sent' = Append(sent, t)
    /\ UNCHANGED <<acknowledged, nextOffset, update, clarification, moneyVars, linkMessage,
                   delivery, chat, worker, clockVars>>

Held(u) == \E w \in Workers : worker[w].update = u

(***************************************************************************)
(* The five minutes of a processing lease or the delay before a retry have *)
(* passed. How often a live worker outlives its lease is bounded.          *)
(***************************************************************************)
UpdateFallsDue(u) ==
    /\ update[u].status \in {"processing", "retryable"}
    /\ ~update[u].due
    /\ IF Held(u) THEN stalls < MaxStalls /\ stalls' = stalls + 1 ELSE UNCHANGED stalls
    /\ update' = [update EXCEPT ![u].due = TRUE]
    /\ UNCHANGED <<inboxVars, clarification, moneyVars, linkMessage, delivery, chat, worker,
                   faults>>

Sender(m) == \E w \in Workers : worker[w].message = m

(***************************************************************************)
(* The delay of a refused delivery, or the lease of a sender, is over. No  *)
(* deadline is set on a send, so a live sender may outlive its lease.      *)
(***************************************************************************)
DeliveryFallsDue(m) ==
    /\ delivery[m].status \in {"retryable", "sending"}
    /\ ~delivery[m].due
    /\ IF Sender(m) THEN stalls < MaxStalls /\ stalls' = stalls + 1 ELSE UNCHANGED stalls
    /\ delivery' = [delivery EXCEPT ![m].due = TRUE]
    /\ UNCHANGED <<inboxVars, update, clarification, moneyVars, linkMessage, chat, worker,
                   faults>>

\* Fifteen minutes have passed since the question was asked.
ClarificationLapses(c) ==
    /\ clarification[c].status = "active"
    /\ ~clarification[c].lapsed
    /\ Fault
    /\ clarification' = [clarification EXCEPT ![c].lapsed = TRUE]
    /\ UNCHANGED <<inboxVars, update, moneyVars, linkMessage, delivery, chat, worker>>

\* Twenty-four hours have passed since the update was received.
RetentionPasses(u) ==
    /\ update[u].status \in Pending
    /\ ~update[u].old
    /\ Fault
    /\ update' = [update EXCEPT ![u].old = TRUE]
    /\ UNCHANGED <<inboxVars, clarification, moneyVars, linkMessage, delivery, chat, worker>>

(***************************************************************************)
(* A worker process dies and its successor starts at the top of the loop.  *)
(***************************************************************************)
Crash(w) ==
    /\ worker[w].pc # "expire"
    /\ Fault
    /\ Goto(w, "expire")
    /\ UNCHANGED <<inboxVars, update, clarification, moneyVars, linkMessage, delivery, chat>>

-----------------------------------------------------------------------------
(* expireTelegramState                                                     *)

(***************************************************************************)
(* Lapsed clarifications close, updates past their retention expire with   *)
(* the replies that still wait to be sent, and an interrupted delivery is  *)
(* uncertain for good.                                                     *)
(***************************************************************************)
Expire(w) ==
    /\ worker[w].pc = "expire"
    /\ clarification' = [c \in DOMAIN clarification |->
          IF clarification[c].status = "active" /\ clarification[c].lapsed
            THEN [clarification[c] EXCEPT !.status = "expired"] ELSE clarification[c]]
    /\ update' = [u \in Updates |->
          IF update[u].old /\ update[u].status \in Pending
            THEN [update[u] EXCEPT !.status = "expired", !.due = FALSE] ELSE update[u]]
    /\ delivery' = [m \in Messages |->
          IF update[m[1]].old /\ delivery[m].status \in {"pending", "retryable"}
            THEN [delivery[m] EXCEPT !.status = "failed", !.due = FALSE]
          ELSE IF delivery[m].status = "sending" /\ delivery[m].due
            THEN [delivery[m] EXCEPT !.status = "uncertain", !.due = FALSE]
          ELSE delivery[m]]
    /\ Goto(w, "updates")
    /\ UNCHANGED <<inboxVars, moneyVars, linkMessage, chat, clockVars>>

-----------------------------------------------------------------------------
(* claimTelegramUpdate                                                     *)

\* queueTelegramDelivery: on conflict (update, purpose) nothing is inserted.
Queue(d, m) ==
    IF d[m].status = "absent"
      THEN [d EXCEPT ![m] = [status |-> "pending", attempts |-> 0, due |-> TRUE]]
      ELSE d

Exhausted == {u \in Updates : /\ update[u].status = "processing" /\ update[u].due
                              /\ update[u].attempts >= MaxAttempts}

\* Mutant: the lease of a crashed worker never runs out.
ClaimableUnlessLeased == {u \in Updates :
    \/ update[u].status = "received"
    \/ update[u].status = "retryable" /\ update[u].due /\ update[u].attempts < MaxAttempts}

Claimable == {u \in Updates :
    \/ update[u].status = "received"
    \/ /\ update[u].status \in {"retryable", "processing"}
       /\ update[u].due
       /\ update[u].attempts < MaxAttempts}

(***************************************************************************)
(* One transaction: updates whose last lease ran out fail for good, with   *)
(* one reply each, and the lowest claimable update is leased. With none    *)
(* the worker goes on to the deliveries.                                   *)
(***************************************************************************)
ClaimUpdate(w) ==
    /\ worker[w].pc = "updates"
    /\ delivery' = [m \in Messages |->
          IF m[1] \in Exhausted /\ m[2] = "processing_failed"
            THEN Queue(delivery, m)[m] ELSE delivery[m]]
    /\ LET closed == [u \in Updates |->
               IF u \in Exhausted
                 THEN [update[u] EXCEPT !.status = "failed", !.due = FALSE]
                 ELSE update[u]]
       IN  \/ /\ Claimable = {}
              /\ update' = closed
              /\ Goto(w, "deliveries")
           \/ \E u \in Claimable :
                 /\ \A v \in Claimable : u <= v
                 /\ update' = [closed EXCEPT ![u].status = "processing", ![u].due = FALSE,
                                             ![u].attempts = @ + 1]
                 /\ worker' = [worker EXCEPT ![w] = [Resting EXCEPT
                       !.pc = "read", !.update = u, !.attempt = update[u].attempts + 1]]
    /\ UNCHANGED <<inboxVars, clarification, moneyVars, linkMessage, chat, clockVars>>

-----------------------------------------------------------------------------
(* processTelegramUpdate                                                   *)

Text(w) == sent[worker[w].update]

(***************************************************************************)
(* The active clarification is read outside the transaction that acts on   *)
(* it. Commands do not look for one.                                       *)
(***************************************************************************)
ReadClarification(w) ==
    /\ worker[w].pc = "read"
    /\ LET live == {c \in DOMAIN clarification : /\ clarification[c].status = "active"
                                                 /\ ~clarification[c].lapsed}
           reading == IF live = {} \/ Text(w).command \in {"help", "cancel"} THEN NoReading
                      ELSE LET c == CHOOSE c \in live : TRUE
                           IN  [id |-> c, draft |-> clarification[c].draft,
                                invalid |-> clarification[c].invalid]
       IN  worker' = [worker EXCEPT ![w].pc = "act", ![w].reading = reading]
    /\ UNCHANGED <<inboxVars, update, clarification, moneyVars, linkMessage, delivery, chat,
                   clockVars>>

\* The answer to a clarification counts only if the text does not stand alone.
Parsed(w) ==
    LET fresh == ParseText(Text(w))
    IN  IF worker[w].reading.id = 0 \/ fresh.confidence \in {"high", "throws"} THEN fresh
        ELSE MergeClarification(worker[w].reading.draft, Text(w))

Acts(w) == worker[w].pc = "act"
Answers(w) == Acts(w) /\ Text(w).command \notin {"help", "cancel"}

\* Mutant: the confirmation is queued and the update is left as it is.
WritesReplyOnly(w, status, purpose) ==
    /\ update' = IF purpose = "confirmation" THEN update
                 ELSE [update EXCEPT ![worker[w].update].status = status,
                                     ![worker[w].update].due = FALSE]
    /\ delivery' = IF purpose = "none" THEN delivery
                   ELSE Queue(delivery, <<worker[w].update, purpose>>)

(***************************************************************************)
(* finalizeTelegramUpdate writes the row of the update whatever its status *)
(* or attempt, and the reply is queued in the same transaction.            *)
(***************************************************************************)
Writes(w, status, purpose) ==
    /\ update' = [update EXCEPT ![worker[w].update].status = status,
                                ![worker[w].update].due = FALSE]
    /\ delivery' = IF purpose = "none" THEN delivery
                   ELSE Queue(delivery, <<worker[w].update, purpose>>)

Finalize(w, status, purpose) ==
    /\ Writes(w, status, purpose)
    /\ Goto(w, "updates")

Help(w) ==
    /\ Acts(w)
    /\ Text(w).command = "help"
    /\ Finalize(w, "completed", "help")
    /\ UNCHANGED <<inboxVars, clarification, moneyVars, linkMessage, chat, clockVars>>

\* Every active clarification changes its status to the given one.
Closed(status) ==
    [c \in DOMAIN clarification |->
        IF clarification[c].status = "active"
          THEN [clarification[c] EXCEPT !.status = status] ELSE clarification[c]]

Cancel(w) ==
    /\ Acts(w)
    /\ Text(w).command = "cancel"
    /\ clarification' = Closed("cancelled")
    /\ Finalize(w, "completed", "cancel")
    /\ UNCHANGED <<inboxVars, moneyVars, linkMessage, chat, clockVars>>

(***************************************************************************)
(* No clarification under way: an incomplete text starts one, in place of  *)
(* any that has been started since.                                        *)
(***************************************************************************)
CreateClarification(w) ==
    /\ Answers(w)
    /\ worker[w].reading.id = 0
    /\ Parsed(w).confidence = "needs_clarification"
    /\ clarification' = Append(Closed("superseded"),
          [draft |-> Parsed(w).draft, invalid |-> 0, status |-> "active", lapsed |-> FALSE])
    /\ Finalize(w, "awaiting_clarification", "clarification")
    /\ UNCHANGED <<inboxVars, moneyVars, linkMessage, chat, clockVars>>

\* The answer taught something: the draft moves on, if it is still active.
AdvanceClarification(w) ==
    /\ Answers(w)
    /\ worker[w].reading.id # 0
    /\ Parsed(w).confidence = "needs_clarification"
    /\ Parsed(w).draft # worker[w].reading.draft
    /\ LET c == worker[w].reading.id
       IN  clarification' = IF clarification[c].status = "active"
                              THEN [clarification EXCEPT ![c].draft = Parsed(w).draft]
                              ELSE clarification
    /\ Finalize(w, "awaiting_clarification", "clarification")
    /\ UNCHANGED <<inboxVars, moneyVars, linkMessage, chat, clockVars>>

(***************************************************************************)
(* The answer taught nothing: the count the worker had read goes up by one *)
(* and the last allowed failure cancels, whatever the row's status is now. *)
(***************************************************************************)
CountInvalidAnswer(w) ==
    /\ Answers(w)
    /\ worker[w].reading.id # 0
    /\ Parsed(w).confidence \in {"needs_clarification", "unsupported"}
    /\ Parsed(w).confidence = "needs_clarification" => Parsed(w).draft = worker[w].reading.draft
    /\ LET c == worker[w].reading.id
           invalid == worker[w].reading.invalid + 1
       IN  IF invalid >= MaxInvalid
             THEN /\ clarification' = [clarification EXCEPT ![c].status = "cancelled"]
                  /\ Finalize(w, "unsupported", "clarification_cancelled")
             ELSE /\ clarification' = [clarification EXCEPT ![c].invalid = invalid]
                  /\ Finalize(w, "awaiting_clarification", "clarification")
    /\ UNCHANGED <<inboxVars, moneyVars, linkMessage, chat, clockVars>>

\* A slash command that the bot does not know gets no reply.
Refuse(w) ==
    /\ Answers(w)
    /\ worker[w].reading.id = 0
    /\ Parsed(w).confidence = "unsupported"
    /\ Finalize(w, "unsupported",
                IF Parsed(w).reason = "bot_command" THEN "none" ELSE "unsupported")
    /\ UNCHANGED <<inboxVars, clarification, moneyVars, linkMessage, chat, clockVars>>

-----------------------------------------------------------------------------
(* executeProposal and executeCorrection                                   *)

Executes(w) == Answers(w) /\ Parsed(w).confidence = "high"

\* The clarification a complete command resolves or supersedes, if still active.
Resolved(w) ==
    LET c == worker[w].reading.id
        status == IF ParseText(Text(w)).confidence = "high" THEN "superseded" ELSE "resolved"
    IN  IF c # 0 /\ clarification[c].status = "active"
          THEN [clarification EXCEPT ![c].status = status] ELSE clarification

\* Mutant: a link that was superseded or cancelled is found again.
AnyTargets(p) == {u \in Updates : /\ linkMessage[u] = p.target /\ linkMessage[u] # NoTarget
                                  /\ effect[u].kind \in {"cash_expense", "cash_income"}}

\* findTelegramCorrectionTarget: a current link with that bot message.
Targets(p) == {u \in Updates : /\ linkMessage[u] = p.target /\ linkMessage[u] # NoTarget
                               /\ u \notin closedLink
                               /\ effect[u].kind \in {"cash_expense", "cash_income"}}

\* The field must fit what the target recorded.
Corrects(p, u) ==
    \/ p.detail \in {"cancel", "amount", "date"}
    \/ p.detail = "category" /\ effect[u].kind = "cash_expense"
    \/ p.detail = "income_source" /\ effect[u].kind = "cash_income"

\* A correction is recorded under what it leaves in force.
Recorded(p) ==
    IF p.kind # "correction" THEN p
    ELSE LET u == CHOOSE u \in Targets(p) : TRUE
         IN  [p EXCEPT !.kind = IF p.detail = "cancel" THEN "cash_cancellation"
                                ELSE effect[u].kind]

\* Mutant: neither the idempotency key nor the unique message link is there.
AnyCommand(u, p) == update[u].status # "absent"

\* No command of the update's key is stored and the update has no message link.
FirstCommand(u, p) ==
    /\ ~\E q \in command[u] : q.kind = p.kind
    /\ effect[u] = NoProposal

(***************************************************************************)
(* The command's transaction: clarification, facts, finalisation, reply    *)
(* and message link commit together under the owner's lock. A cash count   *)
(* that matches changes nothing and makes no link. The connection may be   *)
(* lost after the commit: the worker then takes it for a failure.          *)
(***************************************************************************)
Execute(w) ==
    /\ Executes(w)
    /\ LET u == worker[w].update
           p == Parsed(w).proposal
       IN  /\ FirstCommand(u, p)
           /\ p.kind = "correction" => \E v \in Targets(p) : Corrects(p, v)
           /\ command' = [command EXCEPT ![u] = @ \cup {p}]
           /\ \/ /\ effect' = [effect EXCEPT ![u] = Recorded(p)]
                 /\ applied' = [applied EXCEPT ![u] = @ + 1]
                 /\ closedLink' = IF p.kind = "correction" THEN closedLink \cup Targets(p)
                                  ELSE closedLink
              \/ /\ p.kind = "cash_count"
                 /\ UNCHANGED <<effect, applied, closedLink>>
    /\ clarification' = Resolved(w)
    /\ Writes(w, "completed", "confirmation")
    /\ \/ Goto(w, "updates") /\ UNCHANGED clockVars
       \/ Fault /\ Fails(w, "retryable")
    /\ UNCHANGED <<inboxVars, linkMessage, chat>>

(***************************************************************************)
(* The key of the command, update and kind, was used before: an equal      *)
(* request is a replay that writes nothing, another one is a conflict. A   *)
(* command of another kind made the update's message link: the link of     *)
(* this one violates the unique index and the transaction rolls back.      *)
(***************************************************************************)
RepeatCommand(w) ==
    /\ Executes(w)
    /\ LET u == worker[w].update
           p == Parsed(w).proposal
       IN  /\ ~FirstCommand(u, p)
           /\ IF p \in command[u] THEN Goto(w, "updates")
              ELSE IF \E q \in command[u] : q.kind = p.kind THEN Fails(w, "terminal")
              ELSE Fails(w, "retryable")
    /\ UNCHANGED <<inboxVars, update, clarification, moneyVars, linkMessage, delivery, chat,
                   clockVars>>

\* The correction has no target or does not fit it: a domain error with a reply.
RefuseCorrection(w) ==
    /\ Executes(w)
    /\ command[worker[w].update] = {}
    /\ LET p == Parsed(w).proposal
       IN  p.kind = "correction" /\ ~\E v \in Targets(p) : Corrects(p, v)
    /\ worker' = [worker EXCEPT ![w].pc = "refuse"]
    /\ UNCHANGED <<inboxVars, update, clarification, moneyVars, linkMessage, delivery, chat,
                   clockVars>>

\* The reply to a domain error is written in a transaction of its own.
ReplyToRefusal(w) ==
    /\ worker[w].pc = "refuse"
    /\ Finalize(w, "unsupported", "refused")
    /\ UNCHANGED <<inboxVars, clarification, moneyVars, linkMessage, chat, clockVars>>

-----------------------------------------------------------------------------
(* recordTelegramProcessingFailure                                         *)

ParserThrows(w) ==
    /\ Answers(w)
    /\ Parsed(w).confidence = "throws"
    /\ Fails(w, "retryable")
    /\ UNCHANGED <<inboxVars, update, clarification, moneyVars, linkMessage, delivery, chat,
                   clockVars>>

\* A statement of the transaction fails and it rolls back.
StatementFails(w) ==
    /\ worker[w].pc \in {"read", "act"}
    /\ Fault
    /\ Fails(w, "retryable")
    /\ UNCHANGED <<inboxVars, update, clarification, moneyVars, linkMessage, delivery, chat>>

(***************************************************************************)
(* The failure is written only over the attempt it belongs to. The last    *)
(* unexpected failure is terminal and asks the user to send it again.      *)
(***************************************************************************)
RecordFailure(w) ==
    /\ worker[w].pc = "fail"
    /\ LET u == worker[w].update
           retry == worker[w].outcome = "retryable" /\ worker[w].attempt < MaxAttempts
       IN  IF update[u].status = "processing" /\ update[u].attempts = worker[w].attempt
             THEN /\ update' = [update EXCEPT ![u].due = FALSE,
                                  ![u].status = IF retry THEN "retryable" ELSE "failed"]
                  /\ delivery' = IF ~retry /\ worker[w].outcome = "retryable"
                                   THEN Queue(delivery, <<u, "processing_failed">>)
                                   ELSE delivery
             ELSE UNCHANGED <<update, delivery>>
    /\ Goto(w, "updates")
    /\ UNCHANGED <<inboxVars, clarification, moneyVars, linkMessage, chat, clockVars>>

-----------------------------------------------------------------------------
(* drainDeliveries                                                         *)

\* Mutant: an interrupted send is taken up again.
DeliverableAgain == {m \in Messages :
    delivery[m].status \in {"pending", "retryable", "sending"} /\ delivery[m].due}

Deliverable == {m \in Messages : /\ delivery[m].status \in {"pending", "retryable"}
                                 /\ delivery[m].due}

ClaimDelivery(w) ==
    /\ worker[w].pc = "deliveries"
    /\ \E m \in Deliverable :
          /\ delivery' = [delivery EXCEPT ![m] = [status |-> "sending", due |-> FALSE,
                                                  attempts |-> delivery[m].attempts + 1]]
          /\ worker' = [worker EXCEPT ![w] = [Resting EXCEPT !.pc = "send", !.message = m]]
    /\ UNCHANGED <<inboxVars, update, clarification, moneyVars, linkMessage, chat, clockVars>>

(***************************************************************************)
(* Nothing to send: the worker polls, unless a retry has fallen due.       *)
(***************************************************************************)
EndDrain(w) ==
    /\ worker[w].pc = "deliveries"
    /\ Deliverable = {}
    /\ Goto(w, IF \E u \in Updates : update[u].status = "retryable" /\ update[u].due
                 THEN "expire" ELSE "poll")
    /\ UNCHANGED <<inboxVars, update, clarification, moneyVars, linkMessage, delivery, chat,
                   clockVars>>

Sends(w, outcome) ==
    worker' = [worker EXCEPT ![w].pc = "complete", ![w].outcome = outcome]

Reaches(m) == chat' = [chat EXCEPT ![m] = @ + 1]

Send(w) ==
    /\ worker[w].pc = "send"
    /\ Sends(w, "sent")
    /\ Reaches(worker[w].message)
    /\ UNCHANGED <<inboxVars, update, clarification, moneyVars, linkMessage, delivery,
                   clockVars>>

\* Rate limits and server errors: nothing was delivered.
SendRefused(w) ==
    /\ worker[w].pc = "send"
    /\ Fault
    /\ Sends(w, IF delivery[worker[w].message].attempts < SendAttempts
                  THEN "retryable" ELSE "failed")
    /\ UNCHANGED <<inboxVars, update, clarification, moneyVars, linkMessage, delivery, chat>>

\* Mutant: a status the table does not have.
SendUnclearUnknown(w) ==
    /\ worker[w].pc = "send"
    /\ Fault
    /\ Sends(w, "unknown")
    /\ UNCHANGED <<inboxVars, update, clarification, moneyVars, linkMessage, delivery, chat>>

\* The network failed, or the answer made no sense: it may have been delivered.
SendUnclear(w) ==
    /\ worker[w].pc = "send"
    /\ Fault
    /\ \E outcome \in {"uncertain", "failed"} : Sends(w, outcome)
    /\ \/ Reaches(worker[w].message)
       \/ UNCHANGED chat
    /\ UNCHANGED <<inboxVars, update, clarification, moneyVars, linkMessage, delivery>>

(***************************************************************************)
(* completeTelegramDelivery; a reply that was sent becomes the message by  *)
(* which the update's link, if it has one, is found.                       *)
(***************************************************************************)
CompleteDelivery(w) ==
    /\ worker[w].pc = "complete"
    /\ LET m == worker[w].message
       IN  /\ delivery' = [delivery EXCEPT ![m].status = worker[w].outcome, ![m].due = FALSE]
           /\ linkMessage' = IF worker[w].outcome = "sent" /\ effect[m[1]] # NoProposal
                               THEN [linkMessage EXCEPT ![m[1]] = m] ELSE linkMessage
    /\ Goto(w, "deliveries")
    /\ UNCHANGED <<inboxVars, update, clarification, moneyVars, chat, clockVars>>

\* The write after a successful send fails: the catch block reports a failed send.
CompletionFails(w) ==
    /\ worker[w].pc = "complete"
    /\ worker[w].outcome = "sent"
    /\ Fault
    /\ Sends(w, "failed")
    /\ UNCHANGED <<inboxVars, update, clarification, moneyVars, linkMessage, delivery, chat>>

-----------------------------------------------------------------------------
(* getUpdates and persistTelegramUpdatePage                                *)

\* Bounds of update ids in use.
Larger(a, b) == IF a > b THEN a ELSE b

\* Mutant: one too far.
OffsetPast(page) == IF page = {} THEN 0 ELSE 2 + CHOOSE u \in page : \A v \in page : v <= u

\* The offset that acknowledges a page.
OffsetAfter(page) == IF page = {} THEN 0 ELSE 1 + CHOOSE u \in page : \A v \in page : v <= u

(***************************************************************************)
(* External: the offset acknowledges what is below it, and Telegram        *)
(* returns the updates it still holds.                                     *)
(***************************************************************************)
GetUpdates(w) ==
    /\ worker[w].pc = "poll"
    /\ acknowledged' = Larger(acknowledged, nextOffset)
    /\ worker' = [worker EXCEPT ![w].pc = "persist",
                                ![w].page = {u \in 1..Len(sent) : u >= acknowledged'}]
    /\ UNCHANGED <<sent, nextOffset, update, clarification, moneyVars, linkMessage, delivery,
                   chat, clockVars>>

(***************************************************************************)
(* The transaction reads the offset after its inserts, which wait for a    *)
(* transaction that inserts the same update. A worker with an older or an  *)
(* empty page may thus write the offset back to what it had read.          *)
(***************************************************************************)
ReadOffset(w) ==
    /\ worker[w].pc = "persist"
    /\ \A v \in Workers : worker[v].pc = "offset" =>
          \A u \in worker[w].page \cap worker[v].page : update[u].status # "absent"
    /\ worker' = [worker EXCEPT ![w].pc = "offset", ![w].offset = nextOffset]
    /\ UNCHANGED <<inboxVars, update, clarification, moneyVars, linkMessage, delivery, chat,
                   clockVars>>

(***************************************************************************)
(* New updates and the offset after the highest one commit together.       *)
(* Strangers, groups, bots and forwarded messages are rejected at once.    *)
(***************************************************************************)
Persist(w) ==
    /\ worker[w].pc = "offset"
    /\ LET page == worker[w].page
       IN  /\ update' = [u \in Updates |->
                 IF u \in page /\ update[u].status = "absent"
                   THEN [NoUpdate EXCEPT !.status = IF sent[u].authorised THEN "received"
                                                    ELSE "rejected"]
                   ELSE update[u]]
           /\ nextOffset' = Larger(worker[w].offset, OffsetAfter(page))
    /\ Goto(w, "expire")
    /\ UNCHANGED <<sent, acknowledged, clarification, moneyVars, linkMessage, delivery, chat,
                   clockVars>>

-----------------------------------------------------------------------------
Process(w) ==
    \/ ReadClarification(w) \/ Help(w) \/ Cancel(w)
    \/ CreateClarification(w) \/ AdvanceClarification(w) \/ CountInvalidAnswer(w) \/ Refuse(w)
    \/ Execute(w) \/ RepeatCommand(w)
    \/ RefuseCorrection(w) \/ ReplyToRefusal(w)
    \/ ParserThrows(w) \/ RecordFailure(w)

Deliver(w) ==
    \/ ClaimDelivery(w) \/ EndDrain(w) \/ Send(w) \/ CompleteDelivery(w)

Loop(w) ==
    \/ Expire(w) \/ ClaimUpdate(w) \/ Process(w) \/ Deliver(w)
    \/ GetUpdates(w) \/ ReadOffset(w) \/ Persist(w)

Breaks(w) ==
    \/ Crash(w) \/ StatementFails(w)
    \/ SendRefused(w) \/ SendUnclear(w) \/ CompletionFails(w)

TimePasses ==
    \/ \E u \in Updates : UpdateFallsDue(u) \/ RetentionPasses(u)
    \/ \E m \in Messages : DeliveryFallsDue(m)
    \/ \E c \in DOMAIN clarification : ClarificationLapses(c)

Next ==
    \/ UserSends
    \/ TimePasses
    \/ \E w \in Workers : Loop(w) \/ Breaks(w)

(***************************************************************************)
(* Fairness: a running worker executes its loop, which never blocks        *)
(* forever, and time passes.                                               *)
(***************************************************************************)
Fairness ==
    /\ \A w \in Workers : WF_vars(Loop(w))
    /\ \A u \in Updates : WF_vars(~Held(u) /\ UpdateFallsDue(u))
    /\ \A m \in Messages : WF_vars(~Sender(m) /\ DeliveryFallsDue(m))

Spec == Init /\ [][Next]_vars /\ Fairness

-----------------------------------------------------------------------------
(* Properties                                                              *)

Proposals == [kind : Kinds, amount : Int, date : Int, detail : Details,
              target : Messages \cup {NoTarget}]
Pcs == {"expire", "updates", "read", "act", "refuse", "fail", "deliveries", "send",
        "complete", "poll", "persist", "offset"}

(***************************************************************************)
(* Types of the tables and of the workers.                                 *)
(***************************************************************************)
TypeOK ==
    /\ Len(sent) <= MaxUpdates
    /\ acknowledged \in Nat /\ nextOffset \in Nat
    /\ update \in [Updates -> [status : {"absent"} \cup Pending \cup Settled, attempts : Nat,
                               due : BOOLEAN, old : BOOLEAN]]
    /\ applied \in [Updates -> Nat]
    /\ closedLink \subseteq Updates
    /\ linkMessage \in [Updates -> Messages \cup {NoTarget}]
    /\ delivery \in [Messages -> [status : {"absent", "pending", "sending", "retryable",
                                            "sent", "failed", "uncertain"},
                                  attempts : Nat, due : BOOLEAN]]
    /\ chat \in [Messages -> Nat]
    /\ \A w \in Workers : /\ worker[w].pc \in Pcs
                          /\ worker[w].update \in Updates \cup {0}
                          /\ worker[w].message \in Messages \cup {NoTarget}
    /\ faults \in Nat /\ stalls \in Nat

(***************************************************************************)
(* What Telegram has been told to forget is in the inbox: an offset is     *)
(* used for polling only after the page it covers was persisted, whatever  *)
(* crashes in between and whoever polls at the same time.                  *)
(***************************************************************************)
NothingIsLost ==
    \A u \in Updates : u < acknowledged => update[u].status # "absent"

(***************************************************************************)
(* A confirmation is corrected or cancelled once: no two corrections       *)
(* compensate the same entry, even if two workers or two replies race for  *)
(* it (findTelegramCorrectionTarget, supersedeTelegramMessageLink).        *)
(***************************************************************************)
CorrectedOnce ==
    \A u, v \in Updates :
        /\ effect[u].target # NoTarget
        /\ effect[u].target = effect[v].target
        => u = v

(***************************************************************************)
(* The user is asked to send an entry again only if it had no effect,      *)
(* unless a worker outlived its lease and finished after all               *)
(* (claimTelegramUpdate, recordTelegramProcessingFailure).                 *)
(***************************************************************************)
ResendOnlyWhatHadNoEffect ==
    stalls = 0 =>
        \A u \in Updates :
            delivery[<<u, "processing_failed">>].status # "absent" => effect[u] = NoProposal

(***************************************************************************)
(* A reply reaches the chat at most once: an indeterminate send is not     *)
(* repeated, and two workers never send the same delivery.                 *)
(***************************************************************************)
NoDuplicateReply ==
    \A m \in Messages : chat[m] <= 1

(***************************************************************************)
(* Every message of the user is answered in the end: whatever crashes, its *)
(* update is settled and its replies are sent or given up.                 *)
(***************************************************************************)
Answered(u) ==
    /\ update[u].status \in Settled
    /\ \A p \in Purposes : delivery[<<u, p>>].status \in {"absent", "sent", "failed", "uncertain"}

EveryMessageIsAnswered ==
    \A u \in Updates : (u <= Len(sent)) ~> Answered(u)

(***************************************************************************)
(* The inbox implements the abstract one: an update is accepted once, and  *)
(* its financial effect, if any, happens once and is never replaced, over  *)
(* crashes, retries and workers that outlive their lease (ADR-030).        *)
(***************************************************************************)
Once == INSTANCE OnceInbox WITH
    Commands <- Proposals,
    Nothing  <- NoProposal,
    accepted <- {u \in Updates : update[u].status # "absent"}

AppliedOnce == Once!Spec
=============================================================================
