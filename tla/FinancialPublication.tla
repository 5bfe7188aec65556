------------------------ MODULE FinancialPublication ------------------------
(***************************************************************************)
(* Financial commands, the recalculation jobs they enqueue, and the        *)
(* publication of authoritative results, for one owner.                    *)
(*                                                                         *)
(* A client (the web API, a sync job, the Telegram processor) runs a       *)
(* command in one PostgreSQL transaction under the owner's advisory lock:  *)
(* facts, input version, audit event, recalculation record, pg-boss job    *)
(* and command record commit together. A worker handler later fetches the  *)
(* job, reads the facts in a repeatable-read snapshot, evaluates them and  *)
(* publishes under the same lock if the input version is still current.    *)
(*                                                                         *)
(* The statements of one transaction that holds the lock are one step      *)
(* after the step that takes the lock; the status writes of a handler are  *)
(* transactions, hence steps, of their own.                                *)
(***************************************************************************)
EXTENDS Naturals, FiniteSets

CONSTANTS
    Clients,       \* callers of executeFinancialCommand
    Handlers,      \* concurrent executions of the recalculation job handler
    NoOne,         \* the advisory lock is free
    Keys,          \* (command kind, Idempotency-Key) pairs
    Requests,      \* normalised request hashes
    None,          \* an absent row
    Slots,         \* what an authoritative row describes: metric kind, fund
    Contents,      \* the canonical facts a command can leave behind
    Invalid,       \* facts whose assembly throws a DataInvariantError
    RetryLimit,    \* retryLimit of enqueueRecalculation
    MaxVersion,    \* bound on the input versions
    MaxFaults,     \* bound on crashes, failed statements and expirations
    SlowHandlers   \* may a handler outlive the expiration of its job?

CommandResults == [request : Requests, version : 0..MaxVersion, mutated : BOOLEAN]

(***************************************************************************)
(* Facts are abstracted to the set of rows their evaluation yields, which  *)
(* is never empty, or to Invalid.                                          *)
(***************************************************************************)
ASSUME PublicationAssumption ==
    /\ Contents \ {Invalid} \subseteq (SUBSET Slots) \ {{}}
    /\ None \notin Contents \cup Keys \cup CommandResults \cup {Invalid}
    /\ NoOne \notin Clients \cup Handlers
    /\ Clients \cap Handlers = {}
    /\ RetryLimit \in Nat
    /\ MaxVersion \in Nat \ {0}
    /\ MaxFaults \in Nat
    /\ SlowHandlers \in BOOLEAN

VARIABLES
    lock,          \* holder of pg_advisory_xact_lock(owner)
    ownerVersion,  \* owner_input_versions.version
    facts,         \* the canonical facts each input version left behind
    audit,         \* audit_events: the command each input version comes from
    command,       \* command_records by key
    told,          \* the successful answers callers were given
    record,        \* recalculation_records.status by input version
    job,           \* pg-boss state of the recalculation job of a version
    attempts,      \* retry_count of that job
    dead,          \* versions with a job in financial.recalculate.dead
    handler,       \* the handlers' control state and what they loaded
    run,           \* completed engine_runs: the result by input version
    authority,     \* rows with is_authoritative: <<version, slot>>
    successor,     \* superseded_by of a row, as the version of the successor
    faults         \* faults so far

commandVars == <<command, told>>
factVars    == <<ownerVersion, facts, audit>>
resultVars  == <<run, authority, successor>>
jobVars     == <<job, attempts, dead>>
vars == <<lock, ownerVersion, facts, audit, command, told, record, job, attempts,
          dead, handler, run, authority, successor, faults>>

Versions == 1..MaxVersion
Rows     == Versions \X Slots
Statuses == {"absent", "queued", "running", "completed", "failed", "superseded"}
JobStates == {"absent", "created", "active", "retry", "completed", "failed"}
Idle     == [pc |-> "idle", version |-> 0, attempt |-> 0, loaded |-> None]

Init ==
    /\ lock = NoOne
    /\ ownerVersion = 0
    /\ facts = [v \in 0..MaxVersion |-> Invalid]
    /\ audit = [v \in Versions |-> None]
    /\ command = [k \in Keys |-> None]
    /\ told = {}
    /\ record = [v \in Versions |-> "absent"]
    /\ job = [v \in Versions |-> "absent"]
    /\ attempts = [v \in Versions |-> 0]
    /\ dead = {}
    /\ handler = [h \in Handlers |-> Idle]
    /\ run = [v \in Versions |-> None]
    /\ authority = {}
    /\ successor = [r \in Rows |-> 0]
    /\ faults = 0

-----------------------------------------------------------------------------
(* executeFinancialCommand                                                 *)

(***************************************************************************)
(* The transaction starts by waiting for the owner's advisory lock. What   *)
(* it asks for matters to nobody before it has it.                         *)
(***************************************************************************)
BeginCommand(c) ==
    /\ lock = NoOne
    /\ lock' = c
    /\ UNCHANGED <<factVars, commandVars, record, jobVars, handler, resultVars, faults>>

EndCommand(c) ==
    /\ lock = c
    /\ lock' = NoOne
    /\ UNCHANGED <<handler, resultVars, faults>>

Answer(k, result) ==
    told' = told \cup {[key |-> k, request |-> result.request,
                        version |-> result.version, mutated |-> result.mutated]}

\* Mutant: a replay reports the version that is current by now.
ReplayCurrentVersion(c, k, q) ==
    /\ EndCommand(c)
    /\ command[k] # None
    /\ IF command[k].request = q /\ command[k].version # 0
         THEN Answer(k, [command[k] EXCEPT !.version = ownerVersion])
         ELSE UNCHANGED told
    /\ UNCHANGED <<factVars, command, record, jobVars>>

(***************************************************************************)
(* The key was used before: the stored result is replayed to an equal      *)
(* request, and a different one is refused; so is a stored result of the   *)
(* input version 0, which the code takes for corrupt. The transaction      *)
(* writes nothing.                                                         *)
(***************************************************************************)
Replay(c, k, q) ==
    /\ EndCommand(c)
    /\ command[k] # None
    /\ IF command[k].request = q /\ command[k].version # 0
         THEN Answer(k, command[k])
         ELSE UNCHANGED told
    /\ UNCHANGED <<factVars, command, record, jobVars>>

\* Mutant: a mutator reports mutated = false although it wrote facts.
CommitUnchangedThatWrites(c, k, q) ==
    /\ EndCommand(c)
    /\ command[k] = None
    /\ LET result == [request |-> q, version |-> ownerVersion, mutated |-> FALSE]
       IN  command' = [command EXCEPT ![k] = result] /\ Answer(k, result)
    /\ \E content \in Contents : facts' = [facts EXCEPT ![ownerVersion] = content]
    /\ UNCHANGED <<ownerVersion, audit, record, jobVars>>

(***************************************************************************)
(* mutate() returned mutated = false: the command record completes with    *)
(* the current version and nothing else is written.                        *)
(***************************************************************************)
CommitUnchanged(c, k, q) ==
    /\ EndCommand(c)
    /\ command[k] = None
    /\ LET result == [request |-> q, version |-> ownerVersion, mutated |-> FALSE]
       IN  /\ command' = [command EXCEPT ![k] = result]
           /\ Answer(k, result)
    /\ UNCHANGED <<factVars, record, jobVars>>

(***************************************************************************)
(* mutate() changed the facts: version, job, recalculation record, audit   *)
(* event and command result commit together.                               *)
(***************************************************************************)
CommitMutation(c, k, q) ==
    /\ EndCommand(c)
    /\ command[k] = None
    /\ ownerVersion < MaxVersion
    /\ LET v == ownerVersion + 1
           result == [request |-> q, version |-> v, mutated |-> TRUE]
       IN  /\ ownerVersion' = v
           /\ \E content \in Contents : facts' = [facts EXCEPT ![v] = content]
           /\ job' = [job EXCEPT ![v] = "created"]
           /\ record' = [record EXCEPT ![v] = "queued"]
           /\ audit' = [audit EXCEPT ![v] = k]
           /\ command' = [command EXCEPT ![k] = result]
           /\ Answer(k, result)
    /\ UNCHANGED <<attempts, dead>>

(***************************************************************************)
(* mutate() threw, or the connection was lost before the commit: the       *)
(* transaction rolls back, the command record with it.                     *)
(***************************************************************************)
Abort(c) ==
    /\ EndCommand(c)
    /\ UNCHANGED <<factVars, commandVars, record, jobVars>>

-----------------------------------------------------------------------------
(* processRecalculationJob and recalculateFinancialState                   *)

Goto(h, pc) == handler' = [handler EXCEPT ![h].pc = pc]

(***************************************************************************)
(* pg-boss hands a due job to an idle handler; a retry counts one more.    *)
(***************************************************************************)
Fetch(h, v) ==
    /\ handler[h].pc = "idle"
    /\ job[v] \in {"created", "retry"}
    /\ job' = [job EXCEPT ![v] = "active"]
    /\ attempts' = [attempts EXCEPT ![v] = IF job[v] = "retry" THEN @ + 1 ELSE @]
    /\ handler' = [handler EXCEPT ![h] = [pc |-> "started", version |-> v,
                                          attempt |-> attempts'[v], loaded |-> None]]
    /\ UNCHANGED <<lock, factVars, commandVars, record, dead, resultVars, faults>>

(***************************************************************************)
(* updateRecalculationStatus: an unconditional update by request id.       *)
(***************************************************************************)
SetStatus(h, from, status, to) ==
    /\ handler[h].pc = from
    /\ record' = [record EXCEPT ![handler[h].version] = status]
    /\ Goto(h, to)
    /\ UNCHANGED <<lock, factVars, commandVars, jobVars, resultVars, faults>>

\* Mutant: the catch block does not rethrow a transient error.
MarkQueuedAndReturn(h) == SetStatus(h, "transient", "queued", "returned")

MarkRunning(h)    == SetStatus(h, "started", "running", "assemble")
MarkCompleted(h)  == SetStatus(h, "published", "completed", "returned")
MarkSuperseded(h) == SetStatus(h, "obsolete", "superseded", "returned")
MarkQueued(h)     == SetStatus(h, "transient", "queued", "threw")
MarkFailed(h)     == SetStatus(h, "permanent", "failed", "deadletter")

(***************************************************************************)
(* assembleFinancialEngineInput: one repeatable-read snapshot, so the      *)
(* version it compares and the facts it loads belong together.             *)
(***************************************************************************)
Assemble(h) ==
    /\ handler[h].pc = "assemble"
    /\ IF ownerVersion # handler[h].version
         THEN Goto(h, "obsolete")
         ELSE IF facts[ownerVersion] = Invalid
                THEN Goto(h, "permanent")
                ELSE handler' = [handler EXCEPT ![h] =
                         [pc |-> "evaluated", version |-> @.version,
                          attempt |-> @.attempt, loaded |-> facts[ownerVersion]]]
    /\ UNCHANGED <<lock, factVars, commandVars, record, jobVars, resultVars, faults>>

\* Mutant: the publication trusts the version check of the assembly.
PublishBeginUnchecked(h) ==
    /\ handler[h].pc = "evaluated"
    /\ lock = NoOne
    /\ run[handler[h].version] = None
    /\ lock' = h
    /\ Goto(h, "publishing")
    /\ UNCHANGED <<factVars, commandVars, record, jobVars, resultVars, faults>>

\* Mutant: the publication does not take the owner's lock.
PublishBeginUnlocked(h) ==
    /\ handler[h].pc = "evaluated"
    /\ ownerVersion = handler[h].version
    /\ run[handler[h].version] = None
    /\ Goto(h, "publishing")
    /\ UNCHANGED <<lock, factVars, commandVars, record, jobVars, resultVars, faults>>

(***************************************************************************)
(* persistEngineResult once it has the lock. The input version moved on,   *)
(* or the run of this version is already complete: nothing is written and  *)
(* the lock is released with the transaction.                              *)
(***************************************************************************)
PublishNothing(h) ==
    /\ handler[h].pc = "evaluated"
    /\ lock = NoOne
    /\ \/ ownerVersion # handler[h].version /\ Goto(h, "obsolete")
       \/ ownerVersion = handler[h].version /\ run[handler[h].version] # None
          /\ Goto(h, "published")
    /\ UNCHANGED <<lock, factVars, commandVars, record, jobVars, resultVars, faults>>

PublishBegin(h) ==
    /\ handler[h].pc = "evaluated"
    /\ lock = NoOne
    /\ ownerVersion = handler[h].version
    /\ run[handler[h].version] = None
    /\ lock' = h
    /\ Goto(h, "publishing")
    /\ UNCHANGED <<factVars, commandVars, record, jobVars, resultVars, faults>>

\* Mutant: rows whose slot the new result lacks stay authoritative.
PublishCommitBySlot(h) ==
    /\ handler[h].pc = "publishing"
    /\ LET v == handler[h].version
           result == handler[h].loaded
       IN  /\ run' = [run EXCEPT ![v] = result]
           /\ authority' = {r \in authority : r[2] \notin result} \cup {v} \X result
           /\ successor' = [r \in Rows |-> IF r \in authority /\ r[2] \in result
                                             THEN v ELSE successor[r]]
    /\ lock' = NoOne
    /\ Goto(h, "published")
    /\ UNCHANGED <<factVars, commandVars, record, jobVars, faults>>

(***************************************************************************)
(* The commit: the rows that were authoritative no longer are and link to  *)
(* the new row of their slot if there is one, and the new rows are.        *)
(***************************************************************************)
PublishCommit(h) ==
    /\ handler[h].pc = "publishing"
    /\ LET v == handler[h].version
           result == handler[h].loaded
       IN  /\ run' = [run EXCEPT ![v] = result]
           /\ authority' = {v} \X result
           /\ successor' = [r \in Rows |-> IF r \in authority /\ r[2] \in result
                                             THEN v ELSE successor[r]]
    /\ lock' = NoOne
    /\ Goto(h, "published")
    /\ UNCHANGED <<factVars, commandVars, record, jobVars, faults>>

(***************************************************************************)
(* A permanent error is also sent to the dead-letter queue, by a statement *)
(* of its own.                                                             *)
(***************************************************************************)
SendDeadLetter(h) ==
    /\ handler[h].pc = "deadletter"
    /\ dead' = dead \cup {handler[h].version}
    /\ Goto(h, "returned")
    /\ UNCHANGED <<lock, factVars, commandVars, record, job, attempts, resultVars, faults>>

(***************************************************************************)
(* pg-boss settles the job when the handler returns or throws, unless the  *)
(* attempt is no longer the active one.                                    *)
(***************************************************************************)
Owns(h, v) ==
    /\ handler[h].pc # "idle"
    /\ handler[h].version = v
    /\ job[v] = "active"
    /\ attempts[v] = handler[h].attempt

\* Mutant: one retry more than retryLimit.
FailJobOffByOne(v) ==
    /\ job' = [job EXCEPT ![v] = IF attempts[v] <= RetryLimit THEN "retry" ELSE "failed"]
    /\ dead' = IF attempts[v] <= RetryLimit THEN dead ELSE dead \cup {v}
    /\ UNCHANGED attempts

\* Mutant: the queue has no dead-letter queue.
FailJobQuietly(v) ==
    /\ job' = [job EXCEPT ![v] = IF attempts[v] < RetryLimit THEN "retry" ELSE "failed"]
    /\ UNCHANGED <<dead, attempts>>

FailJob(v) ==
    /\ job' = [job EXCEPT ![v] = IF attempts[v] < RetryLimit THEN "retry" ELSE "failed"]
    /\ dead' = IF attempts[v] < RetryLimit THEN dead ELSE dead \cup {v}
    /\ UNCHANGED attempts

Settle(h) ==
    LET v == handler[h].version
    IN  /\ handler[h].pc \in {"returned", "threw"}
        /\ handler' = [handler EXCEPT ![h] = Idle]
        /\ IF ~ Owns(h, v) THEN UNCHANGED jobVars
           ELSE IF handler[h].pc = "threw" THEN FailJob(v)
           ELSE job' = [job EXCEPT ![v] = "completed"] /\ UNCHANGED <<attempts, dead>>
        /\ UNCHANGED <<lock, factVars, commandVars, record, resultVars, faults>>

\* Mutant: only a queued record is failed, not the one a crash left running.
DeadLetterIfQueued(v) ==
    /\ v \in dead
    /\ dead' = dead \ {v}
    /\ record' = [record EXCEPT ![v] = IF @ = "queued" THEN "failed" ELSE @]
    /\ UNCHANGED <<lock, factVars, commandVars, job, attempts, handler, resultVars, faults>>

(***************************************************************************)
(* The dead-letter handler: failRecalculationAfterRetryExhaustion changes  *)
(* a record that is not settled yet, and no other.                         *)
(***************************************************************************)
DeadLetter(v) ==
    /\ v \in dead
    /\ dead' = dead \ {v}
    /\ record' = [record EXCEPT ![v] = IF @ \in {"queued", "running"} THEN "failed" ELSE @]
    /\ UNCHANGED <<lock, factVars, commandVars, job, attempts, handler, resultVars, faults>>

-----------------------------------------------------------------------------
(* Faults                                                                  *)

Fault == faults < MaxFaults /\ faults' = faults + 1

ReleaseLock(h) == lock' = IF lock = h THEN NoOne ELSE lock

(***************************************************************************)
(* A statement of the handler fails with something that is not a           *)
(* DataInvariantError. Inside the try block the catch block follows; the   *)
(* catch block itself throws. A failure after a commit the client never    *)
(* saw is a failure in the control state that follows the commit.          *)
(***************************************************************************)
StatementFails(h) ==
    /\ Fault
    /\ \/ /\ handler[h].pc \in {"started", "assemble", "evaluated", "publishing",
                                "published", "obsolete"}
          /\ Goto(h, "transient")
       \/ /\ handler[h].pc \in {"transient", "permanent", "deadletter"}
          /\ Goto(h, "threw")
    /\ ReleaseLock(h)
    /\ UNCHANGED <<factVars, commandVars, record, jobVars, resultVars>>

(***************************************************************************)
(* The worker process dies: the transaction it had open rolls back and the *)
(* job stays active until pg-boss expires it.                              *)
(***************************************************************************)
Crash(h) ==
    /\ Fault
    /\ handler[h].pc # "idle"
    /\ handler' = [handler EXCEPT ![h] = Idle]
    /\ ReleaseLock(h)
    /\ UNCHANGED <<factVars, commandVars, record, jobVars, resultVars>>

(***************************************************************************)
(* pg-boss expires an active job. Its handler is gone; or, when handlers   *)
(* may be slow, it is still running and from now on works for an attempt   *)
(* that is no longer the active one.                                       *)
(***************************************************************************)
ExpireOrphan(v) ==
    /\ job[v] = "active"
    /\ \A h \in Handlers : ~ Owns(h, v)
    /\ FailJob(v)
    /\ UNCHANGED <<lock, factVars, commandVars, record, handler, resultVars, faults>>

ExpireRunning(v) ==
    /\ SlowHandlers
    /\ Fault
    /\ job[v] = "active"
    /\ \E h \in Handlers : Owns(h, v)
    /\ FailJob(v)
    /\ UNCHANGED <<lock, factVars, commandVars, record, handler, resultVars>>

-----------------------------------------------------------------------------
FinishCommand(c) ==
    \/ \E k \in Keys, q \in Requests :
         Replay(c, k, q) \/ CommitUnchanged(c, k, q) \/ CommitMutation(c, k, q)
    \/ Abort(c)

HandlerStep(h) ==
    \/ MarkRunning(h) \/ Assemble(h) \/ PublishCommit(h)
    \/ MarkCompleted(h) \/ MarkSuperseded(h) \/ MarkQueued(h) \/ MarkFailed(h)
    \/ SendDeadLetter(h) \/ Settle(h)

Publish(h) == PublishNothing(h) \/ PublishBegin(h)

QueueStep(v) ==
    \/ \E h \in Handlers : Fetch(h, v)
    \/ ExpireOrphan(v) \/ ExpireRunning(v) \/ DeadLetter(v)

Next ==
    \/ \E c \in Clients : BeginCommand(c) \/ FinishCommand(c)
    \/ \E h \in Handlers : HandlerStep(h) \/ Publish(h) \/ StatementFails(h) \/ Crash(h)
    \/ \E v \in Versions : QueueStep(v)

Spec == Init /\ [][Next]_vars

(***************************************************************************)
(* A transaction that holds the lock ends, a running handler goes on, and  *)
(* pg-boss fetches due jobs, expires orphans and delivers dead letters.    *)
(* PostgreSQL queues the waiters of an advisory lock in arrival order, so  *)
(* a publication that keeps finding the lock free again gets it.           *)
(***************************************************************************)
Fairness ==
    /\ \A c \in Clients : WF_vars(FinishCommand(c))
    /\ \A h \in Handlers : WF_vars(HandlerStep(h)) /\ SF_vars(Publish(h))
    /\ \A v \in Versions :
         /\ WF_vars(\E h \in Handlers : Fetch(h, v))
         /\ WF_vars(ExpireOrphan(v))
         /\ WF_vars(DeadLetter(v))

FairSpec == Spec /\ Fairness

-----------------------------------------------------------------------------
(* Properties                                                              *)

Answers == [key : Keys, request : Requests, version : 0..MaxVersion, mutated : BOOLEAN]
HandlerPCs == {"idle", "started", "assemble", "evaluated", "publishing", "published",
               "obsolete", "transient", "permanent", "deadletter", "returned", "threw"}
HandlerType == [pc : HandlerPCs, version : 0..MaxVersion, attempt : 0..RetryLimit,
                loaded : Contents \cup {None}]

(***************************************************************************)
(* The state is well formed. In particular a job is never tried more often *)
(* than retryLimit allows: once, and RetryLimit times again.               *)
(***************************************************************************)
TypeOK ==
    /\ lock \in Clients \cup Handlers \cup {NoOne}
    /\ ownerVersion \in 0..MaxVersion
    /\ facts \in [0..MaxVersion -> Contents \cup {Invalid}]
    /\ audit \in [Versions -> Keys \cup {None}]
    /\ command \in [Keys -> CommandResults \cup {None}]
    /\ told \subseteq Answers
    /\ record \in [Versions -> Statuses]
    /\ job \in [Versions -> JobStates]
    /\ attempts \in [Versions -> 0..RetryLimit]
    /\ dead \subseteq Versions
    /\ handler \in [Handlers -> HandlerType]
    /\ run \in [Versions -> Contents \cup {None}]
    /\ authority \subseteq Rows
    /\ successor \in [Rows -> 0..MaxVersion]
    /\ faults \in 0..MaxFaults

(***************************************************************************)
(* The authoritative rows are never a mixture: they are the rows of the    *)
(* newest completed engine run, all of them and no other.                  *)
(***************************************************************************)
Published == {v \in Versions : run[v] # None}

AuthorityIsNewestRun ==
    IF Published = {} THEN authority = {}
    ELSE \E v \in Published :
           /\ \A w \in Published : w <= v
           /\ authority = {v} \X run[v]

(***************************************************************************)
(* A completed run of a version is the evaluation of the facts that        *)
(* version left behind, although the facts may change between its          *)
(* assembly and its publication, and whatever attempt computed it.         *)
(***************************************************************************)
RunsMatchTheirFacts ==
    \A v \in Published : v <= ownerVersion /\ run[v] = facts[v]

(***************************************************************************)
(* superseded_by is a history: a row is linked, once it stopped being      *)
(* authoritative, to the row of its slot in the next published run.        *)
(***************************************************************************)
LinkedToNextRun(r, w) ==
    /\ w \in Published
    /\ r[1] < w
    /\ r[2] \in run[w]
    /\ \A u \in Published : ~ (r[1] < u /\ u < w)

SupersessionIsAHistory ==
    \A r \in Rows : successor[r] # 0 =>
        r \notin authority /\ LinkedToNextRun(r, successor[r])

(***************************************************************************)
(* An Idempotency-Key has at most one effect, and every caller who was     *)
(* given an answer for it, however often the command was retried and       *)
(* whatever else committed in between, was told of that same effect.       *)
(***************************************************************************)
ExactlyOnceEffects ==
    /\ \A v, w \in Versions : audit[v] # None /\ audit[v] = audit[w] => v = w
    /\ \A a, b \in told : a.key = b.key => a = b
    /\ \A a \in told : a.mutated => audit[a.version] = a.key

(***************************************************************************)
(* A job ends as completed without a result only if another version took   *)
(* its place or its facts can never be evaluated: an error that a retry    *)
(* could overcome never ends a job of the current version quietly.         *)
(***************************************************************************)
CompletedJobsAreSettled ==
    \A v \in Versions :
        job[v] = "completed" => v \in Published \/ v < ownerVersion \/ facts[v] = Invalid

(***************************************************************************)
(* ADR-029: authority only ever moves to the input version that is current *)
(* in the very step that moves it, and from an older one.                  *)
(***************************************************************************)
AuthorityMovesForward ==
    [][authority' # authority =>
         /\ UNCHANGED ownerVersion
         /\ \A new \in authority' : new[1] = ownerVersion
         /\ \A old \in authority : old[1] < ownerVersion]_vars

(***************************************************************************)
(* While no handler outlives its job: a recalculation record that is not   *)
(* settled still has a job, or a dead letter, that will settle it.         *)
(***************************************************************************)
NoRecalculationIsLost ==
    \A v \in Versions : record[v] \in {"queued", "running"} =>
        job[v] \in {"created", "active", "retry"} \/ v \in dead

(***************************************************************************)
(* While no handler outlives its job: every recalculation record reaches a *)
(* final status and keeps it, retries exhausted or not.                    *)
(***************************************************************************)
Settled(v) == record[v] \in {"completed", "failed", "superseded"}

RecordsSettle ==
    \A v \in Versions : record[v] # "absent" ~> []Settled(v)

(***************************************************************************)
(* The facts of a version that stays current are published, unless they    *)
(* cannot be evaluated or pg-boss gave the job up after its last retry.    *)
(***************************************************************************)
CurrentFactsArePublished ==
    \A v \in Versions :
        ownerVersion = v /\ facts[v] # Invalid
            ~> ownerVersion # v \/ v \in Published \/ job[v] = "failed"

(***************************************************************************)
(* The pipeline implements its abstract specification: what a reader of    *)
(* authoritative rows sees changes by publications of the current facts    *)
(* and by nothing else.                                                    *)
(***************************************************************************)
Reader == INSTANCE AuthoritativeResult
            WITH version <- ownerVersion, facts <- facts[ownerVersion],
                 shown <- authority

ImplementsAuthoritativeResult == Reader!SafetySpec

(***************************************************************************)
(* ADR-029 says of a mismatch that it "marks the recalculation             *)
(* `superseded`; it creates no engine run": a superseded record has none.  *)
(***************************************************************************)
SupersededRecordsHaveNoRun ==
    \A v \in Versions : record[v] = "superseded" => v \notin Published
=============================================================================
