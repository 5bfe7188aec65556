--------------------------- MODULE BankConnection ---------------------------
(***************************************************************************)
(* The owner's Enable Banking connection: authorization attempts in the    *)
(* browser, the session they obtain from the provider, and the diagnostic  *)
(* fetches, synchronisations and disconnects that use it under a lease.    *)
(*                                                                         *)
(* A transaction that starts with a conditional update is one step: the    *)
(* row lock it takes decides. The transactions that begin an               *)
(* authorization, a fetch or a disconnect read the connection without a    *)
(* lock and write it afterwards; at READ COMMITTED other transactions may  *)
(* commit in between, so each is a reading and a writing step.             *)
(***************************************************************************)
EXTENDS Naturals, Sequences

CONSTANTS
    MaxAttempts,     \* bound on the authorization attempts
    MaxRuns,         \* bound on the fetch, sync and disconnect runs
    MaxFaults,       \* bound on what goes wrong, see FaultStep
    Workers,         \* concurrent executions of a fetch, a sync or a disconnect
    NoOne,           \* there is no lease
    Accounts,        \* accounts at the bank, by stable identity
    SlowOperations   \* may an operation outlive its fifteen-minute lease?

ASSUME ConnectionAssumption ==
    /\ MaxAttempts \in Nat
    /\ MaxRuns \in Nat
    /\ MaxFaults \in Nat
    /\ NoOne \notin Workers
    /\ SlowOperations \in BOOLEAN

(***************************************************************************)
(* A session is named by the attempt that obtained it; it stands for both  *)
(* the provider's session and its generation. 0 is the absent session.     *)
(***************************************************************************)
Attempts   == 1..MaxAttempts
Sessions   == 0..MaxAttempts
FetchKinds == {"diagnostic_fetch", "sync"}
Kinds      == FetchKinds \cup {"disconnect"}

VARIABLES
    status,       \* enable_banking_connections.status
    session,      \* the connection's encrypted session and generation
    consentOver,  \* consent_expires_at of that session has passed
    activeRun,    \* active_run_id, 0 if null
    lease,        \* lease_id, by the worker it was given to
    leaseLive,    \* lease_expires_at lies in the future
    attempt,      \* status of the authorization attempts
    authRun,      \* status of their runs
    elapsed,      \* attempts whose fifteen minutes are over
    web,          \* control state of the web handlers of an attempt
    exchanges,    \* authorization codes sent to the provider by attempt
    provider,     \* the provider's sessions
    account,      \* provider accounts: session and what is verified of them
    known,        \* provider accounts that have a row
    bound,        \* provider accounts bound to a canonical account
    syncState,    \* enable_banking_sync_states by account
    revision,     \* the booked source revision of an account
    runs,         \* runs other than authorizations
    worker,       \* control state of the workers and what they loaded
    faults        \* faults so far

leaseVars    == <<activeRun, lease, leaseLive>>
attemptVars  == <<attempt, authRun, elapsed, web, exchanges>>
evidenceVars == <<syncState, revision>>
stateVars == <<status, session, consentOver, activeRun, lease, leaseLive, attempt, authRun,
               elapsed, web, exchanges, provider, account, known, bound, syncState, revision,
               runs, worker>>
vars == <<stateVars, faults>>

Idle == [pc |-> "idle", kind |-> "sync", session |-> 0, account |-> NoOne,
         strategy |-> "longest", run |-> 0]

Init ==
    /\ status = "disconnected"
    /\ session = 0
    /\ consentOver = FALSE
    /\ activeRun = 0 /\ lease = NoOne /\ leaseLive = FALSE
    /\ attempt = [a \in Attempts |-> "absent"]
    /\ authRun = [a \in Attempts |-> "absent"]
    /\ elapsed = {}
    /\ web = [a \in Attempts |-> "none"]
    /\ exchanges = [a \in Attempts |-> 0]
    /\ provider = [a \in Attempts |-> "none"]
    /\ account = [acc \in Accounts |-> [session |-> 0, proof |-> "none"]]
    /\ known = {}
    /\ bound = {}
    /\ syncState = [acc \in Accounts |-> [session |-> 0, complete |-> FALSE]]
    /\ revision = [acc \in Accounts |-> [receipt |-> 0, first |-> 0, replay |-> 0]]
    /\ runs = << >>
    /\ worker = [w \in Workers |-> Idle]
    /\ faults = 0

-----------------------------------------------------------------------------
(* Authorization: the connect request and the callback                     *)

Leave(a, pc) == web' = [web EXCEPT ![a] = pc]

(***************************************************************************)
(* beginEnableBankingAuthorization finds a connection that is not active.  *)
(***************************************************************************)
CheckConnection(a) ==
    /\ web[a] = "none"
    /\ \A b \in Attempts : b < a => web[b] # "none"
    /\ status # "active"
    /\ Leave(a, "checked")
    /\ UNCHANGED <<status, session, consentOver, leaseVars, attempt, authRun, elapsed,
                   exchanges, provider, account, known, bound, evidenceVars, runs, worker>>

(***************************************************************************)
(* Its writes: attempts still pending are superseded, whatever became of   *)
(* the connection meanwhile. The runs of superseded attempts stay as they  *)
(* are.                                                                    *)
(***************************************************************************)
BeginAuthorization(a) ==
    /\ web[a] = "checked"
    /\ attempt' = [b \in Attempts |->
                     IF b = a THEN "pending"
                     ELSE IF attempt[b] = "pending" THEN "failed" ELSE attempt[b]]
    /\ authRun' = [authRun EXCEPT ![a] = "pending"]
    /\ status' = "connecting"
    /\ Leave(a, "starting")
    /\ UNCHANGED <<session, consentOver, leaseVars, elapsed, exchanges, provider, account,
                   known, bound, evidenceVars, runs, worker>>

(***************************************************************************)
(* The provider accepted POST /auth; the browser is sent to the bank with  *)
(* the state in its URL.                                                   *)
(***************************************************************************)
StartAuthorization(a) ==
    /\ web[a] = "starting"
    /\ authRun' = [authRun EXCEPT ![a] = IF @ = "pending" THEN "running" ELSE @]
    /\ Leave(a, "atBank")
    /\ UNCHANGED <<status, session, consentOver, leaseVars, attempt, elapsed, exchanges,
                   provider, account, known, bound, evidenceVars, runs, worker>>

\* The browser has been redirected and may return, also while a callback is being handled.
AtBank(a) == web[a] \in {"atBank", "claimed", "authorized", "activated"}

Expires(a) ==
    /\ attempt[a] = "pending"
    /\ elapsed' = elapsed \cup {a}
    /\ UNCHANGED <<status, session, consentOver, leaseVars, attempt, authRun, web, exchanges,
                   provider, account, known, bound, evidenceVars, runs, worker>>

\* Mutant: the state is looked up, not compared and set.
ClaimAnyState(a) ==
    /\ AtBank(a)
    /\ attempt[a] \in {"pending", "exchanging"}
    /\ IF a \in elapsed
         THEN /\ attempt' = [attempt EXCEPT ![a] = "expired"]
              /\ UNCHANGED web
         ELSE /\ attempt' = [attempt EXCEPT ![a] = "exchanging"]
              /\ Leave(a, "claimed")
    /\ UNCHANGED <<status, session, consentOver, leaseVars, authRun, elapsed, exchanges,
                   provider, account, known, bound, evidenceVars, runs, worker>>

(***************************************************************************)
(* A callback with a code, possibly not the first: the pending state is    *)
(* claimed, or marked expired when its time is over. Another state claims  *)
(* nothing and changes nothing.                                            *)
(***************************************************************************)
ClaimAuthorization(a) ==
    /\ AtBank(a)
    /\ attempt[a] = "pending"
    /\ IF a \in elapsed
         THEN /\ attempt' = [attempt EXCEPT ![a] = "expired"]
              /\ UNCHANGED web
         ELSE /\ attempt' = [attempt EXCEPT ![a] = "exchanging"]
              /\ Leave(a, "claimed")
    /\ UNCHANGED <<status, session, consentOver, leaseVars, authRun, elapsed, exchanges,
                   provider, account, known, bound, evidenceVars, runs, worker>>

\* Mutant: a cancellation that comes late is honoured.
CancelClaimedToo(a) ==
    /\ AtBank(a)
    /\ attempt[a] \in {"pending", "exchanging"}
    /\ attempt' = [attempt EXCEPT ![a] = "cancelled"]
    /\ authRun' = [authRun EXCEPT ![a] = "failed"]
    /\ status' = "disconnected"
    /\ UNCHANGED <<session, consentOver, leaseVars, elapsed, web, exchanges, provider,
                   account, known, bound, evidenceVars, runs, worker>>

(***************************************************************************)
(* A callback with an error instead of a code.                             *)
(***************************************************************************)
CancelAuthorization(a) ==
    /\ AtBank(a)
    /\ attempt[a] = "pending"
    /\ attempt' = [attempt EXCEPT ![a] = "cancelled"]
    /\ authRun' = [authRun EXCEPT ![a] = "failed"]
    /\ status' = "disconnected"
    /\ UNCHANGED <<session, consentOver, leaseVars, elapsed, web, exchanges, provider,
                   account, known, bound, evidenceVars, runs, worker>>

(***************************************************************************)
(* POST /sessions, never repeated, obtains a session.                      *)
(***************************************************************************)
ExchangeCode(a) ==
    /\ web[a] = "claimed"
    /\ exchanges' = [exchanges EXCEPT ![a] = @ + 1]
    /\ provider' = [provider EXCEPT ![a] = "open"]
    /\ Leave(a, "authorized")
    /\ UNCHANGED <<status, session, consentOver, leaseVars, attempt, authRun, elapsed, account,
                   known, bound, evidenceVars, runs, worker>>

(***************************************************************************)
(* It is refused, or its answer is lost with the session open or not.      *)
(***************************************************************************)
ExchangeFails(a) ==
    /\ web[a] = "claimed"
    /\ exchanges' = [exchanges EXCEPT ![a] = @ + 1]
    /\ \/ Leave(a, "refused") /\ UNCHANGED provider
       \/ Leave(a, "unanswered")
          /\ \E s \in {"none", "open"} : provider' = [provider EXCEPT ![a] = s]
    /\ UNCHANGED <<status, session, consentOver, leaseVars, attempt, authRun, elapsed, account,
                   known, bound, evidenceVars, runs, worker>>

(***************************************************************************)
(* POST /auth is refused or has no answer, account details are refused     *)
(* after the exchange, or the activation's commit has no answer.           *)
(***************************************************************************)
AuthorizationFails(a) ==
    /\ \/ web[a] = "starting" /\ \E pc \in {"refused", "unanswered"} : Leave(a, pc)
       \/ web[a] \in {"authorized", "activated"} /\ Leave(a, "refused")
    /\ UNCHANGED <<status, session, consentOver, leaseVars, attempt, authRun, elapsed,
                   exchanges, provider, account, known, bound, evidenceVars, runs, worker>>

\* Mutant: accounts the new session does not list keep their alias.
ActivateSessionKeepingAliases(a) ==
    /\ web[a] = "authorized"
    /\ attempt[a] = "exchanging"
    /\ \E found \in SUBSET Accounts :
         /\ known' = known \cup found
         /\ account' = [acc \in Accounts |->
                IF acc \in found THEN [session |-> a, proof |-> "none"] ELSE account[acc]]
    /\ status' = "active"
    /\ session' = a
    /\ consentOver' = FALSE
    /\ attempt' = [attempt EXCEPT ![a] = "completed"]
    /\ authRun' = [authRun EXCEPT ![a] = "completed"]
    /\ Leave(a, "activated")
    /\ UNCHANGED <<leaseVars, elapsed, exchanges, provider, bound, evidenceVars, runs, worker>>

(***************************************************************************)
(* The session and the accounts found in it become those of the            *)
(* connection. Accounts of an earlier session that are not in it lose      *)
(* their alias; one that has none keeps what was verified of it.           *)
(***************************************************************************)
ActivateSession(a) ==
    /\ web[a] = "authorized"
    /\ attempt[a] = "exchanging"
    /\ \E found \in SUBSET Accounts :
         /\ known' = known \cup found
         /\ account' = [acc \in Accounts |->
                IF acc \in found THEN [session |-> a, proof |-> "none"]
                ELSE IF account[acc].session # 0 THEN [session |-> 0, proof |-> "none"]
                ELSE account[acc]]
    /\ status' = "active"
    /\ session' = a
    /\ consentOver' = FALSE
    /\ attempt' = [attempt EXCEPT ![a] = "completed"]
    /\ authRun' = [authRun EXCEPT ![a] = "completed"]
    /\ Leave(a, "activated")
    /\ UNCHANGED <<leaseVars, elapsed, exchanges, provider, bound, evidenceVars, runs, worker>>

(***************************************************************************)
(* The catch blocks of both handlers write unconditionally, by id.         *)
(***************************************************************************)
FailAuthorization(a) ==
    /\ web[a] \in {"refused", "unanswered"}
    /\ LET outcome == IF web[a] = "unanswered" THEN "indeterminate" ELSE "failed"
       IN  /\ attempt' = [attempt EXCEPT ![a] = outcome]
           /\ authRun' = [authRun EXCEPT ![a] = outcome]
    /\ status' = "error"
    /\ Leave(a, "lost")
    /\ UNCHANGED <<session, consentOver, leaseVars, elapsed, exchanges, provider, account,
                   known, bound, evidenceVars, runs, worker>>

(***************************************************************************)
(* The web process dies, or the transaction of a connect request rolls     *)
(* back, as the first insert of the connection does for all but one of two *)
(* first requests.                                                         *)
(***************************************************************************)
WebCrash(a) ==
    /\ web[a] \in {"checked", "starting", "claimed", "authorized", "refused", "unanswered"}
    /\ Leave(a, "lost")
    /\ UNCHANGED <<status, session, consentOver, leaseVars, attempt, authRun, elapsed,
                   exchanges, provider, account, known, bound, evidenceVars, runs, worker>>

(***************************************************************************)
(* The owner binds a discovered account to a canonical one, for good.      *)
(***************************************************************************)
BindProviderAccount(acc) ==
    /\ acc \in known \ bound
    /\ bound' = bound \cup {acc}
    /\ UNCHANGED <<status, session, consentOver, leaseVars, attemptVars, provider, account,
                   known, evidenceVars, runs, worker>>

-----------------------------------------------------------------------------
(* Fetch and synchronisation: beginEnableBankingFetch and what follows     *)

(***************************************************************************)
(* What the loop of a worker does next, and what a run is.                 *)
(***************************************************************************)
Go(w, pc) == worker' = [worker EXCEPT ![w].pc = pc]

HoldsLease(w) == lease = w /\ activeRun = worker[w].run

FreeToBegin == lease = NoOne \/ ~ leaseLive

NewRun(w, kind) ==
    [kind |-> kind, status |-> "running", session |-> worker[w].session,
     account |-> worker[w].account, strategy |-> worker[w].strategy, saw |-> FALSE]

(***************************************************************************)
(* The active run of the same kind and session is taken over.              *)
(***************************************************************************)
Resumable(kind) ==
    IF activeRun # 0 /\ runs[activeRun].kind = kind /\ runs[activeRun].status = "running"
         /\ runs[activeRun].session = session
      THEN activeRun ELSE 0

\* Mutant: a finished scan of another session counts.
StrategyOfAnySession(kind, acc) ==
    IF kind = "sync" /\ syncState[acc].complete THEN "default" ELSE "longest"

Strategy(kind, acc) ==
    IF kind = "sync" /\ syncState[acc].complete /\ syncState[acc].session = session
      THEN "default" ELSE "longest"

(***************************************************************************)
(* The reads of beginEnableBankingFetch: an active connection with a live  *)
(* consent and no live lease, and exactly one bound account, which the     *)
(* session lists.                                                          *)
(***************************************************************************)
ReadForFetch(w, kind) ==
    /\ worker[w].pc = "idle"
    /\ status = "active"
    /\ session # 0
    /\ ~ consentOver
    /\ FreeToBegin
    /\ \E acc \in Accounts :
         /\ bound = {acc}
         /\ account[acc].session = session
         /\ worker' = [worker EXCEPT ![w] =
                [pc |-> "read", kind |-> kind, session |-> session, account |-> acc,
                 strategy |-> Strategy(kind, acc), run |-> Resumable(kind)]]
    /\ UNCHANGED <<status, session, consentOver, leaseVars, attemptVars, provider, account,
                   known, bound, evidenceVars, runs>>

(***************************************************************************)
(* The consent is over: reauth_required is written ...                     *)
(***************************************************************************)
FindConsentOver(w, kind) ==
    /\ worker[w].pc = "idle"
    /\ status = "active"
    /\ session # 0
    /\ consentOver
    /\ worker' = [worker EXCEPT ![w] = [Idle EXCEPT !.pc = "consentOver", !.kind = kind]]
    /\ UNCHANGED <<status, session, consentOver, leaseVars, attemptVars, provider, account,
                   known, bound, evidenceVars, runs>>

(***************************************************************************)
(* ... and the error thrown after it inside the transaction callback rolls *)
(* it back.                                                                *)
(***************************************************************************)
ConsentExpired(w) ==
    /\ worker[w].pc = "consentOver"
    /\ worker' = [worker EXCEPT ![w] = Idle]
    /\ UNCHANGED <<status, session, consentOver, leaseVars, attemptVars, provider, account,
                   known, bound, evidenceVars, runs>>

(***************************************************************************)
(* The reads of beginEnableBankingDisconnect: a session and no live lease. *)
(***************************************************************************)
ReadForDisconnect(w) ==
    /\ worker[w].pc = "idle"
    /\ session # 0
    /\ FreeToBegin
    /\ worker' = [worker EXCEPT ![w] =
                    [Idle EXCEPT !.pc = "read", !.kind = "disconnect", !.session = session]]
    /\ UNCHANGED <<status, session, consentOver, leaseVars, attemptVars, provider, account,
                   known, bound, evidenceVars, runs>>

(***************************************************************************)
(* The writes of either: a new run unless one was found to resume, and the *)
(* lease, whoever has it by now.                                           *)
(***************************************************************************)
TakeLease(w) ==
    /\ worker[w].pc = "read"
    /\ IF worker[w].run # 0 THEN UNCHANGED runs
       ELSE /\ Len(runs) < MaxRuns
            /\ runs' = Append(runs, NewRun(w, worker[w].kind))
    /\ LET run == IF worker[w].run # 0 THEN worker[w].run ELSE Len(runs) + 1
       IN  /\ activeRun' = run
           /\ worker' = [worker EXCEPT ![w].run = run, ![w].pc =
                           IF worker[w].kind = "disconnect" THEN "delete" ELSE "session"]
    /\ lease' = w
    /\ leaseLive' = TRUE
    /\ UNCHANGED <<status, session, consentOver, attemptVars, provider, account, known, bound,
                   evidenceVars>>

(***************************************************************************)
(* GET /sessions/{id}: a session that ended changes the connection's       *)
(* status, unconditionally.                                                *)
(***************************************************************************)
CheckSession(w) ==
    /\ worker[w].pc = "session"
    /\ LET answer == provider[worker[w].session]
       IN  /\ status' = CASE answer = "expired" -> "reauth_required"
                          [] answer = "closed"  -> "revoked"
                          [] OTHER              -> status
           /\ Go(w, IF answer = "open" THEN "scan" ELSE "failed")
    /\ UNCHANGED <<session, consentOver, leaseVars, attemptVars, provider, account, known,
                   bound, evidenceVars, runs>>

(***************************************************************************)
(* renewEnableBankingLease before each page.                               *)
(***************************************************************************)
RenewLease(w) ==
    /\ worker[w].pc = "scan"
    /\ IF HoldsLease(w) THEN leaseLive' = TRUE /\ Go(w, "page")
                        ELSE UNCHANGED leaseLive /\ Go(w, "failed")
    /\ UNCHANGED <<status, session, consentOver, activeRun, lease, attemptVars, provider,
                   account, known, bound, evidenceVars, runs>>

(***************************************************************************)
(* A page of an open session, which may contain the booked transaction and *)
(* may be the last. The receipt of the transaction's revision becomes this *)
(* run's, lease or no lease.                                               *)
(***************************************************************************)
ReadPage(w) ==
    LET run == worker[w].run
        acc == worker[w].account
    IN  /\ worker[w].pc = "page"
        /\ provider[worker[w].session] = "open"
        /\ \/ UNCHANGED <<revision, runs>>
           \/ /\ revision' = [revision EXCEPT ![acc].receipt = run]
              /\ runs' = [runs EXCEPT ![run].saw = TRUE]
        /\ \E pc \in {"scan", "complete"} : Go(w, pc)
        /\ UNCHANGED <<status, session, consentOver, leaseVars, attemptVars, provider, account,
                       known, bound, syncState>>

\* Mutant: the active run is not cleared with the lease.
ReleaseLeaseOnly == UNCHANGED activeRun /\ lease' = NoOne /\ leaseLive' = FALSE

ReleaseLease == activeRun' = 0 /\ lease' = NoOne /\ leaseLive' = FALSE

(***************************************************************************)
(* A completed run of the account in the session.                          *)
(***************************************************************************)
CompletedScan(rs, r, acc, s) ==
    r # 0 /\ rs[r].status = "completed" /\ rs[r].account = acc /\ rs[r].session = s

\* Mutant: the proof does not ask for two different runs.
ProvenByAnyRun(rs, acc, s) ==
    CompletedScan(rs, revision'[acc].first, acc, s)

(***************************************************************************)
(* hasCompletedBookedReplay: the same revision in two completed runs.      *)
(***************************************************************************)
Proven(rs, acc, s) ==
    /\ revision'[acc].first # revision'[acc].replay
    /\ CompletedScan(rs, revision'[acc].first, acc, s)
    /\ CompletedScan(rs, revision'[acc].replay, acc, s)

(***************************************************************************)
(* completeEnableBankingSync, for the holder of the lease only.            *)
(***************************************************************************)
CompleteSync(w) ==
    LET r   == worker[w].run
        acc == worker[w].account
        s   == worker[w].session
        baseline == CompletedScan(runs, revision[acc].first, acc, s)
    IN  /\ worker[w].pc = "complete"
        /\ worker[w].kind = "sync"
        /\ HoldsLease(w)
        /\ ReleaseLease
        /\ revision' = [revision EXCEPT ![acc] =
               IF @.receipt # r THEN @
               ELSE [receipt |-> r, first |-> IF baseline THEN @.first ELSE r,
                     replay |-> IF baseline /\ @.first # r THEN r ELSE 0]]
        /\ syncState' = [syncState EXCEPT ![acc] =
               [session |-> s, complete |-> @.session # 0 \/ worker[w].strategy = "longest"]]
        /\ runs' = [runs EXCEPT ![r].status = "completed"]
        /\ account' = [account EXCEPT ![acc].proof =
               IF account[acc].session # s THEN @
               ELSE IF Proven(runs', acc, s) THEN "transactions" ELSE "account"]
        /\ worker' = [worker EXCEPT ![w] = Idle]
        /\ UNCHANGED <<status, session, consentOver, attemptVars, provider, known, bound>>

LeaseLost(w) ==
    /\ worker[w].pc = "complete"
    /\ worker[w].kind = "sync"
    /\ ~ HoldsLease(w)
    /\ Go(w, "failed")
    /\ UNCHANGED <<status, session, consentOver, leaseVars, attemptVars, provider, account,
                   known, bound, evidenceVars, runs>>

(***************************************************************************)
(* completeEnableBankingDiagnosticFetch completes the run in any case and  *)
(* releases the lease if it is still this worker's.                        *)
(***************************************************************************)
CompleteDiagnosticFetch(w) ==
    /\ worker[w].pc = "complete"
    /\ worker[w].kind = "diagnostic_fetch"
    /\ IF lease = w THEN ReleaseLease ELSE UNCHANGED leaseVars
    /\ runs' = [runs EXCEPT ![worker[w].run].status = "completed"]
    /\ worker' = [worker EXCEPT ![w] = Idle]
    /\ UNCHANGED <<status, session, consentOver, attemptVars, provider, account, known, bound,
                   evidenceVars>>

\* Mutant: a failing worker does not look at the lease.
FailRunWithoutLease(w) ==
    /\ worker[w].pc = "failed"
    /\ ReleaseLease
    /\ status' = IF worker[w].kind = "disconnect" THEN "error" ELSE status
    /\ runs' = [runs EXCEPT ![worker[w].run].status =
                  IF worker[w].kind = "disconnect" THEN "indeterminate" ELSE "failed"]
    /\ worker' = [worker EXCEPT ![w] = Idle]
    /\ UNCHANGED <<session, consentOver, attemptVars, provider, account, known, bound,
                   evidenceVars>>

(***************************************************************************)
(* failEnableBankingRun: nothing without the lease. A disconnect fails as  *)
(* indeterminate.                                                          *)
(***************************************************************************)
FailRun(w) ==
    /\ worker[w].pc = "failed"
    /\ IF ~ HoldsLease(w) THEN UNCHANGED <<status, leaseVars, runs>>
       ELSE /\ ReleaseLease
            /\ status' = IF worker[w].kind = "disconnect" THEN "error" ELSE status
            /\ runs' = [runs EXCEPT ![worker[w].run].status =
                          IF @ # "running" THEN @
                          ELSE IF worker[w].kind = "disconnect" THEN "indeterminate"
                          ELSE "failed"]
    /\ worker' = [worker EXCEPT ![w] = Idle]
    /\ UNCHANGED <<session, consentOver, attemptVars, provider, account, known, bound,
                   evidenceVars>>

-----------------------------------------------------------------------------
(* Disconnect                                                              *)

(***************************************************************************)
(* DELETE /sessions/{id}, never repeated: the session is closed, or was    *)
(* (not_found).                                                            *)
(***************************************************************************)
DeleteSession(w) ==
    /\ worker[w].pc = "delete"
    /\ provider' = [provider EXCEPT ![worker[w].session] = "closed"]
    /\ Go(w, "deleted")
    /\ UNCHANGED <<status, session, consentOver, leaseVars, attemptVars, account, known, bound,
                   evidenceVars, runs>>

(***************************************************************************)
(* The request fails, with the session closed or not.                      *)
(***************************************************************************)
DeleteFails(w) ==
    /\ worker[w].pc = "delete"
    /\ Go(w, "failed")
    /\ \E s \in {provider[worker[w].session], "closed"} :
         provider' = [provider EXCEPT ![worker[w].session] = s]
    /\ UNCHANGED <<status, session, consentOver, leaseVars, attemptVars, account, known, bound,
                   evidenceVars, runs>>

(***************************************************************************)
(* completeEnableBankingDisconnect: the accounts lose their aliases and    *)
(* the run completes in any case; the session is erased under the lease.   *)
(***************************************************************************)
CompleteDisconnect(w) ==
    /\ worker[w].pc = "deleted"
    /\ account' = [acc \in Accounts |-> [account[acc] EXCEPT !.session = 0]]
    /\ IF lease = w
         THEN status' = "revoked" /\ session' = 0 /\ consentOver' = FALSE /\ ReleaseLease
         ELSE UNCHANGED <<status, session, consentOver, leaseVars>>
    /\ runs' = [runs EXCEPT ![worker[w].run].status = "completed"]
    /\ worker' = [worker EXCEPT ![w] = Idle]
    /\ UNCHANGED <<attemptVars, provider, known, bound, evidenceVars>>

-----------------------------------------------------------------------------
(* Failures, time and the bank                                             *)

(***************************************************************************)
(* A request or a statement fails, or an answer is not what it must be.    *)
(* The answer of a completing commit that is lost ends like FailRun of a   *)
(* worker that has given its lease back: in nothing.                       *)
(***************************************************************************)
OperationFails(w) ==
    /\ worker[w].pc \in {"session", "scan", "page", "complete", "deleted"}
    /\ Go(w, "failed")
    /\ UNCHANGED <<status, session, consentOver, leaseVars, attemptVars, provider, account,
                   known, bound, evidenceVars, runs>>

(***************************************************************************)
(* The process dies, or a transaction that begins an operation rolls back. *)
(***************************************************************************)
Crash(w) ==
    /\ worker[w].pc # "idle"
    /\ worker' = [worker EXCEPT ![w] = Idle]
    /\ UNCHANGED <<status, session, consentOver, leaseVars, attemptVars, provider, account,
                   known, bound, evidenceVars, runs>>

(***************************************************************************)
(* Fifteen minutes pass without a renewal, because the holder is gone or   *)
(* because it is slow.                                                     *)
(***************************************************************************)
HolderGone == leaseLive /\ worker[lease].pc \in {"idle", "read", "consentOver"}

LeaseExpires ==
    /\ leaseLive
    /\ leaseLive' = FALSE
    /\ UNCHANGED <<status, session, consentOver, activeRun, lease, attemptVars, provider,
                   account, known, bound, evidenceVars, runs, worker>>

ConsentElapses ==
    /\ session # 0
    /\ ~ consentOver
    /\ consentOver' = TRUE
    /\ UNCHANGED <<status, session, leaseVars, attemptVars, provider, account, known, bound,
                   evidenceVars, runs, worker>>

(***************************************************************************)
(* The session expires at the provider or is closed at the bank.           *)
(***************************************************************************)
ProviderEndsSession(s) ==
    /\ provider[s] = "open"
    /\ \E end \in {"expired", "closed"} : provider' = [provider EXCEPT ![s] = end]
    /\ UNCHANGED <<status, session, consentOver, leaseVars, attemptVars, account, known, bound,
                   evidenceVars, runs, worker>>

-----------------------------------------------------------------------------
AttemptStep(a) ==
    \/ CheckConnection(a) \/ BeginAuthorization(a) \/ StartAuthorization(a)
    \/ ClaimAuthorization(a) \/ CancelAuthorization(a) \/ ExchangeCode(a)
    \/ ActivateSession(a) \/ FailAuthorization(a)

BeginStep(w) ==
    \/ \E kind \in FetchKinds : ReadForFetch(w, kind) \/ FindConsentOver(w, kind)
    \/ ConsentExpired(w) \/ ReadForDisconnect(w) \/ TakeLease(w)

WorkerStep(w) ==
    \/ CheckSession(w) \/ RenewLease(w) \/ ReadPage(w)
    \/ CompleteSync(w) \/ LeaseLost(w) \/ CompleteDiagnosticFetch(w)
    \/ DeleteSession(w) \/ CompleteDisconnect(w) \/ FailRun(w)

(***************************************************************************)
(* What goes wrong: requests and statements fail, processes die, attempts, *)
(* sessions and consents run out, an operation outlives its lease.         *)
(***************************************************************************)
FaultStep ==
    \/ \E a \in Attempts :
         \/ Expires(a) \/ ExchangeFails(a) \/ AuthorizationFails(a) \/ WebCrash(a)
         \/ ProviderEndsSession(a)
    \/ \E w \in Workers : DeleteFails(w) \/ OperationFails(w) \/ Crash(w)
    \/ ConsentElapses
    \/ SlowOperations /\ leaseLive /\ ~ HolderGone /\ LeaseExpires

RegularStep ==
    \/ \E a \in Attempts : AttemptStep(a)
    \/ \E acc \in Accounts : BindProviderAccount(acc)
    \/ \E w \in Workers : BeginStep(w) \/ WorkerStep(w)
    \/ HolderGone /\ LeaseExpires

Next ==
    \/ RegularStep /\ UNCHANGED faults
    \/ FaultStep /\ faults < MaxFaults /\ faults' = faults + 1

Spec == Init /\ [][Next]_vars

(***************************************************************************)
(* The dispatcher keeps starting synchronisations, a running worker goes   *)
(* on, and time passes.                                                    *)
(***************************************************************************)
FairSpec ==
    /\ Spec
    /\ \A w \in Workers :
         /\ WF_stateVars(ReadForFetch(w, "sync") \/ FindConsentOver(w, "sync"))
         /\ WF_stateVars(ConsentExpired(w) \/ TakeLease(w) \/ WorkerStep(w))
    /\ WF_stateVars(HolderGone /\ LeaseExpires)

-----------------------------------------------------------------------------
(* Properties                                                              *)

ConnectionStatuses == {"disconnected", "connecting", "active", "reauth_required", "error",
                       "revoked"}
AttemptStatuses == {"absent", "pending", "exchanging", "completed", "cancelled", "failed",
                    "expired", "indeterminate"}
AuthRunStatuses == {"absent", "pending", "running", "completed", "failed", "indeterminate"}
WebPCs == {"none", "checked", "starting", "atBank", "claimed", "authorized", "refused",
           "unanswered", "activated", "lost"}
WorkerPCs == {"idle", "read", "consentOver", "session", "scan", "page", "complete", "delete",
              "deleted", "failed"}
Strategies == {"longest", "default"}
Runs == 0..MaxRuns
RunStatuses == {"running", "completed", "failed", "indeterminate"}
ProviderStates == {"none", "open", "expired", "closed"}
RunType == [kind : Kinds, status : RunStatuses,
            session : Sessions, account : Accounts \cup {NoOne}, strategy : Strategies,
            saw : BOOLEAN]

WorkerType == [pc : WorkerPCs, kind : Kinds, session : Sessions,
               account : Accounts \cup {NoOne}, strategy : Strategies, run : Runs]

ConnectionType == status \in ConnectionStatuses /\ session \in Sessions /\ consentOver \in BOOLEAN

LeaseType ==
    /\ activeRun \in 0..Len(runs) /\ lease \in Workers \cup {NoOne} /\ leaseLive \in BOOLEAN
    /\ activeRun = 0 <=> lease = NoOne
    /\ leaseLive => lease # NoOne

AttemptType ==
    /\ attempt \in [Attempts -> AttemptStatuses]
    /\ authRun \in [Attempts -> AuthRunStatuses]
    /\ elapsed \subseteq Attempts
    /\ web \in [Attempts -> WebPCs]
    /\ exchanges \in [Attempts -> Nat]
    /\ provider \in [Attempts -> ProviderStates]

EvidenceType ==
    /\ account \in [Accounts -> [session : Sessions, proof : {"none", "account", "transactions"}]]
    /\ known \subseteq Accounts /\ bound \subseteq known
    /\ syncState \in [Accounts -> [session : Sessions, complete : BOOLEAN]]
    /\ revision \in [Accounts -> [receipt : Runs, first : Runs, replay : Runs]]

RunsType == runs \in Seq(RunType) /\ Len(runs) <= MaxRuns

WorkersType ==
    /\ worker \in [Workers -> WorkerType]
    /\ \A w \in Workers : worker[w].run <= Len(runs)

(***************************************************************************)
(* The state is well formed; the lease columns are set together, as the    *)
(* check constraint of the table demands, and refer to runs that began.    *)
(***************************************************************************)
TypeOK ==
    /\ ConnectionType /\ LeaseType /\ AttemptType /\ EvidenceType /\ RunsType /\ WorkersType
    /\ faults \in 0..MaxFaults

(***************************************************************************)
(* "a callback cannot exchange one code twice", however often the browser  *)
(* repeats it and whatever other attempts do meanwhile.                    *)
(***************************************************************************)
OneExchangePerState == \A a \in Attempts : exchanges[a] <= 1

(***************************************************************************)
(* A code is exchanged only for an attempt that is claimed, and one that   *)
(* is cancelled or expired obtains no session, at the provider or here,    *)
(* before or after.                                                        *)
(***************************************************************************)
CancelledAttemptsObtainNothing ==
    \A a \in Attempts : attempt[a] \in {"pending", "cancelled", "expired"} =>
        exchanges[a] = 0 /\ provider[a] = "none" /\ session # a

(***************************************************************************)
(* No alias of an ended session remains usable: an account has the alias   *)
(* of the connection's session or none.                                    *)
(***************************************************************************)
AliasesBelongToTheSession ==
    \A acc \in Accounts : account[acc].session \in {0, session}

(***************************************************************************)
(* A sync asks for the default range only when a longest scan of the same  *)
(* account in the same session has been completed, whoever resumed it and  *)
(* whatever session was authorized in between.                             *)
(***************************************************************************)
CompletedSync(r, acc, s) ==
    /\ runs[r].kind = "sync" /\ runs[r].status = "completed"
    /\ runs[r].account = acc /\ runs[r].session = s

LongestBeforeDefault ==
    \A w \in Workers : worker[w].strategy = "default" =>
        \E r \in DOMAIN runs :
            CompletedSync(r, worker[w].account, worker[w].session) /\ runs[r].strategy = "longest"

(***************************************************************************)
(* ADR-039: "Booked identity proof requires the same source/revision in    *)
(* two distinct completed scans of that generation; duplicate pages,       *)
(* failed scans, and legacy verification timestamps are insufficient."     *)
(***************************************************************************)
IdentityProvenInSession ==
    \A acc \in Accounts :
        account[acc].proof = "transactions" /\ account[acc].session # 0 =>
            \E q, r \in DOMAIN runs :
                /\ q # r
                /\ \A x \in {q, r} :
                     runs[x].saw /\ CompletedSync(x, acc, account[acc].session)

(***************************************************************************)
(* A completed run stays completed, although a worker that lost its lease  *)
(* may still complete or fail the run it shares with its successor.        *)
(***************************************************************************)
CompletedRunsStay ==
    [][\A r \in DOMAIN runs :
         runs[r].status = "completed" => runs'[r].status = "completed"]_vars

(***************************************************************************)
(* "EXPIRED_SESSION, early expiry, or normal expiry enters                 *)
(* reauth_required": while the dispatcher keeps starting synchronisations, *)
(* a connection whose consent is over does not stay active.                *)
(***************************************************************************)
ConsentExpiryIsNoticed == status = "active" /\ consentOver ~> status # "active"

(***************************************************************************)
(* "Disconnect stops claims, closes the provider session when supported,   *)
(* erases usable encrypted session credentials": those of a session whose  *)
(* disconnect is completed are gone.                                       *)
(***************************************************************************)
CompletedDisconnectErasesSession ==
    \A r \in DOMAIN runs :
        runs[r].kind = "disconnect" /\ runs[r].status = "completed" => session # runs[r].session
=============================================================================
