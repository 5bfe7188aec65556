----------------------------- MODULE BankImport -----------------------------
(***************************************************************************)
(* What the Enable Banking synchronisation makes of one bank account: it   *)
(* scans the account's pages into receipts, revisions and observations,    *)
(* the owner activates the import with the opening balance of a statement, *)
(* and from then on every sync appends what the bank booked, corrected or  *)
(* cancelled to the ledger and compares it with the bank's balance.        *)
(*                                                                         *)
(* Consent, sessions and the choice of a strategy are in BankConnection;   *)
(* here one session lasts. That a financial command is atomic and has its  *)
(* effects once is in FinancialPublication; here it is one step, under the *)
(* key of its run.                                                         *)
(***************************************************************************)
EXTENDS Integers, Sequences, FiniteSets, FiniteSetsExt

CONSTANTS
    Keys,        \* source keys: stable references of the bank's transactions
    Pages,       \* pages of a scan
    PageOf,      \* the page that holds a transaction
    Amounts,     \* amounts a transaction may have, in minor units
    Opening,     \* the balance before the first transaction
    Threshold,   \* the owner's materiality threshold
    Workers,     \* concurrent executions of a sync
    Nothing,     \* null
    Futures,     \* what may happen at the bank: finite sequences of events
    MaxDay,      \* bound on the days that pass
    MaxRuns,     \* bound on the runs
    MaxFaults,   \* bound on crashes, failures and leases outlived
    FaultsFrom,  \* the number of runs that begin before the first crash or failure
    StallsFrom   \* and before a worker can outlive its lease

ASSUME ImportAssumption ==
    /\ IsFiniteSet(Keys)
    /\ Pages \in Nat \ {0}
    /\ PageOf \in [Keys -> 1..Pages]
    /\ Amounts \subseteq Int
    /\ Opening \in Int
    /\ Threshold \in Nat
    /\ {MaxDay, MaxRuns, MaxFaults, FaultsFrom, StallsFrom} \subseteq Nat

Days     == 0..MaxDay
Statuses == {"pending", "booked", "cancelled"}
Views    == [status : Statuses, amount : Amounts, date : Days]
Records  == [key : Keys, view : Views]
Balances == [amount : Int, day : Days]
Requests == [records : SUBSET Records, balance : Balances \cup {Nothing}]
ImportRows == [key : Keys, view : Views, stamp : Nat, supersedes : Nat,
               corrects : Views \cup {Nothing}]

\* What happens, and which run has begun last when it does.
Events == [kind : {"change"}, key : Keys, status : Statuses, amount : Amounts, during : 0..MaxRuns]
          \cup [kind : {"balance", "day"}, during : 0..MaxRuns]

\* Null is none of the values it stands for the lack of.
ASSUME NothingAssumption ==
    /\ Nothing \notin Workers /\ Nothing \notin Views /\ Nothing \notin Balances
    /\ Nothing \notin Requests /\ Nothing \notin ImportRows

ASSUME FutureAssumption == Futures \subseteq Seq(Events)

VARIABLES
    day,             \* the date in Riga
    bank,            \* what the bank shows of a transaction
    balanceDay,      \* the reference date of the bank's booked balance, -1 if it has none
    future,          \* what is still to happen at the bank
    known,           \* enable_banking_source_revisions
    current,         \* the observation of a key with is_current
    balances,        \* enable_banking_balance_observations, as they were observed
    runs,            \* enable_banking_runs of kind sync, with their receipts
    activeRun,       \* active_run_id, 0 if null
    lease,           \* lease_id, by the worker it was given to
    leaseLive,       \* lease_expires_at lies in the future
    proven,          \* transaction_identity_verified_at is set
    plan,            \* the activation plan the owner has been shown
    activated,       \* owner_activated_at and the opening balance evidence
    imports,         \* enable_banking_canonical_imports and the entries they made
    snapshots,       \* account_balance_snapshots by the start of their day
    reconciliation,  \* the newest enable_banking_balance_reconciliations row
    command,         \* the canonical command of a run, by its request
    clock,           \* starting times given to commands
    worker,          \* control state of the syncs and what they have read
    faults,          \* crashes, failures and leases outlived so far
    scanned,         \* history: the view of a key on the last page finalised
    returned,        \* history: keys seen to go back, to a revision or to pending
    late             \* history: a worker wrote after it had lost its lease

bankVars   == <<day, bank, balanceDay, future>>
scanVars   == <<known, current, scanned, returned>>
leaseVars  == <<activeRun, lease, leaseLive>>
ledgerVars == <<imports, snapshots, reconciliation, clock>>
ownerVars  == <<plan, activated>>
vars == <<bankVars, scanVars, leaseVars, ledgerVars, ownerVars, balances, runs, proven, command,
          worker, faults, late>>

-----------------------------------------------------------------------------
(***************************************************************************)
(* The bank. A transaction is pending or booked when it appears; it may be *)
(* corrected or cancelled later, and is not seen to disappear. A booked    *)
(* balance has a date only, and counts what is booked up to that date.     *)
(* What happens at the bank is a sequence of events that the syncs know    *)
(* nothing of; an instance says which ones.                                *)
(***************************************************************************)
Present(k)   == bank[k] # Nothing
IsBooked(v)  == v # Nothing /\ v.status = "booked"
BookedOn(d)  == {k \in Keys : IsBooked(bank[k]) /\ bank[k].date <= d}

PostedBalance ==
    IF balanceDay < 0 THEN Nothing
    ELSE [amount |-> Opening + MapThenSumSet(LAMBDA k : bank[k].amount, BookedOn(balanceDay)),
          day |-> balanceDay]

\* A booking is dated; what follows it keeps the date.
DateOf(k) == IF Present(k) /\ bank[k].status # "pending" THEN bank[k].date ELSE day

Due           == future # <<>> /\ Head(future).during <= Len(runs)
Happens(kind) == Due /\ Head(future).kind = kind

\* A run that is under way can no longer be expected to see what has changed.
BankChanges ==
    LET e == Head(future) IN
    /\ Happens("change")
    /\ bank' = [bank EXCEPT ![e.key] = [status |-> e.status, amount |-> e.amount,
                                        date |-> DateOf(e.key)]]
    /\ runs' = [r \in DOMAIN runs |->
                   IF runs[r].status = "running"
                   THEN [runs[r] EXCEPT !.expected = {x \in @ : x.key # e.key}] ELSE runs[r]]
    /\ future' = Tail(future)
    /\ UNCHANGED <<day, balanceDay, scanVars, leaseVars, ledgerVars, ownerVars, balances, proven,
                   command, worker, faults, late>>

BankPostsBalance ==
    /\ Happens("balance")
    /\ balanceDay' = day
    /\ future' = Tail(future)
    /\ UNCHANGED <<day, bank, scanVars, leaseVars, ledgerVars, ownerVars, balances, runs,
                   proven, command, worker, faults, late>>

DayPasses ==
    /\ Happens("day")
    /\ day < MaxDay
    /\ day' = day + 1
    /\ future' = Tail(future)
    /\ UNCHANGED <<bank, balanceDay, scanVars, leaseVars, ledgerVars, ownerVars, balances,
                   runs, proven, command, worker, faults, late>>

-----------------------------------------------------------------------------
(***************************************************************************)
(* Beginning a run. A run whose worker died is resumed at its cursor; its  *)
(* receipts that were stored and not processed come first.                 *)
(***************************************************************************)
Idle == [pc |-> "idle", run |-> 0, cursor |-> 0, receipt |-> 0, pending |-> <<>>, started |-> 0,
         balance |-> Nothing, records |-> Nothing, from |-> Nothing, through |-> Nothing,
         stamp |-> 0]

Running(w)    == worker[w].pc # "idle"
HoldsLease(w) == lease = w /\ activeRun = worker[w].run
Set(w, next)  == worker' = [worker EXCEPT ![w] = next]
MayFail(from) == faults < MaxFaults /\ Len(runs) >= from
Go(w, pc)     == Set(w, [worker[w] EXCEPT !.pc = pc])

\* Mutant: a new run goes on at the cursor of the last one.
NewRunAtOldCursor ==
    [status |-> "running", cursor |-> IF runs = <<>> THEN 0 ELSE runs[Len(runs)].cursor,
     receipts |-> <<>>, from |-> Nothing, through |-> Nothing,
     expected |-> {[key |-> k, view |-> bank[k]] : k \in {k \in Keys : IsBooked(bank[k])}}]

\* Cursor 0 is null: a scan from the first page.
NewRun == [status |-> "running", cursor |-> 0, receipts |-> <<>>, from |-> Nothing,
           through |-> Nothing,
           expected |-> {[key |-> k, view |-> bank[k]] : k \in {k \in Keys : IsBooked(bank[k])}}]

BeginSync(w) ==
    /\ ~ Running(w)
    /\ lease = Nothing \/ ~ leaseLive
    /\ IF activeRun # 0
       THEN /\ UNCHANGED <<runs, activeRun>>
            /\ Set(w, [Idle EXCEPT !.pc = "receipts", !.run = activeRun, !.started = day,
                                   !.cursor = runs[activeRun].cursor])
       ELSE /\ Len(runs) < MaxRuns /\ ~ Due
            /\ runs' = Append(runs, NewRun)
            /\ activeRun' = Len(runs')
            /\ Set(w, [Idle EXCEPT !.pc = "receipts", !.run = Len(runs'), !.started = day,
                                   !.cursor = runs'[Len(runs')].cursor])
    /\ lease' = w
    /\ leaseLive' = TRUE
    /\ UNCHANGED <<bankVars, scanVars, ledgerVars, ownerVars, balances, proven, command, faults,
                   late>>

ReceiptsOf(r) == runs[r].receipts
Received(r)   == {i \in DOMAIN ReceiptsOf(r) : ReceiptsOf(r)[i] # Nothing}

LoadPendingReceipts(w) ==
    /\ worker[w].pc = "receipts"
    /\ Set(w, [worker[w] EXCEPT !.pc = "resume",
                                !.pending = SelectSeq([i \in DOMAIN ReceiptsOf(worker[w].run) |-> i],
                                                      LAMBDA i : i \in Received(worker[w].run))])
    /\ UNCHANGED <<bankVars, scanVars, leaseVars, ledgerVars, ownerVars, balances, runs, proven,
                   command, faults, late>>
-----------------------------------------------------------------------------
(***************************************************************************)
(* Finalising a page: a revision that was seen before is a replay and      *)
(* keeps the flags it has, so that a transaction that goes back to an      *)
(* earlier revision has no current observation. The receipt must still be  *)
(* pending.                                                                *)
(***************************************************************************)
IsKnown(k, v) == \E e \in known : e.key = k /\ e.view = v
Seen(e, p)    == e.key \in DOMAIN p /\ p[e.key] = e.view

Revisions(p, r) ==
    {IF Seen(e, p) THEN [e EXCEPT !.run = r] ELSE e : e \in known}
    \cup {[key |-> k, view |-> p[k], run |-> r, first |-> 0, replay |-> 0] :
            k \in {k \in DOMAIN p : ~ IsKnown(k, p[k])}}

\* Mutant: the observation that a revision replaces stays current.
ObservationsKeptCurrent(p) ==
    [k \in Keys |-> IF k \in DOMAIN p /\ current[k] = Nothing THEN p[k] ELSE current[k]]

Observations(p) ==
    [k \in Keys |-> CASE k \notin DOMAIN p \/ (k \in DOMAIN p /\ current[k] = p[k]) -> current[k]
                      [] k \in DOMAIN p /\ current[k] # p[k] /\ IsKnown(k, p[k]) -> Nothing
                      [] OTHER -> p[k]]

\* Mutant: the last page leaves its number behind.
CursorAfterAnyPage(page) == page

CursorAfter(page) == IF page < Pages THEN page ELSE 0

\* To an earlier revision; or to pending, when it is in the ledger already.
GoesBack(k, v) ==
    /\ v # current[k]
    /\ IsKnown(k, v) \/ (v.status = "pending" /\ \E i \in imports : i.key = k)

FinalizeReceipt(r, i) ==
    LET receipt == ReceiptsOf(r)[i]
        p       == receipt.content
    IN  /\ known' = Revisions(p, r)
        /\ current' = Observations(p)
        /\ scanned' = [k \in Keys |-> IF k \in DOMAIN p THEN p[k] ELSE scanned[k]]
        /\ returned' = returned \cup {k \in DOMAIN p : GoesBack(k, p[k])}
        /\ runs' = [runs EXCEPT ![r].receipts[i] = Nothing,
                                ![r].cursor = CursorAfter(receipt.page)]

\* Whether more pages follow a pending receipt is ignored: the scan goes on at its cursor.
ProcessPendingReceipt(w) ==
    LET i == Head(worker[w].pending) IN
    /\ worker[w].pc = "resume" /\ worker[w].pending # <<>>
    /\ i \in Received(worker[w].run)
    /\ FinalizeReceipt(worker[w].run, i)
    /\ Set(w, [worker[w] EXCEPT !.pending = Tail(@), !.receipt = i,
                   !.cursor = CursorAfter(ReceiptsOf(worker[w].run)[i].page)])
    /\ late' = (late \/ ~ HoldsLease(w))
    /\ UNCHANGED <<bankVars, leaseVars, ledgerVars, ownerVars, balances, proven, command, faults>>

\* The session and the booked balance, before the pages. A balance known already is kept as it is.
ReadBalance(w) ==
    /\ worker[w].pc = "resume" /\ worker[w].pending = <<>>
    /\ balances' = IF PostedBalance = Nothing \/ \E i \in DOMAIN balances : balances[i] = PostedBalance
                   THEN balances ELSE Append(balances, PostedBalance)
    /\ Set(w, [worker[w] EXCEPT !.pc = "scan", !.balance = PostedBalance])
    /\ UNCHANGED <<bankVars, scanVars, leaseVars, ledgerVars, ownerVars, runs, proven, command,
                   faults, late>>

RenewLease(w) ==
    /\ worker[w].pc = "scan" /\ HoldsLease(w)
    /\ leaseLive' = TRUE
    /\ Go(w, "fetch")
    /\ UNCHANGED <<bankVars, scanVars, activeRun, lease, ledgerVars, ownerVars, balances, runs,
                   proven, command, faults, late>>

PageContent(page) ==
    [k \in {k \in Keys : PageOf[k] = page /\ Present(k)} |-> bank[k]]

\* The client stores the response before anything looks at it.
FetchPage(w) ==
    LET page == worker[w].cursor + 1 IN
    /\ worker[w].pc = "fetch"
    /\ runs' = [runs EXCEPT ![worker[w].run].receipts =
                    Append(@, [page |-> page, content |-> PageContent(page)])]
    /\ Set(w, [worker[w] EXCEPT !.pc = "page", !.receipt = Len(ReceiptsOf(worker[w].run)) + 1])
    /\ UNCHANGED <<bankVars, scanVars, leaseVars, ledgerVars, ownerVars, balances, proven, command,
                   faults, late>>

FinalizePage(w) ==
    LET i    == worker[w].receipt
        page == ReceiptsOf(worker[w].run)[i].page
    IN  /\ worker[w].pc = "page"
        /\ i \in Received(worker[w].run)
        /\ FinalizeReceipt(worker[w].run, i)
        /\ Set(w, [worker[w] EXCEPT !.cursor = CursorAfter(page),
                                    !.pc = IF page < Pages THEN "scan" ELSE "records"])
        /\ late' = (late \/ ~ HoldsLease(w))
        /\ UNCHANGED <<bankVars, leaseVars, ledgerVars, ownerVars, balances, proven, command,
                       faults>>

-----------------------------------------------------------------------------
(***************************************************************************)
(* After the pages: every current observation, and as coverage the time    *)
(* from the first booking this run has seen last until now.                *)
(***************************************************************************)
BookedDates(r) == {e.view.date : e \in {e \in known : e.run = r /\ IsBooked(e.view)}}

ReadRecords(w) ==
    LET dates == BookedDates(worker[w].run) IN
    /\ worker[w].pc = "records"
    /\ Set(w, [worker[w] EXCEPT !.pc = "ready", !.records = current,
                                !.from = IF dates = {} THEN Nothing ELSE Min(dates),
                                !.through = IF dates = {} THEN Nothing ELSE day])
    /\ UNCHANGED <<bankVars, scanVars, leaseVars, ledgerVars, ownerVars, balances, runs, proven,
                   command, faults, late>>

Completed == {r \in DOMAIN runs : runs[r].status = "completed"}
Covered   == UNION {runs[r].from..runs[r].through :
                        r \in {r \in Completed : runs[r].from # Nothing}}

\* A booked revision seen in two completed scans.
Replayed(revisions) == \E e \in revisions : IsBooked(e.view) /\ e.first # 0 /\ e.replay # 0

ImportAllowed == activated /\ Completed # {} /\ proven /\ Replayed(known) /\ Covered # {}

CheckReadiness(w) ==
    /\ worker[w].pc = "ready"
    /\ IF ImportAllowed
       THEN /\ clock' = clock + 1
            /\ Set(w, [worker[w] EXCEPT !.pc = "command", !.stamp = clock'])
       ELSE /\ UNCHANGED clock
            /\ Go(w, "complete")
    /\ UNCHANGED <<bankVars, scanVars, leaseVars, imports, snapshots, reconciliation, ownerVars,
                   balances, runs, proven, command, faults, late>>

-----------------------------------------------------------------------------
(***************************************************************************)
(* The batch of a command. An import is one revision of a transaction; it  *)
(* supersedes the newest import of the same transaction, as the starting   *)
(* times of their commands tell, and compensates it if it was booked.      *)
(* What an import and its compensation put on the account is kept with it. *)
(***************************************************************************)
ImportsOf(k) == {i \in imports : i.key = k}
\* Mutant: the oldest import is taken for the newest.
Oldest(k)    == IF ImportsOf(k) = {} THEN Nothing
                ELSE CHOOSE i \in ImportsOf(k) : \A j \in ImportsOf(k) : i.stamp <= j.stamp
Newest(k)    == IF ImportsOf(k) = {} THEN Nothing
                ELSE CHOOSE i \in ImportsOf(k) : \A j \in ImportsOf(k) : j.stamp <= i.stamp
Already(k, v) == \E i \in ImportsOf(k) : i.view = v

Compensated(previous) ==
    IF previous # Nothing /\ IsBooked(previous.view) THEN previous.view ELSE Nothing

NewImports(records, stamp) ==
    {[key |-> r.key, view |-> r.view, stamp |-> stamp,
      supersedes |-> IF Newest(r.key) = Nothing THEN 0 ELSE Newest(r.key).stamp,
      corrects |-> Compensated(Newest(r.key))] :
        r \in {r \in records : /\ ~ Already(r.key, r.view)
                               /\ IsBooked(r.view) \/ Newest(r.key) # Nothing}}

Entry(v, d) == IF IsBooked(v) /\ v.date <= d THEN v.amount ELSE 0

\* The booked entries of the account dated up to d.
LedgerAt(rows, d) ==
    Opening + MapThenSumSet(LAMBDA i : Entry(i.view, d) - Entry(i.corrects, d), rows)

Distance(a, b) == IF a <= b THEN b - a ELSE a - b

BalanceStatus(balance, rows, complete, pending, started) ==
    CASE started >= balance.day + 2 -> "provider_stale"
      [] started < balance.day + 2 /\ ~ complete -> "incomplete_history"
      [] started < balance.day + 2 /\ complete /\ pending -> "unresolved_pending"
      [] OTHER -> IF Distance(balance.amount, LedgerAt(rows, balance.day)) > Threshold
                  THEN "material_mismatch" ELSE "reconciled"

AppendCanonicalBatch(records, balance, complete, pending, started, stamp) ==
    /\ imports' = imports \cup NewImports(records, stamp)
    /\ snapshots' = IF balance = Nothing \/ \E s \in snapshots : s.day = balance.day
                    THEN snapshots ELSE snapshots \cup {balance}
    /\ reconciliation' =
         IF balance = Nothing \/ (reconciliation # Nothing /\ reconciliation.stamp > stamp)
         THEN reconciliation
         ELSE [day |-> balance.day, stamp |-> stamp,
               difference |-> balance.amount - LedgerAt(imports', balance.day),
               status |-> BalanceStatus(balance, imports', complete, pending, started)]

Importable(records) ==
    {[key |-> k, view |-> records[k]] :
        k \in {k \in Keys : records[k] # Nothing /\ records[k].status \in {"booked", "cancelled"}}}

PendingIn(records) == \E k \in Keys : records[k] # Nothing /\ records[k].status = "pending"

\* The command has the key of its run: repeated with the same request it is a replay, with
\* another one it is refused. Nothing asks whether the worker still holds the lease.
RunCommand(w) ==
    LET me      == worker[w]
        request == [records |-> Importable(me.records), balance |-> me.balance]
    IN  /\ me.pc = "command"
        /\ \/ /\ command[me.run] = Nothing
              /\ AppendCanonicalBatch(request.records, me.balance, me.from # Nothing,
                                      PendingIn(me.records), me.started, me.stamp)
              /\ command' = [command EXCEPT ![me.run] = request]
           \/ command[me.run] = request /\ UNCHANGED <<imports, snapshots, reconciliation, command>>
        /\ Go(w, "complete")
        /\ late' = (late \/ ~ HoldsLease(w))
        /\ UNCHANGED <<bankVars, scanVars, leaseVars, clock, ownerVars, balances, runs, proven,
                       faults>>

-----------------------------------------------------------------------------
(***************************************************************************)
(* Completion and failure. Only a completed run gives coverage and proof:  *)
(* a booked revision whose receipt is of this run is seen for the first    *)
(* time, or again if a completed run had seen it.                          *)
(***************************************************************************)
CompletionProof(r) ==
    {IF e.run = r /\ IsBooked(e.view)
     THEN [e EXCEPT !.first = IF @ = 0 THEN r ELSE @, !.replay = IF e.first \notin {0, r} THEN r ELSE 0]
     ELSE e : e \in known}

ReleaseLease == activeRun' = 0 /\ lease' = Nothing /\ leaseLive' = FALSE

CompleteSync(w) ==
    LET me == worker[w] IN
    /\ me.pc = "complete" /\ HoldsLease(w)
    /\ ReleaseLease
    /\ known' = CompletionProof(me.run)
    /\ runs' = [runs EXCEPT ![me.run].status = "completed", ![me.run].cursor = 0,
                            ![me.run].from = me.from, ![me.run].through = me.through]
    /\ proven' = Replayed(known')
    /\ Set(w, Idle)
    /\ UNCHANGED <<bankVars, current, scanned, returned, ledgerVars, ownerVars, balances, command,
                   faults, late>>

\* The last receipt fails with the run if it is still pending; a run whose lease another worker
\* has taken is left alone.
FailRun(w) ==
    LET me == worker[w]
        marked == IF me.receipt = 0 THEN runs ELSE [runs EXCEPT ![me.run].receipts[me.receipt] = Nothing]
    IN  /\ IF HoldsLease(w)
           THEN /\ ReleaseLease
                /\ runs' = [marked EXCEPT ![me.run].status = "failed"]
           ELSE /\ UNCHANGED leaseVars
                /\ runs' = marked
        /\ Set(w, Idle)
        /\ UNCHANGED <<bankVars, scanVars, ledgerVars, ownerVars, balances, proven, command, late>>

LeaseLost(w) ==
    worker[w].pc \in {"scan", "complete"} /\ ~ HoldsLease(w) /\ FailRun(w) /\ UNCHANGED faults

ReceiptAlreadyProcessed(w) ==
    /\ \/ worker[w].pc = "page" /\ worker[w].receipt \notin Received(worker[w].run)
       \/ /\ worker[w].pc = "resume" /\ worker[w].pending # <<>>
          /\ Head(worker[w].pending) \notin Received(worker[w].run)
    /\ FailRun(w)
    /\ UNCHANGED faults

PayloadConflict(w) ==
    /\ worker[w].pc = "command"
    /\ command[worker[w].run] \notin
          {Nothing, [records |-> Importable(worker[w].records), balance |-> worker[w].balance]}
    /\ FailRun(w)
    /\ UNCHANGED faults

\* The provider or a statement fails. The settings a command needs may be missing, too.
SyncFails(w) ==
    /\ Running(w) /\ MayFail(FaultsFrom)
    /\ faults' = faults + 1
    /\ FailRun(w)

Crash(w) ==
    /\ Running(w) /\ MayFail(FaultsFrom)
    /\ faults' = faults + 1
    /\ Set(w, Idle)
    /\ UNCHANGED <<bankVars, scanVars, leaseVars, ledgerVars, ownerVars, balances, runs, proven,
                   command, late>>

\* The lease passes because its holder died, or because its holder takes too long.
LeaseExpires ==
    /\ leaseLive
    /\ \/ ~ Running(lease) /\ UNCHANGED faults
       \/ Running(lease) /\ MayFail(StallsFrom) /\ faults' = faults + 1
    /\ leaseLive' = FALSE
    /\ UNCHANGED <<bankVars, scanVars, activeRun, lease, ledgerVars, ownerVars, balances, runs,
                   proven, command, worker, late>>

-----------------------------------------------------------------------------
(***************************************************************************)
(* Activation. The owner is shown a plan made from the opening balance of  *)
(* an official statement and what has been observed, and confirms it. The  *)
(* command makes the plan anew. A plan that is blocked is not kept: only   *)
(* its fingerprint could be confirmed, and a later plan has the same. Once *)
(* confirmed it is of no more use.                                         *)
(***************************************************************************)
BookedKeys == {k \in Keys : IsBooked(current[k])}

\* The balance of the latest date; of several of one date the one observed last.
LatestBalance ==
    LET latest == Max({balances[i].day : i \in DOMAIN balances})
    IN  balances[Max({i \in DOMAIN balances : balances[i].day = latest})]

ClosedInterval(S) == S # {} /\ S = Min(S)..Max(S)

CoverageComplete(e, cutoff) ==
    /\ ClosedInterval(Covered)
    /\ Min(Covered) = e.from
    /\ Max(Covered) >= e.through
    /\ Max(Covered) >= cutoff

Movement == MapThenSumSet(LAMBDA k : current[k].amount, BookedKeys)

PlanReady(e) ==
    /\ ~ activated /\ imports = {}
    /\ Completed # {} /\ proven /\ Replayed(known)
    /\ balances # <<>>
    /\ CoverageComplete(e, LatestBalance.day)
    /\ \A k \in BookedKeys : current[k].date <= LatestBalance.day
    /\ Opening + Movement = LatestBalance.amount

PlanFor(e) == [evidence |-> e, balance |-> LatestBalance,
               observed |-> {[key |-> k, view |-> current[k]] : k \in BookedKeys}]

Evidence == {e \in [from : Days, through : Days] : e.from <= e.through /\ e.through <= day}

PrepareActivation(e) ==
    /\ PlanReady(e)
    /\ plan' = PlanFor(e)
    /\ UNCHANGED <<bankVars, scanVars, leaseVars, ledgerVars, activated, balances, runs, proven,
                   command, worker, faults, late>>

\* Mutant: a plan is confirmed whatever has been observed since.
AnyPlan  == plan # Nothing
SamePlan == plan = PlanFor(plan.evidence)

ActivateImport ==
    /\ plan # Nothing
    /\ PlanReady(plan.evidence)
    /\ SamePlan
    /\ BookedKeys # {}    \* enable_banking_opening_balance_count_ck
    /\ clock' = clock + 1
    /\ AppendCanonicalBatch(PlanFor(plan.evidence).observed, LatestBalance, TRUE,
                            PendingIn(current), day, clock')
    /\ reconciliation'.difference = 0
    /\ activated' = TRUE
    /\ plan' = Nothing
    /\ UNCHANGED <<bankVars, scanVars, leaseVars, balances, runs, proven, command, worker,
                   faults, late>>

-----------------------------------------------------------------------------
Init ==
    /\ day = 0 /\ balanceDay = -1 /\ future \in Futures
    /\ bank = [k \in Keys |-> Nothing]
    /\ known = {} /\ current = [k \in Keys |-> Nothing]
    /\ scanned = [k \in Keys |-> Nothing] /\ returned = {}
    /\ balances = <<>> /\ runs = <<>> /\ proven = FALSE
    /\ activeRun = 0 /\ lease = Nothing /\ leaseLive = FALSE
    /\ plan = Nothing /\ activated = FALSE
    /\ imports = {} /\ snapshots = {} /\ reconciliation = Nothing /\ clock = 0
    /\ command = [r \in 1..MaxRuns |-> Nothing]
    /\ worker = [w \in Workers |-> Idle]
    /\ faults = 0 /\ late = FALSE

WorkerStep(w) ==
    \/ BeginSync(w)
    \/ LoadPendingReceipts(w)
    \/ ProcessPendingReceipt(w)
    \/ ReadBalance(w)
    \/ RenewLease(w)
    \/ FetchPage(w)
    \/ FinalizePage(w)
    \/ ReadRecords(w)
    \/ CheckReadiness(w)
    \/ RunCommand(w)
    \/ CompleteSync(w)
    \/ LeaseLost(w)
    \/ ReceiptAlreadyProcessed(w)
    \/ PayloadConflict(w)
    \/ SyncFails(w)
    \/ Crash(w)

Next ==
    \/ BankChanges
    \/ BankPostsBalance
    \/ DayPasses
    \/ \E w \in Workers : WorkerStep(w)
    \/ LeaseExpires
    \/ \E e \in Evidence : PrepareActivation(e)
    \/ ActivateImport

Spec == Init /\ [][Next]_vars

-----------------------------------------------------------------------------
(***************************************************************************)
(* Type correctness: enable_banking_* tables, and the places of a sync.    *)
(***************************************************************************)
ViewOrNothing == Views \cup {Nothing}
Contents  == UNION {[S -> Views] : S \in SUBSET Keys}
Receipts  == [page : 1..Pages, content : Contents] \cup {Nothing}
WorkerPCs == {"idle", "receipts", "resume", "scan", "fetch", "page", "records", "ready",
              "command", "complete"}

TypeOK ==
    /\ day \in Days /\ balanceDay \in -1..day /\ future \in Seq(Events)
    /\ bank \in [Keys -> ViewOrNothing]
    /\ \A e \in known : e.key \in Keys /\ e.view \in Views /\ e.run \in DOMAIN runs
                        /\ e.first \in 0..Len(runs) /\ e.replay \in 0..Len(runs)
    /\ current \in [Keys -> ViewOrNothing] /\ scanned \in [Keys -> ViewOrNothing]
    /\ returned \subseteq Keys
    /\ balances \in Seq(Balances)
    /\ Len(runs) <= MaxRuns
    /\ \A r \in DOMAIN runs :
          /\ runs[r].status \in {"running", "completed", "failed"}
          /\ runs[r].cursor \in 0..Pages - 1
          /\ runs[r].receipts \in Seq(Receipts)
          /\ runs[r].expected \subseteq Records
          /\ runs[r].from \in Days \cup {Nothing} /\ runs[r].through \in Days \cup {Nothing}
    /\ activeRun \in 0..Len(runs) /\ lease \in Workers \cup {Nothing}
    /\ leaseLive \in BOOLEAN /\ proven \in BOOLEAN /\ activated \in BOOLEAN /\ late \in BOOLEAN
    /\ activeRun # 0 => runs[activeRun].status = "running"
    /\ imports \subseteq ImportRows
    /\ \A i \in imports : i.stamp \in 1..clock /\ i.supersedes \in 0..clock
    /\ snapshots \subseteq Balances
    /\ \A w \in Workers : worker[w].pc \in WorkerPCs /\ worker[w].run \in 0..Len(runs)
                          /\ worker[w].cursor \in 0..Pages - 1
    /\ faults \in 0..MaxFaults

\* What all imports of a transaction have put on the account together.
NetEffect(k) ==
    MapThenSumSet(LAMBDA i : Entry(i.view, MaxDay) - Entry(i.corrects, MaxDay), ImportsOf(k))

(***************************************************************************)
(* Once a sync has run its command, the account holds of every transaction *)
(* just what the bank showed of it last: corrections are compensated, a    *)
(* cancellation leaves nothing, a pending transaction leaves nothing. Two  *)
(* things the code does not withstand are excepted: a transaction that was *)
(* seen to go back, to an earlier revision or from an import to pending,   *)
(* as an old receipt processed late can show it, and a worker that wrote   *)
(* although it had lost its lease (appendEnableBankingCanonicalBatch).     *)
(***************************************************************************)
LedgerFollowsTheBank ==
    \A w \in Workers :
        worker[w].pc = "complete" /\ worker[w].stamp # 0 /\ HoldsLease(w) /\ ~ late
            => \A k \in Keys \ returned :
                  NetEffect(k) = IF IsBooked(scanned[k]) THEN scanned[k].amount ELSE 0

(***************************************************************************)
(* No import is superseded, and so compensated, twice: the imports of a    *)
(* transaction are a chain (lineage lookup by createdAt).                  *)
(***************************************************************************)
CorrectedOnce ==
    late \/ \A i, j \in imports :
               i.key = j.key /\ i # j => i.supersedes # j.supersedes /\ i.view # j.view

(***************************************************************************)
(* Coverage claimed by a completed run is real: a transaction that was     *)
(* booked when the run began, and has not changed while it ran, has been   *)
(* observed if its date is covered. Crashes, resumptions and workers that  *)
(* lost their lease do not make a scan skip a page (docs/DATA_MODEL.md).   *)
(***************************************************************************)
CoverageIsScanned ==
    \A r \in Completed : runs[r].from # Nothing =>
        \A e \in runs[r].expected :
            e.view.date \in runs[r].from..runs[r].through => IsKnown(e.key, e.view)

(***************************************************************************)
(* Activation imports the plan the owner has confirmed, all of it and      *)
(* nothing else, and the account then agrees with the balance that was     *)
(* shown (executeEnableBankingInitialActivation).                          *)
(***************************************************************************)
ConfirmedIsImported ==
    [][activated' # activated =>
          /\ {[key |-> i.key, view |-> i.view] : i \in imports'} = plan.observed
          /\ LedgerAt(imports', plan.balance.day) = plan.balance.amount]_vars

=============================================================================
