-------------------------- MODULE BankImportProofs --------------------------
(***************************************************************************)
(* Theorems about BankImport: the coverage a completed run claims is real. *)
(* The pages of a run are fetched, stored and finalised by several         *)
(* workers, one of which may have died between any two of these steps, or  *)
(* may go on although it has lost its lease, while the bank changes.       *)
(***************************************************************************)
EXTENDS BankImport, SequenceTheorems, TLAPS

-----------------------------------------------------------------------------
(* The inductive invariant                                                 *)

KnownIn(e, K)  == \E x \in K : x.key = e.key /\ x.view = e.view
AllKnown(E, K) == \A e \in E : KnownIn(e, K)

\* What is expected on the first c pages has been seen.
UpTo(E, c, K) == \A e \in E : PageOf[e.key] <= c => KnownIn(e, K)

(***************************************************************************)
(* A stored receipt shows what is expected on its page, and was fetched    *)
(* when the pages before it had been seen.                                 *)
(***************************************************************************)
ReceiptCovers(x, E, K) ==
    x # Nothing =>
        /\ UpTo(E, x.page - 1, K)
        /\ \A e \in E : PageOf[e.key] = x.page => Seen(e, x.content)

ShownBy(b, E) == \A e \in E : e.key \in Keys /\ e.view # Nothing /\ b[e.key] = e.view

RunCovers(v, K, b) ==
    /\ v.status = "running" =>
          /\ ShownBy(b, v.expected)
          /\ UpTo(v.expected, v.cursor, K)
          /\ \A i \in DOMAIN v.receipts : ReceiptCovers(v.receipts[i], v.expected, K)
    /\ v.status = "completed" => AllKnown(v.expected, K)

AfterPages == {"records", "ready", "command", "complete"}

WorkerCovers(u, rs, K) ==
    u.pc # "idle" /\ rs[u.run].status = "running" =>
        /\ UpTo(rs[u.run].expected, u.cursor, K)
        /\ u.pc \in AfterPages => AllKnown(rs[u.run].expected, K)

(***************************************************************************)
(* What the steps rely on of the shape of the state.                       *)
(***************************************************************************)
IsSequence(s) == s \in Seq({s[i] : i \in DOMAIN s})

RunFields    == {"status", "cursor", "receipts", "from", "through", "expected"}
KnownFields  == {"key", "view", "run", "first", "replay"}

RunShape(v) ==
    /\ DOMAIN v = RunFields
    /\ v.cursor \in 0..Pages - 1
    /\ IsSequence(v.receipts)
    /\ \A i \in DOMAIN v.receipts : v.receipts[i] # Nothing => v.receipts[i].page \in 1..Pages

WorkerShape(u, rs) ==
    /\ DOMAIN u = DOMAIN Idle
    /\ u.cursor \in 0..Pages - 1
    /\ u.pc # "idle" => u.run \in DOMAIN rs

ActiveShape(r, rs) == r # 0 => r \in DOMAIN rs /\ rs[r].status = "running"

RunsShaped    == IsSequence(runs) /\ \A r \in DOMAIN runs : RunShape(runs[r])
WorkersShaped == DOMAIN worker = Workers /\ \A w \in Workers : WorkerShape(worker[w], runs)
KnownShaped   == \A x \in known : DOMAIN x = KnownFields
BankShaped    == DOMAIN bank = Keys
Shape         == RunsShaped /\ WorkersShaped /\ KnownShaped /\ BankShaped
                 /\ ActiveShape(activeRun, runs)

RunsCover    == \A r \in DOMAIN runs : RunCovers(runs[r], known, bank)
WorkersCover == \A w \in Workers : WorkerCovers(worker[w], runs, known)

CoverInv == Shape /\ RunsCover /\ WorkersCover

-----------------------------------------------------------------------------
(* Sequences of anything                                                   *)

(***************************************************************************)
(* A function on the domain of a sequence is a sequence.                   *)
(***************************************************************************)
LEMMA SameDomain ==
    ASSUME NEW s, IsSequence(s), NEW t, DOMAIN t = DOMAIN s, t = [i \in DOMAIN t |-> t[i]]
    PROVE  IsSequence(t)
<1> DEFINE T == {t[i] : i \in DOMAIN t}
<1>1. PICK n \in Nat : DOMAIN s = 1..n
  BY LenProperties DEF IsSequence
<1>2. t \in [1..n -> T] BY <1>1
<1>3. t \in Seq(T) BY <1>1, <1>2, SeqDef
<1> QED BY <1>3 DEF IsSequence

(***************************************************************************)
(* What is appended to a sequence is its last element, and the others      *)
(* stay.                                                                   *)
(***************************************************************************)
LEMMA AppendShape ==
    ASSUME NEW s, IsSequence(s), NEW e
    PROVE  /\ IsSequence(Append(s, e))
           /\ Len(s) \in Nat /\ DOMAIN s = 1..Len(s)
           /\ Len(Append(s, e)) = Len(s) + 1
           /\ DOMAIN Append(s, e) = DOMAIN s \cup {Len(s) + 1}
           /\ \A i \in DOMAIN s : Append(s, e)[i] = s[i]
           /\ Append(s, e)[Len(s) + 1] = e
<1> DEFINE S == {s[i] : i \in DOMAIN s}
           T == S \cup {e}
           t == Append(s, e)
<1>1. s \in Seq(S) BY DEF IsSequence
<1>2. Len(s) \in Nat /\ DOMAIN s = 1..Len(s) /\ s \in [1..Len(s) -> S]
  BY <1>1, LenProperties
<1>3. s \in Seq(T)
  <2>1. s \in [1..Len(s) -> T] BY <1>2
  <2> QED BY <1>2, <2>1, SeqDef
<1> HIDE DEF S, T
<1>4. e \in T BY DEF T
<1>5. /\ t \in Seq(T) /\ Len(t) = Len(s) + 1
      /\ \A i \in 1..Len(s) : t[i] = s[i]
      /\ t[Len(s) + 1] = e
  BY <1>3, <1>4, AppendProperties
<1> HIDE DEF t
<1>6. DOMAIN t = 1..Len(t) /\ t \in [1..Len(t) -> T] BY <1>5, LenProperties
<1>7. DOMAIN t = DOMAIN s \cup {Len(s) + 1} BY <1>2, <1>5, <1>6
<1>8. IsSequence(t)
  <2> DEFINE U == {t[i] : i \in DOMAIN t}
  <2>1. t \in [1..Len(t) -> U] BY <1>6
  <2>2. Len(t) \in Nat BY <1>2, <1>5
  <2>3. t \in Seq(U) BY <2>1, <2>2, SeqDef
  <2> QED BY <2>3 DEF IsSequence
<1> QED BY <1>2, <1>5, <1>7, <1>8 DEF t

(***************************************************************************)
(* Writing an element of a sequence leaves a sequence.                     *)
(***************************************************************************)
LEMMA ExceptShape ==
    ASSUME NEW s, IsSequence(s), NEW i, NEW e
    PROVE  /\ IsSequence([s EXCEPT ![i] = e])
           /\ DOMAIN [s EXCEPT ![i] = e] = DOMAIN s
           /\ \A j \in DOMAIN s : [s EXCEPT ![i] = e][j] = IF j = i THEN e ELSE s[j]
<1>1. DOMAIN [s EXCEPT ![i] = e] = DOMAIN s OBVIOUS
<1>2. \A j \in DOMAIN s : [s EXCEPT ![i] = e][j] = IF j = i THEN e ELSE s[j] OBVIOUS
<1>3. [s EXCEPT ![i] = e] = [j \in DOMAIN [s EXCEPT ![i] = e] |-> [s EXCEPT ![i] = e][j]]
  <2>1. s = [j \in DOMAIN s |-> s[j]]
    BY LenProperties DEF IsSequence
  <2> QED BY <2>1, <1>1, <1>2
<1>4. IsSequence([s EXCEPT ![i] = e]) BY <1>1, <1>3, SameDomain
<1> QED BY <1>1, <1>2, <1>4

-----------------------------------------------------------------------------
(* What the steps write                                                    *)

(***************************************************************************)
(* A worker goes on where it is, and reaches what comes after the pages    *)
(* only from there.                                                        *)
(***************************************************************************)
Moves(w) ==
    /\ worker' = [worker EXCEPT ![w] = worker'[w]]
    /\ DOMAIN worker'[w] = DOMAIN Idle
    /\ worker'[w].run = worker[w].run
    /\ worker'[w].cursor = worker[w].cursor
    /\ worker[w].pc # "idle"
    /\ worker'[w].pc \in AfterPages => worker[w].pc \in AfterPages
    /\ UNCHANGED <<bank, known, runs, activeRun>>

Dies(w) == Set(w, Idle) /\ UNCHANGED <<bank, known, runs, activeRun>>

Fails(w) == FailRun(w) /\ UNCHANGED bank

Finalizes(w) == ProcessPendingReceipt(w) \/ FinalizePage(w)

(***************************************************************************)
(* The steps of a worker that only move it.                                *)
(***************************************************************************)
LEMMA MovingSteps ==
    ASSUME WorkersShaped, NEW w \in Workers,
           \/ LoadPendingReceipts(w) \/ ReadBalance(w) \/ RenewLease(w)
           \/ ReadRecords(w) \/ CheckReadiness(w) \/ RunCommand(w)
    PROVE  Moves(w)
<1>1. worker[w] \in {worker[w]} /\ DOMAIN worker = Workers /\ DOMAIN worker[w] = DOMAIN Idle
  BY DEF WorkersShaped, WorkerShape
<1>2. DOMAIN Idle = {"pc", "run", "cursor", "receipt", "pending", "started", "balance", "records",
                     "from", "through", "stamp"}
  BY DEF Idle
<1>3. UNCHANGED <<bank, known, runs, activeRun>>
  BY DEF LoadPendingReceipts, ReadBalance, RenewLease, ReadRecords, CheckReadiness, RunCommand,
         bankVars, scanVars, leaseVars
<1>4. CASE LoadPendingReceipts(w)
  BY <1>1, <1>2, <1>3, <1>4 DEF LoadPendingReceipts, Set, Moves, AfterPages
<1>5. CASE ReadBalance(w)
  BY <1>1, <1>2, <1>3, <1>5 DEF ReadBalance, Set, Moves, AfterPages
<1>6. CASE RenewLease(w)
  BY <1>1, <1>2, <1>3, <1>6 DEF RenewLease, Go, Set, Moves, AfterPages
<1>7. CASE ReadRecords(w)
  BY <1>1, <1>2, <1>3, <1>7 DEF ReadRecords, Set, Moves, AfterPages
<1>8. CASE CheckReadiness(w)
  BY <1>1, <1>2, <1>3, <1>8 DEF CheckReadiness, Go, Set, Moves, AfterPages
<1>9. CASE RunCommand(w)
  BY <1>1, <1>2, <1>3, <1>9 DEF RunCommand, Go, Set, Moves, AfterPages
<1> QED BY <1>4, <1>5, <1>6, <1>7, <1>8, <1>9

(***************************************************************************)
(* What a step does to the runs, what is known and the workers.            *)
(***************************************************************************)
LEMMA Steps ==
    ASSUME WorkersShaped, [Next]_vars
    PROVE  \/ UNCHANGED <<bank, known, runs, activeRun, worker>>
           \/ BankChanges
           \/ \E w \in Workers : \/ Moves(w) \/ Dies(w) \/ Fails(w) \/ Finalizes(w)
                                 \/ BeginSync(w) \/ FetchPage(w) \/ CompleteSync(w)
<1> DEFINE Goal == \/ UNCHANGED <<bank, known, runs, activeRun, worker>>
                   \/ BankChanges
                   \/ \E w \in Workers : \/ Moves(w) \/ Dies(w) \/ Fails(w) \/ Finalizes(w)
                                         \/ BeginSync(w) \/ FetchPage(w) \/ CompleteSync(w)
<1>1. CASE UNCHANGED vars
  BY <1>1 DEF vars, bankVars, scanVars, leaseVars
<1>2. CASE \/ BankPostsBalance \/ DayPasses \/ LeaseExpires \/ ActivateImport
           \/ \E e \in Evidence : PrepareActivation(e)
  BY <1>2 DEF BankPostsBalance, DayPasses, LeaseExpires, ActivateImport, PrepareActivation,
              bankVars, scanVars, leaseVars
<1>3. ASSUME NEW w \in Workers, WorkerStep(w) PROVE Goal
  <2>1. CASE Crash(w) BY <2>1 DEF Crash, Dies, bankVars, scanVars, leaseVars
  <2>2. CASE LeaseLost(w) \/ ReceiptAlreadyProcessed(w) \/ PayloadConflict(w) \/ SyncFails(w)
    <3>1. FailRun(w)
      BY <2>2 DEF LeaseLost, ReceiptAlreadyProcessed, PayloadConflict, SyncFails
    <3>2. UNCHANGED bank BY <3>1 DEF FailRun, bankVars
    <3> QED BY <3>1, <3>2 DEF Fails
  <2>3. CASE \/ LoadPendingReceipts(w) \/ ReadBalance(w) \/ RenewLease(w)
             \/ ReadRecords(w) \/ CheckReadiness(w) \/ RunCommand(w)
    BY <2>3, MovingSteps
  <2> QED BY <1>3, <2>1, <2>2, <2>3 DEF WorkerStep, Finalizes
<1> QED BY <1>1, <1>2, <1>3 DEF Next

-----------------------------------------------------------------------------
(* Runs and revisions                                                      *)

(***************************************************************************)
(* A run after one of its receipts has been finalised.                     *)
(***************************************************************************)
Finalized(r, i) == [runs[r] EXCEPT !.receipts[i] = Nothing,
                                   !.cursor = CursorAfter(runs[r].receipts[i].page)]

(***************************************************************************)
(* A finalised run keeps its status and what is expected of it, loses the  *)
(* receipt, and goes on after the receipt's page.                          *)
(***************************************************************************)
LEMMA FinalizedRun ==
    ASSUME RunsShaped, NEW r \in DOMAIN runs, NEW i \in Received(r)
    PROVE  LET v == Finalized(r, i) IN
           /\ RunShape(v)
           /\ v.status = runs[r].status /\ v.expected = runs[r].expected
           /\ v.from = runs[r].from /\ v.through = runs[r].through
           /\ v.cursor = CursorAfter(runs[r].receipts[i].page)
           /\ DOMAIN v.receipts = DOMAIN runs[r].receipts
           /\ v.receipts[i] = Nothing
           /\ \A j \in DOMAIN v.receipts : j # i => v.receipts[j] = runs[r].receipts[j]
<1> DEFINE page == runs[r].receipts[i].page
           v    == Finalized(r, i)
           R    == [runs[r].receipts EXCEPT ![i] = Nothing]
<1>1. RunShape(runs[r]) /\ i \in DOMAIN runs[r].receipts /\ runs[r].receipts[i] # Nothing
  BY DEF RunsShaped, Received, ReceiptsOf
<1>2. page \in 1..Pages BY <1>1 DEF RunShape
<1>3. CursorAfter(page) \in 0..Pages - 1
  BY <1>2, ImportAssumption DEF CursorAfter
<1>4. /\ IsSequence(R) /\ DOMAIN R = DOMAIN runs[r].receipts
      /\ \A j \in DOMAIN R : R[j] = IF j = i THEN Nothing ELSE runs[r].receipts[j]
  BY <1>1, ExceptShape DEF RunShape
<1>5. /\ DOMAIN v = RunFields /\ v.status = runs[r].status /\ v.expected = runs[r].expected
      /\ v.cursor = CursorAfter(page) /\ v.receipts = R
      /\ v.from = runs[r].from /\ v.through = runs[r].through
  BY <1>1 DEF RunShape, RunFields, Finalized
<1> HIDE DEF v, R, page
<1>6. \A j \in DOMAIN v.receipts : v.receipts[j] # Nothing => v.receipts[j].page \in 1..Pages
  BY <1>1, <1>4, <1>5 DEF RunShape
<1>7. RunShape(v) BY <1>3, <1>4, <1>5, <1>6 DEF RunShape
<1> QED BY <1>1, <1>4, <1>5, <1>7 DEF v, page

(***************************************************************************)
(* A worker that finalises writes its run so.                              *)
(***************************************************************************)
LEMMA Finalizing ==
    ASSUME WorkersShaped, NEW w \in Workers, Finalizes(w)
    PROVE  \E i \in Received(worker[w].run) :
              /\ worker[w].run \in DOMAIN runs
              /\ FinalizeReceipt(worker[w].run, i)
              /\ runs' = [runs EXCEPT ![worker[w].run] = Finalized(worker[w].run, i)]
              /\ worker' = [worker EXCEPT ![w] = worker'[w]]
              /\ DOMAIN worker'[w] = DOMAIN Idle
              /\ worker'[w].run = worker[w].run
              /\ worker'[w].cursor = CursorAfter(runs[worker[w].run].receipts[i].page)
              /\ worker'[w].pc \in AfterPages =>
                    ~ (runs[worker[w].run].receipts[i].page < Pages)
              /\ UNCHANGED <<bank, activeRun>>
<1> DEFINE r == worker[w].run
<1>1. /\ worker[w].pc # "idle" /\ UNCHANGED <<bank, activeRun>>
  BY DEF Finalizes, ProcessPendingReceipt, FinalizePage, bankVars, leaseVars
<1>2. /\ r \in DOMAIN runs /\ DOMAIN worker = Workers /\ DOMAIN worker[w] = DOMAIN Idle
  BY <1>1 DEF WorkersShaped, WorkerShape
<1>3. DOMAIN Idle = {"pc", "run", "cursor", "receipt", "pending", "started", "balance", "records",
                     "from", "through", "stamp"}
  BY DEF Idle
<1>4. ASSUME NEW i, FinalizeReceipt(r, i)
      PROVE  runs' = [runs EXCEPT ![r] = Finalized(r, i)]
  BY <1>4 DEF FinalizeReceipt, Finalized, ReceiptsOf
<1>5. CASE ProcessPendingReceipt(w)
  <2> DEFINE i == Head(worker[w].pending)
  <2>1. i \in Received(r) /\ FinalizeReceipt(r, i) BY <1>5 DEF ProcessPendingReceipt
  <2>2. /\ worker' = [worker EXCEPT ![w] = worker'[w]]
        /\ DOMAIN worker'[w] = DOMAIN Idle /\ worker'[w].run = r
        /\ worker'[w].cursor = CursorAfter(runs[r].receipts[i].page)
        /\ worker'[w].pc \notin AfterPages
    BY <1>2, <1>3, <1>5 DEF ProcessPendingReceipt, Set, ReceiptsOf, AfterPages
  <2> HIDE DEF i
  <2> QED BY <1>1, <1>2, <1>4, <2>1, <2>2
<1>6. CASE FinalizePage(w)
  <2> DEFINE i == worker[w].receipt
  <2>1. i \in Received(r) /\ FinalizeReceipt(r, i) BY <1>6 DEF FinalizePage
  <2>2. /\ worker' = [worker EXCEPT ![w] = worker'[w]]
        /\ DOMAIN worker'[w] = DOMAIN Idle /\ worker'[w].run = r
        /\ worker'[w].cursor = CursorAfter(runs[r].receipts[i].page)
        /\ worker'[w].pc \in AfterPages => ~ (runs[r].receipts[i].page < Pages)
    BY <1>2, <1>3, <1>6 DEF FinalizePage, Set, ReceiptsOf, AfterPages
  <2> HIDE DEF i
  <2> QED BY <1>1, <1>2, <1>4, <2>1, <2>2
<1> QED BY <1>5, <1>6 DEF Finalizes

(***************************************************************************)
(* What has been seen is never forgotten, and keeps its shape.             *)
(***************************************************************************)
LEMMA KnownGrows ==
    ASSUME KnownShaped, WorkersShaped, [Next]_vars
    PROVE  KnownShaped' /\ \A e : KnownIn(e, known) => KnownIn(e, known')
<1>1. CASE UNCHANGED known BY <1>1 DEF KnownShaped
<1>2. ASSUME NEW w \in Workers, CompleteSync(w)
      PROVE  KnownShaped' /\ \A e : KnownIn(e, known) => KnownIn(e, known')
  <2>1. known' = CompletionProof(worker[w].run) BY <1>2 DEF CompleteSync
  <2> DEFINE Seen2(e) == IF e.run = worker[w].run /\ IsBooked(e.view)
                         THEN [e EXCEPT !.first = IF @ = 0 THEN worker[w].run ELSE @,
                                        !.replay = IF e.first \notin {0, worker[w].run}
                                                   THEN worker[w].run ELSE 0]
                         ELSE e
  <2>2. known' = {Seen2(e) : e \in known} BY <2>1 DEF CompletionProof
  <2>3. \A x \in known : DOMAIN Seen2(x) = KnownFields /\ Seen2(x).key = x.key
                         /\ Seen2(x).view = x.view
    BY DEF KnownShaped, KnownFields
  <2> HIDE DEF Seen2
  <2> QED BY <2>2, <2>3 DEF KnownShaped, KnownIn
<1>3. ASSUME NEW w \in Workers, Finalizes(w)
      PROVE  KnownShaped' /\ \A e : KnownIn(e, known) => KnownIn(e, known')
  <2>1. PICK i \in Received(worker[w].run) : FinalizeReceipt(worker[w].run, i)
    BY <1>3, Finalizing
  <2> DEFINE p == ReceiptsOf(worker[w].run)[i].content
             Marked(e) == IF Seen(e, p) THEN [e EXCEPT !.run = worker[w].run] ELSE e
             New == {[key |-> k, view |-> p[k], run |-> worker[w].run, first |-> 0, replay |-> 0] :
                        k \in {k \in DOMAIN p : ~ IsKnown(k, p[k])}}
  <2>2. known' = {Marked(e) : e \in known} \cup New
    BY <2>1 DEF FinalizeReceipt, Revisions
  <2>3. \A x \in known : DOMAIN Marked(x) = KnownFields /\ Marked(x).key = x.key
                         /\ Marked(x).view = x.view
    BY DEF KnownShaped, KnownFields
  <2>4. \A x \in New : DOMAIN x = KnownFields BY DEF KnownFields
  <2> HIDE DEF Marked, New
  <2> QED BY <2>2, <2>3, <2>4 DEF KnownShaped, KnownIn
<1>4. \/ UNCHANGED known \/ \E w \in Workers : CompleteSync(w) \/ Finalizes(w)
  BY Steps DEF BankChanges, Moves, Dies, Fails, FailRun, BeginSync, FetchPage, scanVars
<1> QED BY <1>1, <1>2, <1>3, <1>4

(***************************************************************************)
(* What a page shows is known once its receipt has been finalised.         *)
(***************************************************************************)
LEMMA PageKnown ==
    ASSUME KnownShaped, NEW r, NEW i, FinalizeReceipt(r, i)
    PROVE  \A e : Seen(e, runs[r].receipts[i].content) => KnownIn(e, known')
<1> DEFINE p == runs[r].receipts[i].content
           Marked(x) == IF Seen(x, p) THEN [x EXCEPT !.run = r] ELSE x
           New == {[key |-> k, view |-> p[k], run |-> r, first |-> 0, replay |-> 0] :
                      k \in {k \in DOMAIN p : ~ IsKnown(k, p[k])}}
<1>1. known' = {Marked(x) : x \in known} \cup New
  BY DEF FinalizeReceipt, Revisions, ReceiptsOf
<1>2. \A x \in known : Marked(x).key = x.key /\ Marked(x).view = x.view
  BY DEF KnownShaped, KnownFields
<1>3. ASSUME NEW e, Seen(e, p) PROVE KnownIn(e, known')
  <2>1. CASE IsKnown(e.key, e.view)
    <3>1. PICK x \in known : x.key = e.key /\ x.view = e.view BY <2>1 DEF IsKnown
    <3>2. Marked(x) \in known' /\ Marked(x).key = e.key /\ Marked(x).view = e.view
      BY <1>1, <1>2, <3>1
    <3> HIDE DEF Marked
    <3> QED BY <3>2 DEF KnownIn
  <2>2. CASE ~ IsKnown(e.key, e.view)
    <3> DEFINE x == [key |-> e.key, view |-> p[e.key], run |-> r, first |-> 0, replay |-> 0]
    <3>1. e.key \in DOMAIN p /\ p[e.key] = e.view BY <1>3 DEF Seen
    <3>2. x \in New BY <2>2, <3>1
    <3>3. x.key = e.key /\ x.view = e.view BY <3>1
    <3> HIDE DEF x, New, Marked
    <3> QED BY <1>1, <3>2, <3>3 DEF KnownIn
  <2> QED BY <2>1, <2>2
<1> QED BY <1>3

-----------------------------------------------------------------------------
(* What becomes of a run                                                   *)

(***************************************************************************)
(* A run may fail, lose receipts, and have less expected of it.            *)
(***************************************************************************)
Kept(u, v) ==
    /\ RunShape(v)
    /\ v.status \in {u.status, "failed"}
    /\ v.expected \subseteq u.expected
    /\ v.cursor = u.cursor /\ v.from = u.from /\ v.through = u.through
    /\ DOMAIN v.receipts = DOMAIN u.receipts
    /\ \A j \in DOMAIN v.receipts : v.receipts[j] \in {u.receipts[j], Nothing}

\* All runs but r are kept; what is expected of r does not grow, and r does not begin again.
Others(r) == \A q \in DOMAIN runs : q # r => Kept(runs[q], runs'[q])
Later(r)  == /\ runs'[r].expected \subseteq runs[r].expected
             /\ runs'[r].status = "running" => runs[r].status = "running"

(***************************************************************************)
(* A run that is left alone is kept.                                       *)
(***************************************************************************)
LEMMA Untouched == ASSUME RunsShaped PROVE \A q \in DOMAIN runs : Kept(runs[q], runs[q])
  BY DEF RunsShaped, Kept

(***************************************************************************)
(* What changes at the bank is no longer expected of the runs under way.   *)
(***************************************************************************)
LEMMA ChangeKeeps ==
    ASSUME RunsShaped, BankChanges
    PROVE  /\ RunsShaped' /\ DOMAIN runs' = DOMAIN runs
           /\ \A q \in DOMAIN runs : Kept(runs[q], runs'[q])
           /\ \A q \in DOMAIN runs : runs'[q].status = runs[q].status
<1>1. /\ DOMAIN runs' = DOMAIN runs
      /\ runs' = [r \in DOMAIN runs' |-> runs'[r]]
  BY DEF BankChanges
<1>2. ASSUME NEW q \in DOMAIN runs
      PROVE  Kept(runs[q], runs'[q]) /\ runs'[q].status = runs[q].status
  <2> DEFINE E == {x \in runs[q].expected : x.key # Head(future).key}
  <2>1. RunShape(runs[q]) BY DEF RunsShaped
  <2>2. \/ runs'[q] = runs[q]
        \/ runs'[q] = [runs[q] EXCEPT !.expected = E]
    BY DEF BankChanges
  <2>3. CASE runs'[q] = runs[q] BY <2>3, Untouched
  <2>4. CASE runs'[q] = [runs[q] EXCEPT !.expected = E]
    <3>1. /\ DOMAIN runs'[q] = RunFields /\ runs'[q].expected \subseteq runs[q].expected
          /\ runs'[q].status = runs[q].status /\ runs'[q].cursor = runs[q].cursor
          /\ runs'[q].receipts = runs[q].receipts
          /\ runs'[q].from = runs[q].from /\ runs'[q].through = runs[q].through
      BY <2>1, <2>4 DEF RunShape, RunFields
    <3> QED BY <2>1, <3>1 DEF RunShape, Kept
  <2> QED BY <2>2, <2>3, <2>4
<1>3. IsSequence(runs') BY <1>1, SameDomain DEF RunsShaped
<1> QED BY <1>1, <1>2, <1>3 DEF RunsShaped, Kept

(***************************************************************************)
(* A failure keeps all runs; only the worker's run may be marked failed.   *)
(***************************************************************************)
LEMMA FailureKeeps ==
    ASSUME RunsShaped, WorkersShaped, NEW w \in Workers, FailRun(w)
    PROVE  /\ RunsShaped' /\ DOMAIN runs' = DOMAIN runs
           /\ \A q \in DOMAIN runs : Kept(runs[q], runs'[q])
           /\ \A q \in DOMAIN runs : q # worker[w].run => runs'[q] = runs[q]
           /\ ~ HoldsLease(w) => \A q \in DOMAIN runs : runs'[q].status = runs[q].status
<1> DEFINE r == worker[w].run
           i == worker[w].receipt
           marked == IF i = 0 THEN runs ELSE [runs EXCEPT ![r].receipts[i] = Nothing]
<1>1. /\ DOMAIN marked = DOMAIN runs /\ IsSequence(marked)
      /\ \A q \in DOMAIN runs : Kept(runs[q], marked[q]) /\ marked[q].status = runs[q].status
      /\ \A q \in DOMAIN runs : q # r => marked[q] = runs[q]
  <2>1. CASE i = 0 BY <2>1, Untouched DEF RunsShaped
  <2>2. CASE i # 0
    <3> DEFINE R == [runs[r].receipts EXCEPT ![i] = Nothing]
               v == [runs[r] EXCEPT !.receipts[i] = Nothing]
    <3>1. marked = [runs EXCEPT ![r] = v] BY <2>2
    <3>2. IsSequence(runs) BY DEF RunsShaped
    <3>3. ASSUME r \in DOMAIN runs PROVE Kept(runs[r], v) /\ v.status = runs[r].status
      <4>1. RunShape(runs[r]) BY <3>3 DEF RunsShaped
      <4>2. /\ IsSequence(R) /\ DOMAIN R = DOMAIN runs[r].receipts
            /\ \A j \in DOMAIN R : R[j] \in {runs[r].receipts[j], Nothing}
        BY <4>1, ExceptShape DEF RunShape
      <4>3. /\ DOMAIN v = RunFields /\ v.status = runs[r].status /\ v.expected = runs[r].expected
            /\ v.cursor = runs[r].cursor /\ v.receipts = R
            /\ v.from = runs[r].from /\ v.through = runs[r].through
        BY <4>1 DEF RunShape, RunFields
      <4> HIDE DEF v, R
      <4> QED BY <4>1, <4>2, <4>3 DEF RunShape, Kept
    <3> HIDE DEF v, marked
    <3>4. /\ DOMAIN marked = DOMAIN runs /\ IsSequence(marked)
          /\ \A q \in DOMAIN runs : marked[q] = IF q = r THEN v ELSE runs[q]
      BY <3>1, <3>2, ExceptShape
    <3> QED BY <3>3, <3>4, Untouched
  <2> QED BY <2>1, <2>2
<1>2. \/ HoldsLease(w) /\ runs' = [marked EXCEPT ![r].status = "failed"]
      \/ ~ HoldsLease(w) /\ runs' = marked
  BY DEF FailRun
<1> HIDE DEF marked
<1>3. CASE runs' = marked
  BY <1>1, <1>2, <1>3 DEF RunsShaped, Kept
<1>4. CASE HoldsLease(w) /\ runs' = [marked EXCEPT ![r].status = "failed"]
  <2> DEFINE v == [marked[r] EXCEPT !.status = "failed"]
  <2>1. runs' = [marked EXCEPT ![r] = v] BY <1>4
  <2>2. ASSUME r \in DOMAIN runs PROVE Kept(runs[r], v)
    <3>1. Kept(runs[r], marked[r]) /\ RunShape(marked[r]) BY <1>1, <2>2 DEF Kept
    <3>2. /\ DOMAIN v = RunFields /\ v.status = "failed" /\ v.expected = marked[r].expected
          /\ v.cursor = marked[r].cursor /\ v.receipts = marked[r].receipts
          /\ v.from = marked[r].from /\ v.through = marked[r].through
      BY <3>1 DEF RunShape, RunFields
    <3> HIDE DEF v
    <3> QED BY <3>1, <3>2 DEF RunShape, Kept
  <2> HIDE DEF v
  <2>3. /\ DOMAIN runs' = DOMAIN marked /\ IsSequence(runs')
        /\ \A q \in DOMAIN marked : runs'[q] = IF q = r THEN v ELSE marked[q]
    BY <1>1, <2>1, ExceptShape
  <2> QED BY <1>1, <1>4, <2>2, <2>3 DEF RunsShaped, Kept
<1> QED BY <1>2, <1>3, <1>4

(***************************************************************************)
(* A run that is written as a whole leaves the others alone.               *)
(***************************************************************************)
LEMMA WrittenRun ==
    ASSUME RunsShaped, NEW r \in DOMAIN runs, NEW v, RunShape(v), runs' = [runs EXCEPT ![r] = v]
    PROVE  /\ RunsShaped' /\ DOMAIN runs' = DOMAIN runs /\ runs'[r] = v
           /\ Others(r)
<1>1. /\ IsSequence(runs') /\ DOMAIN runs' = DOMAIN runs
      /\ \A q \in DOMAIN runs : runs'[q] = IF q = r THEN v ELSE runs[q]
  BY ExceptShape DEF RunsShaped
<1> QED BY <1>1, Untouched DEF RunsShaped, Others

(***************************************************************************)
(* A fetched page is appended to the receipts of its run.                  *)
(***************************************************************************)
LEMMA Fetching ==
    ASSUME RunsShaped, WorkersShaped, NEW w \in Workers, FetchPage(w)
    PROVE  LET r    == worker[w].run
               page == worker[w].cursor + 1
               rec  == [page |-> page, content |-> PageContent(page)]
           IN  /\ r \in DOMAIN runs /\ page \in 1..Pages
               /\ RunsShaped' /\ DOMAIN runs' = DOMAIN runs /\ Others(r) /\ Later(r)
               /\ runs'[r].status = runs[r].status /\ runs'[r].expected = runs[r].expected
               /\ runs'[r].cursor = runs[r].cursor
               /\ runs'[r].from = runs[r].from /\ runs'[r].through = runs[r].through
               /\ \A j \in DOMAIN runs'[r].receipts :
                     \/ j \in DOMAIN runs[r].receipts /\ runs'[r].receipts[j] = runs[r].receipts[j]
                     \/ runs'[r].receipts[j] = rec
<1> DEFINE r    == worker[w].run
           page == worker[w].cursor + 1
           rec  == [page |-> page, content |-> PageContent(page)]
           R    == Append(runs[r].receipts, rec)
           v    == [runs[r] EXCEPT !.receipts = R]
<1>1. r \in DOMAIN runs /\ worker[w].cursor \in 0..Pages - 1
  BY DEF FetchPage, WorkersShaped, WorkerShape
<1>2. page \in 1..Pages BY <1>1, ImportAssumption
<1>3. RunShape(runs[r]) BY <1>1 DEF RunsShaped
<1>4. runs' = [runs EXCEPT ![r] = v] BY DEF FetchPage
<1>5. rec.page = page OBVIOUS
<1> HIDE DEF rec
<1>6. /\ IsSequence(R)
      /\ \A j \in DOMAIN R :
            \/ j \in DOMAIN runs[r].receipts /\ R[j] = runs[r].receipts[j]
            \/ R[j] = rec
  <2>1. IsSequence(runs[r].receipts) BY <1>3 DEF RunShape
  <2> QED BY <2>1, AppendShape
<1>7. /\ DOMAIN v = RunFields /\ v.status = runs[r].status /\ v.expected = runs[r].expected
      /\ v.cursor = runs[r].cursor /\ v.receipts = R
      /\ v.from = runs[r].from /\ v.through = runs[r].through
  BY <1>3 DEF RunShape, RunFields
<1> HIDE DEF v, R
<1>8. RunShape(v) BY <1>2, <1>3, <1>5, <1>6, <1>7 DEF RunShape
<1>9. RunsShaped' /\ DOMAIN runs' = DOMAIN runs /\ runs'[r] = v /\ Others(r)
  BY <1>1, <1>4, <1>8, WrittenRun
<1> QED BY <1>1, <1>2, <1>6, <1>7, <1>9 DEF Later, rec

(***************************************************************************)
(* A completed run is scanned to its end, and has no cursor.               *)
(***************************************************************************)
LEMMA CompletingRun ==
    ASSUME RunsShaped, WorkersShaped, NEW w \in Workers, CompleteSync(w)
    PROVE  LET r == worker[w].run
           IN  /\ r \in DOMAIN runs
               /\ RunsShaped' /\ DOMAIN runs' = DOMAIN runs /\ Others(r) /\ Later(r)
               /\ runs'[r].status = "completed" /\ runs'[r].expected = runs[r].expected
               /\ runs'[r].receipts = runs[r].receipts
               /\ runs'[r].from = worker[w].from /\ runs'[r].through = worker[w].through
<1> DEFINE r == worker[w].run
           v == [runs[r] EXCEPT !.status = "completed", !.cursor = 0,
                                !.from = worker[w].from, !.through = worker[w].through]
<1>1. r \in DOMAIN runs BY DEF CompleteSync, WorkersShaped, WorkerShape
<1>2. RunShape(runs[r]) BY <1>1 DEF RunsShaped
<1>3. runs' = [runs EXCEPT ![r] = v] BY <1>1 DEF CompleteSync
<1>4. /\ DOMAIN v = RunFields /\ v.status = "completed" /\ v.expected = runs[r].expected
      /\ v.cursor = 0 /\ v.receipts = runs[r].receipts
      /\ v.from = worker[w].from /\ v.through = worker[w].through
  BY <1>2 DEF RunShape, RunFields
<1> HIDE DEF v
<1>5. RunShape(v) BY <1>2, <1>4, ImportAssumption DEF RunShape
<1>6. RunsShaped' /\ DOMAIN runs' = DOMAIN runs /\ runs'[r] = v /\ Others(r)
  BY <1>1, <1>3, <1>5, WrittenRun
<1> QED BY <1>1, <1>4, <1>6 DEF Later

(***************************************************************************)
(* A sync goes on with the active run at its cursor, or begins a new run   *)
(* of which all is expected that is booked.                                *)
(***************************************************************************)
LEMMA Beginning ==
    ASSUME RunsShaped, NEW w \in Workers, BeginSync(w), activeRun = 0
    PROVE  /\ RunsShaped' /\ activeRun' = Len(runs) + 1
           /\ DOMAIN runs' = DOMAIN runs \cup {activeRun'}
           /\ \A q \in DOMAIN runs : q # activeRun' /\ runs'[q] = runs[q]
           /\ runs'[activeRun'] = NewRun
<1>1. runs' = Append(runs, NewRun) /\ activeRun' = Len(runs')
  BY DEF BeginSync
<1>2. RunShape(NewRun)
  <2>1. DOMAIN NewRun = RunFields /\ NewRun.cursor = 0 /\ NewRun.receipts = <<>>
    BY DEF NewRun, RunFields
  <2>2. IsSequence(<<>>) BY DEF IsSequence
  <2>3. DOMAIN <<>> = {} OBVIOUS
  <2> HIDE DEF NewRun
  <2> QED BY <2>1, <2>2, <2>3, ImportAssumption DEF RunShape
<1> HIDE DEF NewRun
<1>3. IsSequence(runs) BY DEF RunsShaped
<1>4. /\ IsSequence(runs') /\ Len(runs) \in Nat /\ DOMAIN runs = 1..Len(runs)
      /\ Len(runs') = Len(runs) + 1
      /\ DOMAIN runs' = DOMAIN runs \cup {Len(runs) + 1}
      /\ \A i \in DOMAIN runs : runs'[i] = runs[i]
      /\ runs'[Len(runs) + 1] = NewRun
  BY <1>1, <1>3, AppendShape
<1>5. Len(runs) + 1 \notin DOMAIN runs BY <1>4
<1> QED BY <1>1, <1>2, <1>4, <1>5 DEF RunsShaped

-----------------------------------------------------------------------------
(* What has been covered stays covered                                     *)

KnownStays == \A e : KnownIn(e, known) => KnownIn(e, known')

(***************************************************************************)
(* What is known of more is known of less, and stays known.                *)
(***************************************************************************)
LEMMA CoveredStays ==
    ASSUME KnownStays
    PROVE  /\ \A E, F : F \subseteq E /\ AllKnown(E, known) => AllKnown(F, known')
           /\ \A E, F, c : F \subseteq E /\ UpTo(E, c, known) => UpTo(F, c, known')
           /\ \A E, F, x : F \subseteq E /\ ReceiptCovers(x, E, known) => ReceiptCovers(x, F, known')
<1>1. \A E, F : F \subseteq E /\ AllKnown(E, known) => AllKnown(F, known')
  BY DEF KnownStays, AllKnown
<1>2. \A E, F, c : F \subseteq E /\ UpTo(E, c, known) => UpTo(F, c, known')
  BY DEF KnownStays, UpTo
<1>3. ASSUME NEW E, NEW F, NEW x, F \subseteq E, ReceiptCovers(x, E, known)
      PROVE  ReceiptCovers(x, F, known')
  <2>1. x # Nothing => UpTo(F, x.page - 1, known') BY <1>2, <1>3 DEF ReceiptCovers
  <2> QED BY <1>3, <2>1 DEF ReceiptCovers
<1> QED BY <1>1, <1>2, <1>3

(***************************************************************************)
(* A run that is kept goes on covering what it did.                        *)
(***************************************************************************)
LEMMA KeptCovers ==
    ASSUME KnownStays, NEW u, NEW v, Kept(u, v), RunCovers(u, known, bank),
           v.status = "running" => ShownBy(bank', v.expected)
    PROVE  RunCovers(v, known', bank')
<1>1. ASSUME v.status = "running" PROVE RunCovers(v, known', bank')
  <2>1. u.status = "running" /\ v.expected \subseteq u.expected /\ v.cursor = u.cursor
    BY <1>1 DEF Kept
  <2>2. UpTo(v.expected, v.cursor, known') BY <2>1, CoveredStays DEF RunCovers
  <2>3. ASSUME NEW i \in DOMAIN v.receipts
        PROVE  ReceiptCovers(v.receipts[i], v.expected, known')
    <3>1. CASE v.receipts[i] = Nothing BY <3>1 DEF ReceiptCovers
    <3>2. CASE v.receipts[i] = u.receipts[i]
      <4>1. i \in DOMAIN u.receipts BY DEF Kept
      <4>2. ReceiptCovers(u.receipts[i], u.expected, known) BY <2>1, <4>1 DEF RunCovers
      <4> QED BY <2>1, <3>2, <4>2, CoveredStays
    <3> QED BY <3>1, <3>2 DEF Kept
  <2> QED BY <1>1, <2>2, <2>3 DEF RunCovers
<1>2. ASSUME v.status = "completed" PROVE AllKnown(v.expected, known')
  <2>1. u.status = "completed" /\ v.expected \subseteq u.expected BY <1>2 DEF Kept
  <2> QED BY <2>1, CoveredStays DEF RunCovers
<1> QED BY <1>1, <1>2 DEF RunCovers

(***************************************************************************)
(* While the bank shows what it did, all runs that are kept go on covering.*)
(***************************************************************************)
LEMMA OthersCover ==
    ASSUME KnownStays, UNCHANGED bank, RunsCover,
           NEW q \in DOMAIN runs, Kept(runs[q], runs'[q])
    PROVE  RunCovers(runs'[q], known', bank')
<1>1. runs'[q].status = "running" => ShownBy(bank', runs'[q].expected)
  BY DEF RunsCover, RunCovers, Kept, ShownBy
<1>2. RunCovers(runs[q], known, bank) BY DEF RunsCover
<1> QED BY <1>1, <1>2, KeptCovers

(***************************************************************************)
(* A worker that is left alone goes on covering what it did.               *)
(***************************************************************************)
LEMMA WorkerStays ==
    ASSUME KnownStays, WorkersShaped, WorkersCover, NEW w \in Workers, worker'[w] = worker[w],
           worker[w].pc # "idle" => Later(worker[w].run)
    PROVE  WorkerCovers(worker'[w], runs', known')
<1> SUFFICES ASSUME worker[w].pc # "idle", runs'[worker[w].run].status = "running"
             PROVE  /\ UpTo(runs'[worker[w].run].expected, worker[w].cursor, known')
                    /\ worker[w].pc \in AfterPages =>
                          AllKnown(runs'[worker[w].run].expected, known')
  BY DEF WorkerCovers
<1> DEFINE r == worker[w].run
<1>1. runs[r].status = "running" /\ runs'[r].expected \subseteq runs[r].expected
  BY DEF Later
<1>2. /\ UpTo(runs[r].expected, worker[w].cursor, known)
      /\ worker[w].pc \in AfterPages => AllKnown(runs[r].expected, known)
  BY <1>1 DEF WorkersCover, WorkerCovers
<1> QED BY <1>1, <1>2, CoveredStays

(***************************************************************************)
(* After a page has been finalised all is known up to that page: what came *)
(* before it was known when it was fetched.                                *)
(***************************************************************************)
LEMMA UpToThePage ==
    ASSUME Shape, RunsCover, KnownStays, NEW r \in DOMAIN runs, runs[r].status = "running",
           NEW i \in Received(r), FinalizeReceipt(r, i)
    PROVE  LET page == runs[r].receipts[i].page
           IN  /\ page \in 1..Pages
               /\ UpTo(runs[r].expected, page, known')
               /\ UpTo(runs[r].expected, CursorAfter(page), known')
               /\ ~ (page < Pages) => AllKnown(runs[r].expected, known')
<1> DEFINE receipt == runs[r].receipts[i]
           page    == receipt.page
           E       == runs[r].expected
<1>1. i \in DOMAIN runs[r].receipts /\ receipt # Nothing /\ RunShape(runs[r])
  BY DEF Received, ReceiptsOf, Shape, RunsShaped
<1>2. page \in 1..Pages BY <1>1 DEF RunShape
<1>3. /\ ReceiptCovers(receipt, E, known)
      /\ \A e \in E : e.key \in Keys
  BY <1>1 DEF RunsCover, RunCovers, ShownBy
<1>4. /\ UpTo(E, page - 1, known')
      /\ \A e \in E : PageOf[e.key] = page => Seen(e, receipt.content)
  BY <1>1, <1>3, CoveredStays DEF ReceiptCovers
<1>5. \A e \in E : PageOf[e.key] = page => KnownIn(e, known')
  BY <1>4, PageKnown DEF Shape
<1>6. \A e \in E : PageOf[e.key] \in 1..Pages BY <1>3, ImportAssumption
<1> HIDE DEF page, E
<1>7. UpTo(E, page, known')
  <2> SUFFICES ASSUME NEW e \in E, PageOf[e.key] <= page PROVE KnownIn(e, known')
    BY DEF UpTo
  <2>1. PageOf[e.key] = page \/ PageOf[e.key] <= page - 1 BY <1>2, <1>6, ImportAssumption
  <2> QED BY <1>4, <1>5, <2>1 DEF UpTo
<1>8. UpTo(E, CursorAfter(page), known')
  <2>1. CASE CursorAfter(page) = page BY <1>7, <2>1
  <2>2. CASE CursorAfter(page) = 0
    <3>1. \A e \in E : ~ (PageOf[e.key] <= 0) BY <1>6, ImportAssumption
    <3> QED BY <2>2, <3>1 DEF UpTo
  <2> QED BY <2>1, <2>2 DEF CursorAfter
<1>9. ASSUME ~ (page < Pages) PROVE AllKnown(E, known')
  <2>1. page = Pages BY <1>2, <1>9, ImportAssumption
  <2>2. \A e \in E : PageOf[e.key] <= page BY <1>2, <1>6, <2>1, ImportAssumption
  <2> QED BY <1>7, <2>2 DEF UpTo, AllKnown
<1> QED BY <1>2, <1>7, <1>8, <1>9 DEF page, E

-----------------------------------------------------------------------------
(* Every step keeps the invariant                                          *)

AllLater == \A q \in DOMAIN runs : q \in DOMAIN runs' /\ Later(q)

(***************************************************************************)
(* A step of one worker leaves the others as they are.                     *)
(***************************************************************************)
LEMMA OneWorker ==
    ASSUME KnownStays, WorkersShaped, WorkersCover, AllLater, NEW w \in Workers,
           worker' = [worker EXCEPT ![w] = worker'[w]],
           WorkerShape(worker'[w], runs'), WorkerCovers(worker'[w], runs', known')
    PROVE  WorkersShaped' /\ WorkersCover'
<1>1. DOMAIN worker' = Workers BY DEF WorkersShaped
<1>2. ASSUME NEW u \in Workers
      PROVE  WorkerShape(worker'[u], runs') /\ WorkerCovers(worker'[u], runs', known')
  <2>1. CASE u = w BY <2>1
  <2>2. CASE u # w
    <3>1. worker'[u] = worker[u]
      <4>1. [worker EXCEPT ![w] = worker'[w]][u] = worker[u] BY <2>2 DEF WorkersShaped
      <4> QED BY <4>1
    <3>2. WorkerShape(worker[u], runs) BY DEF WorkersShaped
    <3>3. worker[u].pc # "idle" => Later(worker[u].run) /\ worker[u].run \in DOMAIN runs'
      BY <3>2 DEF WorkerShape, AllLater
    <3>4. WorkerShape(worker'[u], runs') BY <3>1, <3>2, <3>3 DEF WorkerShape
    <3> QED BY <3>1, <3>3, <3>4, WorkerStays
  <2> QED BY <2>1, <2>2
<1> QED BY <1>1, <1>2 DEF WorkersShaped, WorkersCover

(***************************************************************************)
(* All runs are kept or written so that they do not begin again.           *)
(***************************************************************************)
LEMMA LaterRuns ==
    ASSUME DOMAIN runs' = DOMAIN runs, NEW r, Others(r), Later(r)
    PROVE  AllLater
  BY DEF AllLater, Others, Kept, Later

(***************************************************************************)
(* An idle worker covers nothing.                                          *)
(***************************************************************************)
LEMMA IdleCovers ==
    ASSUME NEW rs, NEW K PROVE WorkerShape(Idle, rs) /\ WorkerCovers(Idle, rs, K)
<1>1. Idle.pc = "idle" /\ Idle.cursor = 0 BY DEF Idle
<1>2. DOMAIN Idle = DOMAIN Idle OBVIOUS
<1> QED BY <1>1, <1>2, ImportAssumption DEF WorkerShape, WorkerCovers

(***************************************************************************)
(* The bank changes: what it no longer shows is no longer expected.        *)
(***************************************************************************)
LEMMA ChangeStep == ASSUME CoverInv, KnownStays, BankChanges PROVE CoverInv'
<1>1. UNCHANGED <<known, worker, activeRun>> BY DEF BankChanges, scanVars, leaseVars
<1>2. /\ RunsShaped' /\ DOMAIN runs' = DOMAIN runs
      /\ \A q \in DOMAIN runs : Kept(runs[q], runs'[q])
      /\ \A q \in DOMAIN runs : runs'[q].status = runs[q].status
  BY ChangeKeeps DEF CoverInv, Shape
<1>3. \A q \in DOMAIN runs : Later(q) BY <1>2 DEF Kept, Later
<1>4. Shape'
  <2>1. WorkersShaped' BY <1>1, <1>2 DEF CoverInv, Shape, WorkersShaped, WorkerShape
  <2>2. KnownShaped' BY <1>1 DEF CoverInv, Shape, KnownShaped
  <2>3. ActiveShape(activeRun', runs') BY <1>1, <1>2 DEF CoverInv, Shape, ActiveShape
  <2>4. BankShaped' BY DEF BankChanges, CoverInv, Shape, BankShaped
  <2> QED BY <1>2, <2>1, <2>2, <2>3, <2>4 DEF Shape
<1>5. RunsCover'
  <2> SUFFICES ASSUME NEW q \in DOMAIN runs PROVE RunCovers(runs'[q], known', bank')
    BY <1>2 DEF RunsCover
  <2>1. runs'[q].status = "running" => ShownBy(bank', runs'[q].expected)
    <3> SUFFICES ASSUME runs'[q].status = "running" PROVE ShownBy(bank', runs'[q].expected)
      OBVIOUS
    <3> DEFINE k == Head(future).key
    <3>1. runs[q].status = "running" BY <1>2
    <3>2. RunShape(runs[q]) /\ ShownBy(bank, runs[q].expected)
      BY <3>1 DEF CoverInv, Shape, RunsShaped, RunsCover, RunCovers
    <3>3. runs'[q] = [runs[q] EXCEPT !.expected = {x \in @ : x.key # k}]
      BY <3>1 DEF BankChanges
    <3>4. runs'[q].expected = {x \in runs[q].expected : x.key # k}
      BY <3>2, <3>3 DEF RunShape, RunFields
    <3>5. \A j : j # k /\ j \in DOMAIN bank => bank'[j] = bank[j]
      BY DEF BankChanges
    <3> HIDE DEF k
    <3> QED BY <3>2, <3>4, <3>5 DEF ShownBy, CoverInv, Shape, BankShaped
  <2>2. RunCovers(runs[q], known, bank) BY DEF CoverInv, RunsCover
  <2>3. Kept(runs[q], runs'[q]) BY <1>2
  <2> QED BY <2>1, <2>2, <2>3, KeptCovers
<1>6. WorkersCover'
  <2>1. ASSUME NEW w \in Workers PROVE WorkerCovers(worker'[w], runs', known')
    <3>1. worker'[w] = worker[w] BY <1>1
    <3>2. worker[w].pc # "idle" => Later(worker[w].run)
      BY <1>3 DEF CoverInv, Shape, WorkersShaped, WorkerShape
    <3> QED BY <3>1, <3>2, WorkerStays DEF CoverInv, Shape
  <2> QED BY <2>1 DEF WorkersCover
<1> QED BY <1>4, <1>5, <1>6 DEF CoverInv

(***************************************************************************)
(* A worker goes on, or dies.                                              *)
(***************************************************************************)
LEMMA MoveStep ==
    ASSUME CoverInv, KnownStays, NEW w \in Workers, Moves(w) \/ Dies(w) PROVE CoverInv'
<1>1. UNCHANGED <<bank, known, runs, activeRun>> BY DEF Moves, Dies
<1>2. RunsShaped' /\ KnownShaped' /\ BankShaped' /\ ActiveShape(activeRun', runs') /\ RunsCover'
  BY <1>1 DEF CoverInv, Shape, RunsShaped, KnownShaped, BankShaped, ActiveShape, RunsCover
<1>3. AllLater BY <1>1 DEF AllLater, Later
<1>4. CASE Moves(w)
  <2>1. WorkerShape(worker'[w], runs')
    BY <1>1, <1>4 DEF Moves, CoverInv, Shape, WorkersShaped, WorkerShape
  <2>2. WorkerCovers(worker'[w], runs', known')
    BY <1>1, <1>4 DEF Moves, CoverInv, WorkersCover, WorkerCovers
  <2>3. WorkersShaped' /\ WorkersCover'
    BY <1>3, <1>4, <2>1, <2>2, OneWorker DEF Moves, CoverInv, Shape
  <2> QED BY <1>2, <2>3 DEF CoverInv, Shape
<1>5. CASE Dies(w)
  <2>1. worker' = [worker EXCEPT ![w] = Idle] BY <1>5 DEF Dies, Set
  <2>2. worker'[w] = Idle BY <2>1 DEF CoverInv, Shape, WorkersShaped
  <2>3. worker' = [worker EXCEPT ![w] = worker'[w]] BY <2>1, <2>2
  <2>4. WorkerShape(worker'[w], runs') /\ WorkerCovers(worker'[w], runs', known')
    BY <2>2, IdleCovers
  <2>5. WorkersShaped' /\ WorkersCover'
    BY <1>3, <2>3, <2>4, OneWorker DEF CoverInv, Shape
  <2> QED BY <1>2, <2>5 DEF CoverInv, Shape
<1> QED BY <1>4, <1>5

(***************************************************************************)
(* A sync fails.                                                           *)
(***************************************************************************)
LEMMA FailStep ==
    ASSUME CoverInv, KnownStays, NEW w \in Workers, Fails(w) PROVE CoverInv'
<1>1. FailRun(w) /\ UNCHANGED <<bank, known>> BY DEF Fails, FailRun, scanVars
<1>2. /\ RunsShaped' /\ DOMAIN runs' = DOMAIN runs
      /\ \A q \in DOMAIN runs : Kept(runs[q], runs'[q])
      /\ ~ HoldsLease(w) => \A q \in DOMAIN runs : runs'[q].status = runs[q].status
  BY <1>1, FailureKeeps DEF CoverInv, Shape
<1>3. AllLater BY <1>2 DEF AllLater, Kept, Later
<1>4. RunsCover' BY <1>1, <1>2, OthersCover DEF CoverInv, RunsCover
<1>5. ActiveShape(activeRun', runs')
  <2>1. CASE HoldsLease(w) BY <1>1, <2>1 DEF FailRun, ReleaseLease, ActiveShape
  <2>2. CASE ~ HoldsLease(w)
    <3>1. activeRun' = activeRun BY <1>1, <2>2 DEF FailRun, leaseVars
    <3> QED BY <1>2, <2>2, <3>1 DEF CoverInv, Shape, ActiveShape
  <2> QED BY <2>1, <2>2
<1>6. KnownShaped' /\ BankShaped' BY <1>1 DEF CoverInv, Shape, KnownShaped, BankShaped
<1>7. worker' = [worker EXCEPT ![w] = Idle] BY <1>1 DEF FailRun, Set
<1>8. worker'[w] = Idle BY <1>7 DEF CoverInv, Shape, WorkersShaped
<1>9. worker' = [worker EXCEPT ![w] = worker'[w]] BY <1>7, <1>8
<1>10. WorkerShape(worker'[w], runs') /\ WorkerCovers(worker'[w], runs', known')
  BY <1>8, IdleCovers
<1>11. WorkersShaped' /\ WorkersCover'
  BY <1>3, <1>9, <1>10, OneWorker DEF CoverInv, Shape
<1> QED BY <1>2, <1>4, <1>5, <1>6, <1>11 DEF CoverInv, Shape

(***************************************************************************)
(* A receipt is finalised: its page is known from then on, and the run and *)
(* the worker go on after it.                                              *)
(***************************************************************************)
LEMMA FinalizeStep ==
    ASSUME CoverInv, KnownStays, KnownShaped', NEW w \in Workers, Finalizes(w) PROVE CoverInv'
<1> DEFINE r == worker[w].run
<1>1. PICK i \in Received(r) :
        /\ r \in DOMAIN runs
        /\ FinalizeReceipt(r, i)
        /\ runs' = [runs EXCEPT ![r] = Finalized(r, i)]
        /\ worker' = [worker EXCEPT ![w] = worker'[w]]
        /\ DOMAIN worker'[w] = DOMAIN Idle
        /\ worker'[w].run = r
        /\ worker'[w].cursor = CursorAfter(runs[r].receipts[i].page)
        /\ worker'[w].pc \in AfterPages => ~ (runs[r].receipts[i].page < Pages)
        /\ UNCHANGED <<bank, activeRun>>
  BY Finalizing DEF CoverInv, Shape
<1> DEFINE page == runs[r].receipts[i].page
           v    == Finalized(r, i)
<1>2. /\ RunShape(v)
      /\ v.status = runs[r].status /\ v.expected = runs[r].expected
      /\ v.cursor = CursorAfter(page)
      /\ DOMAIN v.receipts = DOMAIN runs[r].receipts
      /\ v.receipts[i] = Nothing
      /\ \A j \in DOMAIN v.receipts : j # i => v.receipts[j] = runs[r].receipts[j]
  BY <1>1, FinalizedRun DEF CoverInv, Shape
<1> HIDE DEF v
<1>3. RunsShaped' /\ DOMAIN runs' = DOMAIN runs /\ runs'[r] = v /\ Others(r)
  BY <1>1, <1>2, WrittenRun DEF CoverInv, Shape, v
<1>4. AllLater
  <2>1. Later(r) BY <1>2, <1>3 DEF Later
  <2> QED BY <1>3, <2>1, LaterRuns
<1>5. runs[r].status = "running" =>
        /\ UpTo(runs[r].expected, CursorAfter(page), known')
        /\ ~ (page < Pages) => AllKnown(runs[r].expected, known')
  BY <1>1, UpToThePage DEF CoverInv
<1>6. RunCovers(v, known', bank')
  <2>1. RunCovers(runs[r], known, bank) BY <1>1 DEF CoverInv, RunsCover
  <2>2. ASSUME v.status = "running" PROVE RunCovers(v, known', bank')
    <3>1. ShownBy(bank', v.expected) BY <1>1, <1>2, <2>1, <2>2 DEF RunCovers, ShownBy
    <3>2. UpTo(v.expected, v.cursor, known') BY <1>2, <1>5, <2>2
    <3>3. ASSUME NEW j \in DOMAIN v.receipts
          PROVE  ReceiptCovers(v.receipts[j], v.expected, known')
      <4>1. CASE j = i BY <1>2, <4>1 DEF ReceiptCovers
      <4>2. CASE j # i
        <5>1. ReceiptCovers(runs[r].receipts[j], runs[r].expected, known)
          BY <1>2, <2>1, <2>2 DEF RunCovers
        <5> QED BY <1>2, <4>2, <5>1, CoveredStays
      <4> QED BY <4>1, <4>2
    <3> QED BY <2>2, <3>1, <3>2, <3>3 DEF RunCovers
  <2>3. ASSUME v.status = "completed" PROVE AllKnown(v.expected, known')
    BY <1>2, <2>1, <2>3, CoveredStays DEF RunCovers
  <2> QED BY <2>2, <2>3 DEF RunCovers
<1>7. RunsCover'
  <2>1. ASSUME NEW q \in DOMAIN runs, q # r PROVE RunCovers(runs'[q], known', bank')
    BY <1>1, <1>3, <2>1, OthersCover DEF Others, CoverInv
  <2> QED BY <1>3, <1>6, <2>1 DEF RunsCover
<1>8. WorkerShape(worker'[w], runs')
  <2>1. CursorAfter(page) \in 0..Pages - 1 BY <1>2 DEF RunShape
  <2> QED BY <1>1, <1>3, <2>1 DEF WorkerShape
<1>9. WorkerCovers(worker'[w], runs', known')
  BY <1>1, <1>2, <1>3, <1>5 DEF WorkerCovers
<1>10. WorkersShaped' /\ WorkersCover'
  BY <1>1, <1>4, <1>8, <1>9, OneWorker DEF CoverInv, Shape
<1>11. ActiveShape(activeRun', runs')
  <2>1. \A q \in DOMAIN runs : q # r => runs'[q].status = runs[q].status
    <3>1. \A q \in DOMAIN runs : q # r => runs'[q] = runs[q] BY <1>1
    <3> QED BY <3>1
  <2> QED BY <1>1, <1>2, <1>3, <2>1 DEF CoverInv, Shape, ActiveShape
<1>12. BankShaped' BY <1>1 DEF CoverInv, Shape, BankShaped
<1> QED BY <1>3, <1>7, <1>10, <1>11, <1>12 DEF CoverInv, Shape

(***************************************************************************)
(* A page is fetched: it shows what is expected of it.                     *)
(***************************************************************************)
LEMMA FetchStep ==
    ASSUME CoverInv, KnownStays, NEW w \in Workers, FetchPage(w) PROVE CoverInv'
<1> DEFINE r    == worker[w].run
           page == worker[w].cursor + 1
           rec  == [page |-> page, content |-> PageContent(page)]
<1>1. /\ r \in DOMAIN runs /\ page \in 1..Pages
      /\ RunsShaped' /\ DOMAIN runs' = DOMAIN runs /\ Others(r) /\ Later(r)
      /\ runs'[r].status = runs[r].status /\ runs'[r].expected = runs[r].expected
      /\ runs'[r].cursor = runs[r].cursor
      /\ \A j \in DOMAIN runs'[r].receipts :
            \/ j \in DOMAIN runs[r].receipts /\ runs'[r].receipts[j] = runs[r].receipts[j]
            \/ runs'[r].receipts[j] = rec
  BY Fetching DEF CoverInv, Shape
<1>2. UNCHANGED <<bank, known, activeRun>> BY DEF FetchPage, bankVars, scanVars, leaseVars
<1>3. AllLater BY <1>1, LaterRuns
<1>4. RunCovers(runs[r], known, bank) /\ WorkerCovers(worker[w], runs, known)
  BY <1>1 DEF CoverInv, RunsCover, WorkersCover
<1>5. worker[w].pc = "fetch" /\ worker[w].cursor \in 0..Pages - 1
  BY DEF FetchPage, CoverInv, Shape, WorkersShaped, WorkerShape
<1>6. ASSUME runs[r].status = "running" PROVE ReceiptCovers(rec, runs[r].expected, known)
  <2>1. UpTo(runs[r].expected, worker[w].cursor, known)
    BY <1>4, <1>5, <1>6 DEF WorkerCovers
  <2>2. rec.page - 1 = worker[w].cursor BY <1>5, ImportAssumption
  <2>3. ASSUME NEW e \in runs[r].expected, PageOf[e.key] = page PROVE Seen(e, PageContent(page))
    <3>1. e.key \in Keys /\ e.view # Nothing /\ bank[e.key] = e.view
      BY <1>4, <1>6 DEF RunCovers, ShownBy
    <3>2. e.key \in {k \in Keys : PageOf[k] = page /\ Present(k)}
      BY <2>3, <3>1 DEF Present
    <3> HIDE DEF page
    <3>3. e.key \in DOMAIN PageContent(page) /\ PageContent(page)[e.key] = bank[e.key]
      BY <3>2 DEF PageContent
    <3> QED BY <3>1, <3>3 DEF Seen
  <2>4. rec.page = page /\ rec.content = PageContent(page) OBVIOUS
  <2> HIDE DEF rec
  <2> QED BY <2>1, <2>2, <2>3, <2>4 DEF ReceiptCovers
<1> HIDE DEF rec
<1>7. RunCovers(runs'[r], known', bank')
  <2>1. ASSUME runs[r].status = "running", NEW j \in DOMAIN runs'[r].receipts
        PROVE  ReceiptCovers(runs'[r].receipts[j], runs[r].expected, known)
    BY <1>1, <1>4, <1>6, <2>1 DEF RunCovers
  <2> QED BY <1>1, <1>2, <1>4, <2>1 DEF RunCovers
<1>8. RunsCover'
  <2>1. ASSUME NEW q \in DOMAIN runs, q # r PROVE RunCovers(runs'[q], known', bank')
    BY <1>1, <1>2, <2>1, OthersCover DEF Others, CoverInv
  <2> QED BY <1>1, <1>7, <2>1 DEF RunsCover
<1>9. /\ worker' = [worker EXCEPT ![w] = worker'[w]]
      /\ DOMAIN worker'[w] = DOMAIN Idle /\ worker'[w].run = r
      /\ worker'[w].cursor = worker[w].cursor /\ worker'[w].pc = "page"
  <2>1. DOMAIN worker = Workers /\ DOMAIN worker[w] = DOMAIN Idle
    BY DEF CoverInv, Shape, WorkersShaped, WorkerShape
  <2>2. DOMAIN Idle = {"pc", "run", "cursor", "receipt", "pending", "started", "balance", "records",
                       "from", "through", "stamp"}
    BY DEF Idle
  <2> QED BY <2>1, <2>2 DEF FetchPage, Set
<1>10. WorkerShape(worker'[w], runs') BY <1>1, <1>5, <1>9 DEF WorkerShape
<1>11. WorkerCovers(worker'[w], runs', known')
  BY <1>1, <1>2, <1>4, <1>5, <1>9 DEF WorkerCovers, AfterPages
<1>12. WorkersShaped' /\ WorkersCover'
  BY <1>3, <1>9, <1>10, <1>11, OneWorker DEF CoverInv, Shape
<1>13. ActiveShape(activeRun', runs')
  <2>1. \A q \in DOMAIN runs : q # r => runs'[q] = runs[q] BY DEF FetchPage
  <2> QED BY <1>1, <1>2, <2>1 DEF CoverInv, Shape, ActiveShape
<1>14. KnownShaped' /\ BankShaped' BY <1>2 DEF CoverInv, Shape, KnownShaped, BankShaped
<1> QED BY <1>1, <1>8, <1>12, <1>13, <1>14 DEF CoverInv, Shape

(***************************************************************************)
(* A sync is completed by a worker that holds the lease of the run.        *)
(***************************************************************************)
LEMMA CompleteStep ==
    ASSUME CoverInv, KnownStays, KnownShaped', NEW w \in Workers, CompleteSync(w) PROVE CoverInv'
<1> DEFINE r == worker[w].run
<1>1. /\ r \in DOMAIN runs
      /\ RunsShaped' /\ DOMAIN runs' = DOMAIN runs /\ Others(r) /\ Later(r)
      /\ runs'[r].status = "completed" /\ runs'[r].expected = runs[r].expected
  BY CompletingRun DEF CoverInv, Shape
<1>2. UNCHANGED bank BY DEF CompleteSync, bankVars
<1>3. AllLater BY <1>1, LaterRuns
<1>4. runs[r].status = "running" /\ worker[w].pc = "complete"
  <2>1. activeRun = r /\ worker[w].pc = "complete" BY DEF CompleteSync, HoldsLease
  <2>2. r # 0 \/ activeRun = 0 BY <2>1
  <2>3. IsSequence(runs) BY DEF CoverInv, Shape, RunsShaped
  <2>4. r # 0 BY <1>1, <2>3, AppendShape
  <2> QED BY <2>1, <2>4 DEF CoverInv, Shape, ActiveShape
<1>5. AllKnown(runs[r].expected, known)
  BY <1>4 DEF CoverInv, WorkersCover, WorkerCovers, AfterPages
<1>6. RunCovers(runs'[r], known', bank')
  <2>1. AllKnown(runs'[r].expected, known') BY <1>1, <1>5, CoveredStays
  <2> QED BY <1>1, <2>1 DEF RunCovers
<1>7. RunsCover'
  <2>1. ASSUME NEW q \in DOMAIN runs, q # r PROVE RunCovers(runs'[q], known', bank')
    BY <1>1, <1>2, <2>1, OthersCover DEF Others, CoverInv
  <2> QED BY <1>1, <1>6, <2>1 DEF RunsCover
<1>8. worker' = [worker EXCEPT ![w] = Idle] BY DEF CompleteSync, Set
<1>9. worker'[w] = Idle BY <1>8 DEF CoverInv, Shape, WorkersShaped
<1>10. worker' = [worker EXCEPT ![w] = worker'[w]] BY <1>8, <1>9
<1>11. WorkerShape(worker'[w], runs') /\ WorkerCovers(worker'[w], runs', known')
  BY <1>9, IdleCovers
<1>12. WorkersShaped' /\ WorkersCover'
  BY <1>3, <1>10, <1>11, OneWorker DEF CoverInv, Shape
<1>13. ActiveShape(activeRun', runs') BY DEF CompleteSync, ReleaseLease, ActiveShape
<1>14. BankShaped' BY <1>2 DEF CoverInv, Shape, BankShaped
<1> QED BY <1>1, <1>7, <1>12, <1>13, <1>14 DEF CoverInv, Shape

(***************************************************************************)
(* A sync begins: nothing of a new run has been covered, a resumed one has *)
(* been covered up to its cursor.                                          *)
(***************************************************************************)
LEMMA BeginStep ==
    ASSUME CoverInv, KnownStays, NEW w \in Workers, BeginSync(w) PROVE CoverInv'
<1> DEFINE a == activeRun'
<1>1. UNCHANGED <<bank, known>> BY DEF BeginSync, bankVars, scanVars
<1>2. KnownShaped' /\ BankShaped' BY <1>1 DEF CoverInv, Shape, KnownShaped, BankShaped
<1>3. /\ worker' = [worker EXCEPT ![w] = worker'[w]]
      /\ DOMAIN worker'[w] = DOMAIN Idle
      /\ worker'[w].pc = "receipts" /\ worker'[w].run = a /\ worker'[w].cursor = runs'[a].cursor
  <2>1. DOMAIN worker = Workers BY DEF CoverInv, Shape, WorkersShaped
  <2>2. worker' = [worker EXCEPT ![w] = [Idle EXCEPT !.pc = "receipts", !.run = a, !.started = day,
                                                     !.cursor = runs'[a].cursor]]
    BY DEF BeginSync, Set
  <2>3. worker'[w] = [Idle EXCEPT !.pc = "receipts", !.run = a, !.started = day,
                                  !.cursor = runs'[a].cursor]
    BY <2>1, <2>2
  <2>4. worker' = [worker EXCEPT ![w] = worker'[w]] BY <2>2, <2>3
  <2> HIDE DEF a
  <2> QED BY <2>3, <2>4 DEF Idle
<1>4. /\ RunsShaped' /\ a \in DOMAIN runs' /\ runs'[a].status = "running"
      /\ RunsCover' /\ AllLater
  <2>1. CASE activeRun # 0
    <3>1. UNCHANGED <<runs, activeRun>> BY <2>1 DEF BeginSync
    <3> QED BY <1>1, <2>1, <3>1
        DEF CoverInv, Shape, RunsShaped, ActiveShape, RunsCover, AllLater, Later
  <2>2. CASE activeRun = 0
    <3>1. /\ RunsShaped'
          /\ DOMAIN runs' = DOMAIN runs \cup {a}
          /\ \A q \in DOMAIN runs : q # a /\ runs'[q] = runs[q]
          /\ runs'[a] = NewRun
      BY <2>2, Beginning DEF CoverInv, Shape
    <3> HIDE DEF a
    <3>2. NewRun.status = "running" /\ NewRun.cursor = 0 /\ NewRun.receipts = <<>>
          /\ NewRun.expected = {[key |-> k, view |-> bank[k]] : k \in {k \in Keys : IsBooked(bank[k])}}
      BY DEF NewRun
    <3>3. ShownBy(bank, NewRun.expected) /\ \A e \in NewRun.expected : e.key \in Keys
      BY <3>2 DEF ShownBy, IsBooked
    <3>4. UpTo(NewRun.expected, 0, known)
      BY <3>3, ImportAssumption DEF UpTo
    <3>5. DOMAIN <<>> = {} OBVIOUS
    <3> HIDE DEF NewRun
    <3>6. RunCovers(NewRun, known, bank) BY <3>2, <3>3, <3>4, <3>5 DEF RunCovers
    <3>7. RunsCover' BY <1>1, <3>1, <3>6 DEF CoverInv, RunsCover
    <3>8. AllLater BY <3>1 DEF AllLater, Later
    <3> QED BY <3>1, <3>2, <3>7, <3>8
  <2> QED BY <2>1, <2>2
<1>5. WorkerShape(worker'[w], runs')
  BY <1>3, <1>4 DEF WorkerShape, RunsShaped, RunShape
<1>6. WorkerCovers(worker'[w], runs', known')
  BY <1>3, <1>4 DEF WorkerCovers, RunsCover, RunCovers, AfterPages
<1>7. WorkersShaped' /\ WorkersCover'
  BY <1>3, <1>4, <1>5, <1>6, OneWorker DEF CoverInv, Shape
<1>8. ActiveShape(activeRun', runs') BY <1>4 DEF ActiveShape
<1> QED BY <1>2, <1>4, <1>7, <1>8 DEF CoverInv, Shape

-----------------------------------------------------------------------------
(***************************************************************************)
(* The inductive invariant of a scan: what is expected of a run and lies   *)
(* on a page that the run, its worker or a stored receipt has behind it    *)
(* has been seen.                                                          *)
(***************************************************************************)
THEOREM CoverInvariant == Spec => []CoverInv
<1>1. Init => CoverInv
  <2> SUFFICES ASSUME Init PROVE CoverInv OBVIOUS
  <2>1. /\ runs = <<>> /\ known = {} /\ activeRun = 0
        /\ worker = [w \in Workers |-> Idle] /\ DOMAIN bank = Keys
    BY DEF Init
  <2>2. IsSequence(<<>>) /\ DOMAIN <<>> = {} BY DEF IsSequence
  <2>3. Shape
    BY <2>1, <2>2, IdleCovers DEF Shape, RunsShaped, WorkersShaped, KnownShaped, BankShaped, ActiveShape
  <2>4. RunsCover /\ WorkersCover BY <2>1, <2>2, IdleCovers DEF RunsCover, WorkersCover
  <2> QED BY <2>3, <2>4 DEF CoverInv
<1>2. CoverInv /\ [Next]_vars => CoverInv'
  <2> SUFFICES ASSUME CoverInv, [Next]_vars PROVE CoverInv' OBVIOUS
  <2>1. KnownStays /\ KnownShaped' BY KnownGrows DEF KnownStays, CoverInv, Shape
  <2>2. CASE UNCHANGED <<bank, known, runs, activeRun, worker>>
    BY <2>2 DEF CoverInv, Shape, RunsShaped, WorkersShaped, KnownShaped, BankShaped, ActiveShape,
                RunsCover, WorkersCover
  <2> QED BY <2>1, <2>2, Steps, ChangeStep, MoveStep, FailStep, FinalizeStep, BeginStep, FetchStep,
             CompleteStep DEF CoverInv, Shape
<1> QED BY <1>1, <1>2, PTL DEF Spec

(***************************************************************************)
(* Coverage claimed by a completed run is real, for any number of pages,   *)
(* transactions, workers, faults, and whatever happens at the bank: no     *)
(* resumption, no stored receipt and no worker without its lease makes a   *)
(* scan skip a page.                                                       *)
(***************************************************************************)
THEOREM CoverageProven == Spec => []CoverageIsScanned
<1>1. CoverInv => CoverageIsScanned
  BY DEF CoverInv, RunsCover, RunCovers, AllKnown, KnownIn, CoverageIsScanned, Completed, IsKnown
<1> QED BY <1>1, CoverInvariant, PTL
=============================================================================
