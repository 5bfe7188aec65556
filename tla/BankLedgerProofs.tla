-------------------------- MODULE BankLedgerProofs --------------------------
(***************************************************************************)
(* Theorems about what the imports of BankImport put on the account: the   *)
(* imports of a transaction are a chain of which each link compensates the *)
(* one before, so that the account holds of every transaction what the     *)
(* bank showed of it last. Workers that lost their lease, crashes between  *)
(* a command and the completion of its run, and a bank that goes on        *)
(* meanwhile are all in it.                                                *)
(***************************************************************************)
EXTENDS BankImportProofs, SumTheorems

-----------------------------------------------------------------------------
(* The shape of the state                                                  *)

WithRecords == {"ready", "command", "complete"}

BankType ==
    /\ day \in Days /\ balanceDay \in -1..day /\ future \in Seq(Events)
    /\ bank \in [Keys -> ViewOrNothing]

KnownType(K, n) ==
    \A e \in K : e.key \in Keys /\ e.view \in Views /\ e.run \in 1..n
                 /\ e.first \in 0..n /\ e.replay \in 0..n

ScanType ==
    /\ KnownType(known, Len(runs))
    /\ current \in [Keys -> ViewOrNothing] /\ scanned \in [Keys -> ViewOrNothing]
    /\ returned \subseteq Keys

RunType(v) ==
    /\ v.status \in {"running", "completed", "failed"}
    /\ \A i \in DOMAIN v.receipts : v.receipts[i] \in Receipts
    /\ v.expected \subseteq Records
    /\ v.from \in Days \cup {Nothing} /\ v.through \in Days \cup {Nothing}

RunsType == Len(runs) <= MaxRuns /\ \A r \in DOMAIN runs : RunType(runs[r])

\* What a worker has read; n runs have begun, and c is the clock.
WorkerType(u, n, c) ==
    /\ u.pc \in WorkerPCs /\ u.run \in 0..n
    /\ u.balance \in Balances \cup {Nothing}
    /\ u.from \in Days \cup {Nothing} /\ u.through \in Days \cup {Nothing}
    /\ u.pc \in WithRecords => u.records \in [Keys -> ViewOrNothing]
    /\ u.stamp \in 0..c
    /\ u.pc \notin {"command", "complete"} => u.stamp = 0
    /\ u.pc = "command" => u.stamp # 0

WorkersType == \A w \in Workers : WorkerType(worker[w], Len(runs), clock)

FlagsType ==
    /\ lease \in Workers \cup {Nothing}
    /\ leaseLive \in BOOLEAN /\ proven \in BOOLEAN /\ activated \in BOOLEAN /\ late \in BOOLEAN
    /\ faults \in 0..MaxFaults

BalancesType == balances \in Seq(Balances) /\ snapshots \subseteq Balances

ImportType(i, c) ==
    /\ i \in ImportRows
    /\ i.stamp \in 1..c /\ i.supersedes \in 0..c

ImportsType == clock \in Nat /\ \A i \in imports : ImportType(i, clock)

-----------------------------------------------------------------------------
(* The bank                                                                *)

(***************************************************************************)
(* What happens at the bank leaves it well formed.                         *)
(***************************************************************************)
LEMMA BankTypeStep == ASSUME BankType, [Next]_vars PROVE BankType'
<1> USE ImportAssumption
<1>1. CASE BankChanges
  <2> DEFINE e == Head(future)
  <2>1. /\ future # <<>> /\ e.kind = "change" /\ future' = Tail(future)
        /\ bank' = [bank EXCEPT ![e.key] = [status |-> e.status, amount |-> e.amount,
                                            date |-> DateOf(e.key)]]
        /\ day' = day /\ balanceDay' = balanceDay
    BY <1>1 DEF BankChanges, Happens, Due
  <2>2. e \in Events /\ future' \in Seq(Events)
    BY <2>1, HeadTailProperties DEF BankType
  <2> HIDE DEF e
  <2>3. e.key \in Keys /\ e.status \in Statuses /\ e.amount \in Amounts
    BY <2>1, <2>2 DEF Events
  <2>4. DateOf(e.key) \in Days
    BY <2>3 DEF DateOf, Present, BankType, ViewOrNothing, Views
  <2>5. [status |-> e.status, amount |-> e.amount, date |-> DateOf(e.key)] \in Views
    BY <2>3, <2>4 DEF Views
  <2>6. bank' \in [Keys -> ViewOrNothing]
    BY <2>1, <2>3, <2>5 DEF BankType, ViewOrNothing
  <2> QED
    BY <2>1, <2>2, <2>6 DEF BankType
<1>2. CASE BankPostsBalance
  <2>1. future # <<>>
    BY <1>2 DEF BankPostsBalance, Happens, Due
  <2>2. Tail(future) \in Seq(Events)
    BY <2>1, HeadTailProperties DEF BankType
  <2> QED
    BY <1>2, <2>2 DEF BankPostsBalance, BankType, Days
<1>3. CASE DayPasses
  <2>1. future # <<>>
    BY <1>3 DEF DayPasses, Happens, Due
  <2>2. Tail(future) \in Seq(Events)
    BY <2>1, HeadTailProperties DEF BankType
  <2>3. day' = day + 1 /\ day < MaxDay /\ balanceDay' = balanceDay /\ bank' = bank
        /\ future' = Tail(future)
    BY <1>3 DEF DayPasses
  <2>4. MaxDay \in Nat
    OBVIOUS
  <2> QED
    BY <2>2, <2>3, <2>4 DEF BankType, Days
<1>4. CASE UNCHANGED bankVars
  BY <1>4 DEF BankType, bankVars
<1>5. ASSUME NEW w \in Workers, WorkerStep(w) PROVE UNCHANGED bankVars
  BY <1>5 DEF WorkerStep, BeginSync, LoadPendingReceipts, ProcessPendingReceipt, ReadBalance,
              RenewLease, FetchPage, FinalizePage, ReadRecords, CheckReadiness, RunCommand,
              CompleteSync, LeaseLost, ReceiptAlreadyProcessed, PayloadConflict, SyncFails,
              Crash, FailRun
<1>6. ASSUME LeaseExpires \/ ActivateImport \/ (\E e \in Evidence : PrepareActivation(e))
      PROVE  UNCHANGED bankVars
  BY <1>6 DEF LeaseExpires, ActivateImport, PrepareActivation
<1>7. CASE UNCHANGED vars
  BY <1>4, <1>7 DEF vars
<1> QED
  BY <1>1, <1>2, <1>3, <1>4, <1>5, <1>6, <1>7 DEF Next

-----------------------------------------------------------------------------
(* Sums, greatest and least dates                                          *)

AmountOf(b, B) == MapThenSumSet(LAMBDA k : b[k].amount, B)

(***************************************************************************)
(* The amounts of finitely many views, as PostedBalance and Movement add   *)
(* them up.                                                                *)
(***************************************************************************)
LEMMA AmountsAdd ==
    ASSUME NEW b, NEW B, IsFiniteSet(B), \A k \in B : b[k].amount \in Int
    PROVE  AmountOf(b, B) \in Int
<1> DEFINE f == [k \in B |-> b[k].amount]
           iter == CHOOSE g : g = [s \in SUBSET B |->
                                      IF s = {} THEN 0
                                      ELSE b[Chosen(s)].amount + g[s \ {Chosen(s)}]]
<1>1. f \in [B -> Int] /\ \A k \in B : f[k] = b[k].amount
  OBVIOUS
<1> HIDE DEF f
<1>2. IsSum(f, B, iter)
  <2>0. ASSUME NEW g
        PROVE  IsSum(f, B, g) <=> g = [s \in SUBSET B |->
                                          IF s = {} THEN 0
                                          ELSE b[Chosen(s)].amount + g[s \ {Chosen(s)}]]
    <3>1. \A s \in SUBSET B : s # {} => f[Chosen(s)] = b[Chosen(s)].amount
      BY <1>1, ChosenIn
    <3> DEFINE L == [s \in SUBSET B |-> Body(f, s, g)]
               R == [s \in SUBSET B |-> IF s = {} THEN 0
                                        ELSE b[Chosen(s)].amount + g[s \ {Chosen(s)}]]
    <3>2. \A s \in SUBSET B : L[s] = R[s]
      BY <3>1 DEF Body
    <3>3. L = R
      <4>1. L = [s \in SUBSET B |-> L[s]] /\ R = [s \in SUBSET B |-> R[s]]
        OBVIOUS
      <4> HIDE DEF L, R
      <4> QED
        BY <3>2, <4>1
    <3> QED
      BY <3>3 DEF IsSum
  <2>1. PICK h \in [SUBSET B -> Int] : IsSum(f, B, h)
    BY <1>1, SumExists
  <2>2. h = [s \in SUBSET B |-> IF s = {} THEN 0 ELSE b[Chosen(s)].amount + h[s \ {Chosen(s)}]]
    BY <2>0, <2>1
  <2>3. iter = [s \in SUBSET B |->
                   IF s = {} THEN 0 ELSE b[Chosen(s)].amount + iter[s \ {Chosen(s)}]]
    BY <2>2
  <2> HIDE DEF iter
  <2> QED
    BY <2>0, <2>3
<1>3. AmountOf(b, B) = iter[B]
  BY DEF AmountOf, MapThenSumSet, MapThenFoldSet, Chosen
<1> HIDE DEF iter
<1>4. iter \in [SUBSET B -> Int]
  BY <1>1, <1>2, SumType
<1> QED
  BY <1>3, <1>4

(***************************************************************************)
(* A set of days has a first and a last.                                   *)
(***************************************************************************)
LEMMA FirstAndLast ==
    ASSUME NEW n \in Nat, NEW S, S \subseteq 0..n, S # {}
    PROVE  Max(S) \in S /\ Min(S) \in S
<1>1. \E m \in S : \A x \in S : m >= x
  <2>1. PICK m \in S : \A x \in S : x <= m
    BY Greatest
  <2> QED
    BY <2>1
<1>2. \E m \in S : \A x \in S : m <= x
  <2> DEFINE T == {n - x : x \in S}
  <2>1. T \subseteq 0..n /\ T # {}
    <3>1. \A x \in S : n - x \in 0..n
      OBVIOUS
    <3>2. PICK x \in S : TRUE
      OBVIOUS
    <3>3. n - x \in T
      BY <3>2
    <3> QED
      BY <3>1, <3>3
  <2>2. PICK d \in T : \A e \in T : e <= d
    BY <2>1, Greatest
  <2>3. PICK m \in S : d = n - m
    OBVIOUS
  <2>4. \A x \in S : n - x <= n - m
    BY <2>2, <2>3
  <2> QED
    BY <2>4
<1>3. Max(S) \in S
  BY <1>1, Zenon DEF Max
<1>4. Min(S) \in S
  BY <1>2, Zenon DEF Min
<1> QED
  BY <1>3, <1>4

(***************************************************************************)
(* The bank's balance is an amount of a day, if it has one.                *)
(***************************************************************************)
LEMMA PostedType == ASSUME BankType PROVE PostedBalance \in Balances \cup {Nothing}
<1> DEFINE B == BookedOn(balanceDay)
<1>1. IsFiniteSet(B) /\ \A k \in B : bank[k].amount \in Int
  <2>1. B \subseteq Keys
    BY DEF BookedOn
  <2>2. \A k \in B : bank[k] \in Views
    BY DEF BookedOn, IsBooked, BankType, ViewOrNothing
  <2> QED
    BY <2>1, <2>2, FS_Subset, ImportAssumption DEF Views
<1> HIDE DEF B
<1>2. AmountOf(bank, B) \in Int
  BY <1>1, AmountsAdd
<1>3. CASE balanceDay < 0
  <2>1. PostedBalance = Nothing
    BY <1>3, Zenon DEF PostedBalance
  <2> QED
    BY <2>1
<1>4. CASE ~ (balanceDay < 0)
  <2>1. PostedBalance = [amount |-> Opening + AmountOf(bank, B), day |-> balanceDay]
    BY <1>4 DEF PostedBalance, AmountOf, B
  <2>3. balanceDay \in Days
    BY <1>4, ImportAssumption DEF BankType, Days
  <2> QED
    BY <1>2, <2>1, <2>3, ImportAssumption DEF Balances
<1> QED
  BY <1>3, <1>4

(***************************************************************************)
(* The latest balance is one of those observed.                            *)
(***************************************************************************)
LEMMA LatestIsObserved ==
    ASSUME balances \in Seq(Balances), balances # <<>>
    PROVE  LatestBalance \in Balances
<1> DEFINE D == {balances[i].day : i \in DOMAIN balances}
           I == {i \in DOMAIN balances : balances[i].day = Max(D)}
<1>1. /\ Len(balances) \in Nat \ {0} /\ DOMAIN balances = 1..Len(balances)
      /\ \A i \in DOMAIN balances : balances[i] \in Balances
  BY LenProperties, EmptySeq
<1>2. D \subseteq 0..MaxDay /\ D # {} /\ MaxDay \in Nat
  BY <1>1, ImportAssumption DEF Balances, Days
<1>3. Max(D) \in D
  <2> HIDE DEF D
  <2> QED
    BY <1>2, FirstAndLast
<1>4. I \subseteq 0..Len(balances) /\ I # {}
  <2>1. PICK i \in DOMAIN balances : balances[i].day = Max(D)
    BY <1>3
  <2>2. i \in I
    BY <2>1
  <2>3. I \subseteq DOMAIN balances
    OBVIOUS
  <2> HIDE DEF I
  <2> QED
    BY <1>1, <2>2, <2>3
<1>5. Max(I) \in I
  <2> HIDE DEF I
  <2> QED
    BY <1>1, <1>4, FirstAndLast
<1>6. LatestBalance = balances[Max(I)]
  BY DEF LatestBalance
<1> QED
  BY <1>1, <1>5, <1>6

-----------------------------------------------------------------------------
(* The runs                                                                *)

(***************************************************************************)
(* Sequences of one domain are of one length.                              *)
(***************************************************************************)
LEMMA SameLength ==
    ASSUME NEW s, NEW t, IsSequence(s), IsSequence(t), DOMAIN s = DOMAIN t
    PROVE  Len(s) \in Nat /\ DOMAIN s = 1..Len(s) /\ Len(t) = Len(s)
<1>1. /\ Len(s) \in Nat /\ DOMAIN s = 1..Len(s)
      /\ Len(t) \in Nat /\ DOMAIN t = 1..Len(t)
  BY AppendShape
<1> DEFINE m == Len(s)
           n == Len(t)
<1>2. m \in Nat /\ n \in Nat /\ 1..m = 1..n
  BY <1>1
<1> HIDE DEF m, n
<1>3. m <= n
  <2>1. m # 0 => m \in 1..m
    BY <1>2
  <2>2. m # 0 => m \in 1..n
    BY <1>2, <2>1
  <2> QED
    BY <1>2, <2>2
<1>4. n <= m
  <2>1. n # 0 => n \in 1..n
    BY <1>2
  <2>2. n # 0 => n \in 1..m
    BY <1>2, <2>1
  <2> QED
    BY <1>2, <2>2
<1>5. m = n
  BY <1>2, <1>3, <1>4
<1> QED
  BY <1>1, <1>5 DEF m, n

(***************************************************************************)
(* Runs are only added, one at a time and up to MaxRuns.                   *)
(***************************************************************************)
LEMMA RunsGrow ==
    ASSUME CoverInv, CoverInv', [Next]_vars
    PROVE  /\ Len(runs) \in Nat /\ DOMAIN runs = 1..Len(runs)
           /\ Len(runs') \in Nat /\ DOMAIN runs' = 1..Len(runs')
           /\ \/ Len(runs') = Len(runs)
              \/ /\ Len(runs') = Len(runs) + 1 /\ Len(runs) < MaxRuns
                 /\ activeRun = 0 /\ activeRun' = Len(runs')
<1>1. RunsShaped /\ RunsShaped' /\ WorkersShaped
  BY DEF CoverInv, Shape
<1>2. /\ Len(runs) \in Nat /\ DOMAIN runs = 1..Len(runs)
      /\ Len(runs') \in Nat /\ DOMAIN runs' = 1..Len(runs')
  BY <1>1, AppendShape DEF RunsShaped
<1>3. ASSUME DOMAIN runs' = DOMAIN runs PROVE Len(runs') = Len(runs)
  BY <1>1, <1>3, SameLength DEF RunsShaped
<1>4. ASSUME NEW w \in Workers, BeginSync(w), DOMAIN runs' # DOMAIN runs
      PROVE  /\ Len(runs') = Len(runs) + 1 /\ Len(runs) < MaxRuns
             /\ activeRun = 0 /\ activeRun' = Len(runs')
  <2>1. activeRun = 0 /\ Len(runs) < MaxRuns /\ activeRun' = Len(runs')
    BY <1>4 DEF BeginSync
  <2> QED
    BY <1>1, <1>4, <2>1, Beginning
<1>5. ASSUME NEW w \in Workers, \/ Moves(w) \/ Dies(w) \/ Fails(w) \/ Finalizes(w)
                                \/ FetchPage(w) \/ CompleteSync(w)
      PROVE  DOMAIN runs' = DOMAIN runs
  <2>1. CASE Moves(w) \/ Dies(w)
    BY <2>1 DEF Moves, Dies
  <2>2. CASE Fails(w)
    BY <1>1, <2>2, FailureKeeps DEF Fails
  <2>3. CASE Finalizes(w)
    BY <1>1, <2>3, Finalizing
  <2>4. CASE FetchPage(w)
    BY <1>1, <2>4, Fetching
  <2>5. CASE CompleteSync(w)
    BY <1>1, <2>5, CompletingRun
  <2> QED
    BY <1>5, <2>1, <2>2, <2>3, <2>4, <2>5
<1>6. CASE BankChanges
  BY <1>1, <1>2, <1>3, <1>6, ChangeKeeps
<1>7. CASE UNCHANGED runs
  BY <1>2, <1>7
<1> QED
  BY <1>1, <1>2, <1>3, <1>4, <1>5, <1>6, <1>7, Steps

(***************************************************************************)
(* A page shows views of transactions.                                     *)
(***************************************************************************)
LEMMA PageType ==
    ASSUME BankType, NEW page \in 1..Pages
    PROVE  [page |-> page, content |-> PageContent(page)] \in Receipts
<1> DEFINE S == {k \in Keys : PageOf[k] = page /\ Present(k)}
<1>1. \A k \in S : bank[k] \in Views
  BY DEF Present, BankType, ViewOrNothing
<1>2. PageContent(page) \in [S -> Views]
  BY <1>1 DEF PageContent
<1>3. S \in SUBSET Keys
  OBVIOUS
<1> HIDE DEF S
<1>4. PageContent(page) \in Contents
  BY <1>2, <1>3 DEF Contents
<1> QED
  BY <1>4 DEF Receipts

(***************************************************************************)
(* A run that is kept keeps its type.                                      *)
(***************************************************************************)
LEMMA KeptType == ASSUME NEW u, NEW v, RunType(u), Kept(u, v) PROVE RunType(v)
<1>1. \A i \in DOMAIN v.receipts : v.receipts[i] \in Receipts
  BY DEF Kept, RunType, Receipts
<1> QED
  BY <1>1 DEF Kept, RunType

(***************************************************************************)
(* The runs remain well formed.                                            *)
(***************************************************************************)
LEMMA RunsTypeStep ==
    ASSUME CoverInv, CoverInv', BankType, RunsType, WorkersType, [Next]_vars
    PROVE  RunsType'
<1>1. RunsShaped /\ RunsShaped' /\ WorkersShaped
  BY DEF CoverInv, Shape
<1>2. Len(runs') <= MaxRuns
  BY RunsGrow, ImportAssumption DEF RunsType
<1>3. \A r \in DOMAIN runs : RunType(runs[r])
  BY DEF RunsType
<1>4. ASSUME NEW r, Others(r), DOMAIN runs' = DOMAIN runs,
             r \in DOMAIN runs => RunType(runs'[r])
      PROVE  \A q \in DOMAIN runs' : RunType(runs'[q])
  BY <1>3, <1>4, KeptType DEF Others
<1>5. ASSUME UNCHANGED runs
      PROVE  \A q \in DOMAIN runs' : RunType(runs'[q])
  BY <1>3, <1>5
<1>6. ASSUME BankChanges
      PROVE  \A q \in DOMAIN runs' : RunType(runs'[q])
  BY <1>1, <1>3, <1>6, ChangeKeeps, KeptType
<1>7. ASSUME NEW w \in Workers, Fails(w)
      PROVE  \A q \in DOMAIN runs' : RunType(runs'[q])
  BY <1>1, <1>3, <1>7, FailureKeeps, KeptType DEF Fails
<1>8. ASSUME NEW w \in Workers, Finalizes(w)
      PROVE  \A q \in DOMAIN runs' : RunType(runs'[q])
  <2> DEFINE r == worker[w].run
  <2>1. PICK i \in Received(r) : r \in DOMAIN runs /\ runs' = [runs EXCEPT ![r] = Finalized(r, i)]
    BY <1>1, <1>8, Finalizing
  <2> DEFINE v == Finalized(r, i)
  <2>2. /\ RunShape(v)
        /\ v.status = runs[r].status /\ v.expected = runs[r].expected
        /\ v.from = runs[r].from /\ v.through = runs[r].through
        /\ DOMAIN v.receipts = DOMAIN runs[r].receipts
        /\ v.receipts[i] = Nothing
        /\ \A j \in DOMAIN v.receipts : j # i => v.receipts[j] = runs[r].receipts[j]
    BY <1>1, <2>1, FinalizedRun
  <2> HIDE DEF v
  <2>3. RunType(runs[r]) /\ runs' = [runs EXCEPT ![r] = v]
    BY <1>3, <2>1 DEF v
  <2>4. RunType(v)
    BY <2>2, <2>3 DEF RunType, Receipts
  <2>5. DOMAIN runs' = DOMAIN runs /\ runs'[r] = v /\ Others(r)
    BY <1>1, <2>1, <2>2, <2>3, WrittenRun
  <2> QED
    BY <1>4, <2>4, <2>5
<1>9. ASSUME NEW w \in Workers, FetchPage(w)
      PROVE  \A q \in DOMAIN runs' : RunType(runs'[q])
  <2> DEFINE r    == worker[w].run
             page == worker[w].cursor + 1
             rec  == [page |-> page, content |-> PageContent(page)]
  <2>1. /\ r \in DOMAIN runs /\ page \in 1..Pages
        /\ DOMAIN runs' = DOMAIN runs /\ Others(r)
        /\ runs'[r].status = runs[r].status /\ runs'[r].expected = runs[r].expected
        /\ runs'[r].from = runs[r].from /\ runs'[r].through = runs[r].through
        /\ \A j \in DOMAIN runs'[r].receipts :
              \/ j \in DOMAIN runs[r].receipts /\ runs'[r].receipts[j] = runs[r].receipts[j]
              \/ runs'[r].receipts[j] = rec
    BY <1>1, <1>9, Fetching
  <2>2. rec \in Receipts
    BY <2>1, PageType
  <2> HIDE DEF rec, page
  <2>3. RunType(runs[r])
    BY <1>3, <2>1
  <2>4. \A j \in DOMAIN runs'[r].receipts : runs'[r].receipts[j] \in Receipts
    BY <2>1, <2>2, <2>3 DEF RunType
  <2>5. RunType(runs'[r])
    BY <2>1, <2>3, <2>4 DEF RunType
  <2> QED
    BY <1>4, <2>1, <2>5
<1>10. ASSUME NEW w \in Workers, CompleteSync(w)
       PROVE  \A q \in DOMAIN runs' : RunType(runs'[q])
  <2> DEFINE r == worker[w].run
  <2>1. /\ r \in DOMAIN runs
        /\ DOMAIN runs' = DOMAIN runs /\ Others(r)
        /\ runs'[r].status = "completed" /\ runs'[r].expected = runs[r].expected
        /\ runs'[r].receipts = runs[r].receipts
        /\ runs'[r].from = worker[w].from /\ runs'[r].through = worker[w].through
    BY <1>1, <1>10, CompletingRun
  <2>2. RunType(runs[r])
    BY <1>3, <2>1
  <2>3. worker[w].from \in Days \cup {Nothing} /\ worker[w].through \in Days \cup {Nothing}
    BY DEF WorkersType, WorkerType
  <2>4. RunType(runs'[r])
    BY <2>1, <2>2, <2>3 DEF RunType
  <2> QED
    BY <1>4, <2>1, <2>4
<1>11. ASSUME NEW w \in Workers, BeginSync(w)
       PROVE  \A q \in DOMAIN runs' : RunType(runs'[q])
  <2>1. CASE activeRun # 0
    BY <1>5, <1>11, <2>1 DEF BeginSync
  <2>2. CASE activeRun = 0
    <3>1. /\ NewRun.status = "running" /\ NewRun.receipts = <<>>
          /\ NewRun.from = Nothing /\ NewRun.through = Nothing
          /\ NewRun.expected = {[key |-> k, view |-> bank[k]] : k \in {k \in Keys : IsBooked(bank[k])}}
      BY DEF NewRun
    <3>2. NewRun.expected \subseteq Records
      BY <3>1 DEF Records, IsBooked, BankType, ViewOrNothing
    <3>3. DOMAIN <<>> = {}
      OBVIOUS
    <3> HIDE DEF NewRun
    <3>4. RunType(NewRun)
      BY <3>1, <3>2, <3>3 DEF RunType
    <3> QED
      BY <1>1, <1>3, <1>11, <2>2, <3>4, Beginning
  <2> QED
    BY <2>1, <2>2
<1>12. \A q \in DOMAIN runs' : RunType(runs'[q])
  <2>1. ASSUME NEW w \in Workers, Moves(w) \/ Dies(w) PROVE UNCHANGED runs
    BY <2>1 DEF Moves, Dies
  <2> QED
    BY <1>1, <1>5, <1>6, <1>7, <1>8, <1>9, <1>10, <1>11, <2>1, Steps
<1> QED
  BY <1>2, <1>12 DEF RunsType

-----------------------------------------------------------------------------
(* What has been scanned                                                   *)

(***************************************************************************)
(* What a stored receipt shows.                                            *)
(***************************************************************************)
LEMMA ReceiptShows ==
    ASSUME RunsType, NEW r \in DOMAIN runs, NEW i \in Received(r)
    PROVE  LET p == ReceiptsOf(r)[i].content
           IN  DOMAIN p \subseteq Keys /\ \A k \in DOMAIN p : p[k] \in Views
<1>1. ReceiptsOf(r)[i] \in Receipts /\ ReceiptsOf(r)[i] # Nothing
  BY DEF RunsType, RunType, Received, ReceiptsOf
<1>2. ReceiptsOf(r)[i].content \in Contents
  BY <1>1 DEF Receipts
<1>3. PICK S \in SUBSET Keys : ReceiptsOf(r)[i].content \in [S -> Views]
  BY <1>2 DEF Contents
<1> QED
  BY <1>3

(***************************************************************************)
(* A step that finalises a receipt, as it concerns the revisions, the      *)
(* observations and the histories.                                         *)
(***************************************************************************)
LEMMA FinalizingScan ==
    ASSUME CoverInv, RunsType, NEW w \in Workers, Finalizes(w)
    PROVE  \E p \in Contents :
              /\ worker[w].run \in DOMAIN runs
              /\ DOMAIN p \subseteq Keys /\ \A k \in DOMAIN p : p[k] \in Views
              /\ \A k \in DOMAIN p : KnownIn([key |-> k, view |-> p[k]], known')
              /\ known' = Revisions(p, worker[w].run)
              /\ current' = Observations(p)
              /\ scanned' = [k \in Keys |-> IF k \in DOMAIN p THEN p[k] ELSE scanned[k]]
              /\ returned' = returned \cup {k \in DOMAIN p : GoesBack(k, p[k])}
<1> DEFINE r == worker[w].run
<1>1. PICK i \in Received(r) : r \in DOMAIN runs /\ FinalizeReceipt(r, i)
  BY Finalizing DEF CoverInv, Shape
<1> DEFINE p == ReceiptsOf(r)[i].content
<1>2. DOMAIN p \subseteq Keys /\ \A k \in DOMAIN p : p[k] \in Views
  BY <1>1, ReceiptShows
<1>3. p \in Contents
  <2>1. ReceiptsOf(r)[i] \in Receipts /\ ReceiptsOf(r)[i] # Nothing
    BY <1>1 DEF RunsType, RunType, Received, ReceiptsOf
  <2> QED
    BY <2>1 DEF Receipts
<1>4. /\ known' = Revisions(p, r)
      /\ current' = Observations(p)
      /\ scanned' = [k \in Keys |-> IF k \in DOMAIN p THEN p[k] ELSE scanned[k]]
      /\ returned' = returned \cup {k \in DOMAIN p : GoesBack(k, p[k])}
  BY <1>1 DEF FinalizeReceipt
<1>5. ASSUME NEW k \in DOMAIN p PROVE KnownIn([key |-> k, view |-> p[k]], known')
  <2>1. Seen([key |-> k, view |-> p[k]], p)
    BY DEF Seen
  <2>2. KnownShaped
    BY DEF CoverInv, Shape
  <2>3. p = runs[r].receipts[i].content
    BY DEF ReceiptsOf
  <2> HIDE DEF p
  <2> QED
    BY <1>1, <2>1, <2>2, <2>3, PageKnown
<1> HIDE DEF p
<1> QED
  BY <1>1, <1>2, <1>3, <1>4, <1>5

(***************************************************************************)
(* What becomes of the observation of a transaction.                       *)
(***************************************************************************)
LEMMA ObservationOf ==
    ASSUME NEW p, NEW k \in Keys
    PROVE  /\ k \notin DOMAIN p => Observations(p)[k] = current[k]
           /\ k \in DOMAIN p /\ current[k] = p[k] => Observations(p)[k] = current[k]
           /\ k \in DOMAIN p /\ current[k] # p[k] /\ IsKnown(k, p[k]) => Observations(p)[k] = Nothing
           /\ k \in DOMAIN p /\ current[k] # p[k] /\ ~ IsKnown(k, p[k]) => Observations(p)[k] = p[k]
  BY DEF Observations

(***************************************************************************)
(* Revisions, observations and histories remain well formed.               *)
(***************************************************************************)
LEMMA ScanTypeStep ==
    ASSUME CoverInv, CoverInv', RunsType, ScanType, [Next]_vars
    PROVE  ScanType'
<1>1. /\ RunsShaped /\ RunsShaped' /\ WorkersShaped /\ KnownShaped
      /\ Len(runs) \in Nat /\ DOMAIN runs = 1..Len(runs)
      /\ Len(runs') \in Nat /\ Len(runs) <= Len(runs')
  BY RunsGrow DEF CoverInv, Shape
<1>2. KnownType(known, Len(runs'))
  <2> SUFFICES ASSUME NEW e \in known
               PROVE  /\ e.key \in Keys /\ e.view \in Views /\ e.run \in 1..Len(runs')
                      /\ e.first \in 0..Len(runs') /\ e.replay \in 0..Len(runs')
    BY DEF KnownType
  <2>1. /\ e.key \in Keys /\ e.view \in Views /\ e.run \in 1..Len(runs)
        /\ e.first \in 0..Len(runs) /\ e.replay \in 0..Len(runs)
    BY DEF ScanType, KnownType
  <2> QED
    BY <1>1, <2>1
<1>3. ASSUME UNCHANGED <<current, scanned, returned>>, UNCHANGED known
      PROVE  ScanType'
  BY <1>2, <1>3 DEF ScanType
<1>4. ASSUME NEW w \in Workers, Finalizes(w) PROVE ScanType'
  <2> DEFINE r == worker[w].run
  <2>1. PICK p \in Contents :
              /\ r \in DOMAIN runs
              /\ DOMAIN p \subseteq Keys /\ \A k \in DOMAIN p : p[k] \in Views
              /\ known' = Revisions(p, r)
              /\ current' = Observations(p)
              /\ scanned' = [k \in Keys |-> IF k \in DOMAIN p THEN p[k] ELSE scanned[k]]
              /\ returned' = returned \cup {k \in DOMAIN p : GoesBack(k, p[k])}
    BY <1>4, FinalizingScan
  <2>2. r \in 1..Len(runs') /\ 0 \in 0..Len(runs')
    BY <1>1, <2>1
  <2>3. KnownType(known', Len(runs'))
    <3> SUFFICES ASSUME NEW e \in known'
                 PROVE  /\ e.key \in Keys /\ e.view \in Views /\ e.run \in 1..Len(runs')
                        /\ e.first \in 0..Len(runs') /\ e.replay \in 0..Len(runs')
      BY DEF KnownType
    <3>1. CASE \E x \in known : e = IF Seen(x, p) THEN [x EXCEPT !.run = r] ELSE x
      <4>1. PICK x \in known : e = IF Seen(x, p) THEN [x EXCEPT !.run = r] ELSE x
        BY <3>1
      <4>2. DOMAIN x = KnownFields
        BY <1>1 DEF KnownShaped
      <4>3. /\ e.key = x.key /\ e.view = x.view /\ e.run \in {x.run, r}
            /\ e.first = x.first /\ e.replay = x.replay
        BY <4>1, <4>2 DEF KnownFields
      <4> QED
        BY <1>2, <2>2, <4>3 DEF KnownType
    <3>2. CASE \E k \in DOMAIN p :
                  e = [key |-> k, view |-> p[k], run |-> r, first |-> 0, replay |-> 0]
      BY <2>1, <2>2, <3>2
    <3> QED
      BY <2>1, <3>1, <3>2 DEF Revisions
  <2>4. current' \in [Keys -> ViewOrNothing]
    <3>1. \A k \in Keys : current'[k] \in {current[k], Nothing} \/ (k \in DOMAIN p /\ current'[k] = p[k])
      BY <2>1, ObservationOf
    <3>2. current' = [k \in Keys |-> current'[k]]
      BY <2>1 DEF Observations
    <3>3. \A k \in Keys : current'[k] \in ViewOrNothing
      BY <2>1, <3>1 DEF ScanType, ViewOrNothing
    <3> QED
      BY <3>2, <3>3
  <2>5. scanned' \in [Keys -> ViewOrNothing] /\ returned' \subseteq Keys
    BY <2>1 DEF ScanType, ViewOrNothing
  <2> QED
    BY <2>3, <2>4, <2>5 DEF ScanType
<1>5. ASSUME NEW w \in Workers, CompleteSync(w) PROVE ScanType'
  <2> DEFINE r == worker[w].run
  <2>1. known' = CompletionProof(r) /\ UNCHANGED <<current, scanned, returned>>
    BY <1>5 DEF CompleteSync
  <2>2. r \in 1..Len(runs')
    BY <1>1, <1>5, CompletingRun
  <2>3. KnownType(known', Len(runs'))
    <3> SUFFICES ASSUME NEW e \in known'
                 PROVE  /\ e.key \in Keys /\ e.view \in Views /\ e.run \in 1..Len(runs')
                        /\ e.first \in 0..Len(runs') /\ e.replay \in 0..Len(runs')
      BY DEF KnownType
    <3>1. PICK x \in known :
             e = IF x.run = r /\ IsBooked(x.view)
                 THEN [x EXCEPT !.first = IF @ = 0 THEN r ELSE @,
                                !.replay = IF x.first \notin {0, r} THEN r ELSE 0]
                 ELSE x
      BY <2>1 DEF CompletionProof
    <3>2. DOMAIN x = KnownFields
      BY <1>1 DEF KnownShaped
    <3>3. /\ e.key = x.key /\ e.view = x.view /\ e.run = x.run
          /\ e.first \in {x.first, r} /\ e.replay \in {x.replay, r, 0}
      BY <3>1, <3>2 DEF KnownFields
    <3> QED
      BY <1>1, <1>2, <2>2, <3>3 DEF KnownType
  <2> QED
    BY <2>1, <2>3 DEF ScanType
<1>6. \/ UNCHANGED <<current, scanned, returned>> /\ UNCHANGED known
      \/ \E w \in Workers : Finalizes(w) \/ CompleteSync(w)
  <2>1. ASSUME NEW w \in Workers, WorkerStep(w)
        PROVE  \/ UNCHANGED <<current, scanned, returned>> /\ UNCHANGED known
               \/ Finalizes(w) \/ CompleteSync(w)
    BY <2>1 DEF WorkerStep, Finalizes, BeginSync, LoadPendingReceipts, ReadBalance, RenewLease,
                FetchPage, ReadRecords, CheckReadiness, RunCommand, LeaseLost,
                ReceiptAlreadyProcessed, PayloadConflict, SyncFails, Crash, FailRun, scanVars
  <2>2. ASSUME \/ BankChanges \/ BankPostsBalance \/ DayPasses \/ LeaseExpires \/ ActivateImport
               \/ (\E e \in Evidence : PrepareActivation(e)) \/ UNCHANGED vars
        PROVE  UNCHANGED <<current, scanned, returned>> /\ UNCHANGED known
    BY <2>2 DEF BankChanges, BankPostsBalance, DayPasses, LeaseExpires, ActivateImport,
                PrepareActivation, scanVars, vars
  <2> QED
    BY <2>1, <2>2 DEF Next
<1> QED
  BY <1>3, <1>4, <1>5, <1>6

-----------------------------------------------------------------------------
(* The workers                                                             *)

(***************************************************************************)
(* The clock never goes back.                                              *)
(***************************************************************************)
LEMMA ClockGrows ==
    ASSUME clock \in Nat, [Next]_vars
    PROVE  clock' \in Nat /\ clock <= clock'
<1>1. UNCHANGED clock \/ clock' = clock + 1
  <2>1. ASSUME NEW w \in Workers, WorkerStep(w) PROVE UNCHANGED clock \/ clock' = clock + 1
    BY <2>1 DEF WorkerStep, BeginSync, LoadPendingReceipts, ProcessPendingReceipt, ReadBalance,
                RenewLease, FetchPage, FinalizePage, ReadRecords, CheckReadiness, RunCommand,
                CompleteSync, LeaseLost, ReceiptAlreadyProcessed, PayloadConflict, SyncFails,
                Crash, FailRun, ledgerVars
  <2>2. ASSUME \/ BankChanges \/ BankPostsBalance \/ DayPasses \/ LeaseExpires \/ ActivateImport
               \/ (\E e \in Evidence : PrepareActivation(e)) \/ UNCHANGED vars
        PROVE  UNCHANGED clock \/ clock' = clock + 1
    BY <2>2 DEF BankChanges, BankPostsBalance, DayPasses, LeaseExpires, ActivateImport,
                PrepareActivation, ledgerVars, vars
  <2> QED
    BY <2>1, <2>2 DEF Next
<1> QED
  BY <1>1

(***************************************************************************)
(* The first booking seen last by a run, and the day it was read.          *)
(***************************************************************************)
LEMMA CoverageType ==
    ASSUME BankType, ScanType, NEW r, BookedDates(r) # {}
    PROVE  Min(BookedDates(r)) \in Days
<1> DEFINE S == BookedDates(r)
<1>1. S \subseteq 0..MaxDay /\ MaxDay \in Nat
  <2>1. \A e \in known : e.view.date \in 0..MaxDay
    BY DEF ScanType, KnownType, Views, Days
  <2> QED
    BY <2>1, ImportAssumption DEF BookedDates
<1>2. S # {}
  OBVIOUS
<1> HIDE DEF S
<1>3. Min(S) \in S
  BY <1>1, <1>2, FirstAndLast
<1> QED
  BY <1>1, <1>3 DEF S, Days

(***************************************************************************)
(* What a worker's step writes of the worker.                              *)
(***************************************************************************)
LEMMA WorkerWrites ==
    ASSUME CoverInv, BankType, ScanType, RunsType, NEW w \in Workers, clock \in Nat,
           WorkerType(worker[w], Len(runs), clock), Len(runs') \in Nat, Len(runs) <= Len(runs'),
           clock' \in Nat, clock <= clock', activeRun' \in 0..Len(runs'), WorkerStep(w)
    PROVE  /\ worker' = [worker EXCEPT ![w] = worker'[w]]
           /\ WorkerType(worker'[w], Len(runs'), clock')
<1> DEFINE u == worker[w]
           v == worker'[w]
<1>1. /\ DOMAIN worker = Workers /\ DOMAIN u = DOMAIN Idle
      /\ DOMAIN Idle = {"pc", "run", "cursor", "receipt", "pending", "started", "balance", "records",
                        "from", "through", "stamp"}
      /\ Len(runs) \in Nat
  <2>1. DOMAIN worker = Workers /\ DOMAIN u = DOMAIN Idle /\ IsSequence(runs)
    BY DEF CoverInv, Shape, WorkersShaped, WorkerShape, RunsShaped
  <2> QED
    BY <2>1, AppendShape DEF Idle
<1>2. WorkerType(u, Len(runs'), clock')
  <2>1. u.run \in 0..Len(runs') /\ u.stamp \in 0..clock'
    BY <1>1 DEF WorkerType
  <2> QED
    BY <2>1 DEF WorkerType
<1>3. worker' = [worker EXCEPT ![w] = v]
  <2>1. \E x : worker' = [worker EXCEPT ![w] = x]
    BY DEF WorkerStep, BeginSync, LoadPendingReceipts, ProcessPendingReceipt, ReadBalance,
           RenewLease, FetchPage, FinalizePage, ReadRecords, CheckReadiness, RunCommand,
           CompleteSync, LeaseLost, ReceiptAlreadyProcessed, PayloadConflict, SyncFails,
           Crash, FailRun, Go, Set
  <2> QED
    BY <1>1, <2>1
<1>4. CASE \/ CompleteSync(w) \/ LeaseLost(w) \/ ReceiptAlreadyProcessed(w) \/ PayloadConflict(w)
           \/ SyncFails(w) \/ Crash(w)
  <2>1. v = Idle
    BY <1>1, <1>4 DEF CompleteSync, LeaseLost, ReceiptAlreadyProcessed, PayloadConflict,
                      SyncFails, Crash, FailRun, Set
  <2>2. WorkerType(Idle, Len(runs'), clock')
    BY DEF Idle, WorkerType, WorkerPCs, WithRecords
  <2> QED
    BY <1>3, <2>1, <2>2
<1>5. CASE BeginSync(w)
  <2>1. v = [Idle EXCEPT !.pc = "receipts", !.run = activeRun', !.started = day,
                         !.cursor = runs'[activeRun'].cursor]
    BY <1>1, <1>5 DEF BeginSync, Set
  <2>2. /\ v.pc = "receipts" /\ v.run = activeRun' /\ v.balance = Nothing
        /\ v.from = Nothing /\ v.through = Nothing /\ v.stamp = 0
    BY <2>1 DEF Idle
  <2> HIDE DEF v
  <2>3. WorkerType(v, Len(runs'), clock')
    BY <2>2 DEF WorkerType, WorkerPCs, WithRecords
  <2> QED
    BY <1>3, <2>3 DEF v
<1>6. CASE LoadPendingReceipts(w) \/ RenewLease(w) \/ FetchPage(w) \/ Finalizes(w)
  <2>1. /\ v.pc \in {"resume", "fetch", "page", "scan", "records"}
        /\ u.pc \in {"receipts", "resume", "scan", "fetch", "page"}
        /\ v.run = u.run /\ v.balance = u.balance /\ v.from = u.from /\ v.through = u.through
        /\ v.stamp = u.stamp
    <3>1. CASE LoadPendingReceipts(w)
      BY <1>1, <3>1 DEF LoadPendingReceipts, Set
    <3>2. CASE RenewLease(w)
      BY <1>1, <3>2 DEF RenewLease, Go, Set
    <3>3. CASE FetchPage(w)
      BY <1>1, <3>3 DEF FetchPage, Set
    <3>4. CASE ProcessPendingReceipt(w)
      BY <1>1, <3>4 DEF ProcessPendingReceipt, Set
    <3>5. CASE FinalizePage(w)
      BY <1>1, <3>5 DEF FinalizePage, Set
    <3> QED
      BY <1>6, <3>1, <3>2, <3>3, <3>4, <3>5 DEF Finalizes
  <2> HIDE DEF u, v
  <2>2. WorkerType(v, Len(runs'), clock')
    BY <1>2, <2>1 DEF WorkerType, WorkerPCs, WithRecords
  <2> QED
    BY <1>3, <2>2 DEF v
<1>7. CASE ReadBalance(w)
  <2>1. /\ v.pc = "scan" /\ u.pc = "resume" /\ v.run = u.run /\ v.balance = PostedBalance
        /\ v.from = u.from /\ v.through = u.through /\ v.stamp = u.stamp
    BY <1>1, <1>7 DEF ReadBalance, Set
  <2>2. PostedBalance \in Balances \cup {Nothing}
    BY PostedType
  <2> HIDE DEF u, v
  <2>3. WorkerType(v, Len(runs'), clock')
    BY <1>2, <2>1, <2>2 DEF WorkerType, WorkerPCs, WithRecords
  <2> QED
    BY <1>3, <2>3 DEF v
<1>8. CASE ReadRecords(w)
  <2> DEFINE dates == BookedDates(u.run)
  <2>1. /\ v.pc = "ready" /\ u.pc = "records" /\ v.run = u.run /\ v.balance = u.balance
        /\ v.records = current /\ v.stamp = u.stamp
        /\ v.from = (IF dates = {} THEN Nothing ELSE Min(dates))
        /\ v.through = (IF dates = {} THEN Nothing ELSE day)
    BY <1>1, <1>8 DEF ReadRecords, Set
  <2>2. dates = {} \/ Min(dates) \in Days
    BY CoverageType
  <2> HIDE DEF u, v, dates
  <2>3. day \in Days /\ current \in [Keys -> ViewOrNothing]
    BY DEF BankType, ScanType
  <2>4. WorkerType(v, Len(runs'), clock')
    BY <1>2, <2>1, <2>2, <2>3 DEF WorkerType, WorkerPCs, WithRecords
  <2> QED
    BY <1>3, <2>4 DEF v
<1>9. CASE CheckReadiness(w)
  <2>1. /\ u.pc = "ready" /\ v.run = u.run /\ v.balance = u.balance
        /\ v.records = u.records /\ v.from = u.from /\ v.through = u.through
        /\ \/ v.pc = "command" /\ v.stamp = clock' /\ clock' = clock + 1
           \/ v.pc = "complete" /\ v.stamp = u.stamp
    <3>1. /\ u.pc = "ready"
          /\ \/ clock' = clock + 1 /\ v = [u EXCEPT !.pc = "command", !.stamp = clock']
             \/ v = [u EXCEPT !.pc = "complete"]
      BY <1>1, <1>9 DEF CheckReadiness, Go, Set
    <3> HIDE DEF u, v
    <3> QED
      BY <1>1, <3>1
  <2> HIDE DEF u, v
  <2>2. WorkerType(v, Len(runs'), clock')
    BY <1>2, <2>1 DEF WorkerType, WorkerPCs, WithRecords
  <2> QED
    BY <1>3, <2>2 DEF v
<1>10. CASE RunCommand(w)
  <2>1. /\ u.pc = "command" /\ v.pc = "complete" /\ v.run = u.run /\ v.balance = u.balance
        /\ v.records = u.records /\ v.from = u.from /\ v.through = u.through /\ v.stamp = u.stamp
    BY <1>1, <1>10 DEF RunCommand, Go, Set
  <2> HIDE DEF u, v
  <2>2. WorkerType(v, Len(runs'), clock')
    BY <1>2, <2>1 DEF WorkerType, WorkerPCs, WithRecords
  <2> QED
    BY <1>3, <2>2 DEF v
<1> QED
  BY <1>4, <1>5, <1>6, <1>7, <1>8, <1>9, <1>10 DEF WorkerStep, Finalizes

(***************************************************************************)
(* The workers remain well formed.                                         *)
(***************************************************************************)
LEMMA WorkersTypeStep ==
    ASSUME CoverInv, CoverInv', BankType, ScanType, RunsType, WorkersType, clock \in Nat, [Next]_vars
    PROVE  WorkersType'
<1>1. /\ Len(runs) \in Nat /\ Len(runs') \in Nat /\ Len(runs) <= Len(runs')
      /\ clock' \in Nat /\ clock <= clock'
  BY RunsGrow, ClockGrows
<1>2. activeRun' \in 0..Len(runs')
  <2>1. activeRun' = 0 \/ activeRun' \in DOMAIN runs'
    BY DEF CoverInv, Shape, ActiveShape
  <2> QED
    BY <2>1, RunsGrow
<1>3. ASSUME NEW u \in Workers PROVE WorkerType(worker[u], Len(runs'), clock')
  <2>1. worker[u].run \in 0..Len(runs') /\ worker[u].stamp \in 0..clock'
    BY <1>1 DEF WorkersType, WorkerType
  <2> QED
    BY <2>1 DEF WorkersType, WorkerType
<1>4. CASE UNCHANGED worker
  BY <1>3, <1>4 DEF WorkersType
<1>5. ASSUME NEW w \in Workers, WorkerStep(w) PROVE WorkersType'
  <2>1. worker' = [worker EXCEPT ![w] = worker'[w]] /\ WorkerType(worker'[w], Len(runs'), clock')
    BY <1>1, <1>2, <1>5, WorkerWrites DEF WorkersType
  <2>2. ASSUME NEW u \in Workers PROVE WorkerType(worker'[u], Len(runs'), clock')
    <3>1. u # w => worker'[u] = worker[u]
      BY <2>1 DEF CoverInv, Shape, WorkersShaped
    <3> QED
      BY <1>3, <2>1, <3>1
  <2> QED
    BY <2>2 DEF WorkersType
<1>6. CASE \/ BankChanges \/ BankPostsBalance \/ DayPasses \/ LeaseExpires \/ ActivateImport
           \/ (\E e \in Evidence : PrepareActivation(e)) \/ UNCHANGED vars
  BY <1>4, <1>6 DEF BankChanges, BankPostsBalance, DayPasses, LeaseExpires, ActivateImport,
                    PrepareActivation, vars
<1> QED
  BY <1>5, <1>6 DEF Next

-----------------------------------------------------------------------------
(* The batch of a command                                                  *)

(***************************************************************************)
(* A transaction that was imported has a newest import.                    *)
(***************************************************************************)
LEMMA NewestIs ==
    ASSUME ImportsType, NEW k, ImportsOf(k) # {}
    PROVE  /\ Newest(k) \in ImportsOf(k) /\ Newest(k) # Nothing
           /\ \A j \in ImportsOf(k) : j.stamp <= Newest(k).stamp
<1> DEFINE S == {i.stamp : i \in ImportsOf(k)}
<1>1. ImportsOf(k) \subseteq imports /\ \A i \in ImportsOf(k) : i.stamp \in 0..clock
  BY DEF ImportsType, ImportType, ImportsOf
<1>2. S \subseteq 0..clock /\ S # {} /\ clock \in Nat
  BY <1>1 DEF ImportsType
<1> HIDE DEF S
<1>3. PICK m \in S : \A x \in S : x <= m
  BY <1>2, Greatest
<1>4. \E i \in ImportsOf(k) : \A j \in ImportsOf(k) : j.stamp <= i.stamp
  BY <1>3 DEF S
<1>5. Newest(k) = CHOOSE i \in ImportsOf(k) : \A j \in ImportsOf(k) : j.stamp <= i.stamp
  BY DEF Newest
<1>6. Newest(k) \in ImportsOf(k) /\ \A j \in ImportsOf(k) : j.stamp <= Newest(k).stamp
  BY <1>4, <1>5, Zenon
<1>7. Newest(k) \in ImportRows
  BY <1>1, <1>6 DEF ImportsType, ImportType
<1> QED
  BY <1>6, <1>7, NothingAssumption

(***************************************************************************)
(* An import is of one of the records, and compensates the newest import   *)
(* of the same transaction.                                                *)
(***************************************************************************)
LEMMA ImportIs ==
    ASSUME ImportsType, NEW R, NEW stamp, NEW n \in NewImports(R, stamp)
    PROVE  /\ \E r \in R : n.key = r.key /\ n.view = r.view
           /\ ~ Already(n.key, n.view) /\ n.stamp = stamp
           /\ IsBooked(n.view) \/ ImportsOf(n.key) # {}
           /\ ImportsOf(n.key) = {} => n.supersedes = 0 /\ n.corrects = Nothing
           /\ ImportsOf(n.key) # {} => /\ n.supersedes = Newest(n.key).stamp
                                       /\ n.corrects = Compensated(Newest(n.key))
           /\ n = [key |-> n.key, view |-> n.view, stamp |-> n.stamp,
                   supersedes |-> n.supersedes, corrects |-> n.corrects]
<1>1. PICK r \in R :
        /\ ~ Already(r.key, r.view)
        /\ IsBooked(r.view) \/ Newest(r.key) # Nothing
        /\ n = [key |-> r.key, view |-> r.view, stamp |-> stamp,
                supersedes |-> IF Newest(r.key) = Nothing THEN 0 ELSE Newest(r.key).stamp,
                corrects |-> Compensated(Newest(r.key))]
  BY DEF NewImports
<1>2. /\ n.key = r.key /\ n.view = r.view /\ n.stamp = stamp
      /\ n.supersedes = IF Newest(r.key) = Nothing THEN 0 ELSE Newest(r.key).stamp
      /\ n.corrects = Compensated(Newest(r.key))
      /\ n = [key |-> n.key, view |-> n.view, stamp |-> n.stamp,
              supersedes |-> n.supersedes, corrects |-> n.corrects]
  BY <1>1
<1>3. CASE ImportsOf(r.key) = {}
  <2>1. Newest(r.key) = Nothing
    BY <1>3 DEF Newest
  <2>2. Compensated(Newest(r.key)) = Nothing
    BY <2>1 DEF Compensated
  <2> QED
    BY <1>1, <1>2, <1>3, <2>1, <2>2
<1>4. CASE ImportsOf(r.key) # {}
  BY <1>1, <1>2, <1>4, NewestIs
<1> QED
  BY <1>3, <1>4

(***************************************************************************)
(* The imports of a command are well formed.                               *)
(***************************************************************************)
LEMMA NewImportsType ==
    ASSUME ImportsType, NEW R \in SUBSET Records, NEW stamp \in Nat, stamp # 0, NEW c \in Nat,
           stamp <= c, clock <= c
    PROVE  \A n \in imports \cup NewImports(R, stamp) : ImportType(n, c)
<1>1. ASSUME NEW n \in NewImports(R, stamp) PROVE ImportType(n, c)
  <2>1. n.key \in Keys /\ n.view \in Views /\ n.stamp \in Nat /\ n.stamp \in 1..c
    BY <1>1, ImportIs DEF Records
  <2>2. n.supersedes \in 0..c /\ n.corrects \in Views \cup {Nothing}
    <3>1. CASE ImportsOf(n.key) = {}
      BY <1>1, <3>1, ImportIs
    <3>2. CASE ImportsOf(n.key) # {}
      <4>1. Newest(n.key) \in imports
        BY <3>2, NewestIs DEF ImportsOf
      <4>2. Newest(n.key).view \in Views /\ Newest(n.key).stamp \in 1..clock
        BY <4>1 DEF ImportsType, ImportType, ImportRows
      <4>3. Compensated(Newest(n.key)) \in Views \cup {Nothing}
        BY <4>2 DEF Compensated
      <4>4. clock \in Nat
        BY DEF ImportsType
      <4> QED
        BY <1>1, <3>2, <4>2, <4>3, <4>4, ImportIs
    <3> QED
      BY <3>1, <3>2
  <2>3. n = [key |-> n.key, view |-> n.view, stamp |-> n.stamp,
             supersedes |-> n.supersedes, corrects |-> n.corrects]
    BY <1>1, ImportIs
  <2>4. n \in ImportRows
    BY <2>1, <2>2, <2>3 DEF ImportRows
  <2> QED
    BY <2>1, <2>2, <2>4 DEF ImportType
<1>2. ASSUME NEW n \in imports PROVE ImportType(n, c)
  BY <1>2 DEF ImportsType, ImportType
<1> QED
  BY <1>1, <1>2

(***************************************************************************)
(* What a worker asks to import are records.                               *)
(***************************************************************************)
LEMMA ImportableAre ==
    ASSUME NEW r \in [Keys -> ViewOrNothing] PROVE Importable(r) \subseteq Records
  BY DEF Importable, Records, ViewOrNothing

(***************************************************************************)
(* What the plan of an activation shows are records.                       *)
(***************************************************************************)
LEMMA ObservedAre ==
    ASSUME ScanType, NEW e
    PROVE  /\ PlanFor(e).observed \subseteq Records
           /\ PlanFor(e).balance = LatestBalance
           /\ PlanFor(e).observed = {[key |-> k, view |-> current[k]] : k \in BookedKeys}
<1>1. \A k \in BookedKeys : k \in Keys /\ current[k] \in Views
  BY DEF BookedKeys, IsBooked, ScanType, ViewOrNothing
<1> QED
  BY <1>1 DEF PlanFor, Records

(***************************************************************************)
(* The ledger remains well formed.                                         *)
(***************************************************************************)
LEMMA ImportsTypeStep ==
    ASSUME ScanType, WorkersType, ImportsType, [Next]_vars
    PROVE  ImportsType'
<1>1. clock \in Nat /\ clock' \in Nat /\ clock <= clock'
  BY ClockGrows DEF ImportsType
<1>2. CASE UNCHANGED imports
  BY <1>1, <1>2 DEF ImportsType, ImportType
<1>3. ASSUME NEW w \in Workers, RunCommand(w) PROVE ImportsType'
  <2> DEFINE R == Importable(worker[w].records)
             s == worker[w].stamp
  <2>1. UNCHANGED imports \/ imports' = imports \cup NewImports(R, s)
    BY <1>3 DEF RunCommand, AppendCanonicalBatch
  <2>2. /\ worker[w].pc = "command" /\ WorkerType(worker[w], Len(runs), clock)
    BY <1>3 DEF RunCommand, WorkersType
  <2>3. s \in Nat /\ s # 0 /\ s <= clock'
    BY <1>1, <2>2 DEF WorkerType
  <2>4. R \in SUBSET Records
    BY <2>2, ImportableAre DEF WorkerType, WithRecords
  <2> HIDE DEF R, s
  <2>5. \A n \in imports \cup NewImports(R, s) : ImportType(n, clock')
    BY <1>1, <2>3, <2>4, NewImportsType
  <2> QED
    BY <1>1, <1>2, <2>1, <2>5 DEF ImportsType
<1>4. ASSUME ActivateImport PROVE ImportsType'
  <2> DEFINE R == PlanFor(plan.evidence).observed
  <2>1. imports' = imports \cup NewImports(R, clock') /\ clock' = clock + 1
    BY <1>4 DEF ActivateImport, AppendCanonicalBatch
  <2>2. R \in SUBSET Records
    BY ObservedAre
  <2> HIDE DEF R
  <2>3. clock' # 0 /\ clock' <= clock'
    BY <1>1, <2>1
  <2>4. \A n \in imports \cup NewImports(R, clock') : ImportType(n, clock')
    BY <1>1, <2>2, <2>3, NewImportsType
  <2> QED
    BY <1>1, <2>1, <2>4 DEF ImportsType
<1>5. \/ UNCHANGED imports
      \/ ActivateImport
      \/ \E w \in Workers : RunCommand(w)
  <2>1. ASSUME NEW w \in Workers, WorkerStep(w) PROVE UNCHANGED imports \/ RunCommand(w)
    BY <2>1 DEF WorkerStep, BeginSync, LoadPendingReceipts, ProcessPendingReceipt, ReadBalance,
                RenewLease, FetchPage, FinalizePage, ReadRecords, CheckReadiness,
                CompleteSync, LeaseLost, ReceiptAlreadyProcessed, PayloadConflict, SyncFails,
                Crash, FailRun, ledgerVars
  <2>2. ASSUME \/ BankChanges \/ BankPostsBalance \/ DayPasses \/ LeaseExpires
               \/ (\E e \in Evidence : PrepareActivation(e)) \/ UNCHANGED vars
        PROVE  UNCHANGED imports
    BY <2>2 DEF BankChanges, BankPostsBalance, DayPasses, LeaseExpires,
                PrepareActivation, ledgerVars, vars
  <2> QED
    BY <2>1, <2>2 DEF Next
<1> QED
  BY <1>2, <1>3, <1>4, <1>5

(***************************************************************************)
(* Balances and snapshots remain well formed.                              *)
(***************************************************************************)
LEMMA BalancesTypeStep ==
    ASSUME BankType, WorkersType, BalancesType, [Next]_vars
    PROVE  BalancesType'
<1>1. CASE UNCHANGED <<balances, snapshots>>
  BY <1>1 DEF BalancesType
<1>2. ASSUME NEW w \in Workers, ReadBalance(w) PROVE BalancesType'
  <2>1. /\ \/ balances' = balances
           \/ balances' = Append(balances, PostedBalance) /\ PostedBalance # Nothing
        /\ snapshots' = snapshots
    BY <1>2 DEF ReadBalance, ledgerVars
  <2>2. PostedBalance \in Balances \cup {Nothing}
    BY PostedType
  <2>3. PostedBalance # Nothing => Append(balances, PostedBalance) \in Seq(Balances)
    BY <2>2, AppendProperties DEF BalancesType
  <2> QED
    BY <2>1, <2>3 DEF BalancesType
<1>3. ASSUME NEW b \in Balances \cup {Nothing}, UNCHANGED balances,
             snapshots' = IF b = Nothing \/ \E s \in snapshots : s.day = b.day
                          THEN snapshots ELSE snapshots \cup {b}
      PROVE  BalancesType'
  BY <1>3 DEF BalancesType
<1>4. ASSUME NEW w \in Workers, RunCommand(w) PROVE BalancesType'
  <2>1. worker[w].balance \in Balances \cup {Nothing}
    BY DEF WorkersType, WorkerType
  <2> QED
    BY <1>1, <1>3, <1>4, <2>1 DEF RunCommand, AppendCanonicalBatch
<1>5. ASSUME ActivateImport PROVE BalancesType'
  <2>1. balances # <<>>
    BY <1>5 DEF ActivateImport, PlanReady
  <2>2. LatestBalance \in Balances
    BY <2>1, LatestIsObserved DEF BalancesType
  <2>3. /\ UNCHANGED balances
        /\ snapshots' = IF LatestBalance = Nothing \/ \E s \in snapshots : s.day = LatestBalance.day
                        THEN snapshots ELSE snapshots \cup {LatestBalance}
    BY <1>5 DEF ActivateImport, AppendCanonicalBatch
  <2> QED
    BY <1>3, <2>2, <2>3
<1>6. \/ UNCHANGED <<balances, snapshots>> \/ ActivateImport
      \/ \E w \in Workers : ReadBalance(w) \/ RunCommand(w)
  <2>1. ASSUME NEW w \in Workers, WorkerStep(w)
        PROVE  UNCHANGED <<balances, snapshots>> \/ ReadBalance(w) \/ RunCommand(w)
    BY <2>1 DEF WorkerStep, BeginSync, LoadPendingReceipts, ProcessPendingReceipt,
                RenewLease, FetchPage, FinalizePage, ReadRecords, CheckReadiness,
                CompleteSync, LeaseLost, ReceiptAlreadyProcessed, PayloadConflict, SyncFails,
                Crash, FailRun, ledgerVars
  <2>2. ASSUME \/ BankChanges \/ BankPostsBalance \/ DayPasses \/ LeaseExpires
               \/ (\E e \in Evidence : PrepareActivation(e)) \/ UNCHANGED vars
        PROVE  UNCHANGED <<balances, snapshots>>
    BY <2>2 DEF BankChanges, BankPostsBalance, DayPasses, LeaseExpires,
                PrepareActivation, ledgerVars, vars
  <2> QED
    BY <2>1, <2>2 DEF Next
<1> QED
  BY <1>1, <1>2, <1>4, <1>5, <1>6

(***************************************************************************)
(* The lease, the switches of the account and the count of faults remain   *)
(* well formed.                                                            *)
(***************************************************************************)
LEMMA FlagsTypeStep ==
    ASSUME FlagsType, [Next]_vars
    PROVE  FlagsType'
<1> DEFINE LeaseOK == lease' \in Workers \cup {Nothing} /\ leaseLive' \in BOOLEAN
           FaultsOK == faults' = faults \/ (faults' = faults + 1 /\ faults < MaxFaults)
<1>1. ASSUME NEW w \in Workers, WorkerStep(w) PROVE LeaseOK
  <2>1. ASSUME UNCHANGED leaseVars PROVE LeaseOK
    BY <2>1 DEF leaseVars, FlagsType
  <2>2. ASSUME ReleaseLease PROVE LeaseOK
    BY <2>2 DEF ReleaseLease
  <2>3. ASSUME lease' = w, leaseLive' = TRUE PROVE LeaseOK
    BY <2>3
  <2>4. ASSUME UNCHANGED lease, leaseLive' = TRUE PROVE LeaseOK
    BY <2>4 DEF FlagsType
  <2> HIDE DEF LeaseOK
  <2>5. CASE FailRun(w)
    BY <2>1, <2>2, <2>5 DEF FailRun
  <2> QED
    BY <1>1, <2>1, <2>2, <2>3, <2>4, <2>5
       DEF WorkerStep, BeginSync, LoadPendingReceipts, ProcessPendingReceipt, ReadBalance,
           RenewLease, FetchPage, FinalizePage, ReadRecords, CheckReadiness, RunCommand,
           CompleteSync, LeaseLost, ReceiptAlreadyProcessed, PayloadConflict, SyncFails, Crash
<1>2. LeaseOK
  <2>1. ASSUME \/ BankChanges \/ BankPostsBalance \/ DayPasses \/ ActivateImport
               \/ (\E e \in Evidence : PrepareActivation(e)) \/ UNCHANGED vars
        PROVE  UNCHANGED leaseVars
    BY <2>1 DEF BankChanges, BankPostsBalance, DayPasses, ActivateImport, PrepareActivation, vars
  <2>2. ASSUME UNCHANGED leaseVars PROVE LeaseOK
    BY <2>2 DEF leaseVars, FlagsType
  <2>3. ASSUME LeaseExpires PROVE LeaseOK
    BY <2>3 DEF LeaseExpires, FlagsType
  <2> HIDE DEF LeaseOK
  <2> QED
    BY <1>1, <2>1, <2>2, <2>3 DEF Next
<1>3. proven' \in BOOLEAN
  <2>1. UNCHANGED proven \/ \E w \in Workers : CompleteSync(w)
    <3>1. ASSUME NEW w \in Workers, WorkerStep(w) PROVE UNCHANGED proven \/ CompleteSync(w)
      BY <3>1 DEF WorkerStep, BeginSync, LoadPendingReceipts, ProcessPendingReceipt, ReadBalance,
                  RenewLease, FetchPage, FinalizePage, ReadRecords, CheckReadiness, RunCommand,
                  LeaseLost, ReceiptAlreadyProcessed, PayloadConflict, SyncFails, Crash, FailRun
    <3>2. ASSUME \/ BankChanges \/ BankPostsBalance \/ DayPasses \/ LeaseExpires \/ ActivateImport
                 \/ (\E e \in Evidence : PrepareActivation(e)) \/ UNCHANGED vars
          PROVE  UNCHANGED proven
      BY <3>2 DEF BankChanges, BankPostsBalance, DayPasses, LeaseExpires, ActivateImport,
                  PrepareActivation, vars
    <3> QED
      BY <3>1, <3>2 DEF Next
  <2>2. ASSUME NEW w \in Workers, CompleteSync(w) PROVE proven' \in BOOLEAN
    <3>1. proven' = Replayed(known')
      BY <2>2 DEF CompleteSync
    <3>2. Replayed(known') \in BOOLEAN
      BY Zenon DEF Replayed
    <3> QED
      BY <3>1, <3>2
  <2> QED
    BY <2>1, <2>2 DEF FlagsType
<1>4. activated' \in BOOLEAN
  <2>1. UNCHANGED activated \/ activated' = TRUE
    <3>1. ASSUME NEW w \in Workers, WorkerStep(w) PROVE UNCHANGED activated
      BY <3>1 DEF WorkerStep, BeginSync, LoadPendingReceipts, ProcessPendingReceipt, ReadBalance,
                  RenewLease, FetchPage, FinalizePage, ReadRecords, CheckReadiness, RunCommand,
                  CompleteSync, LeaseLost, ReceiptAlreadyProcessed, PayloadConflict, SyncFails,
                  Crash, FailRun, ownerVars
    <3>2. ASSUME \/ BankChanges \/ BankPostsBalance \/ DayPasses \/ LeaseExpires
                 \/ (\E e \in Evidence : PrepareActivation(e)) \/ UNCHANGED vars
          PROVE  UNCHANGED activated
      BY <3>2 DEF BankChanges, BankPostsBalance, DayPasses, LeaseExpires, PrepareActivation, vars,
                  ownerVars
    <3>3. ASSUME ActivateImport PROVE activated' = TRUE
      BY <3>3 DEF ActivateImport
    <3> QED
      BY <3>1, <3>2, <3>3 DEF Next
  <2> QED
    BY <2>1 DEF FlagsType
<1>5. late' \in BOOLEAN
  <2>1. UNCHANGED late \/ \E w \in Workers : late' = (late \/ ~ HoldsLease(w))
    <3>1. ASSUME NEW w \in Workers, WorkerStep(w)
          PROVE  UNCHANGED late \/ late' = (late \/ ~ HoldsLease(w))
      BY <3>1 DEF WorkerStep, BeginSync, LoadPendingReceipts, ProcessPendingReceipt, ReadBalance,
                  RenewLease, FetchPage, FinalizePage, ReadRecords, CheckReadiness, RunCommand,
                  CompleteSync, LeaseLost, ReceiptAlreadyProcessed, PayloadConflict, SyncFails,
                  Crash, FailRun
    <3>2. ASSUME \/ BankChanges \/ BankPostsBalance \/ DayPasses \/ LeaseExpires \/ ActivateImport
                 \/ (\E e \in Evidence : PrepareActivation(e)) \/ UNCHANGED vars
          PROVE  UNCHANGED late
      BY <3>2 DEF BankChanges, BankPostsBalance, DayPasses, LeaseExpires, ActivateImport,
                  PrepareActivation, vars
    <3> QED
      BY <3>1, <3>2 DEF Next
  <2>2. ASSUME NEW w, late' = (late \/ ~ HoldsLease(w)) PROVE late' \in BOOLEAN
    BY <2>2, Zenon DEF HoldsLease
  <2> QED
    BY <2>1, <2>2 DEF FlagsType
<1>6. FaultsOK
  <2>1. ASSUME NEW w \in Workers, WorkerStep(w) PROVE FaultsOK
    BY <2>1 DEF WorkerStep, BeginSync, LoadPendingReceipts, ProcessPendingReceipt, ReadBalance,
                RenewLease, FetchPage, FinalizePage, ReadRecords, CheckReadiness, RunCommand,
                CompleteSync, LeaseLost, ReceiptAlreadyProcessed, PayloadConflict, SyncFails,
                Crash, MayFail
  <2>2. ASSUME \/ BankChanges \/ BankPostsBalance \/ DayPasses \/ LeaseExpires \/ ActivateImport
               \/ (\E e \in Evidence : PrepareActivation(e)) \/ UNCHANGED vars
        PROVE  FaultsOK
    BY <2>2 DEF BankChanges, BankPostsBalance, DayPasses, LeaseExpires, ActivateImport,
                PrepareActivation, vars, MayFail
  <2> HIDE DEF FaultsOK
  <2> QED
    BY <2>1, <2>2 DEF Next
<1>7. faults' \in 0..MaxFaults
  BY <1>6, ImportAssumption DEF FlagsType
<1> QED
  BY <1>2, <1>3, <1>4, <1>5, <1>7 DEF FlagsType

-----------------------------------------------------------------------------
(* Type correctness                                                        *)

TypeInv ==
    /\ BankType
    /\ ScanType
    /\ RunsType
    /\ WorkersType
    /\ FlagsType
    /\ BalancesType
    /\ ImportsType

(***************************************************************************)
(* The type invariant is inductive, together with that of the scan.        *)
(***************************************************************************)
LEMMA TypeInvStep ==
    ASSUME CoverInv, CoverInv', TypeInv, [Next]_vars PROVE TypeInv'
<1>1. clock \in Nat
  BY DEF TypeInv, ImportsType
<1> QED
  BY <1>1, BankTypeStep, ScanTypeStep, RunsTypeStep, WorkersTypeStep, FlagsTypeStep,
     BalancesTypeStep, ImportsTypeStep DEF TypeInv

(***************************************************************************)
(* It holds before anything has happened.                                  *)
(***************************************************************************)
LEMMA TypeInvInit == ASSUME Init PROVE TypeInv
<1> USE ImportAssumption
<1>1. BankType
  BY FutureAssumption DEF Init, BankType, Days, ViewOrNothing
<1>2. Len(runs) = 0 /\ DOMAIN runs = {} /\ runs = <<>>
  BY EmptySeq DEF Init
<1>3. ScanType
  BY <1>2 DEF Init, ScanType, KnownType, ViewOrNothing
<1>4. RunsType
  BY <1>2 DEF RunsType
<1>5. WorkersType
  <2>1. WorkerType(Idle, Len(runs), clock)
    BY <1>2 DEF Idle, WorkerType, WorkerPCs, WithRecords, Init
  <2> QED
    BY <2>1 DEF Init, WorkersType
<1>6. FlagsType
  <2>1. lease = Nothing /\ ~ leaseLive /\ ~ proven /\ ~ activated /\ ~ late /\ faults = 0
    BY DEF Init
  <2>2. /\ leaseLive = FALSE /\ proven = FALSE /\ activated = FALSE /\ late = FALSE
    BY Zenon DEF Init
  <2>3. 0 \in 0..MaxFaults
    OBVIOUS
  <2>4. leaseLive \in BOOLEAN /\ proven \in BOOLEAN /\ activated \in BOOLEAN /\ late \in BOOLEAN
    BY <2>2, Zenon
  <2> QED
    BY <2>1, <2>3, <2>4, Zenon DEF FlagsType
<1>7. BalancesType
  BY EmptySeq DEF Init, BalancesType
<1>8. ImportsType
  BY DEF Init, ImportsType
<1> QED
  BY <1>1, <1>3, <1>4, <1>5, <1>6, <1>7, <1>8 DEF TypeInv

(***************************************************************************)
(* What the type invariant and the shape of a scan say is TypeOK.          *)
(***************************************************************************)
LEMMA TypeInvIsTypeOK == ASSUME CoverInv, TypeInv PROVE TypeOK
<1>1. /\ IsSequence(runs) /\ Len(runs) \in Nat /\ DOMAIN runs = 1..Len(runs)
      /\ \A r \in DOMAIN runs : RunShape(runs[r])
  BY AppendShape DEF CoverInv, Shape, RunsShaped
<1>2. /\ day \in Days /\ balanceDay \in -1..day /\ future \in Seq(Events)
      /\ bank \in [Keys -> ViewOrNothing]
  BY DEF TypeInv, BankType
<1>3. /\ \A e \in known : e.key \in Keys /\ e.view \in Views /\ e.run \in DOMAIN runs
                          /\ e.first \in 0..Len(runs) /\ e.replay \in 0..Len(runs)
      /\ current \in [Keys -> ViewOrNothing] /\ scanned \in [Keys -> ViewOrNothing]
      /\ returned \subseteq Keys
  BY <1>1 DEF TypeInv, ScanType, KnownType
<1>4. Len(runs) <= MaxRuns
  BY DEF TypeInv, RunsType
<1>5. ASSUME NEW r \in DOMAIN runs
      PROVE  /\ runs[r].status \in {"running", "completed", "failed"}
             /\ runs[r].cursor \in 0..Pages - 1
             /\ runs[r].receipts \in Seq(Receipts)
             /\ runs[r].expected \subseteq Records
             /\ runs[r].from \in Days \cup {Nothing} /\ runs[r].through \in Days \cup {Nothing}
  <2>1. RunType(runs[r]) /\ RunShape(runs[r])
    BY <1>1 DEF TypeInv, RunsType
  <2> DEFINE R == runs[r].receipts
  <2>2. IsSequence(R) /\ \A i \in DOMAIN R : R[i] \in Receipts
    BY <2>1 DEF RunShape, RunType
  <2> HIDE DEF R
  <2>3. Len(R) \in Nat /\ DOMAIN R = 1..Len(R) /\ R \in [1..Len(R) -> {R[i] : i \in DOMAIN R}]
    BY <2>2, LenProperties DEF IsSequence
  <2>4. R \in [1..Len(R) -> Receipts]
    BY <2>2, <2>3
  <2>5. R \in Seq(Receipts)
    BY <2>3, <2>4, SeqDef
  <2> QED
    BY <2>1, <2>5 DEF RunShape, RunType, R
<1>6. activeRun \in 0..Len(runs) /\ (activeRun # 0 => runs[activeRun].status = "running")
  BY <1>1 DEF CoverInv, Shape, ActiveShape
<1>7. /\ lease \in Workers \cup {Nothing} /\ faults \in 0..MaxFaults
      /\ leaseLive \in BOOLEAN /\ proven \in BOOLEAN /\ activated \in BOOLEAN /\ late \in BOOLEAN
  BY DEF TypeInv, FlagsType
<1>8. /\ imports \subseteq ImportRows
      /\ \A i \in imports : i.stamp \in 1..clock /\ i.supersedes \in 0..clock
  BY DEF TypeInv, ImportsType, ImportType
<1>9. balances \in Seq(Balances) /\ snapshots \subseteq Balances
  BY DEF TypeInv, BalancesType
<1>10. \A w \in Workers : worker[w].pc \in WorkerPCs /\ worker[w].run \in 0..Len(runs)
                          /\ worker[w].cursor \in 0..Pages - 1
  BY DEF TypeInv, WorkersType, WorkerType, CoverInv, Shape, WorkersShaped, WorkerShape
<1> QED
  BY <1>2, <1>3, <1>4, <1>5, <1>6, <1>7, <1>8, <1>9, <1>10 DEF TypeOK

(***************************************************************************)
(* Every table and every place of a sync is well formed, whatever happens  *)
(* at the bank and whichever worker dies or outlives its lease.            *)
(***************************************************************************)
THEOREM TypesKept == Spec => [](CoverInv /\ TypeInv /\ TypeOK)
<1>1. Init => TypeInv
  BY TypeInvInit
<1>2. CoverInv /\ CoverInv' /\ TypeInv /\ [Next]_vars => TypeInv'
  BY TypeInvStep
<1>3. CoverInv /\ TypeInv => TypeOK
  BY TypeInvIsTypeOK
<1> QED
  BY <1>1, <1>2, <1>3, CoverInvariant, PTL DEF Spec

-----------------------------------------------------------------------------
(* What imports put on the account                                         *)

NetAt(I, d) == MapThenSumSet(LAMBDA i : Entry(i.view, d) - Entry(i.corrects, d), I)
PutBy(I, d) == [i \in I |-> Entry(i.view, d) - Entry(i.corrects, d)]

(***************************************************************************)
(* The entry of a view is an amount; on the last day all are counted.      *)
(***************************************************************************)
LEMMA EntryType ==
    ASSUME NEW v \in ViewOrNothing, NEW d
    PROVE  /\ Entry(v, d) \in Int
           /\ Entry(v, MaxDay) = IF IsBooked(v) THEN v.amount ELSE 0
<1>1. MaxDay \in Nat /\ Amounts \subseteq Int
  BY ImportAssumption
<1>2. v # Nothing => v.amount \in Amounts /\ v.date \in 0..MaxDay
  BY DEF ViewOrNothing, Views, Days
<1>3. CASE IsBooked(v)
  <2>1. v # Nothing
    BY <1>3 DEF IsBooked
  <2>2. v.amount \in Amounts /\ v.date \in 0..MaxDay
    BY <1>2, <2>1
  <2>3. v.amount \in Int
    BY <1>1, <2>2
  <2>4. v.date <= MaxDay
    BY <1>1, <2>2
  <2> QED
    BY <1>3, <2>3, <2>4 DEF Entry
<1>4. CASE ~ IsBooked(v)
  BY <1>4 DEF Entry
<1> QED
  BY <1>3, <1>4

(***************************************************************************)
(* Every import puts an amount on the account.                             *)
(***************************************************************************)
LEMMA PutByType ==
    ASSUME NEW I, I \subseteq ImportRows, NEW d
    PROVE  PutBy(I, d) \in [I -> Int]
<1>1. ASSUME NEW i \in I PROVE Entry(i.view, d) - Entry(i.corrects, d) \in Int
  <2>1. i.view \in ViewOrNothing /\ i.corrects \in ViewOrNothing
    BY DEF ImportRows, ViewOrNothing
  <2>2. Entry(i.view, d) \in Int /\ Entry(i.corrects, d) \in Int
    BY <2>1, EntryType
  <2> QED
    BY <2>2
<1> QED
  BY <1>1 DEF PutBy

(***************************************************************************)
(* What imports put on the account together is the total of what each of   *)
(* them puts there.                                                        *)
(***************************************************************************)
LEMMA NetIsTotal ==
    ASSUME NEW I, I \subseteq ImportRows, IsFiniteSet(I), NEW d
    PROVE  NetAt(I, d) = TotalOf(PutBy(I, d), I)
<1> DEFINE f == PutBy(I, d)
           iter == CHOOSE g : g = [s \in SUBSET I |->
                                      IF s = {} THEN 0
                                      ELSE (Entry(Chosen(s).view, d) - Entry(Chosen(s).corrects, d))
                                           + g[s \ {Chosen(s)}]]
<1>1. f \in [I -> Int] /\ \A i \in I : f[i] = Entry(i.view, d) - Entry(i.corrects, d)
  BY PutByType DEF PutBy
<1> HIDE DEF f
<1>2. IsSum(f, I, iter)
  <2>0. ASSUME NEW g
        PROVE  IsSum(f, I, g) <=>
                  g = [s \in SUBSET I |->
                          IF s = {} THEN 0
                          ELSE (Entry(Chosen(s).view, d) - Entry(Chosen(s).corrects, d))
                               + g[s \ {Chosen(s)}]]
    <3>1. \A s \in SUBSET I :
             s # {} => f[Chosen(s)] = Entry(Chosen(s).view, d) - Entry(Chosen(s).corrects, d)
      BY <1>1, ChosenIn
    <3> DEFINE L == [s \in SUBSET I |-> Body(f, s, g)]
               R == [s \in SUBSET I |->
                        IF s = {} THEN 0
                        ELSE (Entry(Chosen(s).view, d) - Entry(Chosen(s).corrects, d))
                             + g[s \ {Chosen(s)}]]
    <3>2. \A s \in SUBSET I : L[s] = R[s]
      BY <3>1 DEF Body
    <3>3. L = R
      <4>1. L = [s \in SUBSET I |-> L[s]] /\ R = [s \in SUBSET I |-> R[s]]
        OBVIOUS
      <4> HIDE DEF L, R
      <4> QED
        BY <3>2, <4>1
    <3> QED
      BY <3>3 DEF IsSum
  <2>1. PICK h \in [SUBSET I -> Int] : IsSum(f, I, h)
    BY <1>1, SumExists
  <2>2. h = [s \in SUBSET I |->
                IF s = {} THEN 0
                ELSE (Entry(Chosen(s).view, d) - Entry(Chosen(s).corrects, d)) + h[s \ {Chosen(s)}]]
    BY <2>0, <2>1
  <2>3. iter = [s \in SUBSET I |->
                   IF s = {} THEN 0
                   ELSE (Entry(Chosen(s).view, d) - Entry(Chosen(s).corrects, d))
                        + iter[s \ {Chosen(s)}]]
    BY <2>2
  <2> HIDE DEF iter
  <2> QED
    BY <2>0, <2>3
<1>3. NetAt(I, d) = iter[I]
  BY DEF NetAt, MapThenSumSet, MapThenFoldSet, Chosen
<1> HIDE DEF iter
<1>4. PICK g \in [SUBSET I -> Int] : IsSum(f, I, g) /\ TotalOf(f, I) = g[I]
  BY <1>1, TotalIsSum
<1>5. iter[I] = g[I]
  BY <1>2, <1>4, SumsAgree
<1> QED
  BY <1>3, <1>4, <1>5 DEF f

(***************************************************************************)
(* It is an amount, nothing if there are no imports, and grows by what an  *)
(* import puts there.                                                      *)
(***************************************************************************)
LEMMA NetType ==
    ASSUME NEW I, I \subseteq ImportRows, IsFiniteSet(I), NEW d
    PROVE  NetAt(I, d) \in Int /\ (I = {} => NetAt(I, d) = 0)
  BY NetIsTotal, PutByType, TotalType

(***************************************************************************)
(* One import more.                                                        *)
(***************************************************************************)
LEMMA NetAdds ==
    ASSUME NEW I, I \subseteq ImportRows, IsFiniteSet(I), NEW d, NEW n \in ImportRows, n \notin I
    PROVE  NetAt(I \cup {n}, d) = NetAt(I, d) + (Entry(n.view, d) - Entry(n.corrects, d))
<1> DEFINE J == I \cup {n}
<1>1. J \subseteq ImportRows /\ IsFiniteSet(J)
  BY FS_AddElement
<1>2. PutBy(I, d) \in [I -> Int] /\ PutBy(J, d) \in [J -> Int]
  BY <1>1, PutByType
<1>3. \A i \in I : PutBy(J, d)[i] = PutBy(I, d)[i]
  BY DEF PutBy
<1>4. PutBy(J, d)[n] = Entry(n.view, d) - Entry(n.corrects, d)
  BY DEF PutBy
<1>5. TotalOf(PutBy(J, d), I \cup {n}) = TotalOf(PutBy(I, d), I) + PutBy(J, d)[n]
  BY <1>2, <1>3, TotalAdds
<1>6. NetAt(I, d) = TotalOf(PutBy(I, d), I) /\ NetAt(J, d) = TotalOf(PutBy(J, d), J)
  BY <1>1, NetIsTotal
<1> QED
  BY <1>4, <1>5, <1>6

(***************************************************************************)
(* The imports of a transaction as a chain: each supersedes an earlier     *)
(* one, no two the same, no view is imported twice, and together they have *)
(* put on the account what the newest shows.                               *)
(***************************************************************************)
Last(i, I) == \A j \in I : j.stamp <= i.stamp

Chain(I) ==
    /\ IsFiniteSet(I)
    /\ \A i \in I : i.supersedes < i.stamp
    /\ \A i, j \in I : i # j => /\ i.stamp # j.stamp
                                /\ i.supersedes # j.supersedes
                                /\ i.view # j.view
    /\ \A i \in I : Last(i, I) => NetAt(I, MaxDay) = Entry(i.view, MaxDay)

\* An import that goes on with a chain.
GoesOn(n, I) ==
    /\ \A i \in I : i.stamp < n.stamp /\ i.view # n.view
    /\ I = {} => n.supersedes = 0 /\ n.corrects = Nothing
    /\ I # {} => \E m \in I : /\ Last(m, I)
                              /\ n.supersedes = m.stamp /\ n.corrects = Compensated(m)

(***************************************************************************)
(* A chain that goes on is a chain.                                        *)
(***************************************************************************)
LEMMA ChainGrows ==
    ASSUME NEW I, I \subseteq ImportRows, Chain(I), NEW n \in ImportRows, n.stamp # 0, GoesOn(n, I)
    PROVE  Chain(I \cup {n})
<1> DEFINE J == I \cup {n}
<1>1. \A i \in J : i.stamp \in Nat /\ i.supersedes \in Nat /\ i.view \in ViewOrNothing
                   /\ i.corrects \in ViewOrNothing
  BY DEF ImportRows, ViewOrNothing
<1>2. n \notin I /\ IsFiniteSet(I) /\ IsFiniteSet(J)
  BY <1>1, FS_AddElement DEF GoesOn, Chain
<1>3. n.supersedes < n.stamp /\ \A i \in I : i.supersedes # n.supersedes
  <2>1. CASE I = {}
    BY <1>1, <2>1 DEF GoesOn
  <2>2. CASE I # {}
    <3>1. PICK m \in I : Last(m, I) /\ n.supersedes = m.stamp
      BY <2>2 DEF GoesOn
    <3>2. m.stamp < n.stamp
      BY DEF GoesOn
    <3>3. ASSUME NEW i \in I PROVE i.supersedes # n.supersedes
      <4>1. i.supersedes < i.stamp /\ i.stamp <= m.stamp
        BY <3>1 DEF Chain, Last
      <4>2. i.supersedes \in Nat /\ i.stamp \in Nat /\ m.stamp \in Nat
        BY <1>1
      <4> QED
        BY <3>1, <4>1, <4>2
    <3> QED
      BY <3>1, <3>2, <3>3
  <2> QED
    BY <2>1, <2>2
<1>4. \A i \in I : i.stamp # n.stamp /\ i.view # n.view
  BY <1>1 DEF GoesOn
<1>5. NetAt(J, MaxDay) = Entry(n.view, MaxDay)
  <2>1. NetAt(J, MaxDay) = NetAt(I, MaxDay) + (Entry(n.view, MaxDay) - Entry(n.corrects, MaxDay))
    BY <1>2, NetAdds
  <2>2. NetAt(I, MaxDay) = Entry(n.corrects, MaxDay)
    <3>1. CASE I = {}
      <4>1. n.corrects = Nothing
        BY <3>1 DEF GoesOn
      <4>2. Entry(Nothing, MaxDay) = 0
        BY DEF Entry, IsBooked
      <4> QED
        BY <1>2, <3>1, <4>1, <4>2, NetType
    <3>2. CASE I # {}
      <4>1. PICK m \in I : Last(m, I) /\ n.corrects = Compensated(m)
        BY <3>2 DEF GoesOn
      <4>2. NetAt(I, MaxDay) = Entry(m.view, MaxDay)
        BY <4>1 DEF Chain
      <4>3. m # Nothing
        BY NothingAssumption
      <4>4. CASE IsBooked(m.view)
        BY <4>1, <4>2, <4>3, <4>4 DEF Compensated
      <4>5. CASE ~ IsBooked(m.view)
        <5>1. n.corrects = Nothing
          BY <4>1, <4>5 DEF Compensated
        <5>2. Entry(Nothing, MaxDay) = 0 /\ Entry(m.view, MaxDay) = 0
          BY <4>5 DEF Entry, IsBooked
        <5> QED
          BY <4>2, <5>1, <5>2
      <4> QED
        BY <4>4, <4>5
    <3> QED
      BY <3>1, <3>2
  <2>3. Entry(n.corrects, MaxDay) \in Int /\ Entry(n.view, MaxDay) \in Int
    BY <1>1, EntryType
  <2> QED
    BY <2>1, <2>2, <2>3
<1>6. ASSUME NEW i \in J, Last(i, J) PROVE i = n
  <2>1. n.stamp <= i.stamp
    BY <1>6 DEF Last
  <2>2. i \in I => i.stamp < n.stamp
    BY DEF GoesOn
  <2> QED
    BY <1>1, <2>1, <2>2
<1>7. \A i \in J : i.supersedes < i.stamp
  BY <1>3 DEF Chain
<1>8. \A i, j \in J : i # j => i.stamp # j.stamp /\ i.supersedes # j.supersedes /\ i.view # j.view
  BY <1>3, <1>4 DEF Chain
<1>9. \A i \in J : Last(i, J) => NetAt(J, MaxDay) = Entry(i.view, MaxDay)
  BY <1>5, <1>6
<1> HIDE DEF J
<1>10. Chain(J)
  BY <1>2, <1>7, <1>8, <1>9 DEF Chain
<1> QED
  BY <1>10 DEF J

(***************************************************************************)
(* No imports are a chain.                                                 *)
(***************************************************************************)
LEMMA EmptyChain == Chain({})
  BY FS_EmptySet DEF Chain

-----------------------------------------------------------------------------
(* The batch of a command, transaction by transaction                      *)

Handled(R) ==
    \A x \in R : Already(x.key, x.view) \/ (~ IsBooked(x.view) /\ ImportsOf(x.key) = {})

\* The imports of a batch of observations, with a stamp newer than all there are.
Batch(R, s) ==
    /\ R \subseteq Importable(current)
    /\ s \in Nat \ {0}
    /\ \A i \in imports : i.stamp < s
    /\ imports' = imports \cup NewImports(R, s)

(***************************************************************************)
(* What can be imported of the observations.                               *)
(***************************************************************************)
LEMMA ObservationsAre ==
    ASSUME ScanType, NEW x \in Importable(current)
    PROVE  /\ x.key \in Keys /\ x.view = current[x.key] /\ x.view \in Views
           /\ x.view.status \in {"booked", "cancelled"}
           /\ x = [key |-> x.key, view |-> x.view]
  BY DEF Importable, ScanType, ViewOrNothing

(***************************************************************************)
(* A batch adds at most one import to those of a transaction, of what is   *)
(* observed of it, and goes on with their chain.                           *)
(***************************************************************************)
LEMMA BatchAdds ==
    ASSUME ScanType, ImportsType, NEW R, NEW s, Batch(R, s), NEW k \in Keys
    PROVE  \/ ImportsOf(k)' = ImportsOf(k)
           \/ \E n \in ImportRows :
                 /\ ImportsOf(k)' = ImportsOf(k) \cup {n} /\ GoesOn(n, ImportsOf(k))
                 /\ n.view = current[k] /\ n.stamp = s
                 /\ current[k] # Nothing /\ current[k].status \in {"booked", "cancelled"}
<1> DEFINE new == {n \in NewImports(R, s) : n.key = k}
<1>1. ImportsOf(k)' = ImportsOf(k) \cup new
  BY DEF Batch, ImportsOf
<1>2. ASSUME NEW n \in new
      PROVE  /\ n \in ImportRows /\ GoesOn(n, ImportsOf(k))
             /\ n.view = current[k] /\ n.stamp = s
             /\ current[k] # Nothing /\ current[k].status \in {"booked", "cancelled"}
  <2>1. n \in NewImports(R, s) /\ n.key = k
    OBVIOUS
  <2>2. n.view = current[k] /\ current[k] \in Views /\ current[k].status \in {"booked", "cancelled"}
    BY <2>1, ImportIs, ObservationsAre DEF Batch
  <2>3. n.stamp = s /\ ~ Already(k, n.view)
    BY <2>1, ImportIs
  <2>4. n \in ImportRows
    <3>1. R \in SUBSET Records
      BY ObservationsAre DEF Batch, Records
    <3>2. PICK c \in Nat : s <= c /\ clock <= c
      <4>1. clock \in Nat /\ s \in Nat
        BY DEF ImportsType, Batch
      <4>2. clock + s \in Nat /\ s <= clock + s /\ clock <= clock + s
        BY <4>1
      <4> QED
        BY <4>2
    <3>3. ImportType(n, c)
      BY <2>1, <3>1, <3>2, NewImportsType DEF Batch
    <3> QED
      BY <3>3 DEF ImportType
  <2>5. \A i \in ImportsOf(k) : i.stamp < n.stamp /\ i.view # n.view
    BY <2>3 DEF Batch, ImportsOf, Already
  <2>6. ImportsOf(k) = {} => n.supersedes = 0 /\ n.corrects = Nothing
    BY <2>1, ImportIs
  <2>7. ImportsOf(k) # {} => \E m \in ImportsOf(k) :
             Last(m, ImportsOf(k)) /\ n.supersedes = m.stamp /\ n.corrects = Compensated(m)
    <3> SUFFICES ASSUME ImportsOf(k) # {}
                 PROVE  /\ Newest(k) \in ImportsOf(k) /\ Last(Newest(k), ImportsOf(k))
                        /\ n.supersedes = Newest(k).stamp
                        /\ n.corrects = Compensated(Newest(k))
      OBVIOUS
    <3>1. n.supersedes = Newest(k).stamp /\ n.corrects = Compensated(Newest(k))
      BY <2>1, ImportIs
    <3>2. Newest(k) \in ImportsOf(k) /\ \A j \in ImportsOf(k) : j.stamp <= Newest(k).stamp
      BY NewestIs
    <3> QED
      BY <3>1, <3>2 DEF Last
  <2> QED
    BY <2>2, <2>3, <2>4, <2>5, <2>6, <2>7, NothingAssumption DEF GoesOn
<1>3. ASSUME NEW n \in new, NEW m \in new PROVE n = m
  <2>1. n.key = k /\ m.key = k /\ n.view = m.view /\ n.stamp = m.stamp
    BY <1>2
  <2>2. n.supersedes = m.supersedes /\ n.corrects = m.corrects
    BY ImportIs
  <2>3. /\ n = [key |-> n.key, view |-> n.view, stamp |-> n.stamp,
                supersedes |-> n.supersedes, corrects |-> n.corrects]
        /\ m = [key |-> m.key, view |-> m.view, stamp |-> m.stamp,
                supersedes |-> m.supersedes, corrects |-> m.corrects]
    BY ImportIs
  <2> QED
    BY <2>1, <2>2, <2>3
<1> HIDE DEF new
<1>4. CASE new = {}
  BY <1>1, <1>4
<1>5. CASE new # {}
  <2>1. PICK n \in new : TRUE
    BY <1>5
  <2>2. new = {n}
    BY <1>3, <2>1
  <2> QED
    BY <1>1, <1>2, <2>1, <2>2
<1> QED
  BY <1>4, <1>5

(***************************************************************************)
(* After a batch what was asked for is in the ledger, as far as it has to  *)
(* be there.                                                               *)
(***************************************************************************)
LEMMA BatchHandles ==
    ASSUME ScanType, ImportsType, NEW R, NEW s, Batch(R, s)
    PROVE  Handled(R)'
<1> SUFFICES ASSUME NEW x \in R
             PROVE  (Already(x.key, x.view) \/ (~ IsBooked(x.view) /\ ImportsOf(x.key) = {}))'
  BY DEF Handled
<1>1. x.key \in Keys /\ x.view = current[x.key]
  BY ObservationsAre DEF Batch
<1>2. CASE Already(x.key, x.view)
  <2>1. PICK i \in imports : i.key = x.key /\ i.view = x.view
    BY <1>2 DEF Already, ImportsOf
  <2>2. i \in imports'
    BY DEF Batch
  <2> QED
    BY <2>1, <2>2 DEF Already, ImportsOf
<1>3. CASE ~ Already(x.key, x.view) /\ (IsBooked(x.view) \/ Newest(x.key) # Nothing)
  <2> DEFINE n == [key |-> x.key, view |-> x.view, stamp |-> s,
                   supersedes |-> IF Newest(x.key) = Nothing THEN 0 ELSE Newest(x.key).stamp,
                   corrects |-> Compensated(Newest(x.key))]
  <2>1. n \in NewImports(R, s)
    BY <1>3 DEF NewImports
  <2>2. n.key = x.key /\ n.view = x.view
    OBVIOUS
  <2> HIDE DEF n
  <2>3. n \in imports'
    BY <2>1 DEF Batch
  <2> QED
    BY <2>2, <2>3 DEF Already, ImportsOf
<1>4. CASE ~ IsBooked(x.view) /\ Newest(x.key) = Nothing
  <2>1. ImportsOf(x.key) = {}
    BY <1>4, NewestIs
  <2>2. ASSUME NEW n \in NewImports(R, s), n.key = x.key PROVE FALSE
    <3>1. n.view = x.view
      BY <1>1, <2>2, ImportIs, ObservationsAre DEF Batch
    <3>2. IsBooked(n.view) \/ ImportsOf(n.key) # {}
      BY ImportIs
    <3> QED
      BY <1>4, <2>1, <2>2, <3>1, <3>2
  <2>3. ImportsOf(x.key)' = {}
    BY <2>1, <2>2 DEF ImportsOf, Batch
  <2> QED
    BY <1>4, <2>3
<1> QED
  BY <1>2, <1>3, <1>4

-----------------------------------------------------------------------------
(* The inductive invariant                                                 *)

Holder(w) == worker[w].pc # "idle" /\ HoldsLease(w)

\* The observations r are of the revisions K.
Revised(r, K) == \A k \in Keys : r[k] # Nothing => KnownIn([key |-> k, view |-> r[k]], K)

(***************************************************************************)
(* What a worker has read is known; only an activated account has commands *)
(* of a run, and only for runs that have begun.                            *)
(***************************************************************************)
ReadInv ==
    /\ Revised(current, known)
    /\ \A w \in Workers : /\ worker[w].pc \in WithRecords => Revised(worker[w].records, known)
                          /\ worker[w].stamp # 0 => activated
    /\ DOMAIN command = 1..MaxRuns
    /\ \A r \in 1..MaxRuns : command[r] # Nothing => activated /\ r <= Len(runs)

(***************************************************************************)
(* Of a transaction that never went back: what is current is what was seen *)
(* last; what is not booked was never imported, or is cancelled there too; *)
(* and if what is current was imported it is the newest import.            *)
(***************************************************************************)
NewestShown(k) ==
    /\ current[k] = Nothing \/ current[k].status = "pending" => ImportsOf(k) = {}
    /\ \A i \in ImportsOf(k) : i.view = current[k] => Last(i, ImportsOf(k))

Followed(k) == current[k] = scanned[k] /\ (~ late => NewestShown(k))

FollowInv == \A k \in Keys \ returned : Followed(k)

(***************************************************************************)
(* As long as no worker has written without its lease, the imports are     *)
(* chains of known views, the worker that holds the lease has read what is *)
(* still current, and after its command all of that is handled.            *)
(***************************************************************************)
KnownChain(k) == Chain(ImportsOf(k)) /\ \A i \in ImportsOf(k) : IsKnown(k, i.view)

HolderInv(w) ==
    /\ worker[w].pc \in WithRecords => worker[w].records = current
    /\ worker[w].pc = "command" => \A i \in imports : i.stamp < worker[w].stamp
    /\ worker[w].pc = "complete" /\ worker[w].stamp # 0 => Handled(Importable(current))

ActiveHandled == activeRun # 0 /\ command[activeRun] # Nothing => Handled(command[activeRun].records)

TimelyInv ==
    ~ late => /\ \A k \in Keys : KnownChain(k)
              /\ \A w \in Workers : Holder(w) => HolderInv(w)
              /\ ActiveHandled

LedgerInv == ReadInv /\ FollowInv /\ TimelyInv

-----------------------------------------------------------------------------
(* The steps, as they concern the ledger                                   *)

(***************************************************************************)
(* A step that neither scans nor imports, and lets no worker reach what    *)
(* comes after the pages nor take a lease there.                           *)
(***************************************************************************)
Quiet ==
    /\ UNCHANGED <<current, scanned, returned, imports, command, activated, late>>
    /\ \A w \in Workers : \/ worker'[w] = worker[w]
                          \/ worker'[w].pc \notin WithRecords /\ worker'[w].stamp = 0
    /\ \A w \in Workers : Holder(w)' /\ worker'[w].pc \in WithRecords => Holder(w)
    /\ \/ activeRun' = activeRun \/ activeRun' = 0
       \/ activeRun' = Len(runs') /\ Len(runs') = Len(runs) + 1

(***************************************************************************)
(* What is known stays known.                                              *)
(***************************************************************************)
LEMMA StaysKnown ==
    ASSUME CoverInv, [Next]_vars
    PROVE  \A k, v : IsKnown(k, v) => IsKnown(k, v)'
<1>1. \A e : KnownIn(e, known) => KnownIn(e, known')
  BY KnownGrows DEF CoverInv, Shape
<1>2. ASSUME NEW k, NEW v, IsKnown(k, v) PROVE IsKnown(k, v)'
  <2> DEFINE e == [key |-> k, view |-> v]
  <2>1. KnownIn(e, known)
    BY <1>2 DEF IsKnown, KnownIn
  <2>2. KnownIn(e, known')
    BY <1>1, <2>1
  <2> QED
    BY <2>2 DEF IsKnown, KnownIn
<1> QED
  BY <1>2

(***************************************************************************)
(* A worker that goes on before the pages are all scanned, or goes idle.   *)
(***************************************************************************)
LEMMA QuietWorkers ==
    ASSUME WorkersShaped, TypeInv', NEW w \in Workers,
           UNCHANGED <<current, scanned, returned, imports, command, activated, late>>,
           worker' = [worker EXCEPT ![w] = worker'[w]], worker'[w].pc \notin WithRecords,
           \/ lease' = lease /\ activeRun' = activeRun
           \/ lease' = Nothing \/ lease' = w,
           \/ activeRun' = activeRun \/ activeRun' = 0
           \/ activeRun' = Len(runs') /\ Len(runs') = Len(runs) + 1
    PROVE  Quiet
<1>1. DOMAIN worker = Workers
  BY DEF WorkersShaped
<1>2. worker'[w].stamp = 0
  <2>1. WorkerType(worker'[w], Len(runs'), clock')
    BY DEF TypeInv, WorkersType
  <2> QED
    BY <2>1 DEF WorkerType, WithRecords
<1>3. ASSUME NEW u \in Workers, u # w PROVE worker'[u] = worker[u]
  BY <1>1, <1>3
<1>4. ASSUME NEW u \in Workers, Holder(u)', worker'[u].pc \in WithRecords PROVE Holder(u)
  <2>1. u # w /\ worker'[u] = worker[u]
    BY <1>3, <1>4
  <2>2. lease' = u /\ activeRun' = worker[u].run /\ worker[u].pc # "idle"
    BY <1>4, <2>1 DEF Holder, HoldsLease
  <2>3. lease' = lease /\ activeRun' = activeRun
    BY <2>1, <2>2, NothingAssumption
  <2> QED
    BY <2>2, <2>3 DEF Holder, HoldsLease
<1> QED
  BY <1>2, <1>3, <1>4 DEF Quiet

(***************************************************************************)
(* Every step is quiet, or one of the five that the ledger is about.       *)
(***************************************************************************)
LEMMA LedgerSteps ==
    ASSUME CoverInv, CoverInv', TypeInv, TypeInv', [Next]_vars
    PROVE  \/ Quiet \/ ActivateImport
           \/ \E w \in Workers : \/ ReadRecords(w) \/ CheckReadiness(w) \/ RunCommand(w)
                                 \/ Finalizes(w)
<1>1. WorkersShaped /\ DOMAIN worker = Workers
  BY DEF CoverInv, Shape, WorkersShaped
<1>2. ASSUME UNCHANGED <<worker, current, scanned, returned, imports, command, activated, late,
                         lease, activeRun>>
      PROVE  Quiet
  BY <1>2 DEF Quiet, Holder, HoldsLease
<1>3. ASSUME NEW w \in Workers, WorkerStep(w),
             ~ (ReadRecords(w) \/ CheckReadiness(w) \/ RunCommand(w) \/ Finalizes(w))
      PROVE  Quiet
  <2>1. worker' = [worker EXCEPT ![w] = worker'[w]]
    <3>1. clock \in Nat /\ activeRun' \in 0..Len(runs') /\ WorkerType(worker[w], Len(runs), clock)
      <4>1. activeRun' = 0 \/ activeRun' \in DOMAIN runs'
        BY DEF CoverInv, Shape, ActiveShape
      <4> QED
        BY <4>1, RunsGrow DEF TypeInv, ImportsType, WorkersType
    <3> QED
      BY <1>3, <3>1, RunsGrow, ClockGrows, WorkerWrites DEF TypeInv
  <2>2. UNCHANGED <<current, scanned, returned, imports, command, activated, late>>
    BY <1>3 DEF WorkerStep, Finalizes, BeginSync, LoadPendingReceipts, ReadBalance, RenewLease,
                FetchPage, CompleteSync, LeaseLost, ReceiptAlreadyProcessed, PayloadConflict,
                SyncFails, Crash, FailRun, scanVars, ledgerVars, ownerVars
  <2>3. CASE BeginSync(w)
    <3>1. worker'[w].pc = "receipts"
      <4>1. worker'[w] = [Idle EXCEPT !.pc = "receipts", !.run = activeRun', !.started = day,
                                      !.cursor = runs'[activeRun'].cursor]
        BY <1>1, <2>3 DEF BeginSync, Set
      <4> QED
        BY <4>1 DEF Idle
    <3>2. lease' = w
      BY <2>3 DEF BeginSync
    <3>3. \/ activeRun' = activeRun
          \/ activeRun' = Len(runs') /\ Len(runs') = Len(runs) + 1
      <4>1. CASE activeRun # 0
        BY <2>3, <4>1 DEF BeginSync
      <4>2. CASE activeRun = 0
        <5>1. RunsShaped
          BY DEF CoverInv, Shape
        <5>2. IsSequence(runs) /\ runs' = Append(runs, NewRun) /\ activeRun' = Len(runs')
          BY <2>3, <4>2, <5>1 DEF BeginSync, RunsShaped
        <5> HIDE DEF NewRun
        <5> QED
          BY <5>2, AppendShape
      <4> QED
        BY <4>1, <4>2
    <3> QED
      BY <1>1, <2>1, <2>2, <3>1, <3>2, <3>3, QuietWorkers DEF WithRecords
  <2>4. CASE \/ CompleteSync(w) \/ LeaseLost(w) \/ ReceiptAlreadyProcessed(w) \/ PayloadConflict(w)
             \/ SyncFails(w) \/ Crash(w)
    <3>1. worker'[w] = Idle
      BY <1>1, <2>4 DEF CompleteSync, LeaseLost, ReceiptAlreadyProcessed, PayloadConflict,
                        SyncFails, Crash, FailRun, Set
    <3>2. \/ lease' = lease /\ activeRun' = activeRun
          \/ activeRun' = 0 /\ lease' = Nothing
      <4>1. ReleaseLease \/ UNCHANGED leaseVars
        <5>1. CASE FailRun(w)
          BY <5>1 DEF FailRun
        <5>2. CASE CompleteSync(w) \/ Crash(w)
          BY <5>2 DEF CompleteSync, Crash
        <5> QED
          BY <2>4, <5>1, <5>2 DEF LeaseLost, ReceiptAlreadyProcessed, PayloadConflict, SyncFails
      <4> QED
        BY <4>1 DEF ReleaseLease, leaseVars
    <3>3. Idle.pc \notin WithRecords
      BY DEF Idle, WithRecords
    <3> HIDE DEF Idle
    <3> QED
      BY <1>1, <2>1, <2>2, <3>1, <3>2, <3>3, QuietWorkers
  <2>5. CASE LoadPendingReceipts(w) \/ RenewLease(w) \/ FetchPage(w) \/ ReadBalance(w)
    <3>1. worker'[w].pc \in {"resume", "fetch", "page", "scan"}
      <4>1. /\ DOMAIN worker[w] = DOMAIN Idle
            /\ DOMAIN Idle = {"pc", "run", "cursor", "receipt", "pending", "started", "balance",
                              "records", "from", "through", "stamp"}
        BY DEF CoverInv, Shape, WorkersShaped, WorkerShape, Idle
      <4>2. CASE LoadPendingReceipts(w)
        BY <1>1, <4>1, <4>2 DEF LoadPendingReceipts, Set
      <4>3. CASE RenewLease(w)
        BY <1>1, <4>1, <4>3 DEF RenewLease, Go, Set
      <4>4. CASE FetchPage(w)
        BY <1>1, <4>1, <4>4 DEF FetchPage, Set
      <4>5. CASE ReadBalance(w)
        BY <1>1, <4>1, <4>5 DEF ReadBalance, Set
      <4> QED
        BY <2>5, <4>2, <4>3, <4>4, <4>5
    <3>2. UNCHANGED <<lease, activeRun>>
      BY <2>5 DEF LoadPendingReceipts, RenewLease, FetchPage, ReadBalance, leaseVars
    <3>3. worker'[w].pc \notin WithRecords
      BY <3>1 DEF WithRecords
    <3>4. lease' = lease /\ activeRun' = activeRun
      BY <3>2
    <3> QED
      BY <1>1, <2>1, <2>2, <3>3, <3>4, QuietWorkers
  <2> QED
    BY <1>3, <2>3, <2>4, <2>5 DEF WorkerStep, Finalizes
<1>4. ASSUME \/ BankChanges \/ BankPostsBalance \/ DayPasses \/ LeaseExpires
             \/ (\E e \in Evidence : PrepareActivation(e)) \/ UNCHANGED vars
      PROVE  UNCHANGED <<worker, current, scanned, returned, imports, command, activated, late,
                         lease, activeRun>>
  BY <1>4 DEF BankChanges, BankPostsBalance, DayPasses, LeaseExpires, PrepareActivation, vars,
              scanVars, ledgerVars, ownerVars, leaseVars
<1> QED
  BY <1>2, <1>3, <1>4 DEF Next

-----------------------------------------------------------------------------
(* Every step keeps the invariant                                          *)

(***************************************************************************)
(* What is read stays known while the observations do not change.          *)
(***************************************************************************)
LEMMA RevisedStays ==
    ASSUME CoverInv, [Next]_vars, NEW r, Revised(r, known) PROVE Revised(r, known')
<1>1. \A e : KnownIn(e, known) => KnownIn(e, known')
  BY KnownGrows DEF CoverInv, Shape
<1> QED
  BY <1>1 DEF Revised

(***************************************************************************)
(* While nothing is imported, what is said of the imports stays true.      *)
(***************************************************************************)
LEMMA SameImports ==
    ASSUME CoverInv, [Next]_vars, UNCHANGED imports
    PROVE  /\ \A k : ImportsOf(k)' = ImportsOf(k)
           /\ \A k : KnownChain(k) => KnownChain(k)'
           /\ \A R : Handled(R) => Handled(R)'
<1>1. \A k : ImportsOf(k)' = ImportsOf(k)
  BY DEF ImportsOf
<1>2. \A k : KnownChain(k) => KnownChain(k)'
  <2>1. ASSUME NEW k, KnownChain(k) PROVE KnownChain(k)'
    <3> DEFINE I == ImportsOf(k)
    <3>1. Chain(I) /\ \A i \in I : IsKnown(k, i.view)
      BY <2>1 DEF KnownChain
    <3>2. ImportsOf(k)' = ImportsOf(k)
      BY <1>1
    <3>3. \A i \in ImportsOf(k)' : IsKnown(k, i.view)'
      BY <3>1, <3>2, StaysKnown
    <3>4. Chain(ImportsOf(k)')
      BY <3>1, <3>2
    <3> QED
      BY <3>3, <3>4 DEF KnownChain
  <2> QED
    BY <2>1
<1>3. ASSUME NEW R, Handled(R) PROVE Handled(R)'
  BY <1>1, <1>3 DEF Handled, Already
<1> QED
  BY <1>1, <1>2, <1>3

(***************************************************************************)
(* A quiet step.                                                           *)
(***************************************************************************)
LEMMA QuietKeeps ==
    ASSUME CoverInv, CoverInv', TypeInv, LedgerInv, [Next]_vars, Quiet
    PROVE  LedgerInv'
<1>1. UNCHANGED <<current, scanned, returned, imports, command, activated, late>>
  BY DEF Quiet
<1>2. /\ \A k : ImportsOf(k)' = ImportsOf(k)
      /\ \A k : KnownChain(k) => KnownChain(k)'
      /\ \A R : Handled(R) => Handled(R)'
  BY <1>1, SameImports
<1>3. ReadInv'
  <2>1. Revised(current', known')
    BY <1>1, RevisedStays DEF LedgerInv, ReadInv
  <2>2. ASSUME NEW w \in Workers
        PROVE  /\ worker'[w].pc \in WithRecords => Revised(worker'[w].records, known')
               /\ worker'[w].stamp # 0 => activated'
    <3>1. CASE worker'[w] = worker[w]
      <4>1. /\ worker[w].pc \in WithRecords => Revised(worker[w].records, known)
            /\ worker[w].stamp # 0 => activated
        BY DEF LedgerInv, ReadInv
      <4>2. Revised(worker[w].records, known) => Revised(worker[w].records, known')
        BY RevisedStays
      <4> QED
        BY <1>1, <3>1, <4>1, <4>2
    <3>2. CASE worker'[w].pc \notin WithRecords /\ worker'[w].stamp = 0
      BY <3>2
    <3> QED
      BY <3>1, <3>2 DEF Quiet
  <2>3. DOMAIN command' = 1..MaxRuns
        /\ \A r \in 1..MaxRuns : command'[r] # Nothing => activated' /\ r <= Len(runs')
    <3>1. Len(runs) \in Nat /\ Len(runs') \in Nat /\ Len(runs) <= Len(runs') /\ MaxRuns \in Nat
      BY RunsGrow, ImportAssumption
    <3>2. ASSUME NEW r \in 1..MaxRuns, command[r] # Nothing PROVE activated /\ r <= Len(runs')
      <4>1. activated /\ r <= Len(runs)
        BY <3>2 DEF LedgerInv, ReadInv
      <4> QED
        BY <3>1, <4>1
    <3> QED
      BY <1>1, <3>2 DEF LedgerInv, ReadInv
  <2> QED
    BY <2>1, <2>2, <2>3 DEF ReadInv
<1>4. FollowInv'
  <2>1. ASSUME NEW k \in Keys, Followed(k) PROVE Followed(k)'
    BY <1>1, <1>2, <2>1 DEF Followed, NewestShown
  <2> QED
    BY <1>1, <2>1 DEF LedgerInv, FollowInv
<1>5. TimelyInv'
  <2> SUFFICES ASSUME ~ late'
               PROVE  /\ \A k \in Keys : KnownChain(k)'
                      /\ \A w \in Workers : Holder(w)' => HolderInv(w)'
                      /\ ActiveHandled'
    BY DEF TimelyInv
  <2>1. /\ \A k \in Keys : KnownChain(k)
        /\ \A w \in Workers : Holder(w) => HolderInv(w)
        /\ ActiveHandled
    BY <1>1 DEF LedgerInv, TimelyInv
  <2>2. ASSUME NEW w \in Workers, Holder(w)' PROVE HolderInv(w)'
    <3>1. CASE worker'[w].pc \notin WithRecords
      BY <3>1 DEF HolderInv, WithRecords
    <3>2. CASE worker'[w].pc \in WithRecords
      <4>1. worker'[w] = worker[w] /\ HolderInv(w)
        BY <2>1, <2>2, <3>2 DEF Quiet
      <4>2. Importable(current)' = Importable(current)
        BY <1>1 DEF Importable
      <4>3. Handled(Importable(current)) => Handled(Importable(current))'
        BY <1>2, <4>2 DEF Handled, Already
      <4> QED
        BY <1>1, <4>1, <4>3 DEF HolderInv
    <3> QED
      BY <3>1, <3>2
  <2>3. ActiveHandled'
    <3>1. CASE activeRun' = activeRun
      <4>1. \A R : Handled(R) => \A x \in R : (Already(x.key, x.view)' \/ (~ IsBooked(x.view) /\ ImportsOf(x.key)' = {}))
        BY <1>2 DEF Handled, Already
      <4> QED
        BY <1>1, <2>1, <3>1, <4>1 DEF ActiveHandled, Handled, Already
    <3>2. CASE activeRun' = 0
      BY <3>2 DEF ActiveHandled
    <3>3. CASE activeRun' = Len(runs') /\ Len(runs') = Len(runs) + 1
      <4>1. Len(runs) < MaxRuns /\ Len(runs) \in Nat /\ MaxRuns \in Nat
        BY <3>3, RunsGrow, ImportAssumption
      <4>2. activeRun' \in 1..MaxRuns /\ ~ (activeRun' <= Len(runs))
        BY <3>3, <4>1
      <4>3. command[activeRun'] = Nothing
        BY <4>2 DEF LedgerInv, ReadInv
      <4> QED
        BY <1>1, <4>3 DEF ActiveHandled
    <3> QED
      BY <3>1, <3>2, <3>3 DEF Quiet
  <2> QED
    BY <1>2, <2>1, <2>2, <2>3
<1> QED
  BY <1>3, <1>4, <1>5 DEF LedgerInv

(***************************************************************************)
(* What has been read, when a step changes what some workers have read and *)
(* the command of some runs.                                               *)
(***************************************************************************)
LEMMA ReadKept ==
    ASSUME CoverInv, CoverInv', LedgerInv, [Next]_vars, Revised(current', known'),
           activated => activated',
           \A u \in Workers :
              \/ worker'[u] = worker[u]
              \/ /\ worker'[u].pc \in WithRecords => Revised(worker'[u].records, known')
                 /\ worker'[u].stamp # 0 => activated',
           DOMAIN command' = 1..MaxRuns,
           \A r \in 1..MaxRuns : command'[r] = command[r] \/ (activated' /\ r <= Len(runs'))
    PROVE  ReadInv'
<1>1. ASSUME NEW u \in Workers
      PROVE  /\ worker'[u].pc \in WithRecords => Revised(worker'[u].records, known')
             /\ worker'[u].stamp # 0 => activated'
  <2>1. CASE worker'[u] = worker[u]
    <3>1. /\ worker[u].pc \in WithRecords => Revised(worker[u].records, known)
          /\ worker[u].stamp # 0 => activated
      BY DEF LedgerInv, ReadInv
    <3>2. Revised(worker[u].records, known) => Revised(worker[u].records, known')
      BY RevisedStays
    <3> QED
      BY <2>1, <3>1, <3>2
  <2>2. CASE worker'[u] # worker[u]
    BY <2>2
  <2> QED
    BY <2>1, <2>2
<1>2. ASSUME NEW r \in 1..MaxRuns, command'[r] # Nothing PROVE activated' /\ r <= Len(runs')
  <2>1. CASE command'[r] = command[r]
    <3>1. activated /\ r <= Len(runs)
      BY <1>2, <2>1 DEF LedgerInv, ReadInv
    <3>2. Len(runs) \in Nat /\ Len(runs') \in Nat /\ Len(runs) <= Len(runs') /\ MaxRuns \in Nat
      BY RunsGrow, ImportAssumption
    <3> QED
      BY <3>1, <3>2
  <2>2. CASE command'[r] # command[r]
    BY <2>2
  <2> QED
    BY <2>1, <2>2
<1> QED
  BY <1>1, <1>2 DEF ReadInv

(***************************************************************************)
(* A step of a worker changes no other worker.                             *)
(***************************************************************************)
LEMMA OthersStay ==
    ASSUME CoverInv, CoverInv', TypeInv, [Next]_vars, NEW w \in Workers, WorkerStep(w)
    PROVE  \A u \in Workers : u # w => worker'[u] = worker[u]
<1>1. worker' = [worker EXCEPT ![w] = worker'[w]]
  <2>1. clock \in Nat /\ activeRun' \in 0..Len(runs') /\ WorkerType(worker[w], Len(runs), clock)
    <3>1. activeRun' = 0 \/ activeRun' \in DOMAIN runs'
      BY DEF CoverInv, Shape, ActiveShape
    <3> QED
      BY <3>1, RunsGrow DEF TypeInv, ImportsType, WorkersType
  <2> QED
    BY <2>1, RunsGrow, ClockGrows, WorkerWrites DEF TypeInv
<1>2. DOMAIN worker = Workers
  BY DEF CoverInv, Shape, WorkersShaped
<1> QED
  BY <1>1, <1>2

(***************************************************************************)
(* A step of a worker that has its records from what is current, or goes   *)
(* on with those it has.                                                   *)
(***************************************************************************)
LEMMA ReaderKeeps ==
    ASSUME CoverInv, CoverInv', TypeInv, LedgerInv, [Next]_vars, NEW w \in Workers, WorkerStep(w),
           UNCHANGED <<current, scanned, returned, imports, command, activated, late, lease,
                       activeRun>>,
           worker'[w].run = worker[w].run, worker[w].pc # "idle",
           \/ worker'[w].records = current
           \/ worker[w].pc \in WithRecords /\ worker'[w].records = worker[w].records,
           worker'[w].stamp # 0 => activated,
           worker'[w].pc = "command" => \A i \in imports : i.stamp < worker'[w].stamp,
           worker'[w].pc = "complete" => worker'[w].stamp = 0
    PROVE  LedgerInv'
<1>1. \A u \in Workers : u # w => worker'[u] = worker[u]
  BY OthersStay
<1>2. /\ \A k : ImportsOf(k)' = ImportsOf(k)
      /\ \A k : KnownChain(k) => KnownChain(k)'
      /\ \A R : Handled(R) => Handled(R)'
  BY SameImports
<1>3. ReadInv'
  <2>1. Revised(current, known) /\ DOMAIN command = 1..MaxRuns
        /\ (worker[w].pc \in WithRecords => Revised(worker[w].records, known))
    BY DEF LedgerInv, ReadInv
  <2>2. Revised(current, known')
    BY <2>1, RevisedStays
  <2>3. worker[w].pc \in WithRecords => Revised(worker[w].records, known')
    BY <2>1, RevisedStays
  <2>4. Revised(worker'[w].records, known')
    BY <2>2, <2>3
  <2> QED
    BY <1>1, <2>1, <2>2, <2>4, ReadKept
<1>4. FollowInv'
  <2>1. ASSUME NEW k \in Keys, Followed(k) PROVE Followed(k)'
    BY <1>2, <2>1 DEF Followed, NewestShown
  <2> QED
    BY <2>1 DEF LedgerInv, FollowInv
<1>5. TimelyInv'
  <2> SUFFICES ASSUME ~ late'
               PROVE  /\ \A k \in Keys : KnownChain(k)'
                      /\ \A u \in Workers : Holder(u)' => HolderInv(u)'
                      /\ ActiveHandled'
    BY DEF TimelyInv
  <2>1. /\ \A k \in Keys : KnownChain(k)
        /\ \A u \in Workers : Holder(u) => HolderInv(u)
        /\ ActiveHandled
    BY DEF LedgerInv, TimelyInv
  <2>2. ASSUME NEW u \in Workers, Holder(u)' PROVE HolderInv(u)'
    <3>1. CASE u = w
      <4>1. HolderInv(w)
        BY <2>1, <2>2, <3>1 DEF Holder, HoldsLease
      <4>2. worker'[w].records = current'
        BY <4>1 DEF HolderInv
      <4> QED
        BY <3>1, <4>2 DEF HolderInv
    <3>2. CASE u # w
      <4>1. worker'[u] = worker[u] /\ HolderInv(u)
        BY <1>1, <2>1, <2>2, <3>2 DEF Holder, HoldsLease
      <4>2. Importable(current)' = Importable(current)
        BY DEF Importable
      <4>3. Handled(Importable(current)) => Handled(Importable(current))'
        BY <1>2, <4>2 DEF Handled, Already
      <4> QED
        BY <4>1, <4>3 DEF HolderInv
    <3> QED
      BY <3>1, <3>2
  <2>3. ActiveHandled'
    <3>1. \A R : Handled(R) => \A x \in R : (Already(x.key, x.view)' \/ (~ IsBooked(x.view) /\ ImportsOf(x.key)' = {}))
      BY <1>2 DEF Handled, Already
    <3> QED
      BY <2>1, <3>1 DEF ActiveHandled, Handled, Already
  <2> QED
    BY <1>2, <2>1, <2>2, <2>3
<1> QED
  BY <1>3, <1>4, <1>5 DEF LedgerInv

(***************************************************************************)
(* A worker reads the observations.                                        *)
(***************************************************************************)
LEMMA ReadRecordsKeeps ==
    ASSUME CoverInv, CoverInv', TypeInv, LedgerInv, [Next]_vars,
           NEW w \in Workers, ReadRecords(w)
    PROVE  LedgerInv'
<1>1. WorkerStep(w)
  BY DEF WorkerStep
<1>2. UNCHANGED <<current, scanned, returned, imports, command, activated, late, lease, activeRun>>
  BY DEF ReadRecords, scanVars, ledgerVars, ownerVars, leaseVars
<1>3. /\ DOMAIN worker = Workers /\ DOMAIN worker[w] = DOMAIN Idle
      /\ DOMAIN Idle = {"pc", "run", "cursor", "receipt", "pending", "started", "balance", "records",
                        "from", "through", "stamp"}
  BY DEF CoverInv, Shape, WorkersShaped, WorkerShape, Idle
<1>4. worker[w].pc = "records" /\ worker[w].stamp = 0
  BY DEF ReadRecords, TypeInv, WorkersType, WorkerType
<1>5. /\ worker'[w].pc = "ready" /\ worker'[w].records = current
      /\ worker'[w].run = worker[w].run /\ worker'[w].stamp = worker[w].stamp
  BY <1>3 DEF ReadRecords, Set
<1> QED
  BY <1>1, <1>2, <1>4, <1>5, ReaderKeeps

(***************************************************************************)
(* The starting time of a command is later than that of every import.      *)
(***************************************************************************)
LEMMA CheckReadinessKeeps ==
    ASSUME CoverInv, CoverInv', TypeInv, LedgerInv, [Next]_vars,
           NEW w \in Workers, CheckReadiness(w)
    PROVE  LedgerInv'
<1>1. WorkerStep(w)
  BY DEF WorkerStep
<1>2. UNCHANGED <<current, scanned, returned, imports, command, activated, late, lease, activeRun>>
  BY DEF CheckReadiness, scanVars, ownerVars, leaseVars
<1>3. /\ DOMAIN worker = Workers /\ DOMAIN worker[w] = DOMAIN Idle
      /\ DOMAIN Idle = {"pc", "run", "cursor", "receipt", "pending", "started", "balance", "records",
                        "from", "through", "stamp"}
  BY DEF CoverInv, Shape, WorkersShaped, WorkerShape, Idle
<1>4. worker[w].pc = "ready" /\ worker[w].stamp = 0
  BY DEF CheckReadiness, TypeInv, WorkersType, WorkerType
<1>5. \/ /\ activated /\ clock' = clock + 1
         /\ worker' = [worker EXCEPT ![w] = [worker[w] EXCEPT !.pc = "command", !.stamp = clock']]
      \/ worker' = [worker EXCEPT ![w] = [worker[w] EXCEPT !.pc = "complete"]]
  BY DEF CheckReadiness, ImportAllowed, Set, Go
<1>6. \A i \in imports : i.stamp < clock + 1
  <2>1. ASSUME NEW i \in imports PROVE i.stamp < clock + 1
    <3>1. clock \in Nat /\ i.stamp \in 1..clock
      BY DEF TypeInv, ImportsType, ImportType
    <3> QED
      BY <3>1
  <2> QED
    BY <2>1
<1>7. /\ worker'[w].run = worker[w].run /\ worker'[w].records = worker[w].records
      /\ \/ activated /\ worker'[w].pc = "command" /\ worker'[w].stamp = clock + 1
         \/ worker'[w].pc = "complete" /\ worker'[w].stamp = 0
  <2>1. CASE /\ activated /\ clock' = clock + 1
             /\ worker' = [worker EXCEPT ![w] = [worker[w] EXCEPT !.pc = "command", !.stamp = clock']]
    <3>1. worker'[w] = [worker[w] EXCEPT !.pc = "command", !.stamp = clock']
      BY <1>3, <2>1
    <3>2. /\ worker'[w].run = worker[w].run /\ worker'[w].records = worker[w].records
          /\ worker'[w].pc = "command" /\ worker'[w].stamp = clock + 1
      BY <1>3, <2>1, <3>1
    <3> QED
      BY <2>1, <3>2
  <2>2. CASE worker' = [worker EXCEPT ![w] = [worker[w] EXCEPT !.pc = "complete"]]
    <3>1. worker'[w] = [worker[w] EXCEPT !.pc = "complete"]
      BY <1>3, <2>2
    <3>2. /\ worker'[w].run = worker[w].run /\ worker'[w].records = worker[w].records
          /\ worker'[w].pc = "complete" /\ worker'[w].stamp = 0
      BY <1>3, <1>4, <3>1
    <3> QED
      BY <3>2
  <2> QED
    BY <1>5, <2>1, <2>2
<1>8. worker[w].pc \in WithRecords /\ worker[w].pc # "idle"
  BY <1>4 DEF WithRecords
<1>9. worker'[w].stamp # 0 => activated
  BY <1>7
<1>10. worker'[w].pc = "command" => \A i \in imports : i.stamp < worker'[w].stamp
  BY <1>6, <1>7
<1>11. worker'[w].pc = "complete" => worker'[w].stamp = 0
  BY <1>7
<1>12. worker[w].pc \in WithRecords /\ worker'[w].records = worker[w].records
  BY <1>7, <1>8
<1>13. worker'[w].run = worker[w].run
  BY <1>7
<1> QED
  BY <1>1, <1>2, <1>8, <1>9, <1>10, <1>11, <1>12, <1>13, ReaderKeeps

(***************************************************************************)
(* Finalising a receipt: a view that is new is observed, one that was      *)
(* known and has been superseded is a step back.                           *)
(***************************************************************************)
LEMMA FinalizedFollowed ==
    ASSUME CoverInv, TypeInv, LedgerInv, [Next]_vars, NEW w \in Workers, Finalizes(w),
           UNCHANGED imports, late => late',
           NEW k \in Keys, k \notin returned'
    PROVE  Followed(k)'
<1>1. PICK p \in Contents :
         /\ \A x \in DOMAIN p : p[x] \in Views
         /\ current' = Observations(p)
         /\ scanned' = [x \in Keys |-> IF x \in DOMAIN p THEN p[x] ELSE scanned[x]]
         /\ returned' = returned \cup {x \in DOMAIN p : GoesBack(x, p[x])}
  BY FinalizingScan DEF TypeInv
<1>2. Followed(k) /\ (k \in DOMAIN p => ~ GoesBack(k, p[k]))
  BY <1>1 DEF LedgerInv, FollowInv
<1>3. ImportsOf(k)' = ImportsOf(k)
  BY SameImports
<1>4. CASE current'[k] = current[k] /\ scanned'[k] = scanned[k]
  BY <1>2, <1>3, <1>4 DEF Followed, NewestShown
<1>5. CASE k \notin DOMAIN p
  <2>1. current'[k] = current[k] /\ scanned'[k] = scanned[k]
    BY <1>1, <1>5, ObservationOf
  <2> QED
    BY <1>4, <2>1
<1>6. CASE k \in DOMAIN p /\ p[k] = current[k]
  <2>1. current'[k] = current[k] /\ scanned'[k] = current[k]
    BY <1>1, <1>6, ObservationOf
  <2>2. scanned[k] = current[k]
    BY <1>2 DEF Followed
  <2> QED
    BY <1>4, <2>1, <2>2
<1>7. CASE k \in DOMAIN p /\ p[k] # current[k]
  <2>1. ~ IsKnown(k, p[k]) /\ (p[k].status = "pending" => ImportsOf(k) = {})
    BY <1>2, <1>7 DEF GoesBack, ImportsOf
  <2>2. current'[k] = p[k] /\ scanned'[k] = p[k] /\ p[k] # Nothing
    BY <1>1, <1>7, <2>1, ObservationOf, NothingAssumption
  <2>3. ~ late' => \A i \in ImportsOf(k) : i.view # p[k]
    BY <2>1 DEF LedgerInv, TimelyInv, KnownChain
  <2> QED
    BY <1>3, <2>1, <2>2, <2>3 DEF Followed, NewestShown
<1> QED
  BY <1>5, <1>6, <1>7

(***************************************************************************)
(* A receipt is finalised.                                                 *)
(***************************************************************************)
LEMMA FinalizesKeeps ==
    ASSUME CoverInv, CoverInv', TypeInv, TypeInv', LedgerInv, [Next]_vars,
           NEW w \in Workers, Finalizes(w)
    PROVE  LedgerInv'
<1>1. WorkerStep(w)
  BY DEF WorkerStep, Finalizes
<1>2. UNCHANGED <<imports, command, activated, lease, activeRun>>
  BY DEF Finalizes, ProcessPendingReceipt, FinalizePage, ledgerVars, ownerVars, leaseVars
<1>3. (late => late') /\ (~ late' => HoldsLease(w))
  BY DEF Finalizes, ProcessPendingReceipt, FinalizePage
<1>4. worker'[w].pc \notin WithRecords /\ worker'[w].stamp = 0
  <2>1. worker'[w].pc \in {"resume", "scan", "records"}
    <3>1. /\ DOMAIN worker = Workers /\ DOMAIN worker[w] = DOMAIN Idle
          /\ DOMAIN Idle = {"pc", "run", "cursor", "receipt", "pending", "started", "balance",
                            "records", "from", "through", "stamp"}
      BY DEF CoverInv, Shape, WorkersShaped, WorkerShape, Idle
    <3>2. CASE ProcessPendingReceipt(w)
      BY <3>1, <3>2 DEF ProcessPendingReceipt, Set
    <3>3. CASE FinalizePage(w)
      BY <3>1, <3>3 DEF FinalizePage, Set
    <3> QED
      BY <3>2, <3>3 DEF Finalizes
  <2>2. WorkerType(worker'[w], Len(runs'), clock')
    BY DEF TypeInv, WorkersType
  <2> QED
    BY <2>1, <2>2 DEF WorkerType, WithRecords
<1>5. \A u \in Workers : u # w => worker'[u] = worker[u]
  BY <1>1, OthersStay
<1>6. /\ \A k : ImportsOf(k)' = ImportsOf(k)
      /\ \A k : KnownChain(k) => KnownChain(k)'
      /\ \A R : Handled(R) => Handled(R)'
  BY <1>2, SameImports
<1>7. ReadInv'
  <2>1. Revised(current', known')
    <3>1. PICK p \in Contents :
             /\ \A k \in DOMAIN p : KnownIn([key |-> k, view |-> p[k]], known')
             /\ current' = Observations(p)
      BY FinalizingScan DEF TypeInv
    <3>2. Revised(current, known')
      BY RevisedStays DEF LedgerInv, ReadInv
    <3>3. ASSUME NEW k \in Keys, current'[k] # Nothing
          PROVE  KnownIn([key |-> k, view |-> current'[k]], known')
      <4>1. CASE current'[k] = current[k]
        BY <3>2, <3>3, <4>1 DEF Revised
      <4>2. CASE current'[k] # current[k]
        <5>1. k \in DOMAIN p /\ current'[k] = p[k]
          BY <3>1, <3>3, <4>2, ObservationOf
        <5> QED
          BY <3>1, <5>1
      <4> QED
        BY <4>1, <4>2
    <3> QED
      BY <3>3 DEF Revised
  <2>2. DOMAIN command' = 1..MaxRuns
    BY <1>2 DEF LedgerInv, ReadInv
  <2> QED
    BY <1>2, <1>4, <1>5, <2>1, <2>2, ReadKept
<1>8. FollowInv'
  BY <1>2, <1>3, FinalizedFollowed DEF FollowInv
<1>9. TimelyInv'
  <2> SUFFICES ASSUME ~ late'
               PROVE  /\ \A k \in Keys : KnownChain(k)'
                      /\ \A u \in Workers : Holder(u)' => HolderInv(u)'
                      /\ ActiveHandled'
    BY DEF TimelyInv
  <2>1. (\A k \in Keys : KnownChain(k)) /\ ActiveHandled
    BY <1>3 DEF LedgerInv, TimelyInv
  <2>2. ASSUME NEW u \in Workers, Holder(u)' PROVE HolderInv(u)'
    <3>1. lease = w /\ lease = u
      BY <1>2, <1>3, <2>2 DEF Holder, HoldsLease
    <3> QED
      BY <1>4, <3>1 DEF HolderInv, WithRecords
  <2>3. ActiveHandled'
    <3>1. \A R : Handled(R) => \A x \in R : (Already(x.key, x.view)' \/ (~ IsBooked(x.view) /\ ImportsOf(x.key)' = {}))
      BY <1>6 DEF Handled, Already
    <3> QED
      BY <1>2, <2>1, <3>1 DEF ActiveHandled, Handled, Already
  <2> QED
    BY <1>6, <2>1, <2>2, <2>3
<1> QED
  BY <1>7, <1>8, <1>9 DEF LedgerInv

(***************************************************************************)
(* A batch leaves chains whose newest imports show what is observed.       *)
(***************************************************************************)
LEMMA BatchKeeps ==
    ASSUME CoverInv, TypeInv, LedgerInv, [Next]_vars, UNCHANGED current,
           NEW R, NEW s, Batch(R, s), NEW k \in Keys, KnownChain(k)
    PROVE  KnownChain(k)' /\ (NewestShown(k) => NewestShown(k)')
<1> DEFINE I == ImportsOf(k)
<1>1. I \subseteq ImportRows /\ Chain(I) /\ \A i \in I : IsKnown(k, i.view)
  BY DEF TypeInv, ImportsType, ImportType, ImportsOf, KnownChain
<1>2. \A v : IsKnown(k, v) => IsKnown(k, v)'
  BY StaysKnown
<1>3. CASE ImportsOf(k)' = I
  <2>1. Chain(ImportsOf(k)') /\ \A i \in ImportsOf(k)' : IsKnown(k, i.view)'
    BY <1>1, <1>2, <1>3
  <2> QED
    BY <1>3, <2>1 DEF KnownChain, NewestShown
<1>4. ASSUME NEW n \in ImportRows, ImportsOf(k)' = I \cup {n}, GoesOn(n, I),
             n.view = current[k], n.stamp = s,
             current[k] # Nothing, current[k].status \in {"booked", "cancelled"}
      PROVE  KnownChain(k)' /\ NewestShown(k)'
  <2>1. n.stamp # 0 /\ n.stamp \in Nat
    BY <1>4 DEF Batch
  <2>2. Chain(I \cup {n})
    BY <1>1, <1>4, <2>1, ChainGrows
  <2>3. IsKnown(k, n.view)
    <3>1. KnownIn([key |-> k, view |-> current[k]], known)
      BY <1>4 DEF LedgerInv, ReadInv, Revised
    <3> QED
      BY <1>4, <3>1 DEF KnownIn, IsKnown
  <2> DEFINE J == I \cup {n}
  <2>4. \A i \in J : IsKnown(k, i.view)'
    BY <1>1, <1>2, <2>3
  <2>5. \A i \in J : i.view = current[k] => Last(i, J)
    <3>1. ASSUME NEW i \in J, i.view = current[k] PROVE i = n
      BY <1>4, <3>1 DEF GoesOn
    <3>2. \A j \in J : j.stamp <= n.stamp
      <4>1. \A j \in I : j.stamp < n.stamp /\ j.stamp \in Nat
        BY <1>1, <1>4 DEF GoesOn, ImportRows
      <4> QED
        BY <2>1, <4>1
    <3> QED
      BY <3>1, <3>2 DEF Last
  <2>6. ImportsOf(k)' = J
    BY <1>4
  <2> HIDE DEF J, I
  <2>7. KnownChain(k)'
    <3>1. Chain(ImportsOf(k)') /\ \A i \in ImportsOf(k)' : IsKnown(k, i.view)'
      BY <2>2, <2>4, <2>6 DEF J
    <3> QED
      BY <3>1 DEF KnownChain
  <2>8. NewestShown(k)'
    BY <1>4, <2>5, <2>6 DEF NewestShown
  <2> QED
    BY <2>7, <2>8
<1> QED
  BY <1>3, <1>4, BatchAdds DEF TypeInv

(***************************************************************************)
(* Observations that have not changed since the last step.                 *)
(***************************************************************************)
LEMMA FollowKept ==
    ASSUME LedgerInv, UNCHANGED <<current, scanned, returned>>, late => late',
           ~ late' => \A k \in Keys : NewestShown(k) => NewestShown(k)'
    PROVE  FollowInv'
<1>1. ASSUME NEW k \in Keys, k \notin returned PROVE Followed(k)'
  <2>1. Followed(k)
    BY <1>1 DEF LedgerInv, FollowInv
  <2> QED
    BY <2>1 DEF Followed
<1> QED
  BY <1>1 DEF FollowInv

(***************************************************************************)
(* A command runs: its worker has read what is current, so that its        *)
(* imports go on with the chains, or it is a replay of one that did.       *)
(***************************************************************************)
LEMMA RunCommandKeeps ==
    ASSUME CoverInv, CoverInv', TypeInv, TypeInv', LedgerInv, [Next]_vars,
           NEW w \in Workers, RunCommand(w)
    PROVE  LedgerInv'
<1> DEFINE me == worker[w]
           request == [records |-> Importable(me.records), balance |-> me.balance]
<1>1. WorkerStep(w)
  BY DEF WorkerStep
<1>2. UNCHANGED <<current, scanned, returned, activated, lease, activeRun, runs>>
  BY DEF RunCommand, scanVars, ownerVars, leaseVars
<1>3. (late => late') /\ (~ late' => HoldsLease(w))
  BY DEF RunCommand
<1>4. me.pc = "command" /\ \/ /\ command[me.run] = Nothing
                              /\ imports' = imports \cup NewImports(Importable(me.records), me.stamp)
                              /\ command' = [command EXCEPT ![me.run] = request]
                           \/ command[me.run] = request /\ UNCHANGED <<imports, command>>
  BY DEF RunCommand, AppendCanonicalBatch
<1>5. worker'[w] = [worker[w] EXCEPT !.pc = "complete"]
  BY DEF RunCommand, Go, Set, CoverInv, Shape, WorkersShaped
<1>6. /\ worker'[w].pc = "complete" /\ worker'[w].run = me.run
      /\ worker'[w].records = me.records /\ worker'[w].stamp = me.stamp
  <2>1. /\ DOMAIN worker[w] = DOMAIN Idle
        /\ DOMAIN Idle = {"pc", "run", "cursor", "receipt", "pending", "started", "balance",
                          "records", "from", "through", "stamp"}
    BY DEF CoverInv, Shape, WorkersShaped, WorkerShape, Idle
  <2> QED
    BY <1>5, <2>1
<1>7. /\ me.run \in 1..MaxRuns /\ me.run <= Len(runs)
      /\ me.stamp \in Nat \ {0} /\ request \in Requests /\ request # Nothing
      /\ activated /\ DOMAIN command = 1..MaxRuns
  <2>1. WorkerType(me, Len(runs), clock) /\ me.run \in DOMAIN runs /\ clock \in Nat
    BY <1>4 DEF TypeInv, WorkersType, ImportsType, CoverInv, Shape, WorkersShaped, WorkerShape
  <2>2. me.stamp \in Nat \ {0}
    BY <1>4, <2>1 DEF WorkerType
  <2>3. me.run \in 1..Len(runs) /\ Len(runs) \in Nat /\ Len(runs) <= MaxRuns /\ MaxRuns \in Nat
    BY <2>1, RunsGrow, ImportAssumption DEF TypeInv, RunsType
  <2>4. me.run \in 1..MaxRuns /\ me.run <= Len(runs)
    BY <2>3
  <2>5. request \in Requests
    <3>1. Importable(me.records) \subseteq Records /\ me.balance \in Balances \cup {Nothing}
      BY <1>4, <2>1, ImportableAre DEF WorkerType, WithRecords
    <3> QED
      BY <3>1 DEF Requests
  <2>6. activated /\ DOMAIN command = 1..MaxRuns
    BY <2>2 DEF LedgerInv, ReadInv
  <2> QED
    BY <2>2, <2>4, <2>5, <2>6, NothingAssumption
<1>8. \A u \in Workers : u # w => worker'[u] = worker[u]
  BY <1>1, OthersStay
<1>9. /\ command'[me.run] = request /\ DOMAIN command' = 1..MaxRuns
      /\ \A r \in 1..MaxRuns : r # me.run => command'[r] = command[r]
  <2> HIDE DEF request
  <2> QED
    BY <1>4, <1>7
<1> HIDE DEF me, request
<1>10. ReadInv'
  <2>1. worker[w].pc \in WithRecords
    BY <1>4 DEF WithRecords, me
  <2>2. Revised(current, known) /\ Revised(worker[w].records, known)
    BY <2>1 DEF LedgerInv, ReadInv
  <2>3. Revised(current', known') /\ Revised(worker[w].records, known')
    BY <1>2, <2>2, RevisedStays
  <2>4. Revised(worker'[w].records, known')
    BY <1>6, <2>3 DEF me
  <2>5. \A r \in 1..MaxRuns : command'[r] = command[r] \/ (activated' /\ r <= Len(runs'))
    BY <1>2, <1>7, <1>9
  <2>6. \A u \in Workers :
              \/ worker'[u] = worker[u]
              \/ /\ worker'[u].pc \in WithRecords => Revised(worker'[u].records, known')
                 /\ worker'[u].stamp # 0 => activated'
    BY <1>2, <1>7, <1>8, <2>4
  <2> QED
    BY <1>2, <1>9, <2>3, <2>5, <2>6, ReadKept
<1>11. ASSUME ~ late'
       PROVE  /\ \A k \in Keys : KnownChain(k) /\ KnownChain(k)'
              /\ \A k \in Keys : NewestShown(k) => NewestShown(k)'
              /\ me.records = current /\ Handled(Importable(current))'
  <2>1. /\ \A k \in Keys : KnownChain(k)
        /\ HolderInv(w) /\ ActiveHandled /\ activeRun = me.run
    BY <1>3, <1>4, <1>11 DEF LedgerInv, TimelyInv, Holder, HoldsLease, me
  <2>2. me.records = current /\ \A i \in imports : i.stamp < me.stamp
    BY <1>4, <2>1 DEF HolderInv, WithRecords, me
  <2>3. CASE imports' = imports \cup NewImports(Importable(me.records), me.stamp)
    <3> DEFINE R == Importable(me.records)
    <3>1. Batch(R, me.stamp)
      BY <1>7, <2>2, <2>3 DEF Batch
    <3>2. R = Importable(current)
      BY <2>2
    <3> HIDE DEF R
    <3>3. \A k \in Keys : KnownChain(k)' /\ (NewestShown(k) => NewestShown(k)')
      BY <1>2, <2>1, <3>1, BatchKeeps
    <3>4. \A S : S = R => Handled(S)'
      BY <3>1, BatchHandles DEF TypeInv
    <3>5. Importable(current)' = Importable(current)
      BY <1>2 DEF Importable
    <3>6. Handled(Importable(current))'
      BY <3>2, <3>4, <3>5 DEF Handled
    <3> QED
      BY <2>1, <2>2, <3>3, <3>6
  <2>4. CASE command[me.run] = request /\ UNCHANGED <<imports, command>>
    <3>1. /\ \A k : ImportsOf(k)' = ImportsOf(k)
          /\ \A k : KnownChain(k) => KnownChain(k)'
          /\ \A R : Handled(R) => Handled(R)'
      BY <2>4, SameImports
    <3>2. \A k \in Keys : NewestShown(k) => NewestShown(k)'
      BY <1>2, <3>1 DEF NewestShown
    <3>3. Handled(request.records)
      <4>1. activeRun # 0 /\ command[activeRun] = request
        BY <1>7, <2>1, <2>4
      <4> QED
        BY <1>7, <2>1, <4>1 DEF ActiveHandled
    <3>4. request.records = Importable(current)
      BY <2>2 DEF request
    <3>5. Importable(current)' = Importable(current)
      BY <1>2 DEF Importable
    <3>6. Handled(Importable(current))'
      <4>1. Handled(Importable(current)) => Handled(Importable(current))'
        BY <3>1, <3>5 DEF Handled, Already
      <4> QED
        BY <3>3, <3>4, <4>1
    <3> QED
      BY <2>1, <2>2, <3>1, <3>2, <3>6
  <2> QED
    BY <1>4, <2>3, <2>4
<1>12. FollowInv'
  BY <1>2, <1>3, <1>11, FollowKept
<1>13. TimelyInv'
  <2> SUFFICES ASSUME ~ late'
               PROVE  /\ \A k \in Keys : KnownChain(k)'
                      /\ \A u \in Workers : Holder(u)' => HolderInv(u)'
                      /\ ActiveHandled'
    BY DEF TimelyInv
  <2>1. ASSUME NEW u \in Workers, Holder(u)' PROVE HolderInv(u)'
    <3>1. u = w
      BY <1>2, <1>3, <2>1 DEF Holder, HoldsLease
    <3> QED
      BY <1>2, <1>6, <1>11, <3>1 DEF HolderInv
  <2>2. ActiveHandled'
    <3>1. activeRun' = me.run
      BY <1>2, <1>3 DEF HoldsLease, me
    <3>2. command[activeRun]' = request
      BY <1>9, <3>1
    <3>3. request.records = Importable(current)'
      BY <1>2, <1>11 DEF request, Importable
    <3> QED
      BY <1>11, <3>2, <3>3 DEF ActiveHandled
  <2> QED
    BY <1>11, <2>1, <2>2
<1> QED
  BY <1>10, <1>12, <1>13 DEF LedgerInv

(***************************************************************************)
(* The activation is the first import: no command of a run has been given. *)
(***************************************************************************)
LEMMA ActivateKeeps ==
    ASSUME CoverInv, CoverInv', TypeInv, LedgerInv, [Next]_vars, ActivateImport
    PROVE  LedgerInv'
<1> DEFINE R == PlanFor(plan.evidence).observed
<1>1. UNCHANGED <<current, scanned, returned, worker, command, lease, activeRun, late, runs>>
  BY DEF ActivateImport, scanVars, leaseVars
<1>2. ~ activated /\ imports = {} /\ imports' = imports \cup NewImports(R, clock')
      /\ clock' = clock + 1 /\ activated'
  BY DEF ActivateImport, PlanReady, AppendCanonicalBatch
<1>3. Batch(R, clock')
  <2>1. R = {[key |-> k, view |-> current[k]] : k \in BookedKeys}
    BY ObservedAre DEF TypeInv
  <2>2. R \subseteq Importable(current)
    BY <2>1 DEF BookedKeys, IsBooked, Importable
  <2>3. clock' \in Nat \ {0}
    BY <1>2 DEF TypeInv, ImportsType
  <2> QED
    BY <1>2, <2>2, <2>3 DEF Batch
<1> HIDE DEF R
<1>4. /\ \A u \in Workers : worker[u].stamp = 0 /\ worker[u].pc # "command"
      /\ \A r \in 1..MaxRuns : command[r] = Nothing
  BY <1>2 DEF LedgerInv, ReadInv, TypeInv, WorkersType, WorkerType
<1>5. ReadInv'
  <2>1. Revised(current', known')
    BY <1>1, RevisedStays DEF LedgerInv, ReadInv
  <2>2. DOMAIN command' = 1..MaxRuns
    BY <1>1 DEF LedgerInv, ReadInv
  <2> QED
    BY <1>1, <1>2, <2>1, <2>2, ReadKept
<1>6. ASSUME ~ late' PROVE \A k \in Keys : KnownChain(k)' /\ (NewestShown(k) => NewestShown(k)')
  <2>1. \A k \in Keys : KnownChain(k)
    BY <1>1, <1>6 DEF LedgerInv, TimelyInv
  <2> QED
    BY <1>1, <1>3, <2>1, BatchKeeps
<1>7. FollowInv'
  BY <1>1, <1>6, FollowKept
<1>8. TimelyInv'
  <2> SUFFICES ASSUME ~ late'
               PROVE  /\ \A k \in Keys : KnownChain(k)'
                      /\ \A u \in Workers : Holder(u)' => HolderInv(u)'
                      /\ ActiveHandled'
    BY DEF TimelyInv
  <2>1. ASSUME NEW u \in Workers, Holder(u)' PROVE HolderInv(u)'
    <3>1. HolderInv(u)
      BY <1>1, <2>1 DEF LedgerInv, TimelyInv, Holder, HoldsLease
    <3> QED
      BY <1>1, <1>4, <3>1 DEF HolderInv
  <2>2. ActiveHandled'
    <3>1. activeRun # 0 => activeRun \in 1..MaxRuns
      <4>1. activeRun # 0 => activeRun \in 1..Len(runs)
        BY RunsGrow DEF CoverInv, Shape, ActiveShape
      <4>2. Len(runs) <= MaxRuns /\ Len(runs) \in Nat /\ MaxRuns \in Nat
        BY RunsGrow, ImportAssumption DEF TypeInv, RunsType
      <4> QED
        BY <4>1, <4>2
    <3> QED
      BY <1>1, <1>4, <3>1 DEF ActiveHandled
  <2> QED
    BY <1>6, <2>1, <2>2
<1> QED
  BY <1>5, <1>7, <1>8 DEF LedgerInv

(***************************************************************************)
(* The invariant holds at first.                                           *)
(***************************************************************************)
LEMMA LedgerInvInit == ASSUME Init PROVE LedgerInv
<1>1. /\ \A k \in Keys : current[k] = Nothing /\ scanned[k] = Nothing
      /\ imports = {} /\ activeRun = 0 /\ ~ late /\ DOMAIN command = 1..MaxRuns
      /\ \A r \in 1..MaxRuns : command[r] = Nothing
      /\ \A w \in Workers : worker[w] = Idle
  BY DEF Init
<1>2. Idle.pc = "idle" /\ Idle.stamp = 0
  BY DEF Idle
<1>3. ReadInv
  BY <1>1, <1>2 DEF ReadInv, Revised, WithRecords
<1>4. \A k : ImportsOf(k) = {}
  BY <1>1 DEF ImportsOf
<1>5. FollowInv
  BY <1>1, <1>4 DEF FollowInv, Followed, NewestShown
<1>6. TimelyInv
  <2>1. \A k \in Keys : KnownChain(k)
    BY <1>4, EmptyChain DEF KnownChain
  <2>2. \A w \in Workers : ~ Holder(w)
    BY <1>1, <1>2 DEF Holder
  <2> QED
    BY <1>1, <2>1, <2>2 DEF TimelyInv, ActiveHandled
<1> QED
  BY <1>3, <1>5, <1>6 DEF LedgerInv

(***************************************************************************)
(* Every step keeps it.                                                    *)
(***************************************************************************)
LEMMA LedgerInvStep ==
    ASSUME CoverInv, CoverInv', TypeInv, TypeInv', LedgerInv, [Next]_vars
    PROVE  LedgerInv'
<1>1. CASE Quiet
  BY <1>1, QuietKeeps
<1>2. CASE ActivateImport
  BY <1>2, ActivateKeeps
<1>3. ASSUME NEW w \in Workers,
             ReadRecords(w) \/ CheckReadiness(w) \/ RunCommand(w) \/ Finalizes(w)
      PROVE  LedgerInv'
  BY <1>3, ReadRecordsKeeps, CheckReadinessKeeps, RunCommandKeeps, FinalizesKeeps
<1> QED
  BY <1>1, <1>2, <1>3, LedgerSteps

(***************************************************************************)
(* The inductive invariant of the ledger: chains of imports, and a worker  *)
(* in time that has read what is current                                   *)
(* (appendEnableBankingCanonicalBatch).                                    *)
(***************************************************************************)
THEOREM LedgerInvariant == Spec => [](TypeInv /\ LedgerInv)
<1>1. Init => LedgerInv
  BY LedgerInvInit
<1>2. /\ CoverInv /\ CoverInv' /\ TypeInv /\ TypeInv' /\ LedgerInv /\ [Next]_vars => LedgerInv'
  BY LedgerInvStep
<1> QED
  BY <1>1, <1>2, TypesKept, CoverInvariant, PTL DEF Spec

(***************************************************************************)
(* No import is compensated twice, and none is repeated, while no worker   *)
(* writes without its lease: on every instance, whatever crashes and is    *)
(* resumed (the lookup of the newest import by its starting time).         *)
(***************************************************************************)
THEOREM CorrectionsAreOnce == Spec => []CorrectedOnce
<1>1. ASSUME TypeInv, LedgerInv PROVE CorrectedOnce
  <2> SUFFICES ASSUME ~ late, NEW i \in imports, NEW j \in imports, i.key = j.key, i # j
               PROVE  i.supersedes # j.supersedes /\ i.view # j.view
    BY DEF CorrectedOnce
  <2>1. i.key \in Keys
    BY <1>1 DEF TypeInv, ImportsType, ImportType, ImportRows
  <2>2. Chain(ImportsOf(i.key))
    BY <1>1, <2>1 DEF LedgerInv, TimelyInv, KnownChain
  <2>3. i \in ImportsOf(i.key) /\ j \in ImportsOf(i.key)
    BY DEF ImportsOf
  <2> QED
    BY <2>2, <2>3 DEF Chain
<1> QED
  BY <1>1, LedgerInvariant, PTL

(***************************************************************************)
(* Once a sync has run its command the account holds of every transaction  *)
(* what the bank showed of it last, on every instance: the amount if it is *)
(* booked, nothing if it is pending or cancelled or unknown.               *)
(***************************************************************************)
THEOREM LedgerFollows == Spec => []LedgerFollowsTheBank
<1>1. ASSUME TypeInv, LedgerInv PROVE LedgerFollowsTheBank
  <2> SUFFICES ASSUME NEW w \in Workers, worker[w].pc = "complete", worker[w].stamp # 0,
                      HoldsLease(w), ~ late, NEW k \in Keys \ returned
               PROVE  NetEffect(k) = IF IsBooked(scanned[k]) THEN scanned[k].amount ELSE 0
    BY DEF LedgerFollowsTheBank
  <2> DEFINE I == ImportsOf(k)
             x == [key |-> k, view |-> current[k]]
  <2>1. NetEffect(k) = NetAt(I, MaxDay)
    BY DEF NetEffect, NetAt
  <2>2. /\ Handled(Importable(current)) /\ current[k] = scanned[k] /\ NewestShown(k) /\ Chain(I)
    BY <1>1 DEF LedgerInv, TimelyInv, FollowInv, Followed, KnownChain, HolderInv, Holder
  <2>3. I \subseteq ImportRows /\ IsFiniteSet(I)
    BY <1>1, <2>2 DEF TypeInv, ImportsType, ImportType, ImportsOf, Chain
  <2>4. I = {} => NetAt(I, MaxDay) = 0
    BY <2>3, NetType
  <2>5. current[k] \in ViewOrNothing
    BY <1>1 DEF TypeInv, ScanType
  <2>6. CASE current[k] = Nothing \/ current[k].status = "pending"
    <3>1. I = {} /\ ~ IsBooked(scanned[k])
      BY <2>2, <2>6 DEF NewestShown, IsBooked
    <3> QED
      BY <2>1, <2>4, <3>1
  <2>7. CASE current[k] # Nothing /\ current[k].status \in {"booked", "cancelled"}
    <3>1. x \in Importable(current) /\ x.key = k /\ x.view = current[k]
      BY <2>7 DEF Importable
    <3> HIDE DEF x
    <3>2. Already(k, current[k]) \/ (~ IsBooked(current[k]) /\ I = {})
      BY <2>2, <3>1 DEF Handled
    <3>3. CASE Already(k, current[k])
      <4>1. PICK i \in I : i.view = current[k]
        BY <3>3 DEF Already
      <4>2. NetAt(I, MaxDay) = Entry(current[k], MaxDay)
        BY <2>2, <4>1 DEF NewestShown, Chain
      <4>3. Entry(current[k], MaxDay) = IF IsBooked(current[k]) THEN current[k].amount ELSE 0
        BY <2>5, EntryType
      <4> QED
        BY <2>1, <2>2, <4>2, <4>3
    <3>4. CASE ~ IsBooked(current[k]) /\ I = {}
      BY <2>1, <2>2, <2>4, <3>4
    <3> QED
      BY <3>2, <3>3, <3>4
  <2> QED
    BY <2>5, <2>6, <2>7 DEF ViewOrNothing, Views, Statuses
<1> QED
  BY <1>1, LedgerInvariant, PTL

-----------------------------------------------------------------------------
(* The activation                                                          *)

\* The reconciliation in force is of a command that has been given.
ComparedInv == reconciliation # Nothing => reconciliation.stamp \in 0..clock

(***************************************************************************)
(* No reconciliation is from the future.                                   *)
(***************************************************************************)
LEMMA ComparedStep == ASSUME ComparedInv, TypeInv, [Next]_vars PROVE ComparedInv'
<1>1. clock \in Nat /\ clock' \in Nat /\ clock <= clock'
  BY ClockGrows DEF TypeInv, ImportsType
<1>2. CASE UNCHANGED reconciliation
  BY <1>1, <1>2 DEF ComparedInv
<1>3. ASSUME NEW b, NEW d, NEW status, NEW s \in 0..clock', reconciliation' =
                [day |-> b.day, stamp |-> s, difference |-> d, status |-> status]
      PROVE  ComparedInv'
  BY <1>3 DEF ComparedInv
<1>4. ASSUME NEW w \in Workers, RunCommand(w) PROVE ComparedInv'
  <2>1. worker[w].stamp \in 0..clock'
    <3>1. worker[w].stamp \in 0..clock
      BY DEF TypeInv, WorkersType, WorkerType
    <3> QED
      BY <1>1, <3>1
  <2>2. \/ UNCHANGED reconciliation
        \/ \E d, status : reconciliation' =
              [day |-> worker[w].balance.day, stamp |-> worker[w].stamp, difference |-> d,
               status |-> status]
    BY <1>4 DEF RunCommand, AppendCanonicalBatch
  <2> QED
    BY <1>2, <1>3, <2>1, <2>2
<1>5. ASSUME ActivateImport PROVE ComparedInv'
  <2>1. \/ UNCHANGED reconciliation
        \/ \E d, status : reconciliation' =
              [day |-> LatestBalance.day, stamp |-> clock', difference |-> d, status |-> status]
    BY <1>5 DEF ActivateImport, AppendCanonicalBatch
  <2> QED
    BY <1>1, <1>2, <1>3, <2>1
<1>6. \/ UNCHANGED reconciliation
      \/ ActivateImport
      \/ \E w \in Workers : RunCommand(w)
  <2>1. ASSUME NEW w \in Workers, WorkerStep(w) PROVE UNCHANGED reconciliation \/ RunCommand(w)
    BY <2>1 DEF WorkerStep, BeginSync, LoadPendingReceipts, ProcessPendingReceipt, ReadBalance,
                RenewLease, FetchPage, FinalizePage, ReadRecords, CheckReadiness,
                CompleteSync, LeaseLost, ReceiptAlreadyProcessed, PayloadConflict, SyncFails,
                Crash, FailRun, ledgerVars
  <2>2. ASSUME \/ BankChanges \/ BankPostsBalance \/ DayPasses \/ LeaseExpires
               \/ (\E e \in Evidence : PrepareActivation(e)) \/ UNCHANGED vars
        PROVE  UNCHANGED reconciliation
    BY <2>2 DEF BankChanges, BankPostsBalance, DayPasses, LeaseExpires,
                PrepareActivation, ledgerVars, vars
  <2> QED
    BY <2>1, <2>2 DEF Next
<1> QED
  BY <1>2, <1>4, <1>5, <1>6

(***************************************************************************)
(* The imports of an activation are those of the plan, one for each of its *)
(* transactions.                                                           *)
(***************************************************************************)
LEMMA ActivationImports ==
    ASSUME TypeInv, ActivateImport
    PROVE  /\ {[key |-> i.key, view |-> i.view] : i \in imports'} = plan.observed
           /\ IsFiniteSet(imports')
<1> DEFINE R == PlanFor(plan.evidence).observed
           s == clock + 1
<1>1. imports = {} /\ imports' = imports \cup NewImports(R, s) /\ plan.observed = R
  BY DEF ActivateImport, PlanReady, AppendCanonicalBatch, SamePlan
<1>2. ImportsType /\ ScanType
  BY DEF TypeInv
<1>3. R = {[key |-> k, view |-> current[k]] : k \in BookedKeys} /\ BookedKeys \subseteq Keys
      /\ \A k \in BookedKeys : IsBooked(current[k])
  BY <1>2, ObservedAre DEF BookedKeys
<1> HIDE DEF R, s
<1>4. \A k : ImportsOf(k) = {} /\ Newest(k) = Nothing
  BY <1>1 DEF ImportsOf, Newest
<1>5. ASSUME NEW i \in imports'
      PROVE  /\ i.key \in BookedKeys
             /\ i = [key |-> i.key, view |-> current[i.key], stamp |-> s, supersedes |-> 0,
                     corrects |-> Nothing]
  <2>1. i \in NewImports(R, s)
    BY <1>1
  <2>2. PICK r \in R : i.key = r.key /\ i.view = r.view
    BY <1>2, <2>1, ImportIs
  <2>3. r.key \in BookedKeys /\ r.view = current[r.key]
    BY <1>3
  <2>4. /\ i.stamp = s /\ i.supersedes = 0 /\ i.corrects = Nothing
        /\ i = [key |-> i.key, view |-> i.view, stamp |-> i.stamp,
                supersedes |-> i.supersedes, corrects |-> i.corrects]
    BY <1>2, <1>4, <2>1, ImportIs
  <2> QED
    BY <2>2, <2>3, <2>4
<1>6. {[key |-> i.key, view |-> i.view] : i \in imports'} = R
  <2>1. ASSUME NEW i \in imports' PROVE [key |-> i.key, view |-> i.view] \in R
    <3>1. i.view = current[i.key] /\ i.key \in BookedKeys
      BY <1>5
    <3> QED
      BY <1>3, <3>1
  <2>2. ASSUME NEW r \in R PROVE \E i \in imports' : r = [key |-> i.key, view |-> i.view]
    <3>1. PICK k \in BookedKeys : r = [key |-> k, view |-> current[k]]
      BY <1>3
    <3> DEFINE n == [key |-> r.key, view |-> r.view, stamp |-> s,
                     supersedes |-> IF Newest(r.key) = Nothing THEN 0 ELSE Newest(r.key).stamp,
                     corrects |-> Compensated(Newest(r.key))]
    <3>2. r.key = k /\ r.view = current[k] /\ IsBooked(r.view) /\ ~ Already(r.key, r.view)
      BY <1>3, <1>4, <3>1 DEF Already
    <3>3. n \in NewImports(R, s)
      BY <3>2 DEF NewImports
    <3>4. n.key = k /\ n.view = current[k]
      BY <3>2
    <3> HIDE DEF n
    <3> QED
      BY <1>1, <3>1, <3>3, <3>4
  <2> QED
    BY <2>1, <2>2
<1>7. IsFiniteSet(imports')
  <2> DEFINE f == [i \in imports' |-> i.key]
  <2>1. f \in [imports' -> Keys]
    BY <1>3, <1>5
  <2>2. ASSUME NEW i \in imports', NEW j \in imports', f[i] = f[j] PROVE i = j
    <3>1. i.key = j.key
      BY <2>2
    <3> QED
      BY <1>5, <3>1
  <2>3. f \in Injection(imports', Keys)
    BY <2>1, <2>2 DEF Injection, IsInjective
  <2> HIDE DEF f
  <2> QED
    BY <2>3, FS_Injection, ImportAssumption
<1> QED
  BY <1>1, <1>6, <1>7

(***************************************************************************)
(* An activation imports just what its owner confirmed, and the account    *)
(* then agrees with the balance that was shown, on every instance          *)
(* (executeEnableBankingInitialActivation).                                *)
(***************************************************************************)
THEOREM ActivationIsConfirmed == Spec => ConfirmedIsImported
<1>1. Init => ComparedInv
  BY DEF Init, ComparedInv
<1>2. ComparedInv /\ TypeInv /\ [Next]_vars => ComparedInv'
  BY ComparedStep
<1>3. ASSUME ComparedInv, TypeInv, TypeInv', [Next]_vars
      PROVE  [activated' # activated =>
                /\ {[key |-> i.key, view |-> i.view] : i \in imports'} = plan.observed
                /\ LedgerAt(imports', plan.balance.day) = plan.balance.amount]_vars
  <2> SUFFICES ASSUME activated' # activated
               PROVE  /\ {[key |-> i.key, view |-> i.view] : i \in imports'} = plan.observed
                      /\ LedgerAt(imports', plan.balance.day) = plan.balance.amount
    OBVIOUS
  <2>1. ActivateImport
    <3>1. ASSUME NEW w \in Workers, WorkerStep(w) PROVE UNCHANGED activated
      BY <3>1 DEF WorkerStep, BeginSync, LoadPendingReceipts, ProcessPendingReceipt, ReadBalance,
                  RenewLease, FetchPage, FinalizePage, ReadRecords, CheckReadiness, RunCommand,
                  CompleteSync, LeaseLost, ReceiptAlreadyProcessed, PayloadConflict, SyncFails,
                  Crash, FailRun, ownerVars
    <3>2. ASSUME \/ BankChanges \/ BankPostsBalance \/ DayPasses \/ LeaseExpires
                 \/ (\E e \in Evidence : PrepareActivation(e)) \/ UNCHANGED vars
          PROVE  UNCHANGED activated
      BY <3>2 DEF BankChanges, BankPostsBalance, DayPasses, LeaseExpires,
                  PrepareActivation, ownerVars, vars
    <3> QED
      BY <1>3, <3>1, <3>2 DEF Next
  <2>2. /\ {[key |-> i.key, view |-> i.view] : i \in imports'} = plan.observed
        /\ IsFiniteSet(imports')
    BY <1>3, <2>1, ActivationImports
  <2> DEFINE b == LatestBalance
             L == LedgerAt(imports', b.day)
  <2>3. plan.balance = b /\ balances # <<>> /\ b \in Balances /\ clock' = clock + 1
    BY <1>3, <2>1, LatestIsObserved
       DEF ActivateImport, SamePlan, PlanFor, PlanReady, TypeInv, BalancesType
  <2>4. reconciliation'.difference = b.amount - L
    <3>1. b # Nothing
      BY <2>3, NothingAssumption
    <3>2. reconciliation # Nothing => ~ (reconciliation.stamp > clock')
      <4>1. clock \in Nat
        BY <1>3 DEF TypeInv, ImportsType
      <4> QED
        BY <1>3, <2>3, <4>1 DEF ComparedInv
    <3>3. reconciliation' =
             IF b = Nothing \/ (reconciliation # Nothing /\ reconciliation.stamp > clock')
             THEN reconciliation
             ELSE [day |-> b.day, stamp |-> clock', difference |-> b.amount - L,
                   status |-> BalanceStatus(b, imports', TRUE, PendingIn(current), day)]
      BY <2>1 DEF ActivateImport, AppendCanonicalBatch
    <3> HIDE DEF b, L
    <3> QED
      BY <3>1, <3>2, <3>3
  <2>5. reconciliation'.difference = 0
    BY <2>1 DEF ActivateImport
  <2>6. L \in Int
    <3>1. imports' \subseteq ImportRows
      BY <1>3 DEF TypeInv, ImportsType, ImportType
    <3>2. NetAt(imports', b.day) \in Int
      BY <2>2, <3>1, NetType
    <3>3. L = Opening + NetAt(imports', b.day)
      BY DEF LedgerAt, NetAt
    <3> QED
      BY <3>2, <3>3, ImportAssumption
  <2>7. b.amount \in Int
    BY <2>3 DEF Balances
  <2> HIDE DEF b, L
  <2>8. L = b.amount
    BY <2>4, <2>5, <2>6, <2>7
  <2> QED
    BY <2>2, <2>3, <2>8 DEF L
<1> QED
  BY <1>1, <1>2, <1>3, LedgerInvariant, PTL DEF Spec, ConfirmedIsImported
=============================================================================
