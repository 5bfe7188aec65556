------------------------ MODULE BankConnectionProofs ------------------------
(***************************************************************************)
(* Theorems about BankConnection: the type invariant, that an              *)
(* authorization state is used once and an unclaimed attempt leaves no     *)
(* trace, that aliases end with their session, that completed runs stay    *)
(* completed, and that what is concluded from scans of a bank account      *)
(* rests on scans of that account in that session. For the last, a worker  *)
(* reads the connection, the account and the state of its scans in one     *)
(* transaction, takes the lease in another and completes much later; by    *)
(* then sessions may have been replaced, and the worker may have lost its  *)
(* lease and share its run.                                                *)
(***************************************************************************)
EXTENDS BankConnection, SequenceTheorems, TLAPS

-----------------------------------------------------------------------------
(* Typing                                                                  *)

(***************************************************************************)
(* What the bound on attempts and the literal kinds are members of.        *)
(***************************************************************************)
LEMMA Constants ==
    ASSUME ConnectionAssumption
    PROVE  /\ 0 \in Sessions /\ Attempts \subseteq Sessions
           /\ 0 \in Runs /\ Attempts \subseteq Nat \ {0}
           /\ FetchKinds \subseteq Kinds /\ "sync" \in FetchKinds /\ "disconnect" \in Kinds
           /\ "longest" \in Strategies
  BY DEF ConnectionAssumption, Sessions, Attempts, Runs, Kinds, FetchKinds, Strategies

(***************************************************************************)
(* An idle worker is well formed and has no run.                           *)
(***************************************************************************)
LEMMA IdleType == ASSUME ConnectionAssumption PROVE Idle \in WorkerType /\ Idle.run = 0
  BY Constants DEF Idle, WorkerType, WorkerPCs

(***************************************************************************)
(* A run with another status is a run.                                     *)
(***************************************************************************)
LEMMA FieldUpdate ==
    ASSUME NEW rs \in Seq(RunType), NEW r \in 1..Len(rs), NEW s \in RunStatuses
    PROVE  [rs[r] EXCEPT !.status = s] \in RunType
<1>1. rs[r] \in RunType OBVIOUS
<1> QED BY <1>1 DEF RunType, RunStatuses

(***************************************************************************)
(* Replacing an element keeps a sequence of runs; outside of its domain    *)
(* nothing changes.                                                        *)
(***************************************************************************)
LEMMA RunUpdate ==
    ASSUME NEW rs \in Seq(RunType), NEW r \in Nat, NEW v, r \in 1..Len(rs) => v \in RunType
    PROVE  /\ [rs EXCEPT ![r] = v] \in Seq(RunType)
           /\ Len([rs EXCEPT ![r] = v]) = Len(rs)
<1>1. CASE r \in 1..Len(rs)
  BY <1>1, ExceptSeq
<1>2. CASE r \notin 1..Len(rs)
  <2>1. rs \in [1..Len(rs) -> RunType]
    BY LenProperties
  <2>2. [rs EXCEPT ![r] = v] = rs
    BY <1>2, <2>1
  <2> QED BY <2>2
<1> QED BY <1>1, <1>2

(***************************************************************************)
(* The row beginEnableBankingFetch or beginEnableBankingDisconnect inserts *)
(* is a run.                                                               *)
(***************************************************************************)
LEMMA NewRunType ==
    ASSUME NEW w \in Workers, WorkersType, NEW kind \in Kinds
    PROVE  NewRun(w, kind) \in RunType
<1>1. worker[w] \in WorkerType BY DEF WorkersType
<1> QED BY <1>1 DEF NewRun, RunType, RunStatuses, WorkerType

(***************************************************************************)
(* Provider sessions stay well formed when one of them changes.            *)
(***************************************************************************)
LEMMA Accounting ==
    ASSUME NEW e \in [Attempts -> ProviderStates], NEW s, NEW v \in ProviderStates
    PROVE  [e EXCEPT ![s] = v] \in [Attempts -> ProviderStates]
  OBVIOUS

(***************************************************************************)
(* Completing a run keeps the runs well formed.                            *)
(***************************************************************************)
LEMMA RunStatus ==
    ASSUME RunsType, NEW r \in Nat,
           NEW s \in RunStatuses, runs' = [runs EXCEPT ![r].status = s]
    PROVE  RunsType' /\ Len(runs') = Len(runs)
<1>1. r \in 1..Len(runs) => [runs[r] EXCEPT !.status = s] \in RunType
  BY FieldUpdate DEF RunsType
<1> QED BY <1>1, RunUpdate DEF RunsType

(***************************************************************************)
(* A worker may be replaced by a well-formed one whose run has begun.      *)
(***************************************************************************)
LEMMA WorkerUpdate ==
    ASSUME WorkersType, RunsType, RunsType', Len(runs) <= Len(runs'), NEW w \in Workers,
           NEW v \in WorkerType, v.run <= Len(runs'), worker' = [worker EXCEPT ![w] = v]
    PROVE  WorkersType'
<1>1. Len(runs) \in Nat /\ Len(runs') \in Nat BY LenProperties DEF RunsType
<1>2. \A u \in Workers : worker[u].run \in Nat
  BY DEF WorkersType, WorkerType, Runs
<1> QED BY <1>1, <1>2 DEF WorkersType

(***************************************************************************)
(* Moving on in the loop keeps the workers well formed.                    *)
(***************************************************************************)
LEMMA WorkerGoes ==
    ASSUME WorkersType, RunsType, RunsType', Len(runs) <= Len(runs'), NEW w \in Workers,
           NEW pc \in WorkerPCs, Go(w, pc)
    PROVE  WorkersType'
<1>1. worker[w] \in WorkerType /\ worker[w].run <= Len(runs) BY DEF WorkersType
<1>2. [worker[w] EXCEPT !.pc = pc] \in WorkerType BY <1>1 DEF WorkerType
<1>3. [worker[w] EXCEPT !.pc = pc].run = worker[w].run BY <1>1 DEF WorkerType
<1>4. worker[w].run \in Nat BY <1>1 DEF WorkerType, Runs
<1>5. [worker[w] EXCEPT !.pc = pc].run <= Len(runs')
  BY <1>1, <1>3, <1>4, LenProperties DEF RunsType
<1> QED BY <1>2, <1>5, WorkerUpdate DEF Go

(***************************************************************************)
(* Releasing the lease clears its three columns together.                  *)
(***************************************************************************)
LEMMA Released ==
    ASSUME RunsType', ReleaseLease
    PROVE  LeaseType'
<1>1. Len(runs') \in Nat BY LenProperties DEF RunsType
<1>2. activeRun' \in 0..Len(runs') BY <1>1 DEF ReleaseLease
<1>3. leaseLive' \in BOOLEAN /\ ~ leaseLive' BY Zenon DEF ReleaseLease
<1> QED BY <1>2, <1>3 DEF ReleaseLease, LeaseType

(***************************************************************************)
(* What typing says of one worker.                                         *)
(***************************************************************************)
LEMMA WorkerRun ==
    ASSUME WorkersType, RunsType, NEW w \in Workers
    PROVE  /\ worker[w] \in WorkerType /\ worker[w].run \in Runs /\ worker[w].run \in Nat
           /\ Len(runs) \in Nat /\ worker[w].run <= Len(runs)
  BY LenProperties DEF WorkersType, WorkerType, Runs, RunsType

(***************************************************************************)
(* A worker may become idle.                                               *)
(***************************************************************************)
LEMMA BecomesIdle ==
    ASSUME ConnectionAssumption, WorkersType, RunsType, RunsType', Len(runs') = Len(runs),
           NEW w \in Workers, worker' = [worker EXCEPT ![w] = Idle]
    PROVE  WorkersType'
<1>1. Idle.run <= Len(runs') /\ Len(runs) <= Len(runs') BY IdleType, LenProperties DEF RunsType
<1> QED BY <1>1, IdleType, WorkerUpdate

Types ==
    /\ ConnectionType /\ LeaseType /\ AttemptType /\ EvidenceType /\ RunsType /\ WorkersType

(***************************************************************************)
(* Every step preserves the types, by the parts that it disturbs.          *)
(***************************************************************************)
LEMMA NextTypes == ASSUME ConnectionAssumption, Types, [Next]_vars PROVE Types'
<1> USE DEF Types
<1>0. CASE UNCHANGED vars
  BY <1>0 DEF vars, stateVars, ConnectionType, LeaseType, AttemptType, EvidenceType, RunsType,
     WorkersType
<1>a. CASE RegularStep
  <2>1. ASSUME NEW a \in Attempts, CheckConnection(a) PROVE Types'
    <3>1. AttemptType'
      BY <2>1 DEF AttemptType, CheckConnection, Leave, AttemptStatuses, AuthRunStatuses, WebPCs,
         Attempts
    <3> QED BY <2>1, <3>1 DEF CheckConnection, ConnectionType, LeaseType, EvidenceType, RunsType,
         WorkersType, leaseVars, attemptVars, evidenceVars
  <2>2. ASSUME NEW a \in Attempts, BeginAuthorization(a) PROVE Types'
    <3>1. ConnectionType'
      BY <2>2 DEF ConnectionType, BeginAuthorization, ConnectionStatuses, Sessions, Attempts
    <3>2. AttemptType'
      BY <2>2 DEF AttemptType, BeginAuthorization, Leave, AttemptStatuses, AuthRunStatuses,
         WebPCs, Attempts
    <3> QED BY <2>2, <3>1, <3>2 DEF BeginAuthorization, LeaseType, EvidenceType, RunsType,
         WorkersType, leaseVars, attemptVars, evidenceVars
  <2>3. ASSUME NEW a \in Attempts, StartAuthorization(a) PROVE Types'
    <3>1. AttemptType'
      BY <2>3 DEF AttemptType, StartAuthorization, Leave, AttemptStatuses, AuthRunStatuses,
         WebPCs, Attempts
    <3> QED BY <2>3, <3>1 DEF StartAuthorization, ConnectionType, LeaseType, EvidenceType,
         RunsType, WorkersType, leaseVars, attemptVars, evidenceVars
  <2>4. ASSUME NEW a \in Attempts, ClaimAuthorization(a) PROVE Types'
    <3>1. AttemptType'
      BY <2>4 DEF AttemptType, ClaimAuthorization, Leave, AttemptStatuses, AuthRunStatuses,
         WebPCs, Attempts
    <3> QED BY <2>4, <3>1 DEF ClaimAuthorization, ConnectionType, LeaseType, EvidenceType,
         RunsType, WorkersType, leaseVars, attemptVars, evidenceVars
  <2>5. ASSUME NEW a \in Attempts, CancelAuthorization(a) PROVE Types'
    <3>1. ConnectionType'
      BY <2>5 DEF ConnectionType, CancelAuthorization, ConnectionStatuses, Sessions, Attempts
    <3>2. AttemptType'
      BY <2>5 DEF AttemptType, CancelAuthorization, Leave, AttemptStatuses, AuthRunStatuses,
         WebPCs, Attempts
    <3> QED BY <2>5, <3>1, <3>2 DEF CancelAuthorization, LeaseType, EvidenceType, RunsType,
         WorkersType, leaseVars, attemptVars, evidenceVars
  <2>6. ASSUME NEW a \in Attempts, ExchangeCode(a) PROVE Types'
    <3>1. AttemptType'
      BY <2>6 DEF AttemptType, ExchangeCode, Leave, ProviderStates, AttemptStatuses,
         AuthRunStatuses, WebPCs, Attempts
    <3> QED BY <2>6, <3>1 DEF ExchangeCode, ConnectionType, LeaseType, EvidenceType, RunsType,
         WorkersType, leaseVars, attemptVars, evidenceVars
  <2>7. ASSUME NEW a \in Attempts, ActivateSession(a) PROVE Types'
    <3>1. ConnectionType'
      BY Constants, <2>7 DEF ConnectionType, ActivateSession, ConnectionStatuses
    <3>2. AttemptType'
      BY <2>7 DEF AttemptType, ActivateSession, Leave, AttemptStatuses, AuthRunStatuses, WebPCs,
         Attempts
    <3>3. EvidenceType'
      <4>1. PICK found \in SUBSET Accounts :
               /\ known' = known \cup found
               /\ account' = [acc \in Accounts |->
                      IF acc \in found THEN [session |-> a, proof |-> "none"]
                      ELSE IF account[acc].session # 0 THEN [session |-> 0, proof |-> "none"]
                      ELSE account[acc]]
        BY <2>7 DEF ActivateSession
      <4>2. a \in Sessions /\ 0 \in Sessions BY Constants
      <4>3. account' \in [Accounts -> [session : Sessions,
                                     proof : {"none", "account", "transactions"}]]
        BY <4>1, <4>2 DEF EvidenceType
      <4>4. UNCHANGED <<bound, syncState, revision>> BY <2>7 DEF ActivateSession, evidenceVars
      <4> QED BY <4>1, <4>3, <4>4 DEF EvidenceType
    <3> QED BY <2>7, <3>1, <3>2, <3>3 DEF ActivateSession, LeaseType, RunsType, WorkersType,
         leaseVars, attemptVars, evidenceVars
  <2>8. ASSUME NEW a \in Attempts, FailAuthorization(a) PROVE Types'
    <3>1. ConnectionType'
      BY <2>8 DEF ConnectionType, FailAuthorization, ConnectionStatuses, Sessions, Attempts
    <3>2. AttemptType'
      BY <2>8 DEF AttemptType, FailAuthorization, Leave, AttemptStatuses, AuthRunStatuses,
         WebPCs, Attempts
    <3> QED BY <2>8, <3>1, <3>2 DEF FailAuthorization, LeaseType, EvidenceType, RunsType,
         WorkersType, leaseVars, attemptVars, evidenceVars
  <2>9. ASSUME NEW acc \in Accounts, BindProviderAccount(acc) PROVE Types'
    <3>1. EvidenceType' BY <2>9 DEF EvidenceType, BindProviderAccount, evidenceVars
    <3> QED BY <2>9, <3>1 DEF BindProviderAccount, ConnectionType, LeaseType, AttemptType,
         RunsType, WorkersType, leaseVars, attemptVars, evidenceVars
  <2>10. ASSUME NEW w \in Workers, NEW kind \in FetchKinds, ReadForFetch(w, kind) PROVE Types'
    <3>1. WorkersType'
      BY <2>10 DEF WorkersType, ReadForFetch, Go, WorkerType, WorkerPCs, ConnectionType,
         LeaseType, RunsType, Kinds, Strategy, Strategies, Resumable, Runs
    <3> QED BY <2>10, <3>1 DEF ReadForFetch, ConnectionType, LeaseType, AttemptType,
         EvidenceType, RunsType, leaseVars, attemptVars, evidenceVars
  <2>11. ASSUME NEW w \in Workers, NEW kind \in FetchKinds, FindConsentOver(w, kind) PROVE Types'
    <3>1. WorkersType'
      <4> DEFINE v == [Idle EXCEPT !.pc = "consentOver", !.kind = kind]
      <4>1. v \in WorkerType /\ v.run = 0
        BY Constants DEF Idle, WorkerType, WorkerPCs
      <4>2. RunsType' /\ Len(runs') = Len(runs) BY <2>11 DEF FindConsentOver, RunsType
      <4>3. Len(runs) \in Nat BY LenProperties DEF RunsType
      <4>4. Len(runs) <= Len(runs') /\ 0 <= Len(runs') BY <4>2, <4>3
      <4> QED BY <4>1, <4>2, <4>4, <2>11, WorkerUpdate DEF FindConsentOver
    <3> QED BY <2>11, <3>1 DEF FindConsentOver, ConnectionType, LeaseType, AttemptType,
         EvidenceType, RunsType, leaseVars, attemptVars, evidenceVars
  <2>12. ASSUME NEW w \in Workers, ConsentExpired(w) PROVE Types'
    <3>1. WorkersType'
      BY <2>12 DEF WorkersType, ConsentExpired, Go, WorkerType, WorkerPCs, Idle, Kinds,
         FetchKinds, Strategies, Runs, Sessions, RunsType
    <3> QED BY <2>12, <3>1 DEF ConsentExpired, ConnectionType, LeaseType, AttemptType,
         EvidenceType, RunsType, leaseVars, attemptVars, evidenceVars
  <2>13. ASSUME NEW w \in Workers, ReadForDisconnect(w) PROVE Types'
    <3>1. WorkersType'
      <4> DEFINE v == [Idle EXCEPT !.pc = "read", !.kind = "disconnect", !.session = session]
      <4>1. v \in WorkerType /\ v.run = 0
        BY Constants DEF Idle, WorkerType, WorkerPCs, ConnectionType
      <4>2. RunsType' /\ Len(runs') = Len(runs) BY <2>13 DEF ReadForDisconnect, RunsType
      <4>3. Len(runs) \in Nat BY LenProperties DEF RunsType
      <4>4. Len(runs) <= Len(runs') /\ 0 <= Len(runs') BY <4>2, <4>3
      <4> QED BY <4>1, <4>2, <4>4, <2>13, WorkerUpdate DEF ReadForDisconnect
    <3> QED BY <2>13, <3>1 DEF ReadForDisconnect, ConnectionType, LeaseType, AttemptType,
         EvidenceType, RunsType, leaseVars, attemptVars, evidenceVars
  <2>14. ASSUME NEW w \in Workers, TakeLease(w) PROVE Types'
    <3> DEFINE run == IF worker[w].run # 0 THEN worker[w].run ELSE Len(runs) + 1
    <3>1. worker[w] \in WorkerType /\ worker[w].kind \in Kinds BY WorkerRun DEF WorkerType
    <3>2. /\ RunsType' /\ Len(runs') \in Nat /\ Len(runs) <= Len(runs')
          /\ run \in 1..Len(runs') /\ run \in Runs
      <4>1. CASE worker[w].run # 0 BY <4>1, <2>14, WorkerRun DEF TakeLease, RunsType
      <4>2. CASE worker[w].run = 0
        <5>1. NewRun(w, worker[w].kind) \in RunType BY <3>1, NewRunType
        <5>2. Len(runs) < MaxRuns /\ runs' = Append(runs, NewRun(w, worker[w].kind))
          BY <4>2, <2>14 DEF TakeLease
        <5>3. runs' \in Seq(RunType) /\ Len(runs') = Len(runs) + 1
          BY <5>1, <5>2, AppendProperties DEF RunsType
        <5> QED BY <4>2, <5>2, <5>3, WorkerRun DEF RunsType, Runs, ConnectionAssumption
      <4> QED BY <4>1, <4>2
    <3>3. LeaseType'
      <4>1. activeRun' = run /\ lease' = w /\ leaseLive' = TRUE BY <2>14 DEF TakeLease
      <4> QED BY <3>2, <4>1 DEF LeaseType, ConnectionAssumption
    <3>4. WorkersType'
      <4>1. PICK pc \in {"delete", "session"} :
               worker' = [worker EXCEPT ![w].run = run, ![w].pc = pc]
        BY <2>14 DEF TakeLease
      <4> DEFINE v == [[worker[w] EXCEPT !.run = run] EXCEPT !.pc = pc]
      <4>2. v \in WorkerType /\ v.run = run BY <3>1, <3>2 DEF WorkerType, WorkerPCs
      <4>3. worker' = [worker EXCEPT ![w] = v] BY <4>1 DEF WorkersType
      <4>4. v.run <= Len(runs') BY <3>2, <4>2
      <4> HIDE DEF v, run
      <4> QED BY <3>2, <4>2, <4>3, <4>4, WorkerUpdate
    <3> QED BY <2>14, <3>2, <3>3, <3>4 DEF TakeLease, ConnectionType, AttemptType, EvidenceType,
         leaseVars, attemptVars, evidenceVars
  <2>15. ASSUME NEW w \in Workers, CheckSession(w) PROVE Types'
    <3>1. ConnectionType'
      BY <2>15 DEF ConnectionType, CheckSession, ConnectionStatuses, Sessions, Attempts
    <3>2. WorkersType' BY <2>15 DEF WorkersType, CheckSession, Go, WorkerType, WorkerPCs
    <3> QED BY <2>15, <3>1, <3>2 DEF CheckSession, LeaseType, AttemptType, EvidenceType,
         RunsType, leaseVars, attemptVars, evidenceVars
  <2>16. ASSUME NEW w \in Workers, RenewLease(w) PROVE Types'
    <3>1. LeaseType' BY <2>16 DEF LeaseType, RenewLease, ReleaseLease, HoldsLease
    <3>2. WorkersType' BY <2>16 DEF WorkersType, RenewLease, Go, WorkerType, WorkerPCs
    <3> QED BY <2>16, <3>1, <3>2 DEF RenewLease, ConnectionType, AttemptType, EvidenceType,
         RunsType, leaseVars, attemptVars, evidenceVars
  <2>17. ASSUME NEW w \in Workers, ReadPage(w) PROVE Types'
    <3>0. RunsType' /\ Len(runs') = Len(runs)
      <4>1. CASE UNCHANGED runs BY <4>1 DEF RunsType
      <4>2. CASE runs' = [runs EXCEPT ![worker[w].run].saw = TRUE]
        <5>1. worker[w].run \in 1..Len(runs) => runs[worker[w].run] \in RunType
          BY ElementOfSeq DEF RunsType
        <5>2. worker[w].run \in 1..Len(runs) =>
               [runs[worker[w].run] EXCEPT !.saw = TRUE] \in RunType
          BY <5>1 DEF RunType, RunStatuses
        <5> QED BY <4>2, <5>2, WorkerRun, RunUpdate DEF RunsType
      <4> QED BY <4>1, <4>2, <2>17 DEF ReadPage
    <3>1. LeaseType' BY <3>0, <2>17 DEF ReadPage, LeaseType, leaseVars
    <3>2. EvidenceType'
      <4>1. worker[w].run \in Runs BY WorkerRun
      <4>2. revision' \in [Accounts -> [receipt : Runs, first : Runs, replay : Runs]]
        BY <2>17, <4>1 DEF ReadPage, EvidenceType
      <4> QED BY <2>17, <4>2 DEF ReadPage, EvidenceType
    <3>4. WorkersType'
      <4>2. PICK pc \in {"scan", "complete"} : Go(w, pc) BY <2>17 DEF ReadPage
      <4>3. pc \in WorkerPCs BY DEF WorkerPCs
      <4>4. Len(runs) <= Len(runs') BY <3>0, LenProperties DEF RunsType
      <4> QED BY <3>0, <4>2, <4>3, <4>4, WorkerGoes
    <3> QED BY <2>17, <3>1, <3>2, <3>0, <3>4 DEF ReadPage, ConnectionType, AttemptType,
         leaseVars, attemptVars, evidenceVars
  <2>18. ASSUME NEW w \in Workers, CompleteSync(w) PROVE Types'
    <3>0. RunsType' /\ Len(runs') = Len(runs)
      BY <2>18, WorkerRun, RunStatus DEF CompleteSync, RunStatuses
    <3>1. LeaseType'
      <4>2. CASE ReleaseLease BY <3>0, <4>2, Released
      <4>3. CASE UNCHANGED leaseVars BY <3>0, <4>3 DEF LeaseType, leaseVars
      <4> QED BY <4>2, <4>3, <2>18 DEF CompleteSync
    <3>2. EvidenceType'
      <4>1. worker[w].run \in Runs /\ 0 \in Runs /\ worker[w].session \in Sessions
        BY WorkerRun, Constants DEF WorkerType
      <4>2. revision' \in [Accounts -> [receipt : Runs, first : Runs, replay : Runs]]
        BY <2>18, <4>1 DEF CompleteSync, EvidenceType
      <4>3. syncState' \in [Accounts -> [session : Sessions, complete : BOOLEAN]]
        BY <2>18, <4>1 DEF CompleteSync, EvidenceType
      <4> DEFINE acc == worker[w].account
                 p == IF account[acc].session # worker[w].session THEN account[acc].proof
                      ELSE IF Proven(runs', acc,
                           worker[w].session) THEN "transactions" ELSE "account"
      <4>5. account' = [account EXCEPT ![acc] = [account[acc] EXCEPT !.proof = p]]
        BY <2>18 DEF CompleteSync
      <4>6. acc \in Accounts => p \in {"none", "account", "transactions"} BY DEF EvidenceType
      <4>4. account' \in [Accounts -> [session : Sessions, proof : {"none", "account",
           "transactions"}]]
        <5> HIDE DEF acc, p
        <5> QED BY <4>5, <4>6 DEF EvidenceType
      <4> QED BY <2>18, <4>2, <4>3, <4>4 DEF CompleteSync, EvidenceType
    <3>4. WorkersType' BY <3>0, <2>18, BecomesIdle DEF CompleteSync
    <3> QED BY <2>18, <3>1, <3>2, <3>0, <3>4 DEF CompleteSync, ConnectionType, AttemptType,
         leaseVars, attemptVars, evidenceVars
  <2>19. ASSUME NEW w \in Workers, LeaseLost(w) PROVE Types'
    <3>1. WorkersType' BY <2>19 DEF WorkersType, LeaseLost, Go, WorkerType, WorkerPCs
    <3> QED BY <2>19, <3>1 DEF LeaseLost, ConnectionType, LeaseType, AttemptType, EvidenceType,
         RunsType, leaseVars, attemptVars, evidenceVars
  <2>20. ASSUME NEW w \in Workers, CompleteDiagnosticFetch(w) PROVE Types'
    <3>0. RunsType' /\ Len(runs') = Len(runs)
      BY <2>20, WorkerRun, RunStatus DEF CompleteDiagnosticFetch, RunStatuses
    <3>1. LeaseType'
      <4>2. CASE ReleaseLease BY <3>0, <4>2, Released
      <4>3. CASE UNCHANGED leaseVars BY <3>0, <4>3 DEF LeaseType, leaseVars
      <4> QED BY <4>2, <4>3, <2>20 DEF CompleteDiagnosticFetch
    <3>3. WorkersType' BY <3>0, <2>20, BecomesIdle DEF CompleteDiagnosticFetch
    <3> QED BY <2>20, <3>1, <3>0, <3>3 DEF CompleteDiagnosticFetch, ConnectionType, AttemptType,
         EvidenceType, leaseVars, attemptVars, evidenceVars
  <2>21. ASSUME NEW w \in Workers, DeleteSession(w) PROVE Types'
    <3>1. AttemptType'
      BY <2>21, Accounting DEF AttemptType, DeleteSession, attemptVars, ProviderStates
    <3>2. WorkersType' BY <2>21 DEF WorkersType, DeleteSession, Go, WorkerType, WorkerPCs
    <3> QED BY <2>21, <3>1, <3>2 DEF DeleteSession, ConnectionType, LeaseType, EvidenceType,
         RunsType, leaseVars, attemptVars, evidenceVars
  <2>22. ASSUME NEW w \in Workers, CompleteDisconnect(w) PROVE Types'
    <3>0. RunsType' /\ Len(runs') = Len(runs)
      BY <2>22, WorkerRun, RunStatus DEF CompleteDisconnect, RunStatuses
    <3>1. ConnectionType'
      BY <2>22, Constants DEF ConnectionType, CompleteDisconnect, ConnectionStatuses
    <3>2. LeaseType'
      <4>2. CASE ReleaseLease BY <3>0, <4>2, Released
      <4>3. CASE UNCHANGED leaseVars BY <3>0, <4>3 DEF LeaseType, leaseVars
      <4> QED BY <4>2, <4>3, <2>22 DEF CompleteDisconnect
    <3>3. EvidenceType' BY <2>22, Constants DEF EvidenceType, CompleteDisconnect, evidenceVars
    <3>5. WorkersType' BY <3>0, <2>22, BecomesIdle DEF CompleteDisconnect
    <3> QED BY <2>22, <3>1, <3>2, <3>3, <3>0, <3>5 DEF CompleteDisconnect, AttemptType,
         leaseVars, attemptVars, evidenceVars
  <2>23. ASSUME NEW w \in Workers, FailRun(w) PROVE Types'
    <3>0. RunsType' /\ Len(runs') = Len(runs)
      <4>1. CASE UNCHANGED runs BY <4>1 DEF RunsType
      <4>2. CASE HoldsLease(w)
        <5> DEFINE s == IF runs[worker[w].run].status # "running" THEN runs[worker[w].run].status
                        ELSE IF worker[w].kind = "disconnect" THEN "indeterminate" ELSE "failed"
                   r == runs[worker[w].run]
        <5>1. runs' = [runs EXCEPT ![worker[w].run] = [r EXCEPT !.status = s]]
          BY <2>23, <4>2 DEF FailRun
        <5>2. worker[w].run \in 1..Len(runs) => r \in RunType BY ElementOfSeq DEF RunsType
        <5>3. worker[w].run \in 1..Len(runs) => [r EXCEPT !.status = s] \in RunType
          BY <5>2 DEF RunType, RunStatuses
        <5> HIDE DEF s, r
        <5> QED BY <5>1, <5>3, WorkerRun, RunUpdate DEF RunsType
      <4> QED BY <4>1, <4>2, <2>23 DEF FailRun
    <3>1. ConnectionType'
      BY <2>23 DEF ConnectionType, FailRun, ConnectionStatuses, Sessions, Attempts
    <3>2. LeaseType'
      <4>2. CASE ReleaseLease BY <3>0, <4>2, Released
      <4>3. CASE UNCHANGED leaseVars BY <3>0, <4>3 DEF LeaseType, leaseVars
      <4> QED BY <4>2, <4>3, <2>23 DEF FailRun
    <3>4. WorkersType' BY <3>0, <2>23, BecomesIdle DEF FailRun
    <3> QED BY <2>23, <3>1, <3>2, <3>0, <3>4 DEF FailRun, AttemptType, EvidenceType, leaseVars,
         attemptVars, evidenceVars
  <2>24. ASSUME LeaseExpires PROVE Types'
    <3>1. LeaseType' BY <2>24 DEF LeaseType, LeaseExpires, ReleaseLease
    <3> QED BY <2>24, <3>1 DEF LeaseExpires, ConnectionType, AttemptType, EvidenceType, RunsType,
         WorkersType, leaseVars, attemptVars, evidenceVars
  <2> QED BY <1>a, <2>1, <2>2, <2>3, <2>4, <2>5, <2>6, <2>7, <2>8, <2>9, <2>10, <2>11, <2>12,
       <2>13, <2>14, <2>15, <2>16, <2>17, <2>18, <2>19, <2>20, <2>21, <2>22, <2>23,
       <2>24 DEF RegularStep, AttemptStep, BeginStep, WorkerStep
<1>b. CASE FaultStep
  <2>1. ASSUME NEW a \in Attempts, Expires(a) PROVE Types'
    <3>1. AttemptType'
      BY <2>1 DEF AttemptType, Expires, Leave, AttemptStatuses, AuthRunStatuses, WebPCs, Attempts
    <3> QED BY <2>1, <3>1 DEF Expires, ConnectionType, LeaseType, EvidenceType, RunsType,
         WorkersType, leaseVars, attemptVars, evidenceVars
  <2>2. ASSUME NEW a \in Attempts, ExchangeFails(a) PROVE Types'
    <3>1. AttemptType'
      <4>1. provider' \in [Attempts -> ProviderStates]
        BY <2>2 DEF ExchangeFails, AttemptType, Leave, ProviderStates
      <4>2. web' \in [Attempts -> WebPCs] BY <2>2 DEF ExchangeFails, AttemptType, Leave, WebPCs
      <4>3. exchanges' \in [Attempts -> Nat] BY <2>2 DEF ExchangeFails, AttemptType
      <4> QED BY <2>2, <4>1, <4>2, <4>3 DEF ExchangeFails, AttemptType
    <3> QED BY <2>2, <3>1 DEF ExchangeFails, ConnectionType, LeaseType, EvidenceType, RunsType,
         WorkersType, leaseVars, attemptVars, evidenceVars
  <2>3. ASSUME NEW a \in Attempts, AuthorizationFails(a) PROVE Types'
    <3>1. AttemptType'
      BY <2>3 DEF AttemptType, AuthorizationFails, Leave, AttemptStatuses, AuthRunStatuses,
         WebPCs, Attempts
    <3> QED BY <2>3, <3>1 DEF AuthorizationFails, ConnectionType, LeaseType, EvidenceType,
         RunsType, WorkersType, leaseVars, attemptVars, evidenceVars
  <2>4. ASSUME NEW a \in Attempts, WebCrash(a) PROVE Types'
    <3>1. AttemptType'
      BY <2>4 DEF AttemptType, WebCrash, Leave, AttemptStatuses, AuthRunStatuses, WebPCs, Attempts
    <3> QED BY <2>4, <3>1 DEF WebCrash, ConnectionType, LeaseType, EvidenceType, RunsType,
         WorkersType, leaseVars, attemptVars, evidenceVars
  <2>5. ASSUME NEW a \in Attempts, ProviderEndsSession(a) PROVE Types'
    <3>1. AttemptType' BY <2>5 DEF ProviderEndsSession, AttemptType, attemptVars, ProviderStates
    <3> QED BY <2>5, <3>1 DEF ProviderEndsSession, ConnectionType, LeaseType, EvidenceType,
         RunsType, WorkersType, leaseVars, attemptVars, evidenceVars
  <2>6. ASSUME NEW w \in Workers, DeleteFails(w) PROVE Types'
    <3>1. AttemptType'
      <4>1. PICK s \in {provider[worker[w].session], "closed"} :
               provider' = [provider EXCEPT ![worker[w].session] = s]
        BY <2>6 DEF DeleteFails
      <4>2. provider' \in [Attempts -> ProviderStates]
        BY <4>1 DEF AttemptType, ProviderStates
      <4> QED BY <2>6, <4>2 DEF DeleteFails, AttemptType, attemptVars
    <3>2. WorkersType' BY <2>6 DEF WorkersType, DeleteFails, Go, WorkerType, WorkerPCs
    <3> QED BY <2>6, <3>1, <3>2 DEF DeleteFails, ConnectionType, LeaseType, EvidenceType,
         RunsType, leaseVars, attemptVars, evidenceVars
  <2>7. ASSUME NEW w \in Workers, OperationFails(w) PROVE Types'
    <3>1. WorkersType' BY <2>7 DEF WorkersType, OperationFails, Go, WorkerType, WorkerPCs
    <3> QED BY <2>7, <3>1 DEF OperationFails, ConnectionType, LeaseType, AttemptType,
         EvidenceType, RunsType, leaseVars, attemptVars, evidenceVars
  <2>8. ASSUME NEW w \in Workers, Crash(w) PROVE Types'
    <3>1. WorkersType'
      BY <2>8 DEF WorkersType, Crash, Go, WorkerType, WorkerPCs, Idle, Kinds, FetchKinds,
         Strategies, Runs, Sessions, RunsType
    <3> QED BY <2>8, <3>1 DEF Crash, ConnectionType, LeaseType, AttemptType, EvidenceType,
         RunsType, leaseVars, attemptVars, evidenceVars
  <2>9. ASSUME ConsentElapses PROVE Types'
    <3>1. ConnectionType'
      BY <2>9 DEF ConnectionType, ConsentElapses, ConnectionStatuses, Sessions, Attempts
    <3> QED BY <2>9, <3>1 DEF ConsentElapses, LeaseType, AttemptType, EvidenceType, RunsType,
         WorkersType, leaseVars, attemptVars, evidenceVars
  <2>10. ASSUME LeaseExpires
         PROVE  Types'
    BY <2>10 DEF LeaseExpires, ConnectionType, LeaseType, AttemptType, EvidenceType, RunsType,
       WorkersType, attemptVars, evidenceVars, leaseVars
  <2> QED BY <1>b, <2>1, <2>2, <2>3, <2>4, <2>5, <2>6, <2>7, <2>8, <2>9, <2>10 DEF FaultStep
<1> QED BY <1>0, <1>a, <1>b DEF Next

(***************************************************************************)
(* The state of the connection is well formed, the lease columns are set   *)
(* together, for any number of attempts, runs, workers, accounts and       *)
(* faults, with or without slow operations.                                *)
(***************************************************************************)
THEOREM TypeCorrect == Spec => []TypeOK
<1> USE ConnectionAssumption
<1>1. Init => TypeOK
  <2> SUFFICES ASSUME Init PROVE TypeOK OBVIOUS
  <2>1. ConnectionType BY Constants DEF Init, ConnectionType, ConnectionStatuses
  <2>2. RunsType /\ Len(runs) = 0 BY EmptySeq DEF Init, RunsType, ConnectionAssumption
  <2>3. LeaseType
    <3>1. activeRun = 0 /\ lease = NoOne /\ activeRun \in 0..Len(runs) BY <2>2 DEF Init
    <3>2. leaseLive \in BOOLEAN /\ ~ leaseLive BY Zenon DEF Init
    <3> QED BY <3>1, <3>2 DEF LeaseType
  <2>4. AttemptType
    BY DEF Init, AttemptType, AttemptStatuses, AuthRunStatuses, WebPCs, ProviderStates
  <2>5. EvidenceType BY Constants DEF Init, EvidenceType
  <2>6. WorkersType BY <2>2, IdleType DEF Init, WorkersType
  <2>7. faults \in 0..MaxFaults BY DEF Init, ConnectionAssumption
  <2> QED BY <2>1, <2>2, <2>3, <2>4, <2>5, <2>6, <2>7 DEF TypeOK
<1>2. TypeOK /\ [Next]_vars => TypeOK'
  <2> SUFFICES ASSUME TypeOK, [Next]_vars PROVE TypeOK' OBVIOUS
  <2>1. Types' BY NextTypes DEF TypeOK, Types
  <2>2. faults' \in 0..MaxFaults BY DEF TypeOK, Next, vars, ConnectionAssumption
  <2> QED BY <2>1, <2>2 DEF TypeOK, Types
<1> QED BY <1>1, <1>2, PTL DEF Spec

-----------------------------------------------------------------------------
(* Authorization attempts                                                  *)

(***************************************************************************)
(* An attempt that is not claimed has left no trace at the provider, in    *)
(* the connection or in a worker; a claimed one has not sent its code yet. *)
(***************************************************************************)
Unclaimed == {"absent", "pending", "cancelled", "expired"}

NoTrace(a) ==
    /\ exchanges[a] = 0 /\ provider[a] = "none" /\ session # a
    /\ \A w \in Workers : worker[w].session # a

AttemptInv ==
    \A a \in Attempts :
        /\ attempt[a] \in Unclaimed => NoTrace(a)
        /\ web[a] \in {"none", "checked"} => attempt[a] = "absent"
        /\ web[a] \in {"claimed", "authorized"} => attempt[a] \notin Unclaimed
        /\ web[a] = "claimed" => exchanges[a] = 0
        /\ exchanges[a] <= 1

(***************************************************************************)
(* A step that leaves attempts and provider alone and brings no new        *)
(* session preserves the attempt invariant.                                *)
(***************************************************************************)
LEMMA AttemptStays ==
    ASSUME ConnectionAssumption, AttemptInv, UNCHANGED <<attempt, web, exchanges, provider>>,
           session' \in {0, session},
           \A w \in Workers : worker'[w].session \in {0, session, worker[w].session}
    PROVE  AttemptInv'
  BY Constants DEF AttemptInv, NoTrace

(***************************************************************************)
(* Every step preserves the attempt invariant.                             *)
(***************************************************************************)
LEMMA NextAttempt ==
    ASSUME ConnectionAssumption, TypeOK, AttemptInv, [Next]_vars
    PROVE  AttemptInv'
<1> USE DEF Attempts
<1>0. CASE UNCHANGED vars BY <1>0, AttemptStays DEF vars, stateVars
<1>1. ASSUME NEW a \in Attempts, AttemptStep(a) PROVE AttemptInv'
  <2> USE DEF AttemptInv, NoTrace, Unclaimed, Leave, AtBank, TypeOK, AttemptType
  <2>1. CASE CheckConnection(a) BY <2>1 DEF CheckConnection
  <2>2. CASE BeginAuthorization(a) BY <2>2 DEF BeginAuthorization
  <2>3. CASE StartAuthorization(a) BY <2>3 DEF StartAuthorization
  <2>4. CASE ClaimAuthorization(a) BY <2>4 DEF ClaimAuthorization
  <2>5. CASE CancelAuthorization(a) BY <2>5 DEF CancelAuthorization
  <2>6. CASE ExchangeCode(a) BY <2>6 DEF ExchangeCode
  <2>7. CASE ActivateSession(a) BY <2>7 DEF ActivateSession
  <2>8. CASE FailAuthorization(a) BY <2>8 DEF FailAuthorization
  <2> QED BY <1>1, <2>1, <2>2, <2>3, <2>4, <2>5, <2>6, <2>7, <2>8 DEF AttemptStep
<1>2. ASSUME NEW a \in Attempts,
             \/ Expires(a) \/ ExchangeFails(a) \/ AuthorizationFails(a) \/ WebCrash(a)
             \/ ProviderEndsSession(a)
      PROVE  AttemptInv'
  <2> USE DEF AttemptInv, NoTrace, Unclaimed, Leave, AtBank, TypeOK, AttemptType
  <2>1. CASE Expires(a) BY <2>1 DEF Expires
  <2>2. CASE ExchangeFails(a)
    <3>1. attempt[a] \notin Unclaimed /\ exchanges[a] = 0 BY <2>2 DEF ExchangeFails
    <3>2. PICK pc \in {"refused", "unanswered"} : web' = [web EXCEPT ![a] = pc]
      BY <2>2 DEF ExchangeFails
    <3>3. \A b \in Attempts \ {a} : provider'[b] = provider[b] BY <2>2 DEF ExchangeFails
    <3>4. exchanges' = [exchanges EXCEPT ![a] = @ + 1] /\ UNCHANGED <<attempt, session, worker>>
      BY <2>2 DEF ExchangeFails
    <3> QED BY <3>1, <3>2, <3>3, <3>4
  <2>3. CASE AuthorizationFails(a) BY <2>3 DEF AuthorizationFails
  <2>4. CASE WebCrash(a) BY <2>4 DEF WebCrash
  <2>5. CASE ProviderEndsSession(a)
    <3>1. attempt[a] \notin Unclaimed BY <2>5 DEF ProviderEndsSession
    <3>2. \A b \in Attempts \ {a} : provider'[b] = provider[b] BY <2>5 DEF ProviderEndsSession
    <3>3. UNCHANGED <<attempt, web, exchanges, session, worker>>
      BY <2>5 DEF ProviderEndsSession, attemptVars
    <3> QED BY <3>1, <3>2, <3>3
  <2> QED BY <1>2, <2>1, <2>2, <2>3, <2>4, <2>5
<1>3. ASSUME NEW w \in Workers,
             BeginStep(w) \/ WorkerStep(w) \/ DeleteFails(w) \/ OperationFails(w) \/ Crash(w)
      PROVE  AttemptInv'
  <2>0. \A u \in Workers : worker[u] \in WorkerType BY DEF TypeOK, WorkersType
  <2>1. session' \in {0, session} /\ UNCHANGED <<attempt, web, exchanges>>
    BY <1>3 DEF BeginStep, WorkerStep, DeleteFails, OperationFails, Crash, ReadForFetch,
         FindConsentOver, ConsentExpired, ReadForDisconnect, TakeLease, CheckSession, RenewLease,
         ReadPage, CompleteSync, LeaseLost, CompleteDiagnosticFetch, DeleteSession,
         CompleteDisconnect, FailRun, attemptVars
  <2>2. \A u \in Workers : worker'[u].session \in {0, session, worker[u].session}
    <3>1. CASE BeginStep(w)
      <4> USE DEF TypeOK, WorkersType, WorkerType
      <4>1. ASSUME NEW kind \in FetchKinds, ReadForFetch(w, kind)
            PROVE  \A u \in Workers : worker'[u].session \in {0, session, worker[u].session}
        BY <4>1, <2>0 DEF ReadForFetch
      <4>2. ASSUME NEW kind \in FetchKinds, FindConsentOver(w, kind)
            PROVE  \A u \in Workers : worker'[u].session \in {0, session, worker[u].session}
        BY <4>2, <2>0 DEF FindConsentOver, Idle
      <4>3. CASE ConsentExpired(w) BY <4>3, <2>0 DEF ConsentExpired, Idle
      <4>4. CASE ReadForDisconnect(w) BY <4>4, <2>0 DEF ReadForDisconnect, Idle
      <4>5. CASE TakeLease(w) BY <4>5, <2>0 DEF TakeLease
      <4> QED BY <3>1, <4>1, <4>2, <4>3, <4>4, <4>5 DEF BeginStep
    <3>2. CASE WorkerStep(w)
      BY <3>2, <2>0 DEF WorkerStep, CheckSession, RenewLease, ReadPage, CompleteSync, LeaseLost,
         CompleteDiagnosticFetch, DeleteSession, CompleteDisconnect, FailRun, Go, Idle, TypeOK,
         WorkersType, WorkerType
    <3>3. CASE DeleteFails(w) \/ OperationFails(w) \/ Crash(w)
      BY <3>3, <2>0 DEF DeleteFails, OperationFails, Crash, Go, Idle, TypeOK, WorkersType,
         WorkerType
    <3> QED BY <1>3, <3>1, <3>2, <3>3
  <2>3. CASE UNCHANGED provider BY <2>1, <2>2, <2>3, AttemptStays
  <2>4. CASE DeleteSession(w) \/ DeleteFails(w)
    <3>1. \A a \in Attempts : attempt[a] \in Unclaimed => provider'[a] = provider[a]
      BY <2>4 DEF AttemptInv, NoTrace, DeleteSession, DeleteFails, TypeOK, AttemptType
    <3> QED BY <2>1, <2>2, <3>1, Constants DEF AttemptInv, NoTrace, TypeOK, AttemptType
  <2> QED BY <1>3, <2>3, <2>4 DEF BeginStep, WorkerStep, OperationFails, Crash, ReadForFetch,
       FindConsentOver, ConsentExpired, ReadForDisconnect, TakeLease, CheckSession, RenewLease,
       ReadPage, CompleteSync, LeaseLost, CompleteDiagnosticFetch, CompleteDisconnect, FailRun
<1>4. ASSUME NEW acc \in Accounts, BindProviderAccount(acc)
      PROVE  AttemptInv'
  BY <1>4, AttemptStays DEF BindProviderAccount, attemptVars
<1>5. ASSUME LeaseExpires \/ ConsentElapses
      PROVE  AttemptInv'
  BY <1>5, AttemptStays DEF LeaseExpires, ConsentElapses, attemptVars
<1> QED BY <1>0, <1>1, <1>2, <1>3, <1>4, <1>5 DEF Next, RegularStep, FaultStep

(***************************************************************************)
(* The attempt invariant holds in every reachable state.                   *)
(***************************************************************************)
THEOREM AttemptInvariant == Spec => []AttemptInv
<1> USE ConnectionAssumption
<1>1. Init => AttemptInv BY DEF Init, AttemptInv, NoTrace, Idle, Attempts
<1>2. TypeOK /\ AttemptInv /\ [Next]_vars => AttemptInv' BY NextAttempt
<1> QED BY <1>1, <1>2, TypeCorrect, PTL DEF Spec

(***************************************************************************)
(* "a callback cannot exchange one code twice":                            *)
(* claimEnableBankingAuthorization admits one exchange for each state.     *)
(***************************************************************************)
THEOREM OneExchange == Spec => []OneExchangePerState
<1>1. AttemptInv => OneExchangePerState BY DEF AttemptInv, OneExchangePerState
<1> QED BY <1>1, AttemptInvariant, PTL

(***************************************************************************)
(* An attempt that is pending, cancelled or expired has obtained no        *)
(* session: a cancellation and a code that arrive together exclude each    *)
(* other.                                                                  *)
(***************************************************************************)
THEOREM NothingObtained == Spec => []CancelledAttemptsObtainNothing
<1>1. AttemptInv => CancelledAttemptsObtainNothing
  BY DEF AttemptInv, Unclaimed, NoTrace, CancelledAttemptsObtainNothing
<1> QED BY <1>1, AttemptInvariant, PTL

-----------------------------------------------------------------------------
(* Aliases and runs                                                        *)

(***************************************************************************)
(* Activating a session or disconnecting leaves no account an alias of     *)
(* another session.                                                        *)
(***************************************************************************)
THEOREM AliasesEnd == Spec => []AliasesBelongToTheSession
<1>1. Init => AliasesBelongToTheSession BY DEF Init, AliasesBelongToTheSession
<1>2. TypeOK /\ AliasesBelongToTheSession /\ [Next]_vars => AliasesBelongToTheSession'
  <2> SUFFICES ASSUME TypeOK, AliasesBelongToTheSession, [Next]_vars
                 PROVE  AliasesBelongToTheSession'
    OBVIOUS
  <2>1. CASE UNCHANGED <<session, account>> BY <2>1 DEF AliasesBelongToTheSession
  <2>2. ASSUME NEW a \in Attempts, ActivateSession(a) PROVE AliasesBelongToTheSession'
    <3>1. session' = a BY <2>2 DEF ActivateSession
    <3>2. \A acc \in Accounts : account'[acc].session \in {0, a} BY <2>2 DEF ActivateSession
    <3> QED BY <3>1, <3>2 DEF AliasesBelongToTheSession
  <2>3. ASSUME NEW w \in Workers, CompleteDisconnect(w) PROVE AliasesBelongToTheSession'
    <3>1. \A acc \in Accounts : account'[acc].session = 0
      BY <2>3 DEF CompleteDisconnect, TypeOK, EvidenceType
    <3> QED BY <3>1 DEF AliasesBelongToTheSession
  <2>4. ASSUME NEW w \in Workers, CompleteSync(w) PROVE AliasesBelongToTheSession'
    <3>1. UNCHANGED session BY <2>4 DEF CompleteSync
    <3>2. \A acc \in Accounts : account'[acc].session = account[acc].session
      BY <2>4 DEF CompleteSync, TypeOK, EvidenceType
    <3> QED BY <3>1, <3>2 DEF AliasesBelongToTheSession
  <2>5. ASSUME RegularStep, ~ UNCHANGED <<session, account>>
        PROVE  \/ \E a \in Attempts : ActivateSession(a)
               \/ \E w \in Workers : CompleteDisconnect(w) \/ CompleteSync(w)
    <3>1. ASSUME NEW a \in Attempts, AttemptStep(a), ~ ActivateSession(a)
           PROVE UNCHANGED <<session, account>>
      BY <3>1 DEF AttemptStep, CheckConnection, BeginAuthorization, StartAuthorization,
         ClaimAuthorization, CancelAuthorization, ExchangeCode, FailAuthorization
    <3>2. ASSUME NEW acc \in Accounts, BindProviderAccount(acc)
           PROVE UNCHANGED <<session, account>>
      BY <3>2 DEF BindProviderAccount
    <3>3. ASSUME NEW w \in Workers, BeginStep(w) PROVE UNCHANGED <<session, account>>
      BY <3>3 DEF BeginStep, ReadForFetch, FindConsentOver, ConsentExpired, ReadForDisconnect,
           TakeLease
    <3>4. ASSUME NEW w \in Workers, WorkerStep(w), ~ CompleteDisconnect(w), ~ CompleteSync(w)
          PROVE  UNCHANGED <<session, account>>
      BY <3>4 DEF WorkerStep, CheckSession, RenewLease, ReadPage, LeaseLost,
         CompleteDiagnosticFetch, DeleteSession, FailRun
    <3>5. LeaseExpires => UNCHANGED <<session, account>> BY DEF LeaseExpires
    <3> QED BY <2>5, <3>1, <3>2, <3>3, <3>4, <3>5 DEF RegularStep
  <2>6. FaultStep => UNCHANGED <<session, account>>
    BY DEF FaultStep, Expires, ExchangeFails, AuthorizationFails, WebCrash, ProviderEndsSession,
       DeleteFails, OperationFails, Crash, ConsentElapses, LeaseExpires
  <2>7. CASE UNCHANGED vars BY <2>1, <2>7 DEF vars, stateVars
  <2> QED BY <2>1, <2>2, <2>3, <2>4, <2>5, <2>6, <2>7 DEF Next
<1> QED BY <1>1, <1>2, TypeCorrect, PTL DEF Spec

(***************************************************************************)
(* A completed run stays completed: failEnableBankingRun changes a run     *)
(* that is still running, and the other writers of the status complete     *)
(* theirs.                                                                 *)
(***************************************************************************)
THEOREM CompletedStay == Spec => CompletedRunsStay
<1> DEFINE Stay == \A r \in DOMAIN runs :
                     runs[r].status = "completed" => runs'[r].status = "completed"
<1>1. TypeOK /\ [Next]_vars => Stay
  <2> SUFFICES ASSUME TypeOK, [Next]_vars PROVE Stay OBVIOUS
  <2>1. CASE UNCHANGED runs BY <2>1
  <2>2. \A r \in DOMAIN runs : runs[r] \in RunType /\ r \in 1..Len(runs)
    BY ElementOfSeq, LenProperties DEF TypeOK, RunsType
  <2>3. ASSUME NEW w \in Workers, TakeLease(w) PROVE Stay
    <3>1. worker[w].kind \in Kinds BY WorkerRun DEF TypeOK, WorkerType
    <3>2. NewRun(w, worker[w].kind) \in RunType
      <4>1. WorkersType BY DEF TypeOK
      <4> QED BY <3>1, <4>1, NewRunType
    <3> QED BY <2>2, <2>3, <3>2, AppendProperties DEF TakeLease, TypeOK, RunsType
  <2>4. ASSUME NEW w \in Workers,
               CompleteSync(w) \/ CompleteDiagnosticFetch(w) \/ CompleteDisconnect(w)
        PROVE  Stay
    <3>1. runs' = [runs EXCEPT ![worker[w].run].status = "completed"]
      BY <2>4 DEF CompleteSync, CompleteDiagnosticFetch, CompleteDisconnect
    <3> QED BY <2>2, <3>1 DEF RunType
  <2>5. ASSUME NEW w \in Workers, ReadPage(w) PROVE Stay
    BY <2>2, <2>5 DEF ReadPage, RunType
  <2>6. ASSUME NEW w \in Workers, FailRun(w) PROVE Stay
    BY <2>2, <2>6 DEF FailRun, RunType
  <2>7. ASSUME RegularStep, ~ UNCHANGED runs
        PROVE  \E w \in Workers : \/ TakeLease(w) \/ ReadPage(w) \/ FailRun(w)
                                  \/ CompleteSync(w) \/ CompleteDiagnosticFetch(w)
                                  \/ CompleteDisconnect(w)
    BY <2>7 DEF RegularStep, AttemptStep, BeginStep, WorkerStep, CheckConnection,
       BeginAuthorization, StartAuthorization, ClaimAuthorization, CancelAuthorization,
       ExchangeCode, ActivateSession, FailAuthorization, BindProviderAccount, ReadForFetch,
       FindConsentOver, ConsentExpired, ReadForDisconnect, CheckSession, RenewLease, LeaseLost,
       DeleteSession, LeaseExpires
  <2>8. FaultStep => UNCHANGED runs
    BY DEF FaultStep, Expires, ExchangeFails, AuthorizationFails, WebCrash, ProviderEndsSession,
       DeleteFails, OperationFails, Crash, ConsentElapses, LeaseExpires
  <2>9. CASE UNCHANGED vars BY <2>1, <2>9 DEF vars, stateVars
  <2> QED BY <2>1, <2>3, <2>4, <2>5, <2>6, <2>7, <2>8, <2>9 DEF Next
<1>2. TypeOK /\ [Next]_vars => [Stay]_vars BY <1>1
<1> QED BY <1>2, TypeCorrect, PTL DEF Spec, CompletedRunsStay

-----------------------------------------------------------------------------
(* Runs only grow                                                          *)

Same(r) ==
    /\ runs'[r].kind = runs[r].kind
    /\ runs'[r].session = runs[r].session
    /\ runs'[r].account = runs[r].account
    /\ runs'[r].strategy = runs[r].strategy

(***************************************************************************)
(* A run keeps what it was begun with, what it saw, and its completion.    *)
(***************************************************************************)
Grow ==
    \A r \in DOMAIN runs :
        /\ r \in DOMAIN runs'
        /\ Same(r)
        /\ runs[r].saw => runs'[r].saw
        /\ runs[r].status = "completed" => runs'[r].status = "completed"

(***************************************************************************)
(* An existing run: a member of the sequence of runs is a run.             *)
(***************************************************************************)
LEMMA RunElement ==
    ASSUME RunsType
    PROVE  \A r \in DOMAIN runs : r \in 1..Len(runs) /\ runs[r] \in RunType
  BY ElementOfSeq, LenProperties DEF RunsType

(***************************************************************************)
(* A new run comes last, as the worker read it.                            *)
(***************************************************************************)
LEMMA NewRunLast ==
    ASSUME RunsType, WorkersType, NEW w \in Workers, runs' = Append(runs, NewRun(w, worker[w].kind))
    PROVE  /\ Grow
           /\ Len(runs) + 1 \in DOMAIN runs'
           /\ DOMAIN runs' = DOMAIN runs \cup {Len(runs) + 1}
           /\ runs'[Len(runs) + 1] = NewRun(w, worker[w].kind)
           /\ Len(runs) \in Nat
<1>1. worker[w].kind \in Kinds BY DEF WorkersType, WorkerType
<1>2. NewRun(w, worker[w].kind) \in RunType BY <1>1, NewRunType
<1>3. /\ Len(runs') = Len(runs) + 1 /\ Len(runs) \in Nat
      /\ \A i \in 1..Len(runs) : runs'[i] = runs[i]
      /\ runs'[Len(runs) + 1] = NewRun(w, worker[w].kind)
      /\ runs' \in Seq(RunType)
  BY <1>2, AppendProperties, LenProperties DEF RunsType
<1>4. DOMAIN runs = 1..Len(runs) /\ DOMAIN runs' = 1..Len(runs')
  BY <1>3, LenProperties DEF RunsType
<1>5. DOMAIN runs' = DOMAIN runs \cup {Len(runs) + 1} BY <1>3, <1>4
<1>6. Grow BY <1>3, <1>4 DEF Grow, Same
<1> QED BY <1>3, <1>5, <1>6

(***************************************************************************)
(* Taking the lease resumes the run that was found or begins one.          *)
(***************************************************************************)
LEMMA TakeLeaseRuns ==
    ASSUME NEW w \in Workers, TakeLease(w)
    PROVE  \/ worker[w].run # 0 /\ UNCHANGED runs
           \/ worker[w].run = 0 /\ runs' = Append(runs, NewRun(w, worker[w].kind))
  BY DEF TakeLease

(***************************************************************************)
(* A step leaves the runs alone, or it is one of these.                    *)
(***************************************************************************)
LEMMA RunWriters ==
    ASSUME [Next]_vars
    PROVE  \/ UNCHANGED runs
           \/ \E w \in Workers : \/ TakeLease(w) \/ ReadPage(w) \/ FailRun(w)
                                 \/ CompleteSync(w) \/ CompleteDiagnosticFetch(w)
                                 \/ CompleteDisconnect(w)
<1>1. CASE UNCHANGED vars BY <1>1 DEF vars, stateVars
<1>2. CASE FaultStep
  BY <1>2 DEF FaultStep, Expires, ExchangeFails, AuthorizationFails, WebCrash,
     ProviderEndsSession, DeleteFails, OperationFails, Crash, ConsentElapses, LeaseExpires
<1>3. CASE RegularStep
  BY <1>3 DEF RegularStep, AttemptStep, BeginStep, WorkerStep, CheckConnection,
     BeginAuthorization, StartAuthorization, ClaimAuthorization, CancelAuthorization,
     ExchangeCode, ActivateSession, FailAuthorization, BindProviderAccount, ReadForFetch,
     FindConsentOver, ConsentExpired, ReadForDisconnect, CheckSession, RenewLease, LeaseLost,
     DeleteSession, LeaseExpires
<1> QED BY <1>1, <1>2, <1>3 DEF Next

(***************************************************************************)
(* Runs are written by changing a status or setting saw.                   *)
(***************************************************************************)
LEMMA RunsGrow == ASSUME TypeOK, [Next]_vars PROVE Grow
<1> USE DEF TypeOK
<1>1. CASE UNCHANGED runs BY <1>1 DEF Grow, Same
<1>2. ASSUME NEW w \in Workers, TakeLease(w) PROVE Grow
  <2>1. CASE UNCHANGED runs BY <2>1, <1>1
  <2>2. CASE runs' = Append(runs, NewRun(w, worker[w].kind)) BY <2>2, NewRunLast
  <2> QED BY <1>2, <2>1, <2>2, TakeLeaseRuns
<1>3. ASSUME NEW w \in Workers, CompleteSync(w) \/ CompleteDiagnosticFetch(w) \/ CompleteDisconnect(w)
      PROVE  Grow
  <2>1. runs' = [runs EXCEPT ![worker[w].run].status = "completed"]
    BY <1>3 DEF CompleteSync, CompleteDiagnosticFetch, CompleteDisconnect
  <2> QED BY <2>1, RunElement DEF Grow, Same, RunType
<1>4. ASSUME NEW w \in Workers, ReadPage(w) PROVE Grow
  BY <1>4, RunElement DEF ReadPage, Grow, Same, RunType
<1>5. ASSUME NEW w \in Workers, FailRun(w) PROVE Grow
  BY <1>5, RunElement DEF FailRun, Grow, Same, RunType
<1> QED BY <1>1, <1>2, <1>3, <1>4, <1>5, RunWriters

-----------------------------------------------------------------------------
(* What the evidence rests on                                              *)

Scan(rs, r, acc, s) ==
    /\ rs[r].kind = "sync" /\ rs[r].status = "completed"
    /\ rs[r].account = acc /\ rs[r].session = s

Scanned(rs, acc, s) ==
    \E r \in DOMAIN rs : Scan(rs, r, acc, s) /\ rs[r].strategy = "longest"

InScan == {"session", "scan", "page", "complete"}

(***************************************************************************)
(* A worker asks for the default range only after a longest scan, its run  *)
(* is of what it has read, and until it has a run its account is bound.    *)
(***************************************************************************)
Linked(v, rs, b) ==
    /\ v.strategy = "default" => Scanned(rs, v.account, v.session)
    /\ v.run # 0 =>
          /\ v.run \in DOMAIN rs
          /\ rs[v.run].kind = v.kind
          /\ rs[v.run].session = v.session
          /\ rs[v.run].account = v.account
    /\ v.pc = "read" /\ v.kind \in FetchKinds => v.account \in b
    /\ v.pc \in InScan => v.run # 0

RunLinked(r, rs, b) ==
    /\ rs[r].kind \in FetchKinds => rs[r].account \in b
    /\ rs[r].strategy = "default" => Scanned(rs, rs[r].account, rs[r].session)

SawIt(x, rs) == x # 0 => x \in DOMAIN rs /\ rs[x].saw

(***************************************************************************)
(* The receipt of a revision is of a run that saw it, and its two scans    *)
(* are syncs.                                                              *)
(***************************************************************************)
RevisionLinked(v, rs) ==
    /\ SawIt(v.receipt, rs)
    /\ SawIt(v.first, rs) /\ (v.first # 0 => rs[v.first].kind = "sync")
    /\ SawIt(v.replay, rs) /\ (v.replay # 0 => rs[v.replay].kind = "sync")

ProofStands(acc, v, rs) ==
    v.proof = "transactions" /\ v.session # 0 =>
        \E q, r \in DOMAIN rs :
            /\ q # r
            /\ \A x \in {q, r} : rs[x].saw /\ Scan(rs, x, acc, v.session)

WorkersLinked   == \A w \in Workers : Linked(worker[w], runs, bound)
RunsLinked      == \A r \in DOMAIN runs : RunLinked(r, runs, bound)
SyncStates      == \A acc \in Accounts :
                     syncState[acc].complete => Scanned(runs, acc, syncState[acc].session)
RevisionsLinked == \A acc \in Accounts : RevisionLinked(revision[acc], runs)
ProofsStand     == \A acc \in Accounts : ProofStands(acc, account[acc], runs)

EvidenceInv == WorkersLinked /\ RunsLinked /\ SyncStates /\ RevisionsLinked /\ ProofsStand

(***************************************************************************)
(* What rests on runs goes on resting on them.                             *)
(***************************************************************************)
LEMMA ScannedStays ==
    ASSUME Grow
    PROVE  \A acc, s : Scanned(runs, acc, s) => Scanned(runs', acc, s)
<1> SUFFICES ASSUME NEW acc, NEW s, Scanned(runs, acc, s) PROVE Scanned(runs', acc, s)
  OBVIOUS
<1>1. PICK r \in DOMAIN runs : Scan(runs, r, acc, s) /\ runs[r].strategy = "longest"
  BY DEF Scanned
<1>2. r \in DOMAIN runs' /\ Scan(runs', r, acc, s) /\ runs'[r].strategy = "longest"
  BY <1>1 DEF Scan, Grow, Same
<1> QED BY <1>2 DEF Scanned

(***************************************************************************)
(* What a worker rests on stays while runs grow and accounts stay bound.   *)
(***************************************************************************)
LEMMA LinkedStays ==
    ASSUME Grow, bound \subseteq bound'
    PROVE  \A v : Linked(v, runs, bound) => Linked(v, runs', bound')
<1> SUFFICES ASSUME NEW v, Linked(v, runs, bound) PROVE Linked(v, runs', bound')
  OBVIOUS
<1>1. v.strategy = "default" => Scanned(runs', v.account, v.session)
  BY ScannedStays DEF Linked
<1>2. v.run # 0 => /\ v.run \in DOMAIN runs'
                   /\ runs'[v.run].kind = v.kind
                   /\ runs'[v.run].session = v.session
                   /\ runs'[v.run].account = v.account
  BY DEF Linked, Grow, Same
<1>3. v.pc = "read" /\ v.kind \in FetchKinds => v.account \in bound'
  BY DEF Linked
<1>4. v.pc \in InScan => v.run # 0
  BY DEF Linked
<1> QED BY <1>1, <1>2, <1>3, <1>4 DEF Linked

(***************************************************************************)
(* What a run rests on stays while runs grow and accounts stay bound.      *)
(***************************************************************************)
LEMMA RunLinkedStays ==
    ASSUME Grow, bound \subseteq bound'
    PROVE  \A r \in DOMAIN runs : RunLinked(r, runs, bound) => RunLinked(r, runs', bound')
  BY ScannedStays DEF RunLinked, Grow, Same

(***************************************************************************)
(* What the receipt and the scans of a revision rest on stays while runs   *)
(* grow.                                                                   *)
(***************************************************************************)
LEMMA RevisionStays ==
    ASSUME Grow
    PROVE  \A v : RevisionLinked(v, runs) => RevisionLinked(v, runs')
  BY DEF RevisionLinked, SawIt, Grow, Same

(***************************************************************************)
(* The two scans of a proof stay while runs grow.                          *)
(***************************************************************************)
LEMMA ProofStays ==
    ASSUME Grow
    PROVE  \A acc, v : ProofStands(acc, v, runs) => ProofStands(acc, v, runs')
<1> SUFFICES ASSUME NEW acc, NEW v, ProofStands(acc, v, runs)
             PROVE  ProofStands(acc, v, runs')
  OBVIOUS
<1>1. CASE v.proof = "transactions" /\ v.session # 0
  <2>1. PICK q, r \in DOMAIN runs :
           q # r /\ \A x \in {q, r} : runs[x].saw /\ Scan(runs, x, acc, v.session)
    BY <1>1 DEF ProofStands
  <2>2. \A x \in {q, r} : x \in DOMAIN runs' /\ runs'[x].saw /\ Scan(runs', x, acc, v.session)
    BY <2>1 DEF Grow, Same, Scan
  <2>3. /\ q \in DOMAIN runs' /\ r \in DOMAIN runs' /\ q # r
        /\ \A x \in {q, r} : runs'[x].saw /\ Scan(runs', x, acc, v.session)
    BY <2>1, <2>2
  <2> QED BY <2>3 DEF ProofStands
<1>2. CASE ~ (v.proof = "transactions" /\ v.session # 0)
  BY <1>2 DEF ProofStands
<1> QED BY <1>1, <1>2

-----------------------------------------------------------------------------
(* Workers                                                                 *)

(***************************************************************************)
(* Moving on in the loop, without entering it from outside, keeps a worker *)
(* linked.                                                                 *)
(***************************************************************************)
LEMMA LinkedGoes ==
    ASSUME NEW v \in WorkerType, NEW rs, NEW b, Linked(v, rs, b), NEW pc,
           pc # "read", pc \in InScan => v.pc \in InScan
    PROVE  Linked([v EXCEPT !.pc = pc], rs, b)
<1> DEFINE u == [v EXCEPT !.pc = pc]
<1>1. /\ u.strategy = v.strategy /\ u.account = v.account /\ u.session = v.session
      /\ u.run = v.run /\ u.kind = v.kind /\ u.pc = pc
  BY DEF WorkerType
<1> HIDE DEF u
<1>2. Linked(u, rs, b)
  BY <1>1 DEF Linked
<1> QED BY <1>2 DEF u

(***************************************************************************)
(* A worker that has no run, has not read an account and asks for the      *)
(* longest range is linked.                                                *)
(***************************************************************************)
LEMMA LinkedFresh ==
    ASSUME NEW v, NEW rs, NEW b, v.run = 0, v.strategy = "longest", v.pc \notin InScan,
           v.pc = "read" => v.kind \notin FetchKinds
    PROVE  Linked(v, rs, b)
  BY DEF Linked

(***************************************************************************)
(* An idle worker is linked.                                               *)
(***************************************************************************)
LEMMA LinkedIdle ==
    ASSUME NEW rs, NEW b PROVE Linked(Idle, rs, b)
  BY DEF Linked, Idle, InScan

(***************************************************************************)
(* What the transaction that begins a fetch reads: a scan that completed   *)
(* in this session for the default range, and a run of this account, the   *)
(* only one that is bound.                                                 *)
(***************************************************************************)
LEMMA LinkedRead ==
    ASSUME TypeOK, EvidenceInv, NEW w \in Workers, NEW kind \in FetchKinds, ReadForFetch(w, kind)
    PROVE  Linked(worker'[w], runs, bound)
<1>1. PICK acc \in Accounts :
        /\ bound = {acc}
        /\ worker' = [worker EXCEPT ![w] =
              [pc |-> "read", kind |-> kind, session |-> session, account |-> acc,
               strategy |-> Strategy(kind, acc), run |-> Resumable(kind)]]
  BY DEF ReadForFetch
<1> DEFINE v == worker'[w]
<1>2. /\ v.pc = "read" /\ v.kind = kind /\ v.session = session /\ v.account = acc
      /\ v.strategy = Strategy(kind, acc) /\ v.run = Resumable(kind)
  BY <1>1 DEF TypeOK, WorkersType
<1> HIDE DEF v
<1>3. v.strategy = "default" => Scanned(runs, acc, session)
  <2>1. Strategy(kind, acc) = "default" => syncState[acc].complete /\ syncState[acc].session = session
    BY DEF Strategy
  <2> QED BY <1>2, <2>1 DEF EvidenceInv, SyncStates
<1>4. v.run # 0 => /\ v.run \in DOMAIN runs /\ runs[v.run].kind = kind
                   /\ runs[v.run].session = session /\ runs[v.run].account = acc
  <2> SUFFICES ASSUME v.run # 0
               PROVE  /\ v.run \in DOMAIN runs /\ runs[v.run].kind = kind
                      /\ runs[v.run].session = session /\ runs[v.run].account = acc
    OBVIOUS
  <2>1. v.run = activeRun /\ activeRun # 0 /\ runs[activeRun].kind = kind
        /\ runs[activeRun].session = session
    BY <1>2 DEF Resumable
  <2>2. activeRun \in DOMAIN runs
    BY <2>1, LenProperties DEF TypeOK, LeaseType, RunsType
  <2>3. runs[activeRun].account \in bound
    BY <2>1, <2>2 DEF EvidenceInv, RunsLinked, RunLinked
  <2> QED BY <1>1, <2>1, <2>2, <2>3
<1>5. "read" \notin InScan BY DEF InScan
<1>6. Linked(v, runs, bound) BY <1>1, <1>2, <1>3, <1>4, <1>5 DEF Linked
<1> QED BY <1>6 DEF v

(***************************************************************************)
(* Taking the lease: a resumed run is the one that was read, a new one is  *)
(* begun with what was read.                                               *)
(***************************************************************************)
LEMMA LinkedTakes ==
    ASSUME TypeOK, EvidenceInv, Grow, NEW w \in Workers, TakeLease(w)
    PROVE  Linked(worker'[w], runs', bound')
<1> DEFINE u == worker[w]
           v == worker'[w]
<1>1. u \in WorkerType /\ Linked(u, runs, bound) /\ u.run \in Nat /\ bound' = bound
  BY DEF TypeOK, WorkersType, EvidenceInv, WorkersLinked, TakeLease, WorkerType, Runs
<1>2. /\ v.strategy = u.strategy /\ v.account = u.account /\ v.session = u.session
      /\ v.kind = u.kind
      /\ v.run = IF u.run # 0 THEN u.run ELSE Len(runs) + 1
      /\ v.pc \in {"delete", "session"}
  BY <1>1 DEF TakeLease, TypeOK, WorkersType, WorkerType
<1>3. /\ v.run # 0 /\ v.run \in DOMAIN runs'
      /\ runs'[v.run].kind = u.kind /\ runs'[v.run].session = u.session
      /\ runs'[v.run].account = u.account
  <2>1. CASE u.run # 0
    <3>1. UNCHANGED runs BY <2>1, TakeLeaseRuns
    <3> QED BY <1>1, <1>2, <2>1, <3>1 DEF Linked
  <2>2. CASE u.run = 0
    <3>1. runs' = Append(runs, NewRun(w, u.kind)) BY <2>2, TakeLeaseRuns
    <3>2. /\ Len(runs) + 1 \in DOMAIN runs' /\ Len(runs) \in Nat
          /\ runs'[Len(runs) + 1] = NewRun(w, u.kind)
      BY <3>1, NewRunLast DEF TypeOK
    <3> QED BY <1>2, <2>2, <3>2 DEF NewRun
  <2> QED BY <2>1, <2>2
<1>4. v.strategy = "default" => Scanned(runs', v.account, v.session)
  BY <1>1, <1>2, ScannedStays DEF Linked
<1> HIDE DEF u, v
<1>5. Linked(v, runs', bound') BY <1>2, <1>3, <1>4 DEF Linked
<1> QED BY <1>5 DEF v

(***************************************************************************)
(* A step moves a worker on in its loop, sends it home, or is one of       *)
(* these.                                                                  *)
(***************************************************************************)
Moves(w) ==
    \E pc \in WorkerPCs :
        /\ pc # "read" /\ (pc \in InScan => worker[w].pc \in InScan)
        /\ worker' = [worker EXCEPT ![w] = [worker[w] EXCEPT !.pc = pc]]

Refuses(w) ==
    /\ worker' = [worker EXCEPT ![w] = worker'[w]]
    /\ worker'[w].run = 0 /\ worker'[w].strategy = "longest" /\ worker'[w].pc \notin InScan
    /\ worker'[w].pc = "read" => worker'[w].kind \notin FetchKinds

(***************************************************************************)
(* A step leaves a worker alone, ends it, moves it on, has it read the     *)
(* connection or an account, or gives it the lease.                        *)
(***************************************************************************)
LEMMA WorkerWriters ==
    ASSUME TypeOK, [Next]_vars
    PROVE  \/ UNCHANGED worker
           \/ \E w \in Workers :
                \/ Moves(w) \/ Refuses(w) \/ worker' = [worker EXCEPT ![w] = Idle]
                \/ TakeLease(w) \/ \E kind \in FetchKinds : ReadForFetch(w, kind)
<1> DEFINE Goal == \/ UNCHANGED worker
                   \/ \E w \in Workers :
                        \/ Moves(w) \/ Refuses(w) \/ worker' = [worker EXCEPT ![w] = Idle]
                        \/ TakeLease(w) \/ \E kind \in FetchKinds : ReadForFetch(w, kind)
<1>1. CASE UNCHANGED vars BY <1>1 DEF vars, stateVars
<1>2. ASSUME NEW w \in Workers,
             \/ ConsentExpired(w) \/ CompleteSync(w) \/ CompleteDiagnosticFetch(w)
             \/ FailRun(w) \/ CompleteDisconnect(w) \/ Crash(w)
      PROVE  Goal
  <2>1. worker' = [worker EXCEPT ![w] = Idle]
    BY <1>2 DEF ConsentExpired, CompleteSync, CompleteDiagnosticFetch, FailRun,
       CompleteDisconnect, Crash
  <2> QED BY <2>1
<1>3. ASSUME NEW w \in Workers,
             \/ CheckSession(w) \/ RenewLease(w) \/ ReadPage(w) \/ LeaseLost(w)
             \/ DeleteSession(w) \/ DeleteFails(w) \/ OperationFails(w)
      PROVE  Goal
  <2>1. \E pc \in {"scan", "page", "complete", "failed", "deleted"} :
           (pc \in InScan => worker[w].pc \in InScan) /\ Go(w, pc)
    BY <1>3 DEF CheckSession, RenewLease, ReadPage, LeaseLost, DeleteSession, DeleteFails,
       OperationFails, InScan
  <2>2. Moves(w) BY <2>1 DEF Moves, Go, WorkerPCs
  <2> QED BY <2>2
<1>4. ASSUME NEW w \in Workers, NEW kind \in FetchKinds, FindConsentOver(w, kind) PROVE Goal
  <2>1. worker' = [worker EXCEPT ![w] = [Idle EXCEPT !.pc = "consentOver", !.kind = kind]]
    BY <1>4 DEF FindConsentOver
  <2>2. worker'[w] = [Idle EXCEPT !.pc = "consentOver", !.kind = kind]
    BY <2>1 DEF TypeOK, WorkersType
  <2>3. worker'[w].run = 0 /\ worker'[w].strategy = "longest" /\ worker'[w].pc = "consentOver"
    BY <2>2 DEF Idle
  <2>4. worker' = [worker EXCEPT ![w] = worker'[w]] BY <2>1, <2>2, Zenon
  <2>5. Refuses(w) BY <2>3, <2>4 DEF Refuses, InScan
  <2> QED BY <2>5
<1>5. ASSUME NEW w \in Workers, ReadForDisconnect(w) PROVE Goal
  <2>1. worker' = [worker EXCEPT ![w] =
                     [Idle EXCEPT !.pc = "read", !.kind = "disconnect", !.session = session]]
    BY <1>5 DEF ReadForDisconnect
  <2>2. worker'[w] = [Idle EXCEPT !.pc = "read", !.kind = "disconnect", !.session = session]
    BY <2>1 DEF TypeOK, WorkersType
  <2>3. /\ worker'[w].run = 0 /\ worker'[w].strategy = "longest" /\ worker'[w].pc = "read"
        /\ worker'[w].kind = "disconnect"
    BY <2>2 DEF Idle
  <2>4. worker' = [worker EXCEPT ![w] = worker'[w]] BY <2>1, <2>2, Zenon
  <2>5. Refuses(w) BY <2>3, <2>4 DEF Refuses, InScan, FetchKinds
  <2> QED BY <2>5
<1>6. CASE FaultStep
  <2>1. \/ UNCHANGED worker
        \/ \E w \in Workers : DeleteFails(w) \/ OperationFails(w) \/ Crash(w)
    BY <1>6 DEF FaultStep, Expires, ExchangeFails, AuthorizationFails, WebCrash,
       ProviderEndsSession, ConsentElapses, LeaseExpires
  <2> QED BY <1>2, <1>3, <2>1
<1>7. CASE RegularStep
  <2>1. \/ UNCHANGED worker
        \/ \E w \in Workers : BeginStep(w) \/ WorkerStep(w)
    BY <1>7 DEF RegularStep, AttemptStep, CheckConnection, BeginAuthorization,
       StartAuthorization, ClaimAuthorization, CancelAuthorization, ExchangeCode,
       ActivateSession, FailAuthorization, BindProviderAccount, LeaseExpires
  <2>2. ASSUME NEW w \in Workers, BeginStep(w) PROVE Goal
    BY <1>2, <1>4, <1>5, <2>2 DEF BeginStep
  <2>3. ASSUME NEW w \in Workers, WorkerStep(w) PROVE Goal
    BY <1>2, <1>3, <2>3 DEF WorkerStep
  <2> QED BY <2>1, <2>2, <2>3
<1> QED BY <1>1, <1>6, <1>7 DEF Next

(***************************************************************************)
(* Bindings of accounts are not undone.                                    *)
(***************************************************************************)
LEMMA BoundGrows == ASSUME [Next]_vars PROVE bound \subseteq bound'
<1>1. CASE UNCHANGED vars BY <1>1 DEF vars, stateVars
<1>2. CASE FaultStep
  BY <1>2 DEF FaultStep, Expires, ExchangeFails, AuthorizationFails, WebCrash,
     ProviderEndsSession, DeleteFails, OperationFails, Crash, ConsentElapses, LeaseExpires
<1>3. CASE RegularStep
  BY <1>3 DEF RegularStep, AttemptStep, BeginStep, WorkerStep, CheckConnection,
     BeginAuthorization, StartAuthorization, ClaimAuthorization, CancelAuthorization,
     ExchangeCode, ActivateSession, FailAuthorization, BindProviderAccount, ReadForFetch,
     FindConsentOver, ConsentExpired, ReadForDisconnect, TakeLease, CheckSession, RenewLease,
     ReadPage, CompleteSync, CompleteDiagnosticFetch, CompleteDisconnect, FailRun, LeaseLost,
     DeleteSession, LeaseExpires
<1> QED BY <1>1, <1>2, <1>3 DEF Next

(***************************************************************************)
(* Every step keeps what the workers have read linked to the runs: a       *)
(* worker is linked when it reads, when it takes the lease, and while it   *)
(* moves through its scan.                                                 *)
(***************************************************************************)
LEMMA WorkersStep == ASSUME TypeOK, EvidenceInv, [Next]_vars PROVE WorkersLinked'
<1>1. Grow /\ bound \subseteq bound' BY RunsGrow, BoundGrows
<1>2. \A u \in Workers : Linked(worker[u], runs', bound')
  BY <1>1, LinkedStays DEF EvidenceInv, WorkersLinked
<1>3. SUFFICES ASSUME NEW w \in Workers, Linked(worker'[w], runs', bound'),
                      \A u \in Workers \ {w} : worker'[u] = worker[u]
               PROVE  WorkersLinked'
  <2>1. CASE UNCHANGED worker BY <1>2, <2>1 DEF WorkersLinked
  <2>2. worker \in [Workers -> WorkerType] BY DEF TypeOK, WorkersType
  <2>3. ASSUME NEW w \in Workers, Moves(w)
        PROVE  Linked(worker'[w], runs', bound') /\ \A u \in Workers \ {w} : worker'[u] = worker[u]
    <3>1. PICK pc \in WorkerPCs :
            /\ pc # "read" /\ (pc \in InScan => worker[w].pc \in InScan)
            /\ worker' = [worker EXCEPT ![w] = [worker[w] EXCEPT !.pc = pc]]
      BY <2>3 DEF Moves
    <3>2. Linked([worker[w] EXCEPT !.pc = pc], runs', bound')
      BY <1>2, <2>2, <3>1, LinkedGoes
    <3> QED BY <2>2, <3>1, <3>2
  <2>4. ASSUME NEW w \in Workers, Refuses(w)
        PROVE  Linked(worker'[w], runs', bound') /\ \A u \in Workers \ {w} : worker'[u] = worker[u]
    <3>1. Linked(worker'[w], runs', bound') BY <2>4, LinkedFresh DEF Refuses
    <3>2. worker' = [worker EXCEPT ![w] = worker'[w]] BY <2>4 DEF Refuses
    <3> QED BY <2>2, <3>1, <3>2
  <2>5. ASSUME NEW w \in Workers, worker' = [worker EXCEPT ![w] = Idle]
        PROVE  Linked(worker'[w], runs', bound') /\ \A u \in Workers \ {w} : worker'[u] = worker[u]
    BY <2>2, <2>5, LinkedIdle
  <2>6. ASSUME NEW w \in Workers, TakeLease(w)
        PROVE  Linked(worker'[w], runs', bound') /\ \A u \in Workers \ {w} : worker'[u] = worker[u]
    <3>1. \A u \in Workers \ {w} : worker'[u] = worker[u] BY <2>2, <2>6 DEF TakeLease
    <3> QED BY <1>1, <2>6, <3>1, LinkedTakes
  <2>7. ASSUME NEW w \in Workers, NEW kind \in FetchKinds, ReadForFetch(w, kind)
        PROVE  Linked(worker'[w], runs', bound') /\ \A u \in Workers \ {w} : worker'[u] = worker[u]
    <3>1. \A u \in Workers \ {w} : worker'[u] = worker[u] BY <2>2, <2>7 DEF ReadForFetch
    <3>2. Linked(worker'[w], runs, bound) BY <2>7, LinkedRead
    <3> QED BY <1>1, <3>1, <3>2, LinkedStays
  <2> QED BY <1>3, <2>1, <2>3, <2>4, <2>5, <2>6, <2>7, WorkerWriters
<1> QED BY <1>2, <1>3 DEF WorkersLinked

-----------------------------------------------------------------------------
(* Runs, sync states, revisions, proofs                                    *)

(***************************************************************************)
(* Only taking the lease begins a run.                                     *)
(***************************************************************************)
LEMMA RunDomain ==
    ASSUME TypeOK, [Next]_vars
    PROVE  \/ DOMAIN runs' = DOMAIN runs
           \/ \E w \in Workers : /\ TakeLease(w) /\ worker[w].run = 0
                                 /\ runs' = Append(runs, NewRun(w, worker[w].kind))
<1>1. CASE UNCHANGED runs BY <1>1
<1>2. ASSUME NEW w \in Workers, TakeLease(w), ~ UNCHANGED runs
      PROVE  worker[w].run = 0 /\ runs' = Append(runs, NewRun(w, worker[w].kind))
  BY <1>2, TakeLeaseRuns
<1>3. ASSUME NEW w \in Workers, CompleteSync(w) \/ CompleteDiagnosticFetch(w) \/ CompleteDisconnect(w)
      PROVE  DOMAIN runs' = DOMAIN runs
  BY <1>3 DEF CompleteSync, CompleteDiagnosticFetch, CompleteDisconnect
<1>4. ASSUME NEW w \in Workers, ReadPage(w) PROVE DOMAIN runs' = DOMAIN runs
  BY <1>4 DEF ReadPage
<1>5. ASSUME NEW w \in Workers, FailRun(w) PROVE DOMAIN runs' = DOMAIN runs
  BY <1>5 DEF FailRun
<1> QED BY <1>1, <1>2, <1>3, <1>4, <1>5, RunWriters

(***************************************************************************)
(* Every step keeps the default range of a run resting on a longest scan:  *)
(* a run begins with the strategy its worker has read.                     *)
(***************************************************************************)
LEMMA RunsStep == ASSUME TypeOK, EvidenceInv, [Next]_vars PROVE RunsLinked'
<1>1. Grow /\ bound \subseteq bound' BY RunsGrow, BoundGrows
<1>2. \A r \in DOMAIN runs : RunLinked(r, runs', bound')
  BY <1>1, RunLinkedStays DEF EvidenceInv, RunsLinked
<1>3. CASE DOMAIN runs' = DOMAIN runs BY <1>2, <1>3 DEF RunsLinked
<1>4. ASSUME NEW w \in Workers, TakeLease(w), worker[w].run = 0,
             runs' = Append(runs, NewRun(w, worker[w].kind))
      PROVE  RunsLinked'
  <2> DEFINE n == Len(runs) + 1
  <2>1. DOMAIN runs' = DOMAIN runs \cup {n} /\ runs'[n] = NewRun(w, worker[w].kind)
    BY <1>4, NewRunLast DEF TypeOK
  <2>2. Linked(worker[w], runs', bound')
    BY <1>1, LinkedStays DEF EvidenceInv, WorkersLinked
  <2>3. worker[w].pc = "read" BY <1>4 DEF TakeLease
  <2>4. /\ runs'[n].kind = worker[w].kind /\ runs'[n].session = worker[w].session
        /\ runs'[n].account = worker[w].account /\ runs'[n].strategy = worker[w].strategy
    BY <2>1 DEF NewRun
  <2>5. RunLinked(n, runs', bound') BY <2>2, <2>3, <2>4 DEF RunLinked, Linked
  <2> QED BY <1>2, <2>1, <2>5 DEF RunsLinked
<1> QED BY <1>3, <1>4, RunDomain

(***************************************************************************)
(* The holder of the lease that completes a sync: its run is one it read   *)
(* for this account and session, and is now complete.                      *)
(***************************************************************************)
LEMMA Completing ==
    ASSUME TypeOK, EvidenceInv, NEW w \in Workers, CompleteSync(w)
    PROVE  /\ worker[w].run \in DOMAIN runs'
           /\ Scan(runs', worker[w].run, worker[w].account, worker[w].session)
<1> DEFINE r == worker[w].run
<1>1. worker[w].pc = "complete" /\ worker[w].kind = "sync"
      /\ runs' = [runs EXCEPT ![r].status = "completed"]
  BY DEF CompleteSync
<1>2. Linked(worker[w], runs, bound) BY DEF EvidenceInv, WorkersLinked
<1>3. r # 0 BY <1>1, <1>2 DEF Linked, InScan
<1>4. r \in DOMAIN runs /\ runs[r].kind = "sync" /\ runs[r].session = worker[w].session
      /\ runs[r].account = worker[w].account /\ runs[r] \in RunType
  BY <1>1, <1>2, <1>3, RunElement DEF Linked, TypeOK
<1>5. r \in DOMAIN runs' /\ runs'[r] = [runs[r] EXCEPT !.status = "completed"]
  BY <1>1, <1>4
<1>6. Scan(runs', r, worker[w].account, worker[w].session)
  BY <1>4, <1>5 DEF Scan, RunType
<1> QED BY <1>5, <1>6

(***************************************************************************)
(* Evidence is written by pages and completions of syncs only.             *)
(***************************************************************************)
LEMMA EvidenceWriters ==
    ASSUME [Next]_vars
    PROVE  \/ UNCHANGED <<syncState, revision>>
           \/ \E w \in Workers : \/ CompleteSync(w)
                                 \/ ReadPage(w) /\ UNCHANGED syncState
<1>1. CASE UNCHANGED vars BY <1>1 DEF vars, stateVars
<1>2. CASE FaultStep
  BY <1>2 DEF FaultStep, Expires, ExchangeFails, AuthorizationFails, WebCrash, evidenceVars,
     ProviderEndsSession, DeleteFails, OperationFails, Crash, ConsentElapses, LeaseExpires
<1>3. ASSUME NEW w \in Workers, ReadPage(w) PROVE UNCHANGED syncState
  BY <1>3 DEF ReadPage
<1>4. CASE RegularStep
  BY <1>3, <1>4 DEF RegularStep, AttemptStep, BeginStep, WorkerStep, CheckConnection,
     BeginAuthorization, StartAuthorization, ClaimAuthorization, CancelAuthorization,
     ExchangeCode, ActivateSession, FailAuthorization, BindProviderAccount, ReadForFetch,
     FindConsentOver, ConsentExpired, ReadForDisconnect, TakeLease, CheckSession, RenewLease,
     CompleteDiagnosticFetch, CompleteDisconnect, FailRun, LeaseLost, DeleteSession,
     LeaseExpires, evidenceVars
<1> QED BY <1>1, <1>2, <1>4 DEF Next

(***************************************************************************)
(* Whatever the strategy of the worker that completes a sync, a longest    *)
(* scan has been completed in its session: its run itself, or one that the *)
(* run's strategy rests on.                                                *)
(***************************************************************************)
LEMMA SyncStep == ASSUME TypeOK, EvidenceInv, [Next]_vars PROVE SyncStates'
<1>1. Grow BY RunsGrow
<1>2. \A acc \in Accounts : syncState[acc].complete => Scanned(runs', acc, syncState[acc].session)
  BY <1>1, ScannedStays DEF EvidenceInv, SyncStates
<1>3. CASE UNCHANGED syncState BY <1>2, <1>3 DEF SyncStates
<1>4. ASSUME NEW w \in Workers, CompleteSync(w) PROVE SyncStates'
  <2> DEFINE r == worker[w].run
             a == worker[w].account
             s == worker[w].session
  <2>1. r \in DOMAIN runs' /\ Scan(runs', r, a, s) BY <1>4, Completing
  <2>2. RunLinked(r, runs', bound')
    BY <2>1, RunsStep DEF RunsLinked
  <2>3. runs'[r].strategy \in {"longest", "default"}
    <3>1. RunsType'
      <4>1. Types BY DEF TypeOK, Types
      <4>2. Types' BY <4>1, NextTypes, ConnectionAssumption
      <4> QED BY <4>2 DEF Types
    <3>2. runs'[r] \in RunType BY <2>1, <3>1, ElementOfSeq, LenProperties DEF RunsType
    <3> QED BY <3>2 DEF RunType, Strategies
  <2>4. Scanned(runs', a, s)
    <3>1. CASE runs'[r].strategy = "longest" BY <2>1, <3>1 DEF Scanned
    <3>2. CASE runs'[r].strategy = "default" BY <2>1, <2>2, <3>2 DEF RunLinked, Scan
    <3> QED BY <2>3, <3>1, <3>2
  <2>5. \A acc \in Accounts : \/ acc = a /\ syncState'[acc].session = s
                              \/ syncState'[acc] = syncState[acc]
    BY <1>4 DEF CompleteSync, TypeOK, EvidenceType
  <2> HIDE DEF a, s
  <2> QED BY <1>2, <2>4, <2>5 DEF SyncStates
<1> QED BY <1>3, <1>4, EvidenceWriters

(***************************************************************************)
(* Receipts become those of the run that read them, and scans of syncs     *)
(* that completed.                                                         *)
(***************************************************************************)
LEMMA RevisionStep == ASSUME TypeOK, EvidenceInv, [Next]_vars PROVE RevisionsLinked'
<1>1. Grow BY RunsGrow
<1>2. \A acc \in Accounts : RevisionLinked(revision[acc], runs')
  BY <1>1, RevisionStays DEF EvidenceInv, RevisionsLinked
<1>3. CASE UNCHANGED revision BY <1>2, <1>3 DEF RevisionsLinked
<1>4. revision \in [Accounts -> [receipt : Runs, first : Runs, replay : Runs]]
  BY DEF TypeOK, EvidenceType
<1>5. ASSUME NEW w \in Workers, ReadPage(w), ~ UNCHANGED revision PROVE RevisionsLinked'
  <2> DEFINE r == worker[w].run
  <2>1. /\ worker[w].pc = "page"
        /\ revision' = [revision EXCEPT ![worker[w].account].receipt = r]
        /\ runs' = [runs EXCEPT ![r].saw = TRUE]
    BY <1>5 DEF ReadPage
  <2>2. Linked(worker[w], runs, bound) BY DEF EvidenceInv, WorkersLinked
  <2>3. r # 0 /\ r \in DOMAIN runs BY <2>1, <2>2 DEF Linked, InScan
  <2>4. runs[r] \in RunType BY <2>3, RunElement DEF TypeOK
  <2>5. SawIt(r, runs') BY <2>1, <2>3, <2>4 DEF SawIt, RunType
  <2> HIDE DEF r
  <2>6. ASSUME NEW acc \in Accounts PROVE RevisionLinked(revision'[acc], runs')
    <3>1. /\ revision'[acc].first = revision[acc].first
          /\ revision'[acc].replay = revision[acc].replay
          /\ revision'[acc].receipt \in {revision[acc].receipt, r}
      BY <1>4, <2>1
    <3> QED BY <1>2, <2>5, <3>1 DEF RevisionLinked
  <2> QED BY <2>6 DEF RevisionsLinked
<1>6. ASSUME NEW w \in Workers, CompleteSync(w) PROVE RevisionsLinked'
  <2> DEFINE r == worker[w].run
             a == worker[w].account
             baseline == CompletedScan(runs, revision[a].first, a, worker[w].session)
  <2>1. revision' = [revision EXCEPT ![a] =
               IF @.receipt # r THEN @
               ELSE [receipt |-> r, first |-> IF baseline THEN @.first ELSE r,
                     replay |-> IF baseline /\ @.first # r THEN r ELSE 0]]
    BY <1>6 DEF CompleteSync
  <2>2. r \in DOMAIN runs' /\ runs'[r].kind = "sync" BY <1>6, Completing DEF Scan
  <2> HIDE DEF r, baseline
  <2>3. ASSUME NEW acc \in Accounts PROVE RevisionLinked(revision'[acc], runs')
    <3>1. \/ revision'[acc] = revision[acc]
          \/ /\ revision[acc].receipt = r /\ revision'[acc].receipt = r
             /\ revision'[acc].first \in {revision[acc].first, r}
             /\ revision'[acc].replay \in {0, r}
      BY <1>4, <2>1
    <3>2. RevisionLinked(revision[acc], runs') BY <1>2
    <3> QED BY <2>2, <3>1, <3>2 DEF RevisionLinked, SawIt
  <2> QED BY <2>3 DEF RevisionsLinked
<1> QED BY <1>3, <1>5, <1>6, EvidenceWriters

(***************************************************************************)
(* Accounts are written by activations, disconnects and completed syncs.   *)
(***************************************************************************)
LEMMA AccountWriters ==
    ASSUME [Next]_vars
    PROVE  \/ UNCHANGED account
           \/ \E a \in Attempts : ActivateSession(a)
           \/ \E w \in Workers : CompleteDisconnect(w) \/ CompleteSync(w)
<1>1. CASE UNCHANGED vars BY <1>1 DEF vars, stateVars
<1>2. CASE FaultStep
  BY <1>2 DEF FaultStep, Expires, ExchangeFails, AuthorizationFails, WebCrash,
     ProviderEndsSession, DeleteFails, OperationFails, Crash, ConsentElapses, LeaseExpires
<1>3. CASE RegularStep
  BY <1>3 DEF RegularStep, AttemptStep, BeginStep, WorkerStep, CheckConnection,
     BeginAuthorization, StartAuthorization, ClaimAuthorization, CancelAuthorization,
     ExchangeCode, FailAuthorization, BindProviderAccount, ReadForFetch, FindConsentOver,
     ConsentExpired, ReadForDisconnect, TakeLease, CheckSession, RenewLease, ReadPage,
     CompleteDiagnosticFetch, FailRun, LeaseLost, DeleteSession, LeaseExpires
<1> QED BY <1>1, <1>2, <1>3 DEF Next

(***************************************************************************)
(* A proof is given for two completed scans, and ends with the session.    *)
(***************************************************************************)
LEMMA ProofStep == ASSUME TypeOK, EvidenceInv, [Next]_vars PROVE ProofsStand'
<1>1. Grow BY RunsGrow
<1>2. \A acc \in Accounts : ProofStands(acc, account[acc], runs')
  BY <1>1, ProofStays DEF EvidenceInv, ProofsStand
<1>3. CASE UNCHANGED account BY <1>2, <1>3 DEF ProofsStand
<1>4. ASSUME NEW a \in Attempts, ActivateSession(a) PROVE ProofsStand'
  <2>1. \A acc \in Accounts : \/ account'[acc] = account[acc]
                              \/ account'[acc].proof = "none"
    BY <1>4 DEF ActivateSession
  <2>2. \A acc \in Accounts : ProofStands(acc, account'[acc], runs')
    BY <1>2, <2>1 DEF ProofStands
  <2> QED BY <2>2 DEF ProofsStand
<1>5. ASSUME NEW w \in Workers, CompleteDisconnect(w) PROVE ProofsStand'
  <2>1. \A acc \in Accounts : account'[acc].session = 0
    BY <1>5 DEF CompleteDisconnect, TypeOK, EvidenceType
  <2> QED BY <2>1 DEF ProofsStand, ProofStands
<1>6. ASSUME NEW w \in Workers, CompleteSync(w) PROVE ProofsStand'
  <2> DEFINE a == worker[w].account
             s == worker[w].session
  <2>1. account' = [account EXCEPT ![a].proof =
               IF account[a].session # s THEN @
               ELSE IF Proven(runs', a, s) THEN "transactions" ELSE "account"]
    BY <1>6 DEF CompleteSync
  <2>2. ASSUME NEW acc \in Accounts, account'[acc] # account[acc],
               account'[acc].proof = "transactions"
        PROVE  ProofStands(acc, account'[acc], runs')
    <3>1. acc = a /\ account'[acc].session = s /\ Proven(runs', a, s)
      <4>1. account \in [Accounts -> [session : Sessions, proof : {"none", "account", "transactions"}]]
        BY DEF TypeOK, EvidenceType
      <4> HIDE DEF a, s
      <4>2. acc = a BY <2>1, <2>2, <4>1
      <4>3. account'[acc].session = account[acc].session BY <2>1, <4>1
      <4>4. account[acc].session = s /\ Proven(runs', a, s)
        BY <2>1, <2>2, <4>1, <4>2
      <4> QED BY <4>2, <4>3, <4>4
    <3> DEFINE q == revision'[acc].first
               r == revision'[acc].replay
    <3>2. /\ q # r
          /\ CompletedScan(runs', q, acc, s) /\ CompletedScan(runs', r, acc, s)
      BY <3>1 DEF Proven
    <3>3. RevisionLinked(revision'[acc], runs') BY RevisionStep DEF RevisionsLinked
    <3> HIDE DEF q, r
    <3>4. \A x \in {q, r} : x \in DOMAIN runs' /\ runs'[x].saw /\ Scan(runs', x, acc, s)
      BY <3>2, <3>3 DEF RevisionLinked, SawIt, Scan, CompletedScan, q, r
    <3> QED BY <3>1, <3>2, <3>4 DEF ProofStands
  <2>3. ASSUME NEW acc \in Accounts PROVE ProofStands(acc, account'[acc], runs')
    <3>1. CASE account'[acc] = account[acc] BY <1>2, <3>1
    <3>2. CASE account'[acc].proof # "transactions" BY <3>2 DEF ProofStands
    <3> QED BY <2>2, <3>1, <3>2
  <2> QED BY <2>3 DEF ProofsStand
<1> QED BY <1>3, <1>4, <1>5, <1>6, AccountWriters

-----------------------------------------------------------------------------
(***************************************************************************)
(* The inductive invariant of what is concluded from scans.                *)
(***************************************************************************)
THEOREM EvidenceInvariant == Spec => []EvidenceInv
<1>1. Init => EvidenceInv
  <2> SUFFICES ASSUME Init PROVE EvidenceInv OBVIOUS
  <2>1. WorkersLinked BY LinkedIdle DEF Init, WorkersLinked
  <2>2. RunsLinked BY DEF Init, RunsLinked
  <2>3. SyncStates BY DEF Init, SyncStates
  <2>4. RevisionsLinked BY DEF Init, RevisionsLinked, RevisionLinked, SawIt
  <2>5. ProofsStand BY DEF Init, ProofsStand, ProofStands
  <2> QED BY <2>1, <2>2, <2>3, <2>4, <2>5 DEF EvidenceInv
<1>2. TypeOK /\ EvidenceInv /\ [Next]_vars => EvidenceInv'
  BY WorkersStep, RunsStep, SyncStep, RevisionStep, ProofStep DEF EvidenceInv
<1> QED BY <1>1, <1>2, TypeCorrect, PTL DEF Spec

(***************************************************************************)
(* A sync asks for the default range only when a longest scan of the same  *)
(* account has been completed in the same session, also when the worker    *)
(* has lost its lease, resumes another's run, or completes after a new     *)
(* authorization.                                                          *)
(***************************************************************************)
THEOREM LongestFirst == Spec => []LongestBeforeDefault
<1>1. EvidenceInv => LongestBeforeDefault
  BY DEF EvidenceInv, WorkersLinked, Linked, Scanned, Scan, LongestBeforeDefault, CompletedSync
<1> QED BY <1>1, EvidenceInvariant, PTL

(***************************************************************************)
(* The identity of an account's transactions is proven only by two         *)
(* completed syncs of that account in that session which both saw the      *)
(* booked transaction (ADR-039).                                           *)
(***************************************************************************)
THEOREM IdentityProven == Spec => []IdentityProvenInSession
<1>1. EvidenceInv => IdentityProvenInSession
  BY DEF EvidenceInv, ProofsStand, ProofStands, Scan, IdentityProvenInSession, CompletedSync
<1> QED BY <1>1, EvidenceInvariant, PTL
=============================================================================
