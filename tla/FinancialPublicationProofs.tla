---------------------- MODULE FinancialPublicationProofs ----------------------
(***************************************************************************)
(* What TLAPS proves of FinancialPublication, for every number of clients, *)
(* handlers, keys, versions, retries and faults.                           *)
(***************************************************************************)
EXTENDS FinancialPublication, TLAPS

(***************************************************************************)
(* Exactly the handler whose publication transaction is open holds the     *)
(* lock.                                                                   *)
(***************************************************************************)
LockInv == \A h \in Handlers : handler[h].pc = "publishing" <=> lock = h

(***************************************************************************)
(* There are jobs of committed versions only, and a job that waits for a   *)
(* retry has one left.                                                     *)
(***************************************************************************)
JobInv ==
    \A v \in Versions : /\ job[v] # "absent" => v <= ownerVersion
                        /\ job[v] = "retry" => attempts[v] < RetryLimit

(***************************************************************************)
(* What the control state of a handler says of the version it works for.   *)
(***************************************************************************)
Done(v) == run[v] # None \/ v < ownerVersion \/ facts[v] = Invalid

HandlerOK(h) ==
    LET pc == handler[h].pc
        v  == handler[h].version
    IN  pc # "idle" =>
          /\ v \in Versions
          /\ v <= ownerVersion
          /\ pc \in {"evaluated", "publishing"} =>
                handler[h].loaded = facts[v] /\ facts[v] # Invalid
          /\ pc = "publishing" => v = ownerVersion /\ run[v] = None
          /\ pc = "published" => run[v] # None
          /\ pc = "obsolete" => v < ownerVersion
          /\ pc \in {"permanent", "deadletter"} => facts[v] = Invalid
          /\ pc = "returned" => Done(v)

HandlerInv == \A h \in Handlers : HandlerOK(h)

(***************************************************************************)
(* The inductive invariant.                                                *)
(***************************************************************************)
IInv ==
    /\ TypeOK
    /\ LockInv
    /\ JobInv
    /\ HandlerInv
    /\ RunsMatchTheirFacts
    /\ AuthorityIsNewestRun
    /\ CompletedJobsAreSettled

-----------------------------------------------------------------------------

(***************************************************************************)
(* An idle handler is a well-formed one.                                   *)
(***************************************************************************)
LEMMA IdleType == Idle \in HandlerType
  BY PublicationAssumption DEF Idle, HandlerType, HandlerPCs

(***************************************************************************)
(* The inductive invariant holds before the first command.                 *)
(***************************************************************************)
LEMMA InitIInv == Init => IInv
<1> SUFFICES ASSUME Init PROVE IInv
    OBVIOUS
<1> USE PublicationAssumption DEF Init
<1>1. TypeOK
  BY IdleType DEF TypeOK, JobStates, Statuses, Rows, Versions
<1>2. LockInv /\ JobInv /\ HandlerInv
  BY DEF LockInv, JobInv, HandlerInv, HandlerOK, Idle, Versions
<1>3. RunsMatchTheirFacts /\ AuthorityIsNewestRun
  BY DEF RunsMatchTheirFacts, AuthorityIsNewestRun, Published
<1>4. CompletedJobsAreSettled
  BY DEF CompletedJobsAreSettled
<1> QED
  BY <1>1, <1>2, <1>3, <1>4 DEF IInv

(***************************************************************************)
(* A step of one handler to another control state keeps the handlers well  *)
(* formed and changes nothing else of them.                                *)
(***************************************************************************)
LEMMA GotoType ==
    ASSUME NEW h \in Handlers, NEW pc \in HandlerPCs, TypeOK, Goto(h, pc)
    PROVE  /\ handler' \in [Handlers -> HandlerType]
           /\ handler'[h].pc = pc
           /\ handler'[h].version = handler[h].version
           /\ handler'[h].attempt = handler[h].attempt
           /\ handler'[h].loaded = handler[h].loaded
           /\ \A g \in Handlers \ {h} : handler'[g] = handler[g]
  BY DEF TypeOK, Goto, HandlerType

(***************************************************************************)
(* Answering a caller adds a well-formed answer.                           *)
(***************************************************************************)
LEMMA AnswerType ==
    ASSUME NEW k \in Keys, NEW result \in CommandResults, told \subseteq Answers,
           Answer(k, result)
    PROVE  told' \subseteq Answers
<1> DEFINE answer == [key |-> k, request |-> result.request, version |-> result.version,
                      mutated |-> result.mutated]
<1>1. result.request \in Requests /\ result.version \in 0..MaxVersion /\ result.mutated \in BOOLEAN
  BY DEF CommandResults
<1>2. answer \in Answers
  BY <1>1 DEF Answers
<1> QED
  BY <1>2 DEF Answer

(***************************************************************************)
(* Every step keeps the state well formed; that attempts stays within      *)
(* RetryLimit rests on JobInv.                                             *)
(***************************************************************************)
LEMMA TypeStep == TypeOK /\ JobInv /\ HandlerInv /\ [Next]_vars => TypeOK'
<1> SUFFICES ASSUME TypeOK, JobInv, HandlerInv, [Next]_vars PROVE TypeOK'
    OBVIOUS
<1> USE PublicationAssumption DEF TypeOK
<1>1. ASSUME NEW c \in Clients, BeginCommand(c) PROVE TypeOK'
  BY <1>1 DEF BeginCommand, factVars, commandVars, jobVars, resultVars
<1>2. ASSUME NEW c \in Clients, NEW k \in Keys, NEW q \in Requests, Replay(c, k, q)
      PROVE TypeOK'
  <2>1. told' \subseteq Answers
    <3>1. CASE UNCHANGED told
      BY <3>1
    <3>2. CASE Answer(k, command[k])
      <4>1. command[k] \in CommandResults
        BY <1>2 DEF Replay
      <4> QED
        BY <3>2, <4>1, AnswerType
    <3> QED
      BY <1>2, <3>1, <3>2 DEF Replay
  <2> QED
    BY <1>2, <2>1 DEF Replay, EndCommand, factVars, jobVars, resultVars
<1>3. ASSUME NEW c \in Clients, NEW k \in Keys, NEW q \in Requests, CommitUnchanged(c, k, q)
      PROVE TypeOK'
  <2> DEFINE result == [request |-> q, version |-> ownerVersion, mutated |-> FALSE]
  <2>1. result \in CommandResults
    BY DEF CommandResults
  <2>2. told' \subseteq Answers
    BY <1>3, <2>1, AnswerType DEF CommitUnchanged
  <2>3. command' \in [Keys -> CommandResults \cup {None}]
    BY <1>3, <2>1 DEF CommitUnchanged
  <2> QED
    BY <1>3, <2>2, <2>3 DEF CommitUnchanged, EndCommand, factVars, jobVars, resultVars
<1>4. ASSUME NEW c \in Clients, NEW k \in Keys, NEW q \in Requests, CommitMutation(c, k, q)
      PROVE TypeOK'
  <2> DEFINE v == ownerVersion + 1
             result == [request |-> q, version |-> v, mutated |-> TRUE]
  <2>1. v \in Versions /\ ownerVersion' = v
    BY <1>4 DEF CommitMutation, Versions
  <2>2. result \in CommandResults
    BY <2>1 DEF CommandResults, Versions
  <2>3. told' \subseteq Answers
    BY <1>4, <2>2, AnswerType DEF CommitMutation
  <2>4. command' \in [Keys -> CommandResults \cup {None}]
    BY <1>4, <2>2 DEF CommitMutation
  <2>5. facts' \in [0..MaxVersion -> Contents \cup {Invalid}]
    BY <1>4 DEF CommitMutation
  <2>6. job' \in [Versions -> JobStates] /\ record' \in [Versions -> Statuses]
        /\ audit' \in [Versions -> Keys \cup {None}]
    BY <1>4 DEF CommitMutation, JobStates, Statuses
  <2> QED
    BY <1>4, <2>1, <2>3, <2>4, <2>5, <2>6
    DEF CommitMutation, EndCommand, resultVars, Versions
<1>5. ASSUME NEW c \in Clients, Abort(c) PROVE TypeOK'
  BY <1>5 DEF Abort, EndCommand, factVars, commandVars, jobVars, resultVars
<1>6. ASSUME NEW h \in Handlers, NEW v \in Versions, Fetch(h, v) PROVE TypeOK'
  <2>1. attempts' \in [Versions -> 0..RetryLimit] /\ job' \in [Versions -> JobStates]
    BY <1>6 DEF Fetch, JobInv, JobStates
  <2>2. handler' \in [Handlers -> HandlerType]
    BY <1>6, <2>1 DEF Fetch, HandlerType, HandlerPCs, Versions
  <2> QED
    BY <1>6, <2>1, <2>2 DEF Fetch, factVars, commandVars, resultVars
<1>7. ASSUME NEW h \in Handlers,
             \/ MarkRunning(h) \/ MarkCompleted(h) \/ MarkSuperseded(h)
             \/ MarkQueued(h) \/ MarkFailed(h)
      PROVE TypeOK'
  <2>1. \E pc \in HandlerPCs : Goto(h, pc)
    BY <1>7 DEF MarkRunning, MarkCompleted, MarkSuperseded, MarkQueued, MarkFailed, SetStatus,
                HandlerPCs
  <2>2. handler' \in [Handlers -> HandlerType]
    BY <2>1, GotoType
  <2>3. record' \in [Versions -> Statuses]
    BY <1>7 DEF MarkRunning, MarkCompleted, MarkSuperseded, MarkQueued, MarkFailed, SetStatus,
                Statuses
  <2> QED
    BY <1>7, <2>2, <2>3 DEF MarkRunning, MarkCompleted, MarkSuperseded, MarkQueued, MarkFailed,
                SetStatus, factVars, commandVars, jobVars, resultVars
<1>8. ASSUME NEW h \in Handlers, Assemble(h) PROVE TypeOK'
  <2>1. handler' \in [Handlers -> HandlerType]
    <3>1. CASE \E pc \in HandlerPCs : Goto(h, pc)
      BY <3>1, GotoType
    <3>2. CASE /\ facts[ownerVersion] \in Contents
               /\ handler' = [handler EXCEPT ![h] =
                     [pc |-> "evaluated", version |-> @.version,
                      attempt |-> @.attempt, loaded |-> facts[ownerVersion]]]
      <4>1. handler[h] \in HandlerType
        OBVIOUS
      <4> QED
        BY <3>2, <4>1 DEF HandlerType, HandlerPCs
    <3> QED
      BY <1>8, <3>1, <3>2 DEF Assemble, HandlerPCs
  <2> QED
    BY <1>8, <2>1 DEF Assemble, factVars, commandVars, jobVars, resultVars
<1>9. ASSUME NEW h \in Handlers, Publish(h) PROVE TypeOK'
  <2>1. \E pc \in HandlerPCs : Goto(h, pc)
    BY <1>9 DEF Publish, PublishNothing, PublishBegin, HandlerPCs
  <2>2. handler' \in [Handlers -> HandlerType]
    BY <2>1, GotoType
  <2> QED
    BY <1>9, <2>2 DEF Publish, PublishNothing, PublishBegin, factVars, commandVars, jobVars,
                      resultVars
<1>10. ASSUME NEW h \in Handlers, PublishCommit(h) PROVE TypeOK'
  <2> DEFINE v == handler[h].version
             result == handler[h].loaded
  <2>1. v \in Versions /\ result \in Contents \ {Invalid}
    BY <1>10 DEF PublishCommit, HandlerInv, HandlerOK, Versions
  <2>2. authority' \subseteq Rows
    BY <1>10, <2>1 DEF PublishCommit, Rows
  <2>3. successor' \in [Rows -> 0..MaxVersion]
    BY <1>10, <2>1 DEF PublishCommit, Rows, Versions
  <2>4. run' \in [Versions -> Contents \cup {None}]
    BY <1>10, <2>1 DEF PublishCommit
  <2>5. handler' \in [Handlers -> HandlerType]
    BY <1>10, GotoType DEF PublishCommit, HandlerPCs
  <2> QED
    BY <1>10, <2>2, <2>3, <2>4, <2>5 DEF PublishCommit, factVars, commandVars, jobVars
<1>11. ASSUME NEW h \in Handlers, SendDeadLetter(h) PROVE TypeOK'
  <2>1. handler' \in [Handlers -> HandlerType]
    BY <1>11, GotoType DEF SendDeadLetter, HandlerPCs
  <2>2. dead' \subseteq Versions
    BY <1>11 DEF SendDeadLetter, HandlerInv, HandlerOK
  <2> QED
    BY <1>11, <2>1, <2>2 DEF SendDeadLetter, factVars, commandVars, resultVars
<1>12. ASSUME NEW h \in Handlers, Settle(h) PROVE TypeOK'
  <2>1. handler' \in [Handlers -> HandlerType]
    BY <1>12, IdleType DEF Settle
  <2>2. /\ job' \in [Versions -> JobStates]
        /\ attempts' = attempts
        /\ dead' \subseteq Versions
    <3>1. handler[h].version \in Versions
      BY <1>12 DEF Settle, HandlerInv, HandlerOK
    <3> QED
      BY <1>12, <3>1 DEF Settle, FailJob, jobVars, JobStates
  <2> QED
    BY <1>12, <2>1, <2>2 DEF Settle, factVars, commandVars, resultVars
<1>13. ASSUME NEW h \in Handlers, StatementFails(h) PROVE TypeOK'
  <2>1. handler' \in [Handlers -> HandlerType]
    BY <1>13, GotoType DEF StatementFails, HandlerPCs
  <2> QED
    BY <1>13, <2>1 DEF StatementFails, Fault, ReleaseLock, factVars, commandVars, jobVars,
                       resultVars
<1>14. ASSUME NEW h \in Handlers, Crash(h) PROVE TypeOK'
  <2>1. handler' \in [Handlers -> HandlerType]
    BY <1>14, IdleType DEF Crash
  <2> QED
    BY <1>14, <2>1 DEF Crash, Fault, ReleaseLock, factVars, commandVars, jobVars, resultVars
<1>15. ASSUME NEW v \in Versions, ExpireOrphan(v) \/ ExpireRunning(v) PROVE TypeOK'
  <2>1. /\ job' \in [Versions -> JobStates]
        /\ attempts' = attempts
        /\ dead' \subseteq Versions
    BY <1>15 DEF ExpireOrphan, ExpireRunning, FailJob, JobStates
  <2>2. faults' \in 0..MaxFaults
    BY <1>15 DEF ExpireOrphan, ExpireRunning, Fault
  <2> QED
    BY <1>15, <2>1, <2>2 DEF ExpireOrphan, ExpireRunning, factVars, commandVars, resultVars
<1>16. ASSUME NEW v \in Versions, DeadLetter(v) PROVE TypeOK'
  <2>1. record' \in [Versions -> Statuses]
    BY <1>16 DEF DeadLetter, Statuses
  <2> QED
    BY <1>16, <2>1 DEF DeadLetter, factVars, commandVars, resultVars
<1>17. CASE UNCHANGED vars
  BY <1>17 DEF vars
<1> QED
  BY <1>1, <1>2, <1>3, <1>4, <1>5, <1>6, <1>7, <1>8, <1>9, <1>10, <1>11, <1>12, <1>13,
     <1>14, <1>15, <1>16, <1>17
  DEF Next, FinishCommand, HandlerStep, QueueStep

(***************************************************************************)
(* Every step keeps the owner's advisory lock with the handler that        *)
(* publishes.                                                              *)
(***************************************************************************)
LEMMA LockStep == TypeOK /\ LockInv /\ [Next]_vars => LockInv'
<1> SUFFICES ASSUME TypeOK, LockInv, [Next]_vars PROVE LockInv'
    OBVIOUS
<1> USE PublicationAssumption
<1>1. ASSUME NEW c \in Clients, BeginCommand(c) PROVE LockInv'
  BY <1>1 DEF BeginCommand, LockInv
<1>2. ASSUME NEW c \in Clients, FinishCommand(c) PROVE LockInv'
  <2>1. EndCommand(c)
    BY <1>2 DEF FinishCommand, Replay, CommitUnchanged, CommitMutation, Abort
  <2> QED
    BY <2>1 DEF EndCommand, LockInv
<1>3. ASSUME NEW h \in Handlers, NEW v \in Versions, Fetch(h, v) PROVE LockInv'
  <2>1. handler[h].pc # "publishing" /\ handler'[h].pc # "publishing" /\ lock' = lock
    BY <1>3 DEF Fetch, TypeOK
  <2>2. \A g \in Handlers \ {h} : handler'[g] = handler[g]
    BY <1>3 DEF Fetch, TypeOK
  <2> QED
    BY <2>1, <2>2 DEF LockInv
<1>4. ASSUME NEW h \in Handlers, NEW pc \in HandlerPCs \ {"publishing"}, Goto(h, pc),
             handler[h].pc # "publishing", lock' = lock
      PROVE LockInv'
  BY <1>4, GotoType DEF LockInv
<1>5. ASSUME NEW h \in Handlers,
             \/ MarkRunning(h) \/ MarkCompleted(h) \/ MarkSuperseded(h)
             \/ MarkQueued(h) \/ MarkFailed(h)
      PROVE LockInv'
  BY <1>4, <1>5 DEF MarkRunning, MarkCompleted, MarkSuperseded, MarkQueued, MarkFailed,
                    SetStatus, HandlerPCs
<1>6. ASSUME NEW h \in Handlers, Assemble(h) PROVE LockInv'
  <2>1. /\ handler[h].pc # "publishing" /\ handler'[h].pc # "publishing" /\ lock' = lock
        /\ \A g \in Handlers \ {h} : handler'[g] = handler[g]
    BY <1>6 DEF Assemble, Goto, TypeOK, HandlerType
  <2> QED
    BY <2>1 DEF LockInv
<1>7. ASSUME NEW h \in Handlers, PublishNothing(h) \/ SendDeadLetter(h) PROVE LockInv'
  BY <1>4, <1>7 DEF PublishNothing, SendDeadLetter, HandlerPCs
<1>8. ASSUME NEW h \in Handlers, PublishBegin(h) PROVE LockInv'
  BY <1>8, GotoType DEF PublishBegin, LockInv, HandlerPCs
<1>9. ASSUME NEW h \in Handlers, PublishCommit(h) PROVE LockInv'
  BY <1>9, GotoType DEF PublishCommit, LockInv, HandlerPCs
<1>10. ASSUME NEW h \in Handlers, Settle(h) PROVE LockInv'
  <2>1. /\ handler[h].pc # "publishing" /\ handler'[h].pc # "publishing" /\ lock' = lock
        /\ \A g \in Handlers \ {h} : handler'[g] = handler[g]
    BY <1>10 DEF Settle, Idle, TypeOK
  <2> QED
    BY <2>1 DEF LockInv
<1>11. ASSUME NEW h \in Handlers, StatementFails(h) PROVE LockInv'
  <2>1. PICK pc \in HandlerPCs \ {"publishing"} : Goto(h, pc)
    BY <1>11 DEF StatementFails, HandlerPCs
  <2> QED
    BY <1>11, <2>1, GotoType DEF StatementFails, ReleaseLock, LockInv
<1>12. ASSUME NEW h \in Handlers, Crash(h) PROVE LockInv'
  <2>1. /\ handler'[h].pc # "publishing"
        /\ \A g \in Handlers \ {h} : handler'[g] = handler[g]
    BY <1>12 DEF Crash, Idle, TypeOK
  <2> QED
    BY <1>12, <2>1 DEF Crash, ReleaseLock, LockInv
<1>13. ASSUME NEW v \in Versions, ExpireOrphan(v) \/ ExpireRunning(v) \/ DeadLetter(v)
       PROVE LockInv'
  BY <1>13 DEF ExpireOrphan, ExpireRunning, DeadLetter, LockInv
<1>14. CASE UNCHANGED vars
  BY <1>14 DEF vars, LockInv
<1> QED
  BY <1>1, <1>2, <1>3, <1>5, <1>6, <1>7, <1>8, <1>9, <1>10, <1>11, <1>12, <1>13, <1>14
  DEF Next, HandlerStep, Publish, QueueStep

(***************************************************************************)
(* Every step keeps JobInv: no job is ahead of the owner's version or has  *)
(* a retry too many.                                                       *)
(***************************************************************************)
LEMMA JobStep == TypeOK /\ JobInv /\ HandlerInv /\ [Next]_vars => JobInv'
<1> SUFFICES ASSUME TypeOK, JobInv, HandlerInv, [Next]_vars PROVE JobInv'
    OBVIOUS
<1> USE PublicationAssumption DEF JobInv
<1>1. ASSUME job' = job, attempts' = attempts, ownerVersion' = ownerVersion PROVE JobInv'
  BY <1>1
<1>2. ASSUME NEW c \in Clients, NEW k \in Keys, NEW q \in Requests, CommitMutation(c, k, q)
      PROVE JobInv'
  BY <1>2 DEF CommitMutation, TypeOK, Versions
<1>3. ASSUME NEW h \in Handlers, NEW v \in Versions, Fetch(h, v) PROVE JobInv'
  BY <1>3 DEF Fetch, TypeOK, Versions, factVars
<1>4. ASSUME NEW v \in Versions, job[v] # "absent", FailJob(v), ownerVersion' = ownerVersion
      PROVE JobInv'
  BY <1>4 DEF FailJob, TypeOK
<1>5. ASSUME NEW h \in Handlers, Settle(h) PROVE JobInv'
  <2>1. ownerVersion' = ownerVersion
    BY <1>5 DEF Settle, factVars
  <2>2. CASE UNCHANGED jobVars
    BY <1>1, <2>1, <2>2 DEF jobVars
  <2>3. CASE Owns(h, handler[h].version)
    <3>1. handler[h].version \in Versions /\ job[handler[h].version] = "active"
      BY <2>3 DEF Owns, HandlerInv, HandlerOK
    <3>2. CASE FailJob(handler[h].version)
      BY <1>4, <2>1, <3>1, <3>2
    <3>3. CASE /\ job' = [job EXCEPT ![handler[h].version] = "completed"]
               /\ attempts' = attempts
      BY <2>1, <3>1, <3>3 DEF TypeOK
    <3> QED
      BY <1>5, <2>3, <3>2, <3>3 DEF Settle
  <2> QED
    BY <1>5, <2>2, <2>3 DEF Settle
<1>6. ASSUME NEW v \in Versions, ExpireOrphan(v) \/ ExpireRunning(v) PROVE JobInv'
  BY <1>4, <1>6 DEF ExpireOrphan, ExpireRunning, factVars
<1>7. ASSUME NEW c \in Clients, BeginCommand(c) \/ Abort(c) PROVE JobInv'
  BY <1>1, <1>7 DEF BeginCommand, Abort, factVars, jobVars
<1>8. ASSUME NEW c \in Clients, NEW k \in Keys, NEW q \in Requests,
             Replay(c, k, q) \/ CommitUnchanged(c, k, q)
      PROVE JobInv'
  BY <1>1, <1>8 DEF Replay, CommitUnchanged, factVars, jobVars
<1>9. ASSUME NEW h \in Handlers,
             \/ MarkRunning(h) \/ MarkCompleted(h) \/ MarkSuperseded(h)
             \/ MarkQueued(h) \/ MarkFailed(h)
      PROVE JobInv'
  BY <1>1, <1>9 DEF MarkRunning, MarkCompleted, MarkSuperseded, MarkQueued, MarkFailed,
                    SetStatus, factVars, jobVars
<1>10. ASSUME NEW h \in Handlers,
              \/ Assemble(h) \/ Publish(h) \/ PublishCommit(h) \/ SendDeadLetter(h)
              \/ StatementFails(h) \/ Crash(h)
       PROVE JobInv'
  BY <1>1, <1>10 DEF Assemble, Publish, PublishNothing, PublishBegin, PublishCommit,
                     SendDeadLetter, StatementFails, Crash, factVars, jobVars
<1>11. ASSUME NEW v \in Versions, DeadLetter(v) PROVE JobInv'
  BY <1>1, <1>11 DEF DeadLetter, factVars
<1>12. CASE UNCHANGED vars
  BY <1>1, <1>12 DEF vars
<1> QED
  BY <1>2, <1>3, <1>5, <1>6, <1>7, <1>8, <1>9, <1>10, <1>11, <1>12
  DEF Next, FinishCommand, HandlerStep, QueueStep

(***************************************************************************)
(* The current version, the facts and the results change by two actions    *)
(* only: a command that mutates facts, and a publication that commits.     *)
(***************************************************************************)
LEMMA ResultFrame ==
    ASSUME [Next]_vars,
           ~ \E c \in Clients, k \in Keys, q \in Requests : CommitMutation(c, k, q),
           ~ \E h \in Handlers : PublishCommit(h)
    PROVE  UNCHANGED <<ownerVersion, facts, run, authority, successor>>
<1>1. ASSUME NEW c \in Clients, BeginCommand(c) \/ Abort(c)
      PROVE  UNCHANGED <<ownerVersion, facts, run, authority, successor>>
  BY <1>1 DEF BeginCommand, Abort, EndCommand, factVars, resultVars
<1>2. ASSUME NEW c \in Clients, NEW k \in Keys, NEW q \in Requests,
             Replay(c, k, q) \/ CommitUnchanged(c, k, q)
      PROVE  UNCHANGED <<ownerVersion, facts, run, authority, successor>>
  BY <1>2 DEF Replay, CommitUnchanged, EndCommand, factVars, resultVars
<1>3. ASSUME NEW h \in Handlers,
             \/ MarkRunning(h) \/ MarkCompleted(h) \/ MarkSuperseded(h)
             \/ MarkQueued(h) \/ MarkFailed(h) \/ Assemble(h) \/ SendDeadLetter(h)
             \/ Settle(h) \/ Publish(h) \/ StatementFails(h) \/ Crash(h)
      PROVE  UNCHANGED <<ownerVersion, facts, run, authority, successor>>
  BY <1>3 DEF MarkRunning, MarkCompleted, MarkSuperseded, MarkQueued, MarkFailed, SetStatus,
              Assemble, SendDeadLetter, Settle, Publish, PublishNothing, PublishBegin,
              StatementFails, Crash, factVars, resultVars
<1>4. ASSUME NEW v \in Versions, QueueStep(v)
      PROVE  UNCHANGED <<ownerVersion, facts, run, authority, successor>>
  BY <1>4 DEF QueueStep, Fetch, ExpireOrphan, ExpireRunning, DeadLetter, factVars, resultVars
<1>5. CASE UNCHANGED vars
  BY <1>5 DEF vars
<1> QED
  BY <1>1, <1>2, <1>3, <1>4, <1>5 DEF Next, FinishCommand, HandlerStep

(***************************************************************************)
(* What a mutation does to the versions there were: nothing.               *)
(***************************************************************************)
LEMMA MutationFacts ==
    ASSUME NEW c \in Clients, NEW k \in Keys, NEW q \in Requests, CommitMutation(c, k, q),
           TypeOK
    PROVE  /\ ownerVersion' = ownerVersion + 1
           /\ ownerVersion' \in Versions
           /\ \A v \in Versions : v <= ownerVersion => facts'[v] = facts[v]
           /\ UNCHANGED <<handler, run, authority, successor>>
           /\ lock = c
           /\ \A v \in Versions : job'[v] = "completed" => job[v] = "completed"
  BY PublicationAssumption
  DEF CommitMutation, EndCommand, TypeOK, Versions, resultVars

(***************************************************************************)
(* What a publication that commits does: the run of the current version,   *)
(* which had none, is the evaluation of its facts.                         *)
(***************************************************************************)
LEMMA PublicationFacts ==
    ASSUME NEW h \in Handlers, PublishCommit(h), TypeOK, HandlerInv
    PROVE  /\ handler[h].version = ownerVersion
           /\ ownerVersion \in Versions
           /\ run[ownerVersion] = None
           /\ facts[ownerVersion] # Invalid
           /\ facts[ownerVersion] \in Contents
           /\ run' = [run EXCEPT ![ownerVersion] = facts[ownerVersion]]
           /\ authority' = {ownerVersion} \X facts[ownerVersion]
           /\ UNCHANGED <<ownerVersion, facts, job>>
<1>1. /\ handler[h].version = ownerVersion
      /\ ownerVersion \in Versions
      /\ run[ownerVersion] = None
      /\ facts[ownerVersion] # Invalid
      /\ handler[h].loaded = facts[ownerVersion]
  BY DEF PublishCommit, HandlerInv, HandlerOK
<1>2. facts[ownerVersion] \in Contents
  BY <1>1 DEF TypeOK, Versions
<1> QED
  BY <1>1, <1>2 DEF PublishCommit, factVars, jobVars

(***************************************************************************)
(* Every step keeps each completed run the evaluation of its version's     *)
(* facts.                                                                  *)
(***************************************************************************)
LEMMA RunsStep == IInv /\ [Next]_vars => RunsMatchTheirFacts'
<1> SUFFICES ASSUME IInv, [Next]_vars PROVE RunsMatchTheirFacts'
    OBVIOUS
<1> USE DEF IInv
<1>1. \A v \in Versions : run[v] # None => v <= ownerVersion /\ run[v] = facts[v]
  BY DEF RunsMatchTheirFacts, Published
<1>2. SUFFICES ASSUME NEW v \in Versions, run'[v] # None
               PROVE  v <= ownerVersion' /\ run'[v] = facts'[v]
  BY DEF RunsMatchTheirFacts, Published
<1>3. v \in Nat /\ ownerVersion \in Nat
  BY DEF TypeOK, Versions
<1>4. ASSUME NEW c \in Clients, NEW k \in Keys, NEW q \in Requests, CommitMutation(c, k, q)
      PROVE  v <= ownerVersion' /\ run'[v] = facts'[v]
  <2>1. /\ ownerVersion' = ownerVersion + 1 /\ run' = run
        /\ v <= ownerVersion => facts'[v] = facts[v]
    BY <1>4, MutationFacts
  <2> QED
    BY <1>1, <1>2, <1>3, <2>1
<1>5. ASSUME NEW h \in Handlers, PublishCommit(h)
      PROVE  v <= ownerVersion' /\ run'[v] = facts'[v]
  <2>1. /\ run' = [run EXCEPT ![ownerVersion] = facts[ownerVersion]]
        /\ ownerVersion' = ownerVersion /\ facts' = facts
    BY <1>5, PublicationFacts
  <2> QED
    BY <1>1, <1>2, <1>3, <2>1 DEF TypeOK
<1> QED
  BY <1>1, <1>2, <1>4, <1>5, ResultFrame

(***************************************************************************)
(* Every step keeps the authoritative rows those of the newest completed   *)
(* run.                                                                    *)
(***************************************************************************)
LEMMA AuthorityStep == IInv /\ [Next]_vars => AuthorityIsNewestRun'
<1> SUFFICES ASSUME IInv, [Next]_vars PROVE AuthorityIsNewestRun'
    OBVIOUS
<1> USE PublicationAssumption DEF IInv, AuthorityIsNewestRun, Published
<1>1. ASSUME NEW c \in Clients, NEW k \in Keys, NEW q \in Requests, CommitMutation(c, k, q)
      PROVE AuthorityIsNewestRun'
  BY <1>1, MutationFacts
<1>2. ASSUME NEW h \in Handlers, PublishCommit(h) PROVE AuthorityIsNewestRun'
  <2>1. run'[ownerVersion] = facts[ownerVersion] /\ facts[ownerVersion] # None
        /\ ownerVersion \in Versions
    BY <1>2, PublicationFacts DEF TypeOK
  <2>2. authority' = {ownerVersion} \X run'[ownerVersion]
    BY <1>2, <2>1, PublicationFacts
  <2>3. ASSUME NEW w \in Versions, run'[w] # None PROVE w <= ownerVersion
    <3>1. run' = [run EXCEPT ![ownerVersion] = facts[ownerVersion]]
      BY <1>2, PublicationFacts
    <3>2. run[w] # None => w <= ownerVersion
      BY DEF RunsMatchTheirFacts
    <3> QED
      BY <2>1, <2>3, <3>1, <3>2 DEF TypeOK, Versions
  <2> QED
    BY <2>1, <2>2, <2>3
<1> QED
  BY <1>1, <1>2, ResultFrame

(***************************************************************************)
(* What settles a version cannot be undone by a later step.                *)
(***************************************************************************)
LEMMA DoneStep ==
    ASSUME IInv, [Next]_vars, NEW v \in Versions, v <= ownerVersion, Done(v)
    PROVE  Done(v)'
<1> USE PublicationAssumption DEF IInv, Done
<1>1. ASSUME NEW c \in Clients, NEW k \in Keys, NEW q \in Requests, CommitMutation(c, k, q)
      PROVE Done(v)'
  <2>1. /\ ownerVersion' = ownerVersion + 1 /\ run' = run
        /\ facts'[v] = facts[v]
    BY <1>1, MutationFacts
  <2>2. v < ownerVersion'
    BY <2>1 DEF TypeOK, Versions
  <2> QED
    BY <2>2
<1>2. ASSUME NEW h \in Handlers, PublishCommit(h) PROVE Done(v)'
  BY <1>2, PublicationFacts DEF TypeOK
<1> QED
  BY <1>1, <1>2, ResultFrame

(***************************************************************************)
(* Every step keeps CompletedJobsAreSettled: pg-boss completes a job only  *)
(* for a handler that returned, and a handler returns only when its        *)
(* version is done.                                                        *)
(***************************************************************************)
LEMMA CompletedStep == IInv /\ [Next]_vars => CompletedJobsAreSettled'
<1> SUFFICES ASSUME IInv, [Next]_vars PROVE CompletedJobsAreSettled'
    OBVIOUS
<1>1. SUFFICES ASSUME NEW v \in Versions, job'[v] = "completed" PROVE Done(v)'
  BY DEF CompletedJobsAreSettled, Done, Published
<1>2. CASE job[v] = "completed"
  <2>1. Done(v) /\ v <= ownerVersion
    BY <1>2 DEF IInv, CompletedJobsAreSettled, Done, Published, JobInv
  <2> QED
    BY <2>1, DoneStep
<1>3. CASE \E h \in Handlers : /\ Settle(h) /\ handler[h].version = v
                               /\ handler[h].pc = "returned"
  <2>1. Done(v) /\ v <= ownerVersion
    BY <1>3 DEF IInv, HandlerInv, HandlerOK
  <2> QED
    BY <2>1, DoneStep
<1> USE DEF IInv
<1>4. job' = job => job[v] = "completed"
  BY <1>1
<1>5. ASSUME NEW w \in Versions, FailJob(w) PROVE job[v] = "completed"
  BY <1>1, <1>5 DEF FailJob, TypeOK
<1>6. ASSUME NEW h \in Handlers, Settle(h) PROVE Done(v)'
  <2>1. CASE Owns(h, handler[h].version) /\ handler[h].pc = "threw"
    BY <1>2, <1>5, <1>6, <2>1 DEF Settle, Owns, HandlerInv, HandlerOK
  <2>2. CASE Owns(h, handler[h].version) /\ handler[h].pc = "returned"
    <3>1. job' = [job EXCEPT ![handler[h].version] = "completed"]
      BY <1>6, <2>2 DEF Settle
    <3> QED
      BY <1>1, <1>2, <1>3, <1>6, <2>2, <3>1 DEF TypeOK
  <2>3. CASE ~ Owns(h, handler[h].version)
    BY <1>2, <1>4, <1>6, <2>3 DEF Settle, jobVars
  <2> QED
    BY <1>6, <2>1, <2>2, <2>3 DEF Settle
<1>7. ASSUME NEW c \in Clients, NEW k \in Keys, NEW q \in Requests, CommitMutation(c, k, q)
      PROVE job[v] = "completed"
  BY <1>1, <1>7, MutationFacts
<1>8. ASSUME NEW h \in Handlers, NEW w \in Versions, Fetch(h, w) PROVE job[v] = "completed"
  BY <1>1, <1>8 DEF Fetch, TypeOK
<1>9. ASSUME NEW w \in Versions, ExpireOrphan(w) \/ ExpireRunning(w)
      PROVE job[v] = "completed"
  BY <1>5, <1>9 DEF ExpireOrphan, ExpireRunning
<1>10. ASSUME NEW c \in Clients,
              \/ BeginCommand(c) \/ Abort(c)
              \/ \E k \in Keys, q \in Requests : Replay(c, k, q) \/ CommitUnchanged(c, k, q)
       PROVE job[v] = "completed"
  BY <1>4, <1>10 DEF BeginCommand, Abort, Replay, CommitUnchanged, jobVars
<1>11. ASSUME NEW h \in Handlers,
              \/ MarkRunning(h) \/ MarkCompleted(h) \/ MarkSuperseded(h)
              \/ MarkQueued(h) \/ MarkFailed(h) \/ Assemble(h) \/ Publish(h)
              \/ PublishCommit(h) \/ SendDeadLetter(h) \/ StatementFails(h) \/ Crash(h)
       PROVE job[v] = "completed"
  BY <1>4, <1>11 DEF MarkRunning, MarkCompleted, MarkSuperseded, MarkQueued, MarkFailed,
                     SetStatus, Assemble, Publish, PublishNothing, PublishBegin, PublishCommit,
                     SendDeadLetter, StatementFails, Crash, jobVars
<1>12. ASSUME NEW w \in Versions, DeadLetter(w) PROVE job[v] = "completed"
  BY <1>4, <1>12 DEF DeadLetter
<1>13. CASE UNCHANGED vars
  BY <1>2, <1>4, <1>13 DEF vars
<1> QED
  BY <1>2, <1>6, <1>7, <1>8, <1>9, <1>10, <1>11, <1>12, <1>13
  DEF Next, FinishCommand, HandlerStep, QueueStep

(***************************************************************************)
(* Every step keeps what the control state of each handler says of its     *)
(* version, of the other handlers too.                                     *)
(***************************************************************************)
LEMMA HandlerInvStep == IInv /\ [Next]_vars => HandlerInv'
<1> SUFFICES ASSUME IInv, [Next]_vars PROVE HandlerInv'
    OBVIOUS
<1> USE DEF IInv
<1>1. SUFFICES ASSUME NEW g \in Handlers PROVE HandlerOK(g)'
  BY DEF HandlerInv
<1>2. HandlerOK(g) /\ ownerVersion \in Nat /\ (handler[g].pc # "idle" => handler[g].version \in Nat)
  BY DEF HandlerInv, HandlerOK, TypeOK, Versions
<1>3. ASSUME UNCHANGED <<ownerVersion, facts, run>>, handler'[g] = handler[g]
      PROVE HandlerOK(g)'
  BY <1>2, <1>3 DEF HandlerOK, Done
<1>4. ASSUME NEW c \in Clients, NEW k \in Keys, NEW q \in Requests, CommitMutation(c, k, q)
      PROVE HandlerOK(g)'
  <2> DEFINE v == handler[g].version
  <2>1. handler[g].pc # "publishing"
    BY <1>4, MutationFacts, PublicationAssumption DEF LockInv
  <2>2. UNCHANGED <<handler, run>> /\ ownerVersion' = ownerVersion + 1
    BY <1>4, MutationFacts
  <2>3. v \in Versions /\ v <= ownerVersion => facts'[v] = facts[v]
    BY <1>4, MutationFacts
  <2>4. handler[g].pc = "returned" => Done(v)'
    BY <1>2, <2>2, <2>3 DEF HandlerOK, Done
  <2>5. handler[g].pc # "idle" => v <= ownerVersion' /\ (v < ownerVersion => v < ownerVersion')
    BY <1>2, <2>2 DEF HandlerOK
  <2> QED
    BY <1>2, <2>1, <2>2, <2>3, <2>4, <2>5 DEF HandlerOK
<1>5. ASSUME NEW h \in Handlers, PublishCommit(h) PROVE HandlerOK(g)'
  <2>1. /\ run' = [run EXCEPT ![ownerVersion] = facts[ownerVersion]]
        /\ UNCHANGED <<ownerVersion, facts>>
        /\ handler[h].version = ownerVersion /\ ownerVersion \in Versions
        /\ facts[ownerVersion] \in Contents
    BY <1>5, PublicationFacts
  <2>2. run'[ownerVersion] # None /\ \A v \in Versions : run[v] # None => run'[v] # None
    BY <2>1, PublicationAssumption DEF TypeOK
  <2>3. /\ handler'[h].pc = "published" /\ handler'[h].version = ownerVersion
        /\ g # h => handler'[g] = handler[g]
    BY <1>5, <2>1, GotoType DEF PublishCommit, HandlerPCs
  <2>4. g # h => handler[g].pc # "publishing"
    BY <1>5 DEF PublishCommit, LockInv
  <2>5. CASE g = h
    BY <2>1, <2>2, <2>3, <2>5 DEF HandlerOK, Versions
  <2>6. CASE g # h
    BY <1>2, <2>1, <2>2, <2>3, <2>4, <2>6 DEF HandlerOK, Done
  <2> QED
    BY <2>5, <2>6
<1>6. ASSUME NEW h \in Handlers, NEW pc \in HandlerPCs, Goto(h, pc),
             UNCHANGED <<ownerVersion, facts, run>>, handler[h].pc # "idle",
             LET v == handler[h].version
             IN  /\ pc \in {"evaluated", "publishing"} =>
                       handler[h].loaded = facts[v] /\ facts[v] # Invalid
                 /\ pc = "publishing" => v = ownerVersion /\ run[v] = None
                 /\ pc = "published" => run[v] # None
                 /\ pc = "obsolete" => v < ownerVersion
                 /\ pc \in {"permanent", "deadletter"} => facts[v] = Invalid
                 /\ pc = "returned" => Done(v)
      PROVE  HandlerOK(g)'
  <2>1. CASE g = h
    <3>1. handler'[h].pc = pc /\ handler'[h].version = handler[h].version
          /\ handler'[h].loaded = handler[h].loaded
      BY <1>6, GotoType
    <3> QED
      BY <1>2, <1>6, <2>1, <3>1 DEF HandlerOK, Done
  <2>2. CASE g # h
    BY <1>3, <1>6, <2>2, GotoType
  <2> QED
    BY <2>1, <2>2
<1>7. ASSUME NEW h \in Handlers, UNCHANGED <<ownerVersion, facts, run>>,
             handler' = [handler EXCEPT ![h] = Idle]
      PROVE  HandlerOK(g)'
  <2>1. CASE g = h
    BY <1>7, <2>1 DEF TypeOK, HandlerOK, Idle
  <2>2. CASE g # h
    BY <1>3, <1>7, <2>2 DEF TypeOK
  <2> QED
    BY <2>1, <2>2
<1>8. ASSUME NEW h \in Handlers, MarkRunning(h) PROVE HandlerOK(g)'
  BY <1>6, <1>8 DEF MarkRunning, SetStatus, HandlerPCs, factVars, resultVars
<1>9. ASSUME NEW h \in Handlers, MarkCompleted(h) PROVE HandlerOK(g)'
  <2>1. Done(handler[h].version)
    BY <1>9 DEF MarkCompleted, SetStatus, HandlerInv, HandlerOK, Done
  <2> QED
    BY <1>6, <1>9, <2>1 DEF MarkCompleted, SetStatus, HandlerPCs, factVars, resultVars
<1>10. ASSUME NEW h \in Handlers, MarkSuperseded(h) PROVE HandlerOK(g)'
  <2>1. Done(handler[h].version)
    BY <1>10 DEF MarkSuperseded, SetStatus, HandlerInv, HandlerOK, Done
  <2> QED
    BY <1>6, <1>10, <2>1 DEF MarkSuperseded, SetStatus, HandlerPCs, factVars, resultVars
<1>11. ASSUME NEW h \in Handlers, MarkQueued(h) PROVE HandlerOK(g)'
  BY <1>6, <1>11 DEF MarkQueued, SetStatus, HandlerPCs, factVars, resultVars
<1>12. ASSUME NEW h \in Handlers, MarkFailed(h) PROVE HandlerOK(g)'
  <2>1. facts[handler[h].version] = Invalid
    BY <1>12 DEF MarkFailed, SetStatus, HandlerInv, HandlerOK
  <2> QED
    BY <1>6, <1>12, <2>1 DEF MarkFailed, SetStatus, HandlerPCs, factVars, resultVars
<1>13. ASSUME NEW h \in Handlers, Assemble(h) PROVE HandlerOK(g)'
  <2> DEFINE v == handler[h].version
  <2>1. /\ UNCHANGED <<ownerVersion, facts, run>> /\ handler[h].pc = "assemble"
        /\ v \in Versions /\ v <= ownerVersion /\ v \in Nat
    BY <1>13 DEF Assemble, factVars, resultVars, HandlerInv, HandlerOK, Versions
  <2>2. CASE ownerVersion # v
    <3>1. v < ownerVersion
      BY <1>2, <2>1, <2>2
    <3> QED
      BY <1>6, <1>13, <2>1, <2>2, <3>1 DEF Assemble, HandlerPCs
  <2>3. CASE ownerVersion = v /\ facts[v] = Invalid
    BY <1>6, <1>13, <2>1, <2>3 DEF Assemble, HandlerPCs
  <2>4. CASE ownerVersion = v /\ facts[v] # Invalid
    <3>1. /\ handler'[h].pc = "evaluated" /\ handler'[h].version = v
          /\ handler'[h].loaded = facts[v]
          /\ g # h => handler'[g] = handler[g]
      BY <1>13, <2>4 DEF Assemble, TypeOK
    <3>2. CASE g = h
      BY <2>1, <2>4, <3>1, <3>2 DEF HandlerOK
    <3>3. CASE g # h
      BY <1>3, <2>1, <3>1, <3>3
    <3> QED
      BY <3>2, <3>3
  <2> QED
    BY <2>2, <2>3, <2>4
<1>14. ASSUME NEW h \in Handlers, Publish(h) PROVE HandlerOK(g)'
  <2> DEFINE v == handler[h].version
  <2>1. /\ UNCHANGED <<ownerVersion, facts, run>> /\ handler[h].pc = "evaluated"
        /\ v \in Versions /\ v <= ownerVersion /\ v \in Nat
        /\ handler[h].loaded = facts[v] /\ facts[v] # Invalid
    BY <1>14 DEF Publish, PublishNothing, PublishBegin, factVars, resultVars, HandlerInv,
                 HandlerOK, Versions
  <2>2. CASE ownerVersion # v /\ Goto(h, "obsolete")
    <3>1. v < ownerVersion
      BY <1>2, <2>1, <2>2
    <3> QED
      BY <1>6, <2>1, <2>2, <3>1 DEF HandlerPCs
  <2>3. CASE run[v] # None /\ Goto(h, "published")
    BY <1>6, <2>1, <2>3 DEF HandlerPCs
  <2>4. CASE ownerVersion = v /\ run[v] = None /\ Goto(h, "publishing")
    BY <1>6, <2>1, <2>4 DEF HandlerPCs
  <2> QED
    BY <1>14, <2>2, <2>3, <2>4 DEF Publish, PublishNothing, PublishBegin
<1>15. ASSUME NEW h \in Handlers, SendDeadLetter(h) PROVE HandlerOK(g)'
  <2>1. Done(handler[h].version)
    BY <1>15 DEF SendDeadLetter, HandlerInv, HandlerOK, Done
  <2> QED
    BY <1>6, <1>15, <2>1 DEF SendDeadLetter, HandlerPCs, factVars, resultVars
<1>16. ASSUME NEW h \in Handlers, StatementFails(h) PROVE HandlerOK(g)'
  BY <1>6, <1>16 DEF StatementFails, HandlerPCs, factVars, resultVars
<1>17. ASSUME NEW h \in Handlers, Settle(h) \/ Crash(h) PROVE HandlerOK(g)'
  BY <1>7, <1>17 DEF Settle, Crash, factVars, resultVars
<1>18. ASSUME NEW h \in Handlers, NEW v \in Versions, Fetch(h, v) PROVE HandlerOK(g)'
  <2>1. UNCHANGED <<ownerVersion, facts, run>> /\ v <= ownerVersion
    BY <1>18 DEF Fetch, factVars, resultVars, JobInv
  <2>2. /\ handler'[h].pc = "started" /\ handler'[h].version = v
        /\ g # h => handler'[g] = handler[g]
    BY <1>18 DEF Fetch, TypeOK
  <2>3. CASE g = h
    BY <2>1, <2>2, <2>3 DEF HandlerOK
  <2>4. CASE g # h
    BY <1>3, <2>1, <2>2, <2>4
  <2> QED
    BY <2>3, <2>4
<1>19. ASSUME NEW v \in Versions, ExpireOrphan(v) \/ ExpireRunning(v) \/ DeadLetter(v)
       PROVE HandlerOK(g)'
  BY <1>3, <1>19 DEF ExpireOrphan, ExpireRunning, DeadLetter, factVars, resultVars
<1>20. ASSUME NEW c \in Clients,
              \/ BeginCommand(c) \/ Abort(c)
              \/ \E k \in Keys, q \in Requests : Replay(c, k, q) \/ CommitUnchanged(c, k, q)
       PROVE HandlerOK(g)'
  BY <1>3, <1>20 DEF BeginCommand, Abort, Replay, CommitUnchanged, EndCommand, factVars,
                     resultVars
<1>21. CASE UNCHANGED vars
  BY <1>3, <1>21 DEF vars
<1> QED
  BY <1>4, <1>5, <1>8, <1>9, <1>10, <1>11, <1>12, <1>13, <1>14, <1>15, <1>16, <1>17, <1>18,
     <1>19, <1>20, <1>21
  DEF Next, FinishCommand, HandlerStep, QueueStep

-----------------------------------------------------------------------------

(***************************************************************************)
(* IInv holds in every reachable state.                                    *)
(***************************************************************************)
THEOREM InductiveInvariant == Spec => []IInv
<1>1. IInv /\ [Next]_vars => IInv'
  BY TypeStep, LockStep, JobStep, HandlerInvStep, RunsStep, AuthorityStep, CompletedStep
  DEF IInv
<1> QED
  BY InitIInv, <1>1, PTL DEF Spec

(***************************************************************************)
(* Every reachable state is well formed; a job is never tried more often   *)
(* than RetryLimit allows.                                                 *)
(***************************************************************************)
THEOREM TypeCorrect == Spec => []TypeOK
<1>1. IInv => TypeOK
  BY DEF IInv
<1> QED
  BY InductiveInvariant, <1>1, PTL

(***************************************************************************)
(* persistEngineResult never leaves a mixture of versions authoritative,   *)
(* and a completed run of a version is the evaluation of its own facts.    *)
(***************************************************************************)
THEOREM PublicationSafe == Spec => [](AuthorityIsNewestRun /\ RunsMatchTheirFacts)
<1>1. IInv => AuthorityIsNewestRun /\ RunsMatchTheirFacts
  BY DEF IInv
<1> QED
  BY InductiveInvariant, <1>1, PTL

(***************************************************************************)
(* Each engine run is the evaluation of the facts of its version, whatever *)
(* commands committed while it was computed.                               *)
(***************************************************************************)
THEOREM RunsMatch == Spec => []RunsMatchTheirFacts
<1>1. AuthorityIsNewestRun /\ RunsMatchTheirFacts => RunsMatchTheirFacts
  OBVIOUS
<1> QED
  BY PublicationSafe, <1>1, PTL

(***************************************************************************)
(* The job handler never completes a job whose recalculation is still      *)
(* needed.                                                                 *)
(***************************************************************************)
THEOREM CompletionSafe == Spec => []CompletedJobsAreSettled
<1>1. IInv => CompletedJobsAreSettled
  BY DEF IInv
<1> QED
  BY InductiveInvariant, <1>1, PTL

(***************************************************************************)
(* A publication finds only rows of older versions authoritative.          *)
(***************************************************************************)
LEMMA NewestIsOlder ==
    ASSUME IInv, NEW row \in authority, ownerVersion \in Versions, run[ownerVersion] = None
    PROVE  row[1] < ownerVersion
<1>1. PICK v \in Published : authority = {v} \X run[v]
  BY DEF IInv, AuthorityIsNewestRun
<1>2. row[1] = v /\ v \in Versions /\ v <= ownerVersion /\ run[v] # None
  BY <1>1 DEF IInv, RunsMatchTheirFacts, Published
<1> QED
  BY <1>2 DEF Versions

(***************************************************************************)
(* ADR-029: authority only moves to the version that is current in the     *)
(* step that moves it, and only from an older one.                         *)
(***************************************************************************)
THEOREM Forward == Spec => AuthorityMovesForward
<1> DEFINE Moves == authority' # authority =>
                      /\ UNCHANGED ownerVersion
                      /\ \A new \in authority' : new[1] = ownerVersion
                      /\ \A old \in authority : old[1] < ownerVersion
<1>1. ASSUME IInv, [Next]_vars, authority' # authority PROVE Moves
  <2>1. PICK h \in Handlers : PublishCommit(h)
    BY <1>1, ResultFrame, MutationFacts DEF IInv
  <2>2. /\ authority' = {ownerVersion} \X facts[ownerVersion]
        /\ ownerVersion \in Versions /\ run[ownerVersion] = None
        /\ UNCHANGED ownerVersion
    BY <1>1, <2>1, PublicationFacts DEF IInv
  <2>3. \A old \in authority : old[1] < ownerVersion
    BY <1>1, <2>2, NewestIsOlder
  <2> QED
    BY <2>2, <2>3
<1>2. IInv /\ [Next]_vars => [Moves]_vars
  BY <1>1
<1> QED
  BY InductiveInvariant, <1>2, PTL DEF Spec, AuthorityMovesForward

(***************************************************************************)
(* The pipeline of commands, jobs, handlers, crashes and retries           *)
(* implements AuthoritativeResult: a reader sees complete results of the   *)
(* facts that were current when they were published.                       *)
(***************************************************************************)
THEOREM Refinement == Spec => ImplementsAuthoritativeResult
<1>1. Init => Reader!Init
  BY PublicationAssumption DEF Init, Reader!Init
<1>2. IInv /\ [Next]_vars => [Reader!Next]_(Reader!vars)
  <2> SUFFICES ASSUME IInv, [Next]_vars PROVE [Reader!Next]_(Reader!vars)
      OBVIOUS
  <2>1. ASSUME NEW c \in Clients, NEW k \in Keys, NEW q \in Requests, CommitMutation(c, k, q)
        PROVE Reader!Change
    <3>1. ownerVersion' = ownerVersion + 1 /\ ownerVersion' \in Versions
          /\ UNCHANGED authority
      BY <2>1, MutationFacts DEF IInv
    <3>2. facts'[ownerVersion'] \in Contents
      BY <2>1, <3>1 DEF CommitMutation, IInv, TypeOK, Versions
    <3>3. ownerVersion < MaxVersion
      BY <2>1 DEF CommitMutation
    <3> QED
      BY <3>1, <3>2, <3>3 DEF Reader!Change
  <2>2. ASSUME NEW h \in Handlers, PublishCommit(h) PROVE Reader!Publish
    BY <2>2, PublicationFacts DEF IInv, Reader!Publish
  <2>3. CASE UNCHANGED <<ownerVersion, facts, authority>>
    BY <2>3 DEF Reader!vars
  <2> QED
    BY <2>1, <2>2, <2>3, ResultFrame DEF Reader!Next
<1> QED
  BY InductiveInvariant, <1>1, <1>2, PTL
  DEF Spec, ImplementsAuthoritativeResult, Reader!SafetySpec

-----------------------------------------------------------------------------

(***************************************************************************)
(* Audit events and the results of mutating commands name each other, and  *)
(* every answer given is the stored result of its key.                     *)
(***************************************************************************)
Told(k) == [key |-> k, request |-> command[k].request, version |-> command[k].version,
            mutated |-> command[k].mutated]

EffectInv ==
    /\ \A v \in Versions : audit[v] # None => /\ v <= ownerVersion
                                            /\ command[audit[v]] # None
                                            /\ command[audit[v]].mutated = TRUE
                                            /\ command[audit[v]].version = v
    /\ \A k \in Keys : command[k] # None /\ command[k].mutated = TRUE =>
                         command[k].version \in Versions /\ audit[command[k].version] = k
    /\ \A a \in told : command[a.key] # None /\ a = Told(a.key)

(***************************************************************************)
(* A transaction that stores a result for a fresh key and answers with it  *)
(* keeps EffectInv, with a mutation or without.                            *)
(***************************************************************************)
LEMMA CommandStep ==
    ASSUME TypeOK, EffectInv, NEW k \in Keys, NEW result \in CommandResults,
           command[k] = None,
           command' = [command EXCEPT ![k] = result], Answer(k, result),
           \/ result.mutated = FALSE /\ UNCHANGED <<audit, ownerVersion>>
           \/ /\ result.mutated = TRUE /\ result.version \in Versions
              /\ ownerVersion' = ownerVersion + 1 /\ result.version = ownerVersion'
              /\ audit' = [audit EXCEPT ![result.version] = k]
    PROVE  EffectInv'
<1>1. result # None /\ k # None
  BY PublicationAssumption
<1>2. command'[k] = result /\ \A j \in Keys \ {k} : command'[j] = command[j]
  BY DEF TypeOK
<1>3. \A v \in Versions : audit[v] # None => audit[v] \in Keys \ {k} /\ v <= ownerVersion
  BY DEF EffectInv, TypeOK
<1>4. ASSUME NEW v \in Versions, audit'[v] # None
      PROVE  /\ v <= ownerVersion'
             /\ command'[audit'[v]] # None
             /\ command'[audit'[v]].mutated = TRUE
             /\ command'[audit'[v]].version = v
  <2>1. CASE audit'[v] = audit[v]
    <3>1. v <= ownerVersion /\ ownerVersion \in Nat /\ v \in Nat
      BY <1>3, <1>4, <2>1 DEF TypeOK, Versions
    <3>2. v <= ownerVersion'
      BY <3>1
    <3> QED
      BY <1>2, <1>3, <1>4, <2>1, <3>2 DEF EffectInv
  <2>2. CASE /\ result.mutated = TRUE /\ v = result.version /\ audit'[v] = k
             /\ result.version = ownerVersion'
    <3>1. v <= ownerVersion'
      BY <2>2 DEF Versions
    <3> QED
      BY <1>1, <1>2, <2>2, <3>1
  <2> QED
    BY <2>1, <2>2 DEF TypeOK
<1>5. ASSUME NEW j \in Keys, command'[j] # None, command'[j].mutated = TRUE
      PROVE  command'[j].version \in Versions /\ audit'[command'[j].version] = j
  <2>1. CASE j = k
    BY <1>2, <1>5, <2>1 DEF TypeOK
  <2>2. CASE j # k
    <3>1. command[j].version \in Versions /\ audit[command[j].version] = j /\ j # None
      BY <1>2, <1>5, <2>2, PublicationAssumption DEF EffectInv
    <3>2. command[j].version <= ownerVersion /\ ownerVersion \in Nat
      BY <1>3, <3>1 DEF TypeOK
    <3>3. audit'[command[j].version] = audit[command[j].version]
      <4> DEFINE x == command[j].version
      <4>1. x \in Versions /\ x \in Nat /\ x <= ownerVersion
        BY <3>1, <3>2 DEF Versions
      <4>2. CASE UNCHANGED audit
        BY <4>2
      <4>3. CASE /\ result.version = ownerVersion'
                 /\ ownerVersion' = ownerVersion + 1
                 /\ audit' = [audit EXCEPT ![result.version] = k]
        <5>1. x # result.version
          BY <3>2, <4>1, <4>3
        <5> QED
          BY <4>1, <4>3, <5>1 DEF TypeOK
      <4> QED
        BY <4>2, <4>3
    <3> QED
      BY <1>2, <2>2, <3>1, <3>3
  <2> QED
    BY <2>1, <2>2
<1>6. ASSUME NEW a \in told' PROVE command'[a.key] # None /\ a = Told(a.key)'
  <2>1. CASE a \in told
    <3>1. command[a.key] # None /\ a = Told(a.key) /\ a.key \in Keys
      BY <2>1 DEF EffectInv, TypeOK, Answers
    <3>2. command'[a.key] = command[a.key]
      BY <1>2, <3>1
    <3> QED
      BY <3>1, <3>2 DEF Told
  <2>2. CASE a = [key |-> k, request |-> result.request, version |-> result.version,
                  mutated |-> result.mutated]
    BY <1>1, <1>2, <2>2 DEF Told
  <2> QED
    BY <1>6, <2>1, <2>2 DEF Answer
<1> QED
  BY <1>4, <1>5, <1>6 DEF EffectInv

(***************************************************************************)
(* EffectInv depends on audit events, command records, answers and the     *)
(* owner's version alone.                                                  *)
(***************************************************************************)
LEMMA EffectFrame ==
    ASSUME EffectInv, UNCHANGED <<audit, ownerVersion, command, told>>
    PROVE  EffectInv'
  BY DEF EffectInv, Told

(***************************************************************************)
(* Every step keeps EffectInv: a stored result, each answer and the audit  *)
(* trail tell of the same effect.                                          *)
(***************************************************************************)
LEMMA EffectStep == TypeOK /\ EffectInv /\ [Next]_vars => EffectInv'
<1> SUFFICES ASSUME TypeOK, EffectInv, [Next]_vars PROVE EffectInv'
    OBVIOUS
<1>1. ASSUME NEW c \in Clients, NEW k \in Keys, NEW q \in Requests, Replay(c, k, q)
      PROVE EffectInv'
  <2>1. UNCHANGED <<audit, ownerVersion, command>> /\ command[k] # None
    BY <1>1 DEF Replay, factVars
  <2>2. told' = told \/ told' = told \cup {Told(k)}
    BY <1>1 DEF Replay, Answer, Told
  <2>3. \A a \in told' : command[a.key] # None /\ a = Told(a.key)
    <3>1. Told(k).key = k
      BY DEF Told
    <3> QED
      BY <2>1, <2>2, <3>1 DEF EffectInv
  <2> QED
    BY <2>1, <2>3 DEF EffectInv, Told
<1>2. ASSUME NEW c \in Clients, NEW k \in Keys, NEW q \in Requests, CommitUnchanged(c, k, q)
      PROVE EffectInv'
  <2> DEFINE result == [request |-> q, version |-> ownerVersion, mutated |-> FALSE]
  <2>1. result \in CommandResults
    BY DEF TypeOK, CommandResults
  <2> QED
    BY <1>2, <2>1, CommandStep DEF CommitUnchanged, factVars
<1>3. ASSUME NEW c \in Clients, NEW k \in Keys, NEW q \in Requests, CommitMutation(c, k, q)
      PROVE EffectInv'
  <2> DEFINE v == ownerVersion + 1
             result == [request |-> q, version |-> v, mutated |-> TRUE]
  <2>1. v \in Versions /\ ownerVersion' = v
    BY <1>3, MutationFacts DEF CommitMutation
  <2>2. result \in CommandResults
    BY <2>1 DEF CommandResults, Versions
  <2>3. command[k] = None /\ command' = [command EXCEPT ![k] = result] /\ Answer(k, result)
        /\ audit' = [audit EXCEPT ![v] = k]
    BY <1>3 DEF CommitMutation
  <2> QED
    BY <2>1, <2>2, <2>3, CommandStep
<1>4. ASSUME NEW c \in Clients, BeginCommand(c) \/ Abort(c) PROVE EffectInv'
  BY <1>4, EffectFrame DEF BeginCommand, Abort, factVars, commandVars
<1>5. ASSUME NEW h \in Handlers,
             \/ MarkRunning(h) \/ MarkCompleted(h) \/ MarkSuperseded(h)
             \/ MarkQueued(h) \/ MarkFailed(h) \/ Assemble(h) \/ SendDeadLetter(h)
             \/ Settle(h) \/ Publish(h) \/ PublishCommit(h) \/ StatementFails(h) \/ Crash(h)
      PROVE EffectInv'
  BY <1>5, EffectFrame
  DEF MarkRunning, MarkCompleted, MarkSuperseded, MarkQueued, MarkFailed, SetStatus, Assemble,
      SendDeadLetter, Settle, Publish, PublishNothing, PublishBegin, PublishCommit,
      StatementFails, Crash, factVars, commandVars
<1>6. ASSUME NEW v \in Versions, QueueStep(v) PROVE EffectInv'
  BY <1>6, EffectFrame
  DEF QueueStep, Fetch, ExpireOrphan, ExpireRunning, DeadLetter, factVars, commandVars
<1>7. CASE UNCHANGED vars
  BY <1>7, EffectFrame DEF vars
<1> QED
  BY <1>1, <1>2, <1>3, <1>4, <1>5, <1>6, <1>7 DEF Next, FinishCommand, HandlerStep

(***************************************************************************)
(* executeFinancialCommand: an Idempotency-Key has at most one effect, and *)
(* every caller is told of that effect.                                    *)
(***************************************************************************)
THEOREM ExactlyOnce == Spec => []ExactlyOnceEffects
<1>1. Init => EffectInv
  BY DEF Init, EffectInv
<1>2. ASSUME TypeOK, EffectInv PROVE ExactlyOnceEffects
  <2>1. ASSUME NEW v \in Versions, NEW w \in Versions, audit[v] # None, audit[v] = audit[w]
        PROVE v = w
    BY <1>2, <2>1 DEF EffectInv
  <2>2. ASSUME NEW a \in told, NEW b \in told, a.key = b.key PROVE a = b
    BY <1>2, <2>2 DEF EffectInv
  <2>3. ASSUME NEW a \in told, a.mutated PROVE audit[a.version] = a.key
    <3>1. a.key \in Keys /\ a.mutated = TRUE
      BY <1>2, <2>3 DEF TypeOK, Answers
    <3>2. command[a.key] # None /\ command[a.key].mutated = TRUE
          /\ command[a.key].version = a.version
      BY <1>2, <3>1 DEF EffectInv, Told
    <3> QED
      BY <1>2, <3>1, <3>2 DEF EffectInv
  <2> QED
    BY <2>1, <2>2, <2>3 DEF ExactlyOnceEffects
<1>3. TypeOK /\ EffectInv /\ [Next]_vars => EffectInv'
  BY EffectStep
<1> QED
  BY TypeCorrect, <1>1, <1>2, <1>3, PTL DEF Spec

-----------------------------------------------------------------------------

(***************************************************************************)
(* SupersessionIsAHistory, unfolded for one row.                           *)
(***************************************************************************)
LEMMA LinkForm ==
    SupersessionIsAHistory <=>
      \A r \in Rows : successor[r] # 0 =>
        /\ r \notin authority
        /\ successor[r] \in Versions /\ run[successor[r]] # None
        /\ r[1] < successor[r]
        /\ r[2] \in run[successor[r]]
        /\ \A u \in Versions : run[u] # None => ~ (r[1] < u /\ u < successor[r])
  BY DEF SupersessionIsAHistory, LinkedToNextRun, Published

(***************************************************************************)
(* The rows a publication takes authority from are those of the newest     *)
(* run before it, so that linking them to the new rows skips no run.       *)
(***************************************************************************)
LEMMA LinkStep == IInv /\ SupersessionIsAHistory /\ [Next]_vars => SupersessionIsAHistory'
<1> SUFFICES ASSUME IInv, SupersessionIsAHistory, [Next]_vars PROVE SupersessionIsAHistory'
    OBVIOUS
<1>1. ASSUME UNCHANGED <<run, authority, successor>> PROVE SupersessionIsAHistory'
  BY <1>1 DEF SupersessionIsAHistory, LinkedToNextRun, Published
<1>2. ASSUME NEW h \in Handlers, PublishCommit(h) PROVE SupersessionIsAHistory'
  <2> DEFINE v == ownerVersion
             result == facts[v]
  <2>1. /\ v \in Versions /\ run[v] = None /\ result \in Contents
        /\ run' = [run EXCEPT ![v] = result]
        /\ authority' = {v} \X result
    BY <1>2, PublicationFacts DEF IInv
  <2>2. successor' = [r \in Rows |-> IF r \in authority /\ r[2] \in result
                                      THEN v ELSE successor[r]]
    BY <1>2 DEF PublishCommit, IInv, HandlerInv, HandlerOK
  <2>3. /\ result # None
        /\ run'[v] = result
        /\ \A u \in Versions \ {v} : run'[u] = run[u]
    BY <2>1, PublicationAssumption DEF IInv, TypeOK
  <2>4. \A u \in Versions : run[u] # None => u < v
    <3>1. \A u \in Versions : run[u] # None => u <= v
      BY DEF IInv, RunsMatchTheirFacts, Published
    <3> QED
      BY <2>1, <3>1 DEF Versions
  <2>5. ASSUME NEW r \in Rows, successor'[r] # 0
        PROVE  /\ r \notin authority'
               /\ successor'[r] \in Versions /\ run'[successor'[r]] # None
               /\ r[1] < successor'[r]
               /\ r[2] \in run'[successor'[r]]
               /\ \A u \in Versions : run'[u] # None => ~ (r[1] < u /\ u < successor'[r])
    <3>1. CASE r \in authority /\ r[2] \in result
      <4>1. successor'[r] = v
        BY <2>2, <3>1
      <4>2. r[1] < v
        BY <2>1, <3>1, NewestIsOlder
      <4>3. r \notin authority'
        BY <2>1, <4>2 DEF Versions, Rows
      <4>4. \A u \in Versions : run[u] # None => u <= r[1]
        BY <3>1 DEF IInv, AuthorityIsNewestRun, Published
      <4>5. \A u \in Versions : run'[u] # None => ~ (r[1] < u /\ u < v)
        BY <2>1, <2>3, <4>4 DEF Versions, Rows
      <4> QED
        BY <2>1, <2>3, <3>1, <4>1, <4>2, <4>3, <4>5
    <3>2. CASE ~ (r \in authority /\ r[2] \in result)
      <4>1. successor'[r] = successor[r]
        BY <2>2, <3>2
      <4>2. /\ successor[r] \in Versions /\ run[successor[r]] # None
            /\ r[1] < successor[r]
            /\ r[2] \in run[successor[r]]
            /\ \A u \in Versions : run[u] # None => ~ (r[1] < u /\ u < successor[r])
        BY <2>5, <4>1, LinkForm
      <4>3. successor[r] < v
        BY <2>4, <4>2
      <4>4. r \notin authority'
        BY <2>1, <4>2, <4>3 DEF Versions, Rows
      <4>5. run'[successor[r]] = run[successor[r]]
        BY <2>1, <2>3, <4>2
      <4>6. \A u \in Versions : run'[u] # None => ~ (r[1] < u /\ u < successor[r])
        BY <2>1, <2>3, <4>2, <4>3 DEF Versions
      <4> QED
        BY <4>1, <4>2, <4>4, <4>5, <4>6
    <3> QED
      BY <3>1, <3>2
  <2> QED
    BY <2>5, LinkForm DEF SupersessionIsAHistory, LinkedToNextRun, Published
<1>3. ASSUME NEW c \in Clients, NEW k \in Keys, NEW q \in Requests, CommitMutation(c, k, q)
      PROVE SupersessionIsAHistory'
  BY <1>1, <1>3, MutationFacts DEF IInv
<1> QED
  BY <1>1, <1>2, <1>3, ResultFrame

(***************************************************************************)
(* superseded_by is a history: every link goes to the next published run.  *)
(***************************************************************************)
THEOREM History == Spec => []SupersessionIsAHistory
<1>1. Init => SupersessionIsAHistory
  BY DEF Init, SupersessionIsAHistory
<1> QED
  BY InductiveInvariant, LinkStep, <1>1, PTL DEF Spec
-----------------------------------------------------------------------------

(***************************************************************************)
(* While no handler outlives its job: a busy handler works for the active  *)
(* attempt of its version and is the only one to do so, and it does not    *)
(* return, or dead-letter its job, before the record is settled.           *)
(***************************************************************************)
AttemptOK(h) ==
    handler[h].pc # "idle" =>
        /\ Owns(h, handler[h].version)
        /\ handler[h].pc \in {"returned", "deadletter"} => Settled(handler[h].version)

OneAttemptEach ==
    \A g, h \in Handlers :
        /\ handler[g].pc # "idle"
        /\ handler[h].pc # "idle"
        /\ handler[g].version = handler[h].version
        => g = h

AttemptInv ==
    /\ \A h \in Handlers : AttemptOK(h)
    /\ OneAttemptEach
    /\ NoRecalculationIsLost

(***************************************************************************)
(* A step of one handler to another control state that leaves the jobs     *)
(* alone and writes no record, or the record of its own version.           *)
(***************************************************************************)
LEMMA AttemptGoto ==
    ASSUME TypeOK, HandlerInv, AttemptInv, NEW h \in Handlers, NEW pc \in HandlerPCs \ {"idle"},
           handler[h].pc # "idle",
           /\ handler'[h].pc = pc
           /\ handler'[h].version = handler[h].version
           /\ handler'[h].attempt = handler[h].attempt
           /\ \A g \in Handlers \ {h} : handler'[g] = handler[g],
           UNCHANGED <<job, attempts>>, dead \subseteq dead',
           record' = record
             \/ \E status \in Statuses : record' = [record EXCEPT ![handler[h].version] = status],
           pc \in {"returned", "deadletter"} => Settled(handler[h].version)'
    PROVE  AttemptInv'
<1>1. handler[h].version \in Versions /\ job[handler[h].version] = "active"
  BY DEF AttemptInv, AttemptOK, Owns, HandlerInv, HandlerOK
<1>2. \A v \in Versions : v # handler[h].version => record'[v] = record[v]
  BY DEF TypeOK
<1>3. ASSUME NEW g \in Handlers PROVE AttemptOK(g)'
  <2>1. CASE g = h
    BY <1>1, <2>1 DEF AttemptInv, AttemptOK, Owns
  <2>2. CASE g # h
    <3>1. handler'[g] = handler[g]
      BY <2>2
    <3>2. handler[g].pc # "idle" =>
             /\ handler[g].version \in Versions
             /\ handler[g].version # handler[h].version
      BY <2>2 DEF AttemptInv, OneAttemptEach, HandlerInv, HandlerOK
    <3> QED
      BY <1>2, <3>1, <3>2 DEF AttemptInv, AttemptOK, Owns, Settled
  <2> QED
    BY <2>1, <2>2
<1>4. OneAttemptEach'
  BY DEF AttemptInv, OneAttemptEach
<1>5. NoRecalculationIsLost'
  BY <1>1, <1>2 DEF AttemptInv, NoRecalculationIsLost
<1> QED
  BY <1>3, <1>4, <1>5 DEF AttemptInv

(***************************************************************************)
(* A step that ends the attempt of one handler: only the job of its        *)
(* version may change, and an unsettled record keeps a job or a dead       *)
(* letter.                                                                 *)
(***************************************************************************)
LEMMA AttemptEnds ==
    ASSUME TypeOK, HandlerInv, AttemptInv, NEW h \in Handlers,
           handler[h].pc # "idle",
           handler' = [handler EXCEPT ![h] = Idle], record' = record, attempts' = attempts,
           dead \subseteq dead',
           \A v \in Versions : v # handler[h].version => job'[v] = job[v],
           record[handler[h].version] \in {"queued", "running"} =>
             \/ job'[handler[h].version] \in {"created", "active", "retry"}
             \/ handler[h].version \in dead'
    PROVE  AttemptInv'
<1>1. \A g \in Handlers \ {h} : handler'[g] = handler[g]
  BY DEF TypeOK
<1>2. handler'[h].pc = "idle"
  BY DEF TypeOK, Idle
<1>3. ASSUME NEW g \in Handlers PROVE AttemptOK(g)'
  <2>1. CASE g = h
    BY <1>2, <2>1 DEF AttemptOK
  <2>2. CASE g # h
    <3>1. handler'[g] = handler[g]
      BY <1>1, <2>2
    <3>2. handler[g].pc # "idle" =>
             /\ handler[g].version \in Versions
             /\ handler[g].version # handler[h].version
      BY <2>2 DEF AttemptInv, OneAttemptEach, HandlerInv, HandlerOK
    <3> QED
      BY <3>1, <3>2 DEF AttemptInv, AttemptOK, Owns, Settled
  <2> QED
    BY <2>1, <2>2
<1>4. OneAttemptEach'
  BY <1>1, <1>2 DEF AttemptInv, OneAttemptEach
<1>5. NoRecalculationIsLost'
  BY DEF AttemptInv, NoRecalculationIsLost
<1> QED
  BY <1>3, <1>4, <1>5 DEF AttemptInv

(***************************************************************************)
(* A version nobody works for: its job and its record may change, as long  *)
(* as an unsettled record keeps a job or a dead letter.                    *)
(***************************************************************************)
LEMMA AttemptAside ==
    ASSUME TypeOK, HandlerInv, AttemptInv, handler' = handler, NEW w \in Versions,
           \A v \in Versions \ {w} :
             /\ job'[v] = job[v] /\ attempts'[v] = attempts[v] /\ record'[v] = record[v]
             /\ v \in dead => v \in dead',
           \A h \in Handlers : handler[h].pc # "idle" => handler[h].version # w,
           record'[w] \in {"queued", "running"} =>
             job'[w] \in {"created", "active", "retry"} \/ w \in dead'
    PROVE  AttemptInv'
<1>1. ASSUME NEW g \in Handlers PROVE AttemptOK(g)'
  <2>1. handler[g].pc # "idle" => handler[g].version \in Versions \ {w}
    BY DEF HandlerInv, HandlerOK
  <2> QED
    BY <2>1 DEF AttemptInv, AttemptOK, Owns, Settled
<1>2. OneAttemptEach'
  BY DEF AttemptInv, OneAttemptEach
<1>3. NoRecalculationIsLost'
  BY DEF AttemptInv, NoRecalculationIsLost
<1> QED
  BY <1>1, <1>2, <1>3 DEF AttemptInv

(***************************************************************************)
(* While no handler outlives its job, every step keeps AttemptInv.         *)
(***************************************************************************)
LEMMA AttemptStep == ~ SlowHandlers /\ IInv /\ AttemptInv /\ [Next]_vars => AttemptInv'
<1> SUFFICES ASSUME ~ SlowHandlers, IInv, AttemptInv, [Next]_vars PROVE AttemptInv'
    OBVIOUS
<1>t. TypeOK /\ HandlerInv /\ JobInv
  BY DEF IInv
<1>1. ASSUME UNCHANGED <<handler, record, job, attempts, dead>> PROVE AttemptInv'
  BY <1>1 DEF AttemptInv, AttemptOK, OneAttemptEach, Owns, Settled, NoRecalculationIsLost
<1>2. ASSUME NEW c \in Clients, NEW k \in Keys, NEW q \in Requests, CommitMutation(c, k, q)
      PROVE AttemptInv'
  <2> DEFINE w == ownerVersion + 1
  <2>1. /\ handler' = handler /\ w \in Versions
        /\ job' = [job EXCEPT ![w] = "created"] /\ record' = [record EXCEPT ![w] = "queued"]
        /\ attempts' = attempts /\ dead' = dead
    BY <1>2, <1>t, PublicationAssumption DEF CommitMutation, EndCommand, TypeOK, Versions
  <2>2. \A h \in Handlers : handler[h].pc # "idle" => handler[h].version # w
    BY <1>t DEF HandlerInv, HandlerOK, TypeOK, Versions
  <2>3. /\ \A v \in Versions \ {w} :
             /\ job'[v] = job[v] /\ attempts'[v] = attempts[v] /\ record'[v] = record[v]
             /\ v \in dead => v \in dead'
        /\ job'[w] = "created"
    BY <1>t, <2>1 DEF TypeOK
  <2> HIDE DEF w
  <2> QED
    BY <1>t, <2>1, <2>2, <2>3, AttemptAside
<1>3. ASSUME NEW h \in Handlers, NEW v \in Versions, Fetch(h, v) PROVE AttemptInv'
  <2>1. /\ job[v] \in {"created", "retry"} /\ handler[h].pc = "idle"
        /\ job' = [job EXCEPT ![v] = "active"]
        /\ record' = record /\ dead' = dead
        /\ \A u \in Versions \ {v} : attempts'[u] = attempts[u]
        /\ handler'[h].pc = "started" /\ handler'[h].version = v
        /\ handler'[h].attempt = attempts'[v]
        /\ \A g \in Handlers \ {h} : handler'[g] = handler[g]
    BY <1>3, <1>t DEF Fetch, TypeOK
  <2>2. job'[v] = "active" /\ \A u \in Versions \ {v} : job'[u] = job[u]
    BY <1>t, <2>1 DEF TypeOK
  <2>3. \A g \in Handlers : handler[g].pc # "idle" => handler[g].version \in Versions \ {v}
    BY <1>t, <2>1 DEF AttemptInv, AttemptOK, Owns, HandlerInv, HandlerOK
  <2>4. ASSUME NEW g \in Handlers PROVE AttemptOK(g)'
    <3>1. CASE g = h
      BY <2>1, <2>2, <3>1 DEF AttemptOK, Owns
    <3>2. CASE g # h
      BY <2>1, <2>2, <2>3, <3>2 DEF AttemptInv, AttemptOK, Owns, Settled
    <3> QED
      BY <3>1, <3>2
  <2>5. OneAttemptEach'
    BY <2>1, <2>3 DEF AttemptInv, OneAttemptEach
  <2>6. NoRecalculationIsLost'
    BY <2>1, <2>2 DEF AttemptInv, NoRecalculationIsLost
  <2> QED
    BY <2>4, <2>5, <2>6 DEF AttemptInv
<1>4. ASSUME NEW h \in Handlers, NEW pc \in HandlerPCs \ {"idle"}, Goto(h, pc),
             handler[h].pc # "idle", UNCHANGED <<job, attempts>>, dead \subseteq dead',
             record' = record
               \/ \E status \in Statuses :
                    record' = [record EXCEPT ![handler[h].version] = status],
             pc \in {"returned", "deadletter"} => Settled(handler[h].version)'
      PROVE  AttemptInv'
  BY <1>4, <1>t, AttemptGoto, GotoType
<1>5. ASSUME NEW h \in Handlers, NEW pc \in HandlerPCs \ {"idle"}, NEW from \in HandlerPCs \ {"idle"},
             NEW status \in Statuses, SetStatus(h, from, status, pc),
             pc \in {"returned", "deadletter"} => status \in {"completed", "failed", "superseded"}
      PROVE  AttemptInv'
  <2>1. handler[h].version \in Versions /\ handler[h].pc # "idle"
    BY <1>5, <1>t DEF SetStatus, HandlerInv, HandlerOK
  <2>2. record'[handler[h].version] = status
    BY <1>5, <1>t, <2>1 DEF SetStatus, TypeOK
  <2>3. pc \in {"returned", "deadletter"} => handler'[h].version = handler[h].version
    BY <1>5, <1>t, GotoType DEF SetStatus
  <2>4. pc \in {"returned", "deadletter"} => Settled(handler[h].version)'
    BY <1>5, <2>2, <2>3 DEF Settled
  <2> QED
    BY <1>4, <1>5, <2>1, <2>4 DEF SetStatus, jobVars
<1>6. ASSUME NEW h \in Handlers, MarkRunning(h) \/ MarkQueued(h) PROVE AttemptInv'
  BY <1>5, <1>6 DEF MarkRunning, MarkQueued, HandlerPCs, Statuses
<1>7. ASSUME NEW h \in Handlers, MarkCompleted(h) \/ MarkSuperseded(h) \/ MarkFailed(h)
      PROVE AttemptInv'
  BY <1>5, <1>7 DEF MarkCompleted, MarkSuperseded, MarkFailed, HandlerPCs, Statuses
<1>8. ASSUME NEW h \in Handlers, Assemble(h) PROVE AttemptInv'
  <2>1. /\ handler[h].pc = "assemble" /\ UNCHANGED <<record, jobVars>>
        /\ \A g \in Handlers \ {h} : handler'[g] = handler[g]
        /\ handler'[h].pc \in {"obsolete", "permanent", "evaluated"}
        /\ handler'[h].version = handler[h].version
        /\ handler'[h].attempt = handler[h].attempt
    BY <1>8, <1>t DEF Assemble, Goto, TypeOK, HandlerType
  <2> DEFINE pc == handler'[h].pc
  <2>2. pc \in HandlerPCs \ {"idle"} /\ pc \notin {"returned", "deadletter"}
    BY <2>1 DEF HandlerPCs
  <2>3. pc = handler'[h].pc
    OBVIOUS
  <2> HIDE DEF pc
  <2> QED
    BY <1>t, <2>1, <2>2, <2>3, AttemptGoto DEF jobVars
<1>9. ASSUME NEW h \in Handlers, Publish(h) \/ PublishCommit(h) PROVE AttemptInv'
  BY <1>4, <1>9 DEF Publish, PublishNothing, PublishBegin, PublishCommit, HandlerPCs, jobVars
<1>10. ASSUME NEW h \in Handlers, SendDeadLetter(h) PROVE AttemptInv'
  <2>1. handler[h].pc = "deadletter" /\ record' = record /\ UNCHANGED <<job, attempts>>
        /\ dead \subseteq dead' /\ Goto(h, "returned")
    BY <1>10 DEF SendDeadLetter
  <2>2. Settled(handler[h].version)
    BY <2>1 DEF AttemptInv, AttemptOK
  <2>3. Settled(handler[h].version)'
    BY <1>t, <2>1, <2>2, GotoType DEF Settled, HandlerPCs
  <2> QED
    BY <1>4, <2>1, <2>3 DEF HandlerPCs
<1>11. ASSUME NEW h \in Handlers, StatementFails(h) PROVE AttemptInv'
  BY <1>4, <1>11 DEF StatementFails, HandlerPCs, jobVars
<1>12. ASSUME NEW v \in Versions, FailJob(v), job[v] = "active"
       PROVE  /\ attempts' = attempts /\ dead \subseteq dead'
              /\ \A u \in Versions \ {v} : job'[u] = job[u]
              /\ job'[v] = "retry" \/ v \in dead'
  BY <1>12, <1>t DEF FailJob, TypeOK
<1>13. ASSUME NEW h \in Handlers, Settle(h) PROVE AttemptInv'
  <2>1. /\ handler[h].pc \in {"returned", "threw"} /\ handler' = [handler EXCEPT ![h] = Idle]
        /\ record' = record
    BY <1>13 DEF Settle
  <2>2. Owns(h, handler[h].version) /\ handler[h].version \in Versions
    BY <1>t, <2>1 DEF AttemptInv, AttemptOK, HandlerInv, HandlerOK
  <2>3. CASE handler[h].pc = "threw"
    <3>1. FailJob(handler[h].version)
      BY <1>13, <2>2, <2>3 DEF Settle
    <3>2. job[handler[h].version] = "active"
      BY <2>2 DEF Owns
    <3> QED
      BY <1>t, <1>12, <2>1, <2>2, <3>1, <3>2, AttemptEnds
  <2>4. CASE handler[h].pc = "returned"
    <3>1. job' = [job EXCEPT ![handler[h].version] = "completed"] /\ UNCHANGED <<attempts, dead>>
      BY <1>13, <2>2, <2>4 DEF Settle
    <3>2. Settled(handler[h].version)
      BY <2>4 DEF AttemptInv, AttemptOK
    <3>3. record[handler[h].version] \notin {"queued", "running"}
      BY <3>2 DEF Settled
    <3>4. \A v \in Versions : v # handler[h].version => job'[v] = job[v]
      BY <1>t, <3>1 DEF TypeOK
    <3> QED
      BY <1>t, <2>1, <3>1, <3>3, <3>4, AttemptEnds
  <2> QED
    BY <2>1, <2>3, <2>4
<1>14. ASSUME NEW h \in Handlers, Crash(h) PROVE AttemptInv'
  <2>1. handler[h].version \in Versions /\ job[handler[h].version] = "active"
    BY <1>14, <1>t DEF Crash, AttemptInv, AttemptOK, Owns, HandlerInv, HandlerOK
  <2> QED
    BY <1>14, <1>t, <2>1, AttemptEnds DEF Crash, jobVars
<1>15. ASSUME NEW v \in Versions, ExpireOrphan(v) PROVE AttemptInv'
  <2>1. \A h \in Handlers : handler[h].pc # "idle" => handler[h].version # v
    BY <1>15 DEF ExpireOrphan, AttemptInv, AttemptOK
  <2>2. /\ attempts' = attempts /\ dead \subseteq dead' /\ handler' = handler /\ record' = record
        /\ \A u \in Versions \ {v} : job'[u] = job[u]
        /\ job'[v] = "retry" \/ v \in dead'
    BY <1>12, <1>15 DEF ExpireOrphan
  <2> QED
    BY <1>t, <2>1, <2>2, AttemptAside
<1>16. ASSUME NEW v \in Versions, DeadLetter(v) PROVE AttemptInv'
  <2>1. /\ UNCHANGED <<job, attempts, handler>> /\ dead' = dead \ {v}
        /\ \A u \in Versions \ {v} : record'[u] = record[u]
        /\ record'[v] = IF record[v] \in {"queued", "running"} THEN "failed" ELSE record[v]
    BY <1>16, <1>t DEF DeadLetter, TypeOK
  <2>2. ASSUME NEW u \in Versions, Settled(u) PROVE Settled(u)'
    BY <2>1, <2>2 DEF Settled
  <2>3. ASSUME NEW g \in Handlers PROVE AttemptOK(g)'
    <3>1. handler[g].pc # "idle" => handler[g].version \in Versions
      BY <1>t DEF HandlerInv, HandlerOK
    <3>2. handler[g].pc \in {"returned", "deadletter"} => Settled(handler[g].version)'
      BY <2>1, <2>2, <3>1 DEF AttemptInv, AttemptOK, Settled
    <3> QED
      BY <2>1, <3>2 DEF AttemptInv, AttemptOK, Owns, Settled
  <2>4. OneAttemptEach'
    BY <2>1 DEF AttemptInv, OneAttemptEach
  <2>5. NoRecalculationIsLost'
    BY <2>1 DEF AttemptInv, NoRecalculationIsLost
  <2> QED
    BY <2>3, <2>4, <2>5 DEF AttemptInv
<1>17. ASSUME NEW c \in Clients,
              \/ BeginCommand(c) \/ Abort(c)
              \/ \E k \in Keys, q \in Requests : Replay(c, k, q) \/ CommitUnchanged(c, k, q)
       PROVE AttemptInv'
  BY <1>1, <1>17 DEF BeginCommand, Abort, Replay, CommitUnchanged, EndCommand, jobVars
<1>18. ASSUME NEW v \in Versions PROVE ~ ExpireRunning(v)
  BY DEF ExpireRunning
<1>19. CASE UNCHANGED vars
  BY <1>1, <1>19 DEF vars
<1> QED
  BY <1>2, <1>3, <1>6, <1>7, <1>8, <1>9, <1>10, <1>11, <1>13, <1>14, <1>15, <1>16, <1>17,
     <1>18, <1>19
  DEF Next, FinishCommand, HandlerStep, QueueStep

(***************************************************************************)
(* While no handler outlives its job, a recalculation record that is not   *)
(* settled always has a job or a dead letter that will settle it: no       *)
(* crash, failed statement or exhausted retry leaves one behind.           *)
(***************************************************************************)
THEOREM NothingLost == Spec => [](~ SlowHandlers => NoRecalculationIsLost)
<1>1. Init => AttemptInv
  BY DEF Init, AttemptInv, AttemptOK, OneAttemptEach, NoRecalculationIsLost, Idle
<1>2. CASE ~ SlowHandlers
  <2>1. IInv /\ AttemptInv /\ [Next]_vars => AttemptInv'
    BY <1>2, AttemptStep
  <2>2. AttemptInv => NoRecalculationIsLost
    BY DEF AttemptInv
  <2> QED
    BY InductiveInvariant, <1>1, <2>1, <2>2, PTL DEF Spec
<1>3. CASE SlowHandlers
  BY <1>3, PTL
<1> QED
  BY <1>2, <1>3
=============================================================================
