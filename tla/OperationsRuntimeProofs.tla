----------------------- MODULE OperationsRuntimeProofs -----------------------
(***************************************************************************)
(* What OperationsRuntime guarantees for any jobs, instances, leases,      *)
(* backoffs and bounds.                                                    *)
(***************************************************************************)
EXTENDS OperationsRuntime, SumTheorems

USE DEF rows, tables

----------------------------------------------------------------------------
(* Types.  TypeOK is not inductive: finalizeClaim records the kind of a     *)
(* result that is there only when the handler did not fail.                *)

HasResult(memory) ==
  /\ memory.pc = "SETTLING" => memory.failure # "NONE"
  /\ memory.pc = "FINALIZING" /\ memory.failure = "NONE" => memory.kind # "NONE"

Typed == TypeOK /\ \A i \in Instance : HasResult(worker[i])

LEMMA ConstantTypes ==
  /\ {AutomaticRetries, Budget, MaxLag, MaxStops, LeaseDuration, WorkerLease} \subseteq Nat
  /\ WorkerOf \in [Instance -> WorkerId]
  /\ Lag \subseteq Nat
  BY ConstantsAssumption DEF Lag

LEMMA BackoffIsInt == ASSUME NEW n \in Nat PROVE Backoff(n) \in Int
  BY ConstantsAssumption DEF Backoff, Lesser

LEMMA StatusesAreTyped ==
  /\ {"ABSENT", "QUEUED", "RUNNING", "CANCELLED", "DELETED"} \subseteq Status
  /\ Outcome \subseteq Status /\ Outcome \subseteq Event
  /\ {"NONE", "JOB_QUEUED", "JOB_LEASE_ACQUIRED", "JOB_HEARTBEAT", "CANCELLED"} \subseteq Event
  BY DEF Status, Waiting, Terminal, Outcome, Event

LEMMA NoJobTyped == ASSUME NEW status \in {"ABSENT", "DELETED"} PROVE NoJob(status) \in JobRow
  BY StatusesAreTyped DEF NoJob, NoLease, JobRow, JobLease

LEMMA FreshTyped == Fresh \in WorkerMemory /\ HasResult(Fresh)
  BY DEF Fresh, WorkerMemory, PC, Failure, HasResult

LEMMA InitTyped == Init => Typed
  BY ConstantTypes, NoJobTyped, FreshTyped, StatusesAreTyped
     DEF Init, Typed, TypeOK, NoProcessLease, ProcessLease

\* A step that gives instance i a new memory.
Remembers(i) ==
  \E memory \in WorkerMemory : HasResult(memory) /\ worker' = [worker EXCEPT ![i] = memory]

LEMMA RememberedTyped ==
  ASSUME Typed, NEW i \in Instance, Remembers(i)
  PROVE  worker' \in [Instance -> WorkerMemory] /\ \A k \in Instance : HasResult(worker'[k])
  BY DEF Typed, TypeOK, Remembers

\* The steps that only change an instance's own memory.
LEMMA MemorySteps ==
  ASSUME Typed, NEW i \in Instance, NEW lag \in Lag,
         \/ Start(i) \/ Crash(i) \/ Close(i) \/ TransactionFails(i) \/ CloseTimesOut(i)
         \/ ClaimNothing(i, lag) \/ StartHeartbeat(i) \/ HeartbeatRefused(i) \/ Timeout(i)
         \/ HandlerReturns(i) \/ HandlerThrows(i) \/ ExternalActionRefused(i, lag)
         \/ HandlerQuiesces(i) \/ HandlerDoesNotQuiesce(i)
  PROVE  Remembers(i) /\ UNCHANGED rows /\ stops' \in 0 .. MaxStops
<1>1. worker[i] \in WorkerMemory /\ HasResult(worker[i]) /\ stops \in 0 .. MaxStops /\ MaxStops \in Nat
  BY ConstantTypes DEF Typed, TypeOK
<1>2. Stop => stops' \in 0 .. MaxStops
  BY <1>1 DEF Stop
<1>3. CASE Start(i)
  <2> DEFINE memory == [worker[i] EXCEPT !.pc = "STARTING"]
  <2>1. memory \in WorkerMemory /\ HasResult(memory)
    BY <1>1 DEF WorkerMemory, PC, HasResult
  <2> QED
    BY <1>1, <1>3, <2>1 DEF Start, Remembers
<1>4. CASE Crash(i)
  BY <1>2, <1>4, FreshTyped DEF Crash, Remembers
<1>5. CASE Close(i)
  <2> DEFINE memory == IF worker[i].pc = "EXECUTING"
                         THEN [worker[i] EXCEPT !.closing = TRUE, !.pc = "SETTLING", !.failure = "CANCELLED"]
                         ELSE [worker[i] EXCEPT !.closing = TRUE]
  <2>1. memory \in WorkerMemory /\ HasResult(memory)
    BY <1>1 DEF WorkerMemory, PC, Failure, HasResult
  <2> QED
    BY <1>2, <1>5, <2>1 DEF Close, Remembers
<1>6. CASE TransactionFails(i)
  <2> DEFINE memory == [Fresh EXCEPT !.pc = "IDLE", !.closing = TRUE]
  <2>1. memory \in WorkerMemory /\ HasResult(memory)
    BY FreshTyped DEF WorkerMemory, PC, HasResult
  <2> QED
    BY <1>2, <1>6, <2>1 DEF TransactionFails, Remembers
<1>7. CASE CloseTimesOut(i)
  BY <1>1, <1>7, FreshTyped DEF CloseTimesOut, Remembers
<1>8. CASE ClaimNothing(i, lag)
  <2>1. Idle(i) \in WorkerMemory /\ HasResult(Idle(i))
    BY <1>1, FreshTyped DEF Idle, WorkerMemory, PC, HasResult
  <2> QED
    BY <1>1, <1>8, <2>1 DEF ClaimNothing, Remembers
<1>9. CASE StartHeartbeat(i)
  <2> DEFINE memory == [worker[i] EXCEPT !.beat = TRUE]
  <2>1. memory \in WorkerMemory /\ HasResult(memory)
    BY <1>1 DEF WorkerMemory, HasResult
  <2> QED
    BY <1>1, <1>9, <2>1 DEF StartHeartbeat, Remembers
<1>10. ASSUME NEW code \in Failure \ {"NONE"}
       PROVE  Aborted(worker[i], code) \in WorkerMemory /\ HasResult(Aborted(worker[i], code))
  BY <1>1 DEF Aborted, WorkerMemory, PC, HasResult
<1>11. CASE HeartbeatRefused(i)
  <2> DEFINE aborted == Aborted(worker[i], "CANCELLED")
             memory  == [aborted EXCEPT !.beat = FALSE]
  <2>1. aborted \in WorkerMemory /\ HasResult(aborted)
    BY <1>10 DEF Failure
  <2>2. memory \in WorkerMemory /\ HasResult(memory)
    <3> HIDE DEF aborted
    <3> QED
      BY <2>1 DEF WorkerMemory, HasResult
  <2> QED
    BY <1>1, <1>2, <1>11, <2>2 DEF HeartbeatRefused, Remembers
<1>12. CASE Timeout(i)
  <2> DEFINE memory == Aborted(worker[i], IF worker[i].closing THEN "CANCELLED" ELSE "TIMEOUT")
  <2>1. memory \in WorkerMemory /\ HasResult(memory)
    BY <1>10 DEF Failure
  <2> QED
    BY <1>1, <1>12, <2>1 DEF Timeout, Remembers
<1>13. CASE HandlerReturns(i)
  <2>1. PICK kind \in {"COMPLETED", "BLOCKED"}, cost \in Usage :
          worker' = [worker EXCEPT ![i].pc = "FINALIZING", ![i].kind = kind, ![i].cost = cost,
                       ![i].failure = IF cost > Budget THEN "INVALID_RESULT" ELSE "NONE"]
    BY <1>13 DEF HandlerReturns
  <2> DEFINE memory == [worker[i] EXCEPT !.pc = "FINALIZING", !.kind = kind, !.cost = cost,
                          !.failure = IF cost > Budget THEN "INVALID_RESULT" ELSE "NONE"]
  <2>2. memory \in WorkerMemory /\ HasResult(memory)
    BY <1>1, ConstantsAssumption DEF WorkerMemory, PC, Failure, HasResult
  <2>3. worker' = [worker EXCEPT ![i] = memory]
    BY <2>1
  <2> HIDE DEF memory
  <2> QED
    BY <1>1, <1>13, <2>2, <2>3 DEF HandlerReturns, Remembers
<1>14. CASE HandlerThrows(i)
  <2> DEFINE memory == [worker[i] EXCEPT !.pc = "FINALIZING",
                          !.failure = IF worker[i].closing THEN "CANCELLED" ELSE "EXECUTION_FAILED"]
  <2>1. memory \in WorkerMemory /\ HasResult(memory)
    BY <1>1 DEF WorkerMemory, PC, Failure, HasResult
  <2> QED
    BY <1>1, <1>14, <2>1 DEF HandlerThrows, Remembers
<1>15. CASE ExternalActionRefused(i, lag)
  <2> DEFINE memory == [worker[i] EXCEPT !.pc = "FINALIZING", !.failure = "CANCELLED"]
  <2>1. memory \in WorkerMemory /\ HasResult(memory)
    BY <1>1 DEF WorkerMemory, PC, Failure, HasResult
  <2> QED
    BY <1>1, <1>15, <2>1 DEF ExternalActionRefused, Remembers
<1>16. CASE HandlerQuiesces(i)
  <2> DEFINE memory == [worker[i] EXCEPT !.pc = "FINALIZING"]
  <2>1. memory \in WorkerMemory /\ HasResult(memory)
    BY <1>1, <1>16 DEF WorkerMemory, PC, HasResult, HandlerQuiesces
  <2> QED
    BY <1>1, <1>16, <2>1 DEF HandlerQuiesces, Remembers
<1>17. CASE HandlerDoesNotQuiesce(i)
  <2> DEFINE memory == [worker[i] EXCEPT !.pc = "UNQUIESCED", !.closing = TRUE]
  <2>1. memory \in WorkerMemory /\ HasResult(memory)
    BY <1>1 DEF WorkerMemory, PC, HasResult
  <2> QED
    BY <1>1, <1>17, <2>1 DEF HandlerDoesNotQuiesce, Remembers
<1> QED
  BY <1>3, <1>4, <1>5, <1>6, <1>7, <1>8, <1>9, <1>11, <1>12, <1>13, <1>14, <1>15, <1>16, <1>17

\* Closing the attempts of the jobs in S.
LEMMA ClosedTyped ==
  ASSUME TypeOK, NEW S, NEW outcome, \A j \in Job : j \in S => outcome[j] \in Outcome,
         NEW cost \in Nat, NEW lag \in Lag, CloseAttempts(S, outcome, cost, lag)
  PROVE  /\ job' \in [Job -> JobRow]
         /\ attempts' \in [Job -> SUBSET Attempt]
         /\ rollup' \in [attempts : Nat, cost : Nat]
         /\ event' \in [Job -> Event]
<1>1. ASSUME NEW j \in Job, j \in S
      PROVE  ClosedRow(job[j], outcome[j], lag) \in JobRow
  <2> DEFINE cancel == job[j].cancel \/ outcome[j] = "CANCELLED"
             wait   == IF outcome[j] = "RETRY_SCHEDULED" THEN Backoff(job[j].attempt) - lag ELSE 0
  <2>1. job[j] \in JobRow /\ outcome[j] \in Status
    BY <1>1, StatusesAreTyped DEF TypeOK
  <2>2. Backoff(job[j].attempt) \in Int /\ lag \in Int
    BY <2>1, ConstantTypes, BackoffIsInt DEF JobRow
  <2>3. cancel \in BOOLEAN /\ wait \in Int /\ NoLease \in JobLease
    BY <2>2 DEF NoLease, JobLease
  <2>4. ClosedRow(job[j], outcome[j], lag)
          = [job[j] EXCEPT !.status = outcome[j], !.lease = NoLease, !.cancel = cancel, !.wait = wait]
    BY DEF ClosedRow
  <2> HIDE DEF cancel, wait
  <2> QED
    BY <2>1, <2>3, <2>4 DEF JobRow
<1>2. ASSUME NEW j \in Job, j \in S
      PROVE  [attempt |-> job[j].attempt, outcome |-> outcome[j], cost |-> cost] \in Attempt
  BY <1>2 DEF TypeOK, JobRow, Attempt
<1>3. job' \in [Job -> JobRow]
  BY <1>1 DEF TypeOK, CloseAttempts
<1>4. attempts' \in [Job -> SUBSET Attempt]
  BY <1>2 DEF TypeOK, CloseAttempts
<1>5. event' \in [Job -> Event]
  BY StatusesAreTyped DEF TypeOK, CloseAttempts
<1> QED
  BY <1>3, <1>4, <1>5 DEF TypeOK, CloseAttempts

LEMMA RecoveryOutcomeTyped == \A row : RecoveryOutcome(row) \in Outcome
  BY DEF RecoveryOutcome, Outcome, Terminal

LEMMA FinalOutcomeTyped ==
  ASSUME Typed, NEW i \in Instance, worker[i].pc = "FINALIZING"
  PROVE  FinalOutcome(i) \in Outcome
<1>1. worker[i].failure = "NONE" => worker[i].kind \in {"COMPLETED", "BLOCKED"}
  BY DEF Typed, TypeOK, HasResult, WorkerMemory
<1> QED
  BY <1>1 DEF FinalOutcome, Outcome, Terminal

\* The steps of the clock, of the producers and of the operator.
LEMMA OutsideStepsTyped ==
  ASSUME Typed,
         \/ Tick \/ UpdateControl
         \/ \E j \in Job : InsertJob(j) \/ RequestCancellation(j)
         \/ \E S \in SUBSET Job : EnforceRetention(S)
  PROVE  Typed'
<1>1. TypeOK /\ (TypeOK' /\ UNCHANGED worker => Typed')
  BY DEF Typed
<1>2. CASE Tick
  <2>1. \A n \in Int : Sink(n) \in Int
    BY DEF Sink
  <2>2. ASSUME NEW j \in Job
        PROVE  [job[j] EXCEPT
                  !.lease.ttl = IF job[j].status = "RUNNING" THEN Sink(@) ELSE @,
                  !.wait = IF job[j].status \in Waiting THEN Sink(@) ELSE @] \in JobRow
    <3> DEFINE ttl   == IF job[j].status = "RUNNING" THEN Sink(job[j].lease.ttl) ELSE job[j].lease.ttl
               wait  == IF job[j].status \in Waiting THEN Sink(job[j].wait) ELSE job[j].wait
               claim == [job[j].lease EXCEPT !.ttl = ttl]
    <3>1. job[j] \in JobRow
      BY <1>1 DEF TypeOK
    <3>2. ttl \in Int /\ wait \in Int
      BY <2>1, <3>1 DEF JobRow, JobLease
    <3>3. claim \in JobLease
      <4> HIDE DEF ttl
      <4> QED
        BY <3>1, <3>2 DEF JobRow, JobLease
    <3>4. [job[j] EXCEPT !.lease = claim, !.wait = wait] \in JobRow
      <4> HIDE DEF claim, wait
      <4> QED
        BY <3>1, <3>2, <3>3 DEF JobRow
    <3> QED
      BY <3>4
  <2>3. job' \in [Job -> JobRow]
    BY <1>2, <2>2 DEF Tick
  <2>4. lease' \in [WorkerId -> ProcessLease]
    BY <1>1, <1>2, <2>1 DEF TypeOK, Tick, ProcessLease
  <2> QED
    BY <1>1, <1>2, <2>3, <2>4 DEF TypeOK, Tick
<1>3. CASE UpdateControl
  BY <1>1, <1>3, ConstantsAssumption DEF TypeOK, UpdateControl
<1>4. ASSUME NEW j \in Job, InsertJob(j)
      PROVE  Typed'
  <2> DEFINE row == [job[j] EXCEPT !.status = "QUEUED"]
  <2>1. row \in JobRow
    BY <1>1, StatusesAreTyped DEF TypeOK, JobRow
  <2>2. job' = [job EXCEPT ![j] = row]
    BY <1>4 DEF InsertJob
  <2> HIDE DEF row
  <2> QED
    BY <1>1, <1>4, <2>1, <2>2, StatusesAreTyped DEF TypeOK, InsertJob
<1>5. ASSUME NEW j \in Job, RequestCancellation(j)
      PROVE  Typed'
  <2> DEFINE asked     == [job[j] EXCEPT !.cancel = TRUE]
             withdrawn == [job[j] EXCEPT !.cancel = TRUE, !.status = "CANCELLED", !.wait = 0]
  <2>1. asked \in JobRow /\ withdrawn \in JobRow
    <3>1. job[j] \in JobRow /\ "CANCELLED" \in Status
      BY <1>1, StatusesAreTyped DEF TypeOK
    <3>2. asked \in JobRow
      BY <3>1 DEF JobRow
    <3>3. withdrawn \in JobRow
      <4>1. \A row \in JobRow, status \in Status, cancel \in BOOLEAN, wait \in Int :
              [row EXCEPT !.cancel = cancel, !.status = status, !.wait = wait] \in JobRow
        BY DEF JobRow
      <4>2. TRUE \in BOOLEAN /\ 0 \in Int
        OBVIOUS
      <4> QED
        BY <3>1, <4>1, <4>2, Zenon
    <3> QED
      BY <3>2, <3>3
  <2>2. job' = [job EXCEPT ![j] = asked] \/ job' = [job EXCEPT ![j] = withdrawn]
    BY <1>5 DEF RequestCancellation
  <2> HIDE DEF asked, withdrawn
  <2> QED
    BY <1>1, <1>5, <2>1, <2>2, StatusesAreTyped DEF TypeOK, RequestCancellation
<1>6. ASSUME NEW S \in SUBSET Job, EnforceRetention(S)
      PROVE  Typed'
  <2>1. job' \in [Job -> JobRow] /\ attempts' \in [Job -> SUBSET Attempt]
    BY <1>1, <1>6, NoJobTyped DEF TypeOK, EnforceRetention
  <2>2. rollup' \in [attempts : Nat, cost : Nat]
    BY <1>1, <1>6 DEF TypeOK, EnforceRetention, RolledUp
  <2> QED
    BY <1>1, <1>6, <2>1, <2>2 DEF TypeOK, EnforceRetention
<1> QED
  BY <1>2, <1>3, <1>4, <1>5, <1>6

\* The steps of an instance that change rows.
LEMMA RowStepsTyped ==
  ASSUME Typed, NEW i \in Instance, NEW lag \in Lag,
         \/ ReleaseProcessLease(i) \/ AcquireProcessLease(i, lag) \/ RecoverExpiredClaims(i, lag)
         \/ ClaimNextDue(i, lag) \/ HeartbeatClaim(i, lag) \/ FinalizeClaim(i, lag)
  PROVE  Typed'
<1>1. /\ TypeOK /\ worker[i] \in WorkerMemory /\ HasResult(worker[i])
      /\ WorkerOf[i] \in WorkerId /\ lag \in Nat
      /\ LeaseDuration - lag \in Int /\ WorkerLease - lag \in Int
  BY ConstantTypes DEF Typed, TypeOK
<1>2. TypeOK' /\ Remembers(i) => Typed'
  BY RememberedTyped DEF Typed
<1>3. CASE ReleaseProcessLease(i)
  <2>1. Remembers(i)
    BY <1>3, FreshTyped DEF ReleaseProcessLease, Remembers
  <2>2. lease' \in [WorkerId -> ProcessLease]
    BY <1>1, <1>3 DEF ReleaseProcessLease, TypeOK, NoProcessLease, ProcessLease
  <2> QED
    BY <1>1, <1>2, <1>3, <2>1, <2>2, RememberedTyped DEF ReleaseProcessLease, TypeOK
<1>4. CASE AcquireProcessLease(i, lag)
  <2> DEFINE row    == lease[WorkerOf[i]]
             token  == IF row.holder = i THEN row.token ELSE row.token + 1
             taken  == [holder |-> i, token |-> token, ttl |-> WorkerLease - lag]
             memory == [worker[i] EXCEPT !.pc = "LEASED", !.token = token]
  <2>1. token \in Nat
    BY <1>1 DEF TypeOK, ProcessLease
  <2>2. taken \in ProcessLease
    BY <1>1, <2>1 DEF ProcessLease
  <2>3. memory \in WorkerMemory /\ HasResult(memory)
    <3> HIDE DEF token
    <3> QED
      BY <1>1, <2>1 DEF WorkerMemory, PC, HasResult
  <2>4. lease' = [lease EXCEPT ![WorkerOf[i]] = taken] /\ worker' = [worker EXCEPT ![i] = memory]
    BY <1>4 DEF AcquireProcessLease
  <2> HIDE DEF taken, memory
  <2>5. Remembers(i) /\ lease' \in [WorkerId -> ProcessLease]
    BY <1>1, <2>2, <2>3, <2>4 DEF Remembers, TypeOK
  <2> QED
    BY <1>1, <1>2, <1>4, <2>5, RememberedTyped DEF AcquireProcessLease, TypeOK
<1>5. CASE RecoverExpiredClaims(i, lag)
  <2>1. Remembers(i)
    <3> DEFINE memory == [worker[i] EXCEPT !.pc = IF worker[i].pc = "STARTING" THEN "IDLE" ELSE "RECOVERED"]
    <3>1. memory \in WorkerMemory /\ HasResult(memory)
      BY <1>1 DEF WorkerMemory, PC, HasResult
    <3> QED
      BY <1>5, <3>1 DEF RecoverExpiredClaims, Remembers
  <2>2. PICK S \in SUBSET Job : CloseAttempts(S, [j \in Job |-> RecoveryOutcome(job[j])], 0, lag)
    BY <1>5 DEF RecoverExpiredClaims
  <2>3. \A j \in Job : [k \in Job |-> RecoveryOutcome(job[k])][j] \in Outcome
    BY RecoveryOutcomeTyped
  <2>4. /\ job' \in [Job -> JobRow] /\ attempts' \in [Job -> SUBSET Attempt]
        /\ rollup' \in [attempts : Nat, cost : Nat] /\ event' \in [Job -> Event]
    BY <1>1, <2>2, <2>3, ClosedTyped
  <2> QED
    BY <1>1, <1>2, <1>5, <2>1, <2>4, RememberedTyped DEF RecoverExpiredClaims, TypeOK
<1>6. CASE ClaimNextDue(i, lag)
  <2>1. PICK j \in Job :
          /\ job' = [job EXCEPT ![j] =
               [status |-> "RUNNING", attempt |-> @.attempt + 1, cancel |-> FALSE, wait |-> 0,
                lease |-> [id |-> @.attempt + 1, token |-> worker[i].token,
                           workerId |-> WorkerOf[i], ttl |-> LeaseDuration - lag]]]
          /\ event' = [event EXCEPT ![j] = "JOB_LEASE_ACQUIRED"]
          /\ worker' = [worker EXCEPT ![i].pc = "EXECUTING", ![i].claimed = j,
                                      ![i].id = job[j].attempt + 1]
    BY <1>6 DEF ClaimNextDue, NextDue, Due
  <2> DEFINE claim  == [id |-> job[j].attempt + 1, token |-> worker[i].token,
                        workerId |-> WorkerOf[i], ttl |-> LeaseDuration - lag]
             row    == [status |-> "RUNNING", attempt |-> job[j].attempt + 1, cancel |-> FALSE,
                        wait |-> 0, lease |-> claim]
             memory == [worker[i] EXCEPT !.pc = "EXECUTING", !.claimed = j, !.id = job[j].attempt + 1]
  <2>2. worker[i].token \in Nat /\ job[j].attempt + 1 \in Nat
    BY <1>1 DEF TypeOK, JobRow, WorkerMemory
  <2>3. row \in JobRow
    <3>1. claim \in JobLease
      BY <1>1, <2>2 DEF JobLease
    <3> HIDE DEF claim
    <3> QED
      BY <2>2, <3>1, StatusesAreTyped DEF JobRow
  <2>4. memory \in WorkerMemory /\ HasResult(memory)
    BY <1>1, <2>2 DEF WorkerMemory, PC, HasResult
  <2>5. job' = [job EXCEPT ![j] = row] /\ worker' = [worker EXCEPT ![i] = memory]
    BY <2>1
  <2> HIDE DEF row, memory
  <2>6. Remembers(i) /\ job' \in [Job -> JobRow]
    BY <1>1, <2>3, <2>4, <2>5 DEF Remembers, TypeOK
  <2>7. event' \in [Job -> Event]
    BY <1>1, <2>1, StatusesAreTyped DEF TypeOK
  <2> QED
    BY <1>1, <1>2, <1>6, <2>6, <2>7, RememberedTyped DEF ClaimNextDue, TypeOK
<1>7. CASE HeartbeatClaim(i, lag)
  <2> DEFINE j      == worker[i].claimed
             memory == [worker[i] EXCEPT !.beat = FALSE]
             claim  == [job[j].lease EXCEPT !.ttl = LeaseDuration - lag]
             row    == [job[j] EXCEPT !.lease = claim]
             kept   == [lease[WorkerOf[i]] EXCEPT !.ttl = WorkerLease - lag]
  <2>1. memory \in WorkerMemory /\ HasResult(memory)
    BY <1>1 DEF WorkerMemory, HasResult
  <2>2. kept \in ProcessLease
    BY <1>1 DEF TypeOK, ProcessLease
  <2>3. j \in Job => row \in JobRow
    <3>1. j \in Job => job[j].lease \in JobLease
      BY <1>1 DEF TypeOK, JobRow
    <3>2. LeaseDuration - lag \in Int
      BY <1>1
    <3>3. j \in Job => claim \in JobLease
      BY <3>1, <3>2 DEF JobLease
    <3> HIDE DEF claim
    <3> QED
      BY <1>1, <3>3 DEF TypeOK, JobRow
  <2>4. /\ job' = [job EXCEPT ![j] = row]
        /\ lease' = [lease EXCEPT ![WorkerOf[i]] = kept]
        /\ worker' = [worker EXCEPT ![i] = memory]
        /\ event' = [event EXCEPT ![j] = "JOB_HEARTBEAT"]
    BY <1>7 DEF HeartbeatClaim
  <2> HIDE DEF j, memory, row, kept
  <2>5. Remembers(i) /\ lease' \in [WorkerId -> ProcessLease]
    BY <1>1, <2>1, <2>2, <2>4 DEF Remembers, TypeOK
  <2>6. job' \in [Job -> JobRow] /\ event' \in [Job -> Event]
    BY <1>1, <2>3, <2>4, StatusesAreTyped DEF TypeOK
  <2> QED
    BY <1>1, <1>2, <1>7, <2>5, <2>6, RememberedTyped DEF HeartbeatClaim, TypeOK
<1>8. CASE FinalizeClaim(i, lag)
  <2>1. Remembers(i)
    <3>1. Idle(i) \in WorkerMemory /\ HasResult(Idle(i))
      BY <1>1, FreshTyped DEF Idle, WorkerMemory, PC, HasResult
    <3> QED
      BY <1>8, <3>1 DEF FinalizeClaim, Remembers
  <2>2. CASE SameClaim(i)
    <3> DEFINE outcome == [j \in Job |-> FinalOutcome(i)]
    <3>1. /\ CloseAttempts({worker[i].claimed}, outcome, worker[i].cost, lag)
          /\ \A j \in Job : outcome[j] \in Outcome
          /\ worker[i].cost \in Nat
      BY <1>1, <1>8, <2>2, FinalOutcomeTyped DEF FinalizeClaim, WorkerMemory
    <3> HIDE DEF outcome
    <3>2. /\ job' \in [Job -> JobRow] /\ attempts' \in [Job -> SUBSET Attempt]
          /\ rollup' \in [attempts : Nat, cost : Nat] /\ event' \in [Job -> Event]
      BY <1>1, <3>1, ClosedTyped
    <3> QED
      BY <1>1, <1>2, <1>8, <2>1, <3>2, RememberedTyped DEF FinalizeClaim, TypeOK
  <2>3. CASE ~SameClaim(i)
    BY <1>1, <1>2, <1>8, <2>1, <2>3, RememberedTyped DEF FinalizeClaim, TypeOK
  <2> QED
    BY <2>2, <2>3
<1> QED
  BY <1>3, <1>4, <1>5, <1>6, <1>7, <1>8

LEMMA NextTyped == Typed /\ [Next]_vars => Typed'
<1> SUFFICES ASSUME Typed, [Next]_vars PROVE Typed'
  OBVIOUS
<1>1. CASE UNCHANGED vars
  BY <1>1 DEF Typed, TypeOK, vars
<1>2. ASSUME NEW i \in Instance, Remembers(i), UNCHANGED rows, stops' \in 0 .. MaxStops
      PROVE  Typed'
  BY <1>2, RememberedTyped DEF Typed, TypeOK
<1>3. 0 \in Lag
  BY ConstantsAssumption DEF Lag
<1> QED
  BY <1>1, <1>2, <1>3, OutsideStepsTyped, MemorySteps, RowStepsTyped DEF Next, Run

\* Rows and memories keep their shape through every transaction and abort.
THEOREM TypeCorrect == Spec => []TypeOK
<1>1. Typed => TypeOK
  BY DEF Typed
<1> QED
  BY <1>1, InitTyped, NextTyped, PTL DEF Spec

----------------------------------------------------------------------------
(* What a step does to one job.  Every invariant about a job is an invariant *)
(* of these seven moves.                                                    *)

Untouched(j) == attempts'[j] = attempts[j] /\ job'[j].attempt = job[j].attempt

Unmoved(j) ==
  /\ Untouched(j)
  /\ job'[j].status = job[j].status /\ job'[j].cancel = job[j].cancel
  /\ event'[j] = event[j] \/ (event'[j] = "JOB_HEARTBEAT" /\ job[j].status = "RUNNING")

Inserted(j) ==
  /\ Untouched(j)
  /\ job[j].status = "ABSENT" /\ job'[j].status = "QUEUED"
  /\ job'[j].cancel = job[j].cancel /\ event'[j] = "JOB_QUEUED"

Asked(j) ==
  /\ Untouched(j)
  /\ job[j].status = "RUNNING" /\ job'[j].status = "RUNNING"
  /\ job'[j].cancel /\ event'[j] = event[j]

Withdrawn(j) ==
  /\ Untouched(j)
  /\ job[j].status \in Waiting /\ job'[j].status = "CANCELLED"
  /\ job'[j].cancel /\ event'[j] = "CANCELLED"

Removed(j) ==
  /\ job[j].status \in Terminal /\ job'[j] = NoJob("DELETED")
  /\ attempts'[j] = {}

Begun(j) ==
  /\ job[j].status \in Waiting /\ job'[j].status = "RUNNING"
  /\ job'[j].attempt = job[j].attempt + 1 /\ ~job'[j].cancel
  /\ attempts'[j] = attempts[j] /\ event'[j] = "JOB_LEASE_ACQUIRED"

\* What finalizeClaim does with a usage that passes the budget.
Charged(j, cost, outcome) ==
  Spent(attempts[j]) + cost > Budget => outcome \in {"FAILED", "CANCELLED"}

Ended(j) ==
  /\ job[j].status = "RUNNING" /\ job'[j].status \in Outcome
  /\ job'[j].attempt = job[j].attempt
  /\ job[j].cancel => job'[j].status = "CANCELLED"
  /\ job'[j].cancel <=> job'[j].status = "CANCELLED"
  /\ job'[j].status = "RETRY_SCHEDULED" => job[j].attempt <= AutomaticRetries
  /\ \A a \in attempts[j] : a.attempt # job[j].attempt
  /\ \E cost \in Nat :
       /\ attempts'[j] = attempts[j] \cup
            {[attempt |-> job[j].attempt, outcome |-> job'[j].status, cost |-> cost]}
       /\ cost = 0 \/ Charged(j, cost, job'[j].status)
  /\ event'[j] = job'[j].status

Move(j) ==
  \/ Unmoved(j) \/ Inserted(j) \/ Asked(j) \/ Withdrawn(j)
  \/ Removed(j) \/ Begun(j) \/ Ended(j)

LEMMA ClosingEnds ==
  ASSUME Typed, NEW S, NEW outcome, NEW cost \in Nat, NEW lag \in Lag,
         CloseAttempts(S, outcome, cost, lag),
         \A j \in Job : j \in S =>
           /\ job[j].status = "RUNNING" /\ outcome[j] \in Outcome
           /\ job[j].cancel => outcome[j] = "CANCELLED"
           /\ outcome[j] = "RETRY_SCHEDULED" => job[j].attempt <= AutomaticRetries
           /\ cost = 0 \/ Charged(j, cost, outcome[j]),
         NEW j \in Job
  PROVE  Unmoved(j) \/ (j \in S /\ Ended(j))
<1>1. CASE j \notin S
  BY <1>1 DEF Unmoved, Untouched, CloseAttempts, Typed, TypeOK
<1>2. CASE j \in S
  <2>1. job[j] \in JobRow
    BY DEF Typed, TypeOK
  <2>2. job'[j] = ClosedRow(job[j], outcome[j], lag)
    BY <1>2 DEF CloseAttempts
  <2>3. /\ job'[j].status = outcome[j] /\ job'[j].attempt = job[j].attempt
        /\ job'[j].cancel <=> (job[j].cancel \/ outcome[j] = "CANCELLED")
    BY <2>1, <2>2 DEF ClosedRow, JobRow
  <2>4. /\ attempts'[j] = attempts[j] \cup
             {[attempt |-> job[j].attempt, outcome |-> outcome[j], cost |-> cost]}
        /\ event'[j] = outcome[j]
        /\ \A a \in attempts[j] : a.attempt # job[j].attempt
    BY <1>2 DEF CloseAttempts
  <2> QED
    BY <1>2, <2>3, <2>4 DEF Ended
<1> QED
  BY <1>1, <1>2

LEMMA Moves == ASSUME Typed, Next, NEW j \in Job PROVE Move(j)
<1>1. TypeOK /\ job[j] \in JobRow
  BY DEF Typed, TypeOK
<1>2. UNCHANGED <<job, attempts, event>> => Unmoved(j)
  BY DEF Unmoved, Untouched
<1>3. CASE Tick
  <2>1. job'[j].status = job[j].status /\ job'[j].attempt = job[j].attempt /\ job'[j].cancel = job[j].cancel
    BY <1>1, <1>3 DEF Tick, JobRow
  <2> QED
    BY <1>3, <2>1 DEF Tick, Move, Unmoved, Untouched
<1>4. CASE UpdateControl
  BY <1>2, <1>4 DEF UpdateControl, Move
<1>5. ASSUME NEW k \in Job, InsertJob(k)
      PROVE  Move(j)
  <2>1. CASE j = k
    <3>1. /\ job'[j].status = "QUEUED" /\ job'[j].attempt = job[j].attempt
          /\ job'[j].cancel = job[j].cancel /\ event'[j] = "JOB_QUEUED"
      BY <1>1, <1>5, <2>1 DEF InsertJob, JobRow, TypeOK
    <3> QED
      BY <1>5, <2>1, <3>1 DEF InsertJob, Move, Inserted, Untouched
  <2>2. CASE j # k
    BY <1>1, <1>5, <2>2 DEF InsertJob, Move, Unmoved, Untouched, TypeOK
  <2> QED
    BY <2>1, <2>2
<1>6. ASSUME NEW k \in Job, RequestCancellation(k)
      PROVE  Move(j)
  <2>1. CASE j # k
    BY <1>1, <1>6, <2>1 DEF RequestCancellation, Move, Unmoved, Untouched, TypeOK
  <2>2. CASE j = k /\ job[k].status = "RUNNING"
    <3>1. /\ job'[j].status = "RUNNING" /\ job'[j].attempt = job[j].attempt
          /\ job'[j].cancel /\ event'[j] = event[j]
      BY <1>1, <1>6, <2>2 DEF RequestCancellation, JobRow, TypeOK, Waiting
    <3> QED
      BY <1>6, <2>2, <3>1 DEF RequestCancellation, Move, Asked, Untouched
  <2>3. CASE j = k /\ job[k].status \in Waiting
    <3>1. /\ job'[j].status = "CANCELLED" /\ job'[j].attempt = job[j].attempt
          /\ job'[j].cancel /\ event'[j] = "CANCELLED"
      BY <1>1, <1>6, <2>3 DEF RequestCancellation, JobRow, TypeOK, Waiting
    <3> QED
      BY <1>6, <2>3, <3>1 DEF RequestCancellation, Move, Withdrawn, Untouched
  <2> QED
    BY <1>6, <2>1, <2>2, <2>3 DEF RequestCancellation
<1>7. ASSUME NEW S \in SUBSET Job, EnforceRetention(S)
      PROVE  Move(j)
  <2>1. CASE j \in S
    BY <1>7, <2>1 DEF EnforceRetention, Move, Removed
  <2>2. CASE j \notin S
    BY <1>7, <2>2 DEF EnforceRetention, Move, Unmoved, Untouched
  <2> QED
    BY <2>1, <2>2
<1>8. ASSUME NEW i \in Instance, NEW lag \in Lag, RecoverExpiredClaims(i, lag)
      PROVE  Move(j)
  <2> DEFINE outcome == [k \in Job |-> RecoveryOutcome(job[k])]
  <2>1. PICK S \in SUBSET Job : ExpiredBatch(S, lag) /\ CloseAttempts(S, outcome, 0, lag)
    BY <1>8 DEF RecoverExpiredClaims
  <2>2. ASSUME NEW k \in Job, k \in S
        PROVE  /\ job[k].status = "RUNNING" /\ outcome[k] \in Outcome
               /\ job[k].cancel => outcome[k] = "CANCELLED"
               /\ outcome[k] = "RETRY_SCHEDULED" => job[k].attempt <= AutomaticRetries
    BY <1>1, <2>1, <2>2, RecoveryOutcomeTyped, ConstantTypes
       DEF ExpiredBatch, Expired, RecoveryOutcome, TypeOK, JobRow
  <2> HIDE DEF outcome
  <2>3. Unmoved(j) \/ Ended(j)
    BY <2>1, <2>2, ClosingEnds
  <2> QED
    BY <2>3 DEF Move
<1>9. ASSUME NEW i \in Instance, NEW lag \in Lag, ClaimNextDue(i, lag)
      PROVE  Move(j)
  <2>1. PICK k \in Job :
          /\ job[k].status \in Waiting
          /\ job' = [job EXCEPT ![k] =
               [status |-> "RUNNING", attempt |-> @.attempt + 1, cancel |-> FALSE, wait |-> 0,
                lease |-> [id |-> @.attempt + 1, token |-> worker[i].token,
                           workerId |-> WorkerOf[i], ttl |-> LeaseDuration - lag]]]
          /\ event' = [event EXCEPT ![k] = "JOB_LEASE_ACQUIRED"]
    BY <1>9 DEF ClaimNextDue, NextDue, Due
  <2>2. CASE j # k
    BY <1>1, <1>9, <2>1, <2>2 DEF ClaimNextDue, Move, Unmoved, Untouched, TypeOK
  <2>3. CASE j = k
    <3>1. /\ job'[j].status = "RUNNING" /\ job'[j].attempt = job[j].attempt + 1
          /\ ~job'[j].cancel /\ event'[j] = "JOB_LEASE_ACQUIRED"
      BY <1>1, <2>1, <2>3 DEF TypeOK
    <3> QED
      BY <1>9, <2>1, <2>3, <3>1 DEF ClaimNextDue, Move, Begun
  <2> QED
    BY <2>2, <2>3
<1>10. ASSUME NEW i \in Instance, NEW lag \in Lag, HeartbeatClaim(i, lag)
       PROVE  Move(j)
  <2>1. job'[j].status = job[j].status /\ job'[j].attempt = job[j].attempt /\ job'[j].cancel = job[j].cancel
    BY <1>1, <1>10 DEF HeartbeatClaim, TypeOK, JobRow
  <2>2. CASE j = worker[i].claimed
    BY <1>1, <1>10, <2>1, <2>2
       DEF HeartbeatClaim, HeartbeatAccepted, SameClaim, Move, Unmoved, Untouched, TypeOK
  <2>3. CASE j # worker[i].claimed
    BY <1>1, <1>10, <2>1, <2>3 DEF HeartbeatClaim, Move, Unmoved, Untouched, TypeOK
  <2> QED
    BY <2>2, <2>3
<1>11. ASSUME NEW i \in Instance, NEW lag \in Lag, FinalizeClaim(i, lag)
       PROVE  Move(j)
  <2> DEFINE outcome == [k \in Job |-> FinalOutcome(i)]
  <2>1. CASE SameClaim(i)
    <3>1. /\ CloseAttempts({worker[i].claimed}, outcome, worker[i].cost, lag)
          /\ worker[i].cost \in Nat /\ job[worker[i].claimed].status = "RUNNING"
      BY <1>1, <1>11, <2>1 DEF FinalizeClaim, SameClaim, TypeOK, WorkerMemory
    <3>2. ASSUME NEW k \in Job, k \in {worker[i].claimed}
          PROVE  /\ job[k].status = "RUNNING" /\ outcome[k] \in Outcome
                 /\ job[k].cancel => outcome[k] = "CANCELLED"
                 /\ outcome[k] = "RETRY_SCHEDULED" => job[k].attempt <= AutomaticRetries
                 /\ worker[i].cost = 0 \/ Charged(k, worker[i].cost, outcome[k])
      <4>1. outcome[k] = FinalOutcome(i) /\ k = worker[i].claimed /\ FinalOutcome(i) \in Outcome
        BY <1>11, <3>2, FinalOutcomeTyped DEF FinalizeClaim
      <4>2. worker[i].kind # "RETRY_SCHEDULED"
        BY <1>1 DEF TypeOK, WorkerMemory
      <4>3. Charged(k, worker[i].cost, outcome[k])
        BY <4>1 DEF FinalOutcome, OverBudget, Charged
      <4> QED
        BY <3>1, <4>1, <4>2, <4>3 DEF FinalOutcome, Cancelled
    <3> HIDE DEF outcome
    <3>3. Unmoved(j) \/ Ended(j)
      BY <3>1, <3>2, ClosingEnds
    <3> QED
      BY <3>3 DEF Move
  <2>2. CASE ~SameClaim(i)
    BY <1>2, <1>11, <2>2 DEF FinalizeClaim, Move
  <2> QED
    BY <2>1, <2>2
<1>12. ASSUME NEW i \in Instance, ReleaseProcessLease(i) \/ \E lag \in Lag : AcquireProcessLease(i, lag)
       PROVE  Move(j)
  BY <1>2, <1>12 DEF ReleaseProcessLease, AcquireProcessLease, Move
<1>13. ASSUME NEW i \in Instance, UNCHANGED rows
       PROVE  Move(j)
  BY <1>2, <1>13 DEF Move
<1>14. 0 \in Lag
  BY ConstantsAssumption DEF Lag
<1> QED
  BY <1>3, <1>4, <1>5, <1>6, <1>7, <1>8, <1>9, <1>10, <1>11, <1>12, <1>13, <1>14, MemorySteps DEF Next, Run

----------------------------------------------------------------------------
(* The invariants of a job.  They hold together: only an attempt's record    *)
(* tells that a waiting job may still be retried, only the bound on the      *)
(* attempts of a waiting job bounds those of a running one.                  *)

JobInvariant(j) ==
  /\ ~Kept(j) => job[j].attempt = 0 /\ ~job[j].cancel /\ attempts[j] = {}
  /\ job[j].status = "QUEUED" => job[j].attempt = 0
  /\ job[j].status = "RUNNING" => job[j].attempt > 0
  /\ job[j].status \in Waiting => ~job[j].cancel
  /\ Kept(j) => AttemptsRecorded(j) /\ RetryBounded(j) /\ EventFits(j)

Invariant == Typed /\ \A j \in Job : JobInvariant(j)

LEMMA MoveKeepsJobInvariant ==
  ASSUME Typed, Typed', NEW j \in Job, JobInvariant(j), Move(j)
  PROVE  JobInvariant(j)'
<1>1. /\ job[j] \in JobRow /\ job'[j] \in JobRow /\ attempts[j] \in SUBSET Attempt
      /\ job[j].attempt \in Nat /\ job'[j].attempt \in Nat /\ AutomaticRetries \in Nat
      /\ \A a \in attempts[j] : a.attempt \in Nat /\ a.outcome \in Outcome
  BY ConstantTypes DEF Typed, TypeOK, JobRow, Attempt
<1>2. CASE Unmoved(j)
  <2>1. Kept(j) => AttemptsRecorded(j)'
    BY <1>2 DEF JobInvariant, Unmoved, Untouched, AttemptsRecorded
  <2>2. Kept(j) => RetryBounded(j)'
    BY <1>2 DEF JobInvariant, Unmoved, Untouched, RetryBounded
  <2>3. Kept(j) => EventFits(j)'
    BY <1>2 DEF JobInvariant, Unmoved, EventFits
  <2> QED
    BY <1>2, <2>1, <2>2, <2>3 DEF JobInvariant, Unmoved, Untouched, Kept
<1>3. CASE Inserted(j)
  <2>1. attempts'[j] = {} /\ job'[j].attempt = 0 /\ ~job'[j].cancel /\ job'[j].status = "QUEUED"
    BY <1>3 DEF Inserted, Untouched, JobInvariant, Kept
  <2>2. AttemptsRecorded(j)' /\ RetryBounded(j)'
    BY <1>1, <2>1 DEF AttemptsRecorded, RetryBounded
  <2>3. EventFits(j)'
    BY <1>3 DEF Inserted, EventFits
  <2> QED
    BY <2>1, <2>2, <2>3 DEF JobInvariant, Kept
<1>4. CASE Asked(j)
  <2>1. AttemptsRecorded(j)'
    BY <1>4 DEF JobInvariant, Kept, Asked, Untouched, AttemptsRecorded
  <2>2. RetryBounded(j)' /\ EventFits(j)'
    BY <1>4 DEF JobInvariant, Kept, Asked, Untouched, RetryBounded, EventFits
  <2> QED
    BY <1>4, <2>1, <2>2 DEF JobInvariant, Kept, Asked, Untouched, Waiting
<1>5. CASE Withdrawn(j)
  <2>1. Kept(j) /\ job[j].status # "RUNNING" /\ job[j].status \notin Outcome \ {"RETRY_SCHEDULED"}
    BY <1>5 DEF Withdrawn, Kept, Waiting, Outcome, Terminal
  <2>2. AttemptsRecorded(j)'
    BY <1>5, <2>1 DEF JobInvariant, Withdrawn, Untouched, AttemptsRecorded
  <2>3. RetryBounded(j)' /\ EventFits(j)'
    BY <1>1, <1>5, <2>1 DEF JobInvariant, Withdrawn, Untouched, RetryBounded, EventFits
  <2> QED
    BY <1>5, <2>2, <2>3 DEF JobInvariant, Kept, Withdrawn, Waiting
<1>6. CASE Removed(j)
  BY <1>6 DEF JobInvariant, Removed, NoJob, Kept, Waiting
<1>7. CASE Begun(j)
  <2>1. /\ Kept(j) /\ job[j].status # "RUNNING"
        /\ job[j].status \notin Outcome \ {"RETRY_SCHEDULED"}
        /\ job[j].status \in {"QUEUED", "RETRY_SCHEDULED"}
    BY <1>7 DEF Begun, Kept, Waiting, Outcome, Terminal
  <2>2. AttemptsRecorded(j)'
    <3>1. AttemptsRecorded(j) /\ job'[j].attempt = job[j].attempt + 1
          /\ attempts'[j] = attempts[j] /\ job'[j].status = "RUNNING"
      BY <1>7, <2>1 DEF JobInvariant, Begun
    <3>2. ASSUME NEW n \in 1 .. job'[j].attempt
          PROVE  (\E a \in attempts'[j] : a.attempt = n)
                   <=> ~(job'[j].status = "RUNNING" /\ n = job'[j].attempt)
      BY <1>1, <2>1, <3>1 DEF AttemptsRecorded
    <3>3. \A a \in attempts'[j] : a.attempt \in 1 .. job'[j].attempt
      BY <1>1, <3>1 DEF AttemptsRecorded
    <3> QED
      BY <3>1, <3>2, <3>3 DEF AttemptsRecorded
  <2>3. RetryBounded(j)'
    BY <1>1, <1>7, <2>1 DEF JobInvariant, Begun, RetryBounded
  <2>4. EventFits(j)'
    BY <1>7 DEF Begun, EventFits
  <2> QED
    BY <1>1, <1>7, <2>2, <2>3, <2>4 DEF JobInvariant, Kept, Begun, Waiting
<1>8. CASE Ended(j)
  <2>1. PICK cost \in Nat : attempts'[j] = attempts[j] \cup
          {[attempt |-> job[j].attempt, outcome |-> job'[j].status, cost |-> cost]}
    BY <1>8 DEF Ended
  <2> DEFINE record == [attempt |-> job[j].attempt, outcome |-> job'[j].status, cost |-> cost]
  <2>2. /\ attempts'[j] = attempts[j] \cup {record}
        /\ record.attempt = job[j].attempt /\ record.outcome = job'[j].status
    BY <2>1
  <2> HIDE DEF record
  <2>3. /\ Kept(j) /\ Kept(j)' /\ job[j].status = "RUNNING" /\ job'[j].status # "RUNNING"
        /\ job[j].attempt > 0 /\ job'[j].attempt = job[j].attempt
        /\ job'[j].status # "QUEUED"
        /\ AttemptsRecorded(j) /\ RetryBounded(j)
        /\ \A a \in attempts[j] : a.attempt # job[j].attempt
    BY <1>8 DEF JobInvariant, Ended, Kept, Outcome, Terminal
  <2>4. AttemptsRecorded(j)'
    <3>1. ASSUME NEW n \in 1 .. job'[j].attempt
          PROVE  \E a \in attempts'[j] : a.attempt = n
      <4>1. CASE n = job[j].attempt
        BY <2>2, <4>1
      <4>2. CASE n # job[j].attempt
        BY <1>1, <2>2, <2>3, <4>2 DEF AttemptsRecorded
      <4> QED
        BY <4>1, <4>2
    <3>2. \A a, b \in attempts'[j] : a.attempt = b.attempt => a = b
      BY <2>2, <2>3 DEF AttemptsRecorded
    <3>3. \A a \in attempts'[j] : a.attempt \in 1 .. job'[j].attempt
      BY <1>1, <2>2, <2>3 DEF AttemptsRecorded
    <3> QED
      BY <2>3, <3>1, <3>2, <3>3 DEF AttemptsRecorded
  <2>5. RetryBounded(j)'
    <3>1. \A a \in attempts[j] : a.outcome = "RETRY_SCHEDULED"
      BY <2>3 DEF RetryBounded
    <3> QED
      BY <1>1, <1>8, <2>2, <2>3, <3>1 DEF RetryBounded, Ended
  <2>6. EventFits(j)'
    BY <1>8 DEF Ended, EventFits
  <2> QED
    BY <1>1, <1>8, <2>3, <2>4, <2>5, <2>6 DEF JobInvariant, Ended, Waiting
<1> QED
  BY <1>2, <1>3, <1>4, <1>5, <1>6, <1>7, <1>8 DEF Move

LEMMA InitInvariant == Init => Invariant
<1> SUFFICES ASSUME Init, NEW j \in Job PROVE JobInvariant(j)
  BY InitTyped DEF Invariant
<1> QED
  BY DEF Init, JobInvariant, NoJob, Kept, Waiting

LEMMA NextInvariant == Invariant /\ [Next]_vars => Invariant'
<1> SUFFICES ASSUME Invariant, [Next]_vars PROVE Invariant'
  OBVIOUS
<1>1. Typed /\ Typed'
  BY NextTyped DEF Invariant
<1>2. CASE UNCHANGED vars
  <2>1. ASSUME NEW j \in Job PROVE JobInvariant(j)'
    BY <1>2 DEF Invariant, JobInvariant, Kept, AttemptsRecorded, RetryBounded, EventFits, vars
  <2> QED
    BY <1>1, <2>1 DEF Invariant
<1>3. CASE Next
  BY <1>1, <1>3, Moves, MoveKeepsJobInvariant DEF Invariant
<1> QED
  BY <1>2, <1>3

LEMMA InvariantHolds == Spec => []Invariant
  BY InitInvariant, NextInvariant, PTL DEF Spec

\* The attempts of a job are recorded once each and without gaps, through
\* finalizeClaim, recovery, supersession and crashes.
THEOREM AttemptAccountingHolds == Spec => []AttemptAccounting
<1>1. Invariant => AttemptAccounting
  BY DEF Invariant, JobInvariant, AttemptAccounting
<1> QED
  BY <1>1, InvariantHolds, PTL

\* finalizeClaim and recoverExpiredClaims together never retry a job more often
\* than its retry policy says.
THEOREM BoundedRetryHolds == Spec => []BoundedRetry
<1>1. Invariant => BoundedRetry
  BY DEF Invariant, JobInvariant, BoundedRetry
<1> QED
  BY <1>1, InvariantHolds, PTL

\* No waiting job carries a cancellation request that claimNextDue would drop.
THEOREM CancellationKeptHolds == Spec => []CancellationKept
<1>1. Invariant => CancellationKept
  BY DEF Invariant, JobInvariant, CancellationKept
<1> QED
  BY <1>1, InvariantHolds, PTL

\* The newest operational event of a job tells its status.
THEOREM EventTellsStatusHolds == Spec => []EventTellsStatus
<1>1. Invariant => EventTellsStatus
  BY DEF Invariant, JobInvariant, EventTellsStatus
<1> QED
  BY <1>1, InvariantHolds, PTL

\* The rows of every job agree with each other and with its status.
THEOREM JobsAreSoundHolds == Spec => []JobsAreSound
<1>1. AttemptAccounting /\ BoundedRetry /\ CancellationKept /\ EventTellsStatus => JobsAreSound
  BY DEF JobsAreSound
<1> QED
  BY <1>1, AttemptAccountingHolds, BoundedRetryHolds, CancellationKeptHolds, EventTellsStatusHolds, PTL

----------------------------------------------------------------------------
(* Claims.  Two instances that have claimed one job did so in different      *)
(* attempts, so the leaseId of its row names the claim of one of them.       *)

ClaimInvariant ==
  \A i \in Instance :
    LET j == worker[i].claimed IN
      j # "none" =>
        /\ job[j].status # "ABSENT"
        /\ Kept(j) =>
             /\ worker[i].id <= job[j].attempt
             /\ \A k \in Instance \ {i} : worker[k].claimed = j => worker[k].id # worker[i].id

\* What a step does to the claim instance i has in hand.
KeepsClaim(i) ==
  \/ worker'[i].claimed = "none"
  \/ worker'[i].claimed = worker[i].claimed /\ worker'[i].id = worker[i].id

Claims(i, j) ==
  /\ job[j].status \in Waiting /\ job'[j].attempt = job[j].attempt + 1
  /\ worker'[i].claimed = j /\ worker'[i].id = job'[j].attempt
  /\ \A k \in Instance \ {i} : worker'[k] = worker[k]

LEMMA MemoryKeepsClaim ==
  ASSUME Typed, NEW i \in Instance, NEW memory,
         memory.claimed = "none" \/ (memory.claimed = worker[i].claimed /\ memory.id = worker[i].id),
         worker' = [worker EXCEPT ![i] = memory]
  PROVE  \A k \in Instance : KeepsClaim(k)
  BY DEF Typed, TypeOK, KeepsClaim

LEMMA ClaimMoves ==
  ASSUME Typed, Next
  PROVE  \/ \A i \in Instance : KeepsClaim(i)
         \/ \E i \in Instance, j \in Job : Claims(i, j)
<1>1. worker \in [Instance -> WorkerMemory]
  BY DEF Typed, TypeOK
<1>2. CASE UNCHANGED worker
  BY <1>2 DEF KeepsClaim
<1>3. ASSUME NEW i \in Instance, NEW lag \in Lag, ClaimNextDue(i, lag)
      PROVE  \E j \in Job : Claims(i, j)
  <2>1. PICK j \in Job :
          /\ job[j].status \in Waiting
          /\ job' = [job EXCEPT ![j] =
               [status |-> "RUNNING", attempt |-> @.attempt + 1, cancel |-> FALSE, wait |-> 0,
                lease |-> [id |-> @.attempt + 1, token |-> worker[i].token,
                           workerId |-> WorkerOf[i], ttl |-> LeaseDuration - lag]]]
          /\ worker' = [worker EXCEPT ![i].pc = "EXECUTING", ![i].claimed = j,
                                      ![i].id = job[j].attempt + 1]
    BY <1>3 DEF ClaimNextDue, NextDue, Due
  <2>2. job'[j].attempt = job[j].attempt + 1
    BY <2>1 DEF Typed, TypeOK
  <2>3. worker'[i].claimed = j /\ worker'[i].id = job[j].attempt + 1
    BY <1>1, <2>1 DEF WorkerMemory
  <2>4. \A k \in Instance \ {i} : worker'[k] = worker[k]
    BY <1>1, <2>1
  <2> QED
    BY <2>1, <2>2, <2>3, <2>4 DEF Claims
<1>4. ASSUME NEW i \in Instance, NEW lag \in Lag,
             \/ Start(i) \/ Crash(i) \/ Close(i) \/ TransactionFails(i)
             \/ ReleaseProcessLease(i) \/ CloseTimesOut(i) \/ ClaimNothing(i, lag)
             \/ StartHeartbeat(i) \/ HeartbeatRefused(i) \/ Timeout(i)
             \/ HandlerReturns(i) \/ HandlerThrows(i) \/ ExternalActionRefused(i, lag)
             \/ HandlerQuiesces(i) \/ HandlerDoesNotQuiesce(i)
             \/ AcquireProcessLease(i, lag) \/ RecoverExpiredClaims(i, lag)
             \/ HeartbeatClaim(i, lag) \/ FinalizeClaim(i, lag)
      PROVE  \A k \in Instance : KeepsClaim(k)
  <2>1. \/ worker'[i].claimed = "none"
        \/ worker'[i].claimed = worker[i].claimed /\ worker'[i].id = worker[i].id
    <3>1. CASE Close(i)
      <4>1. CASE worker[i].pc = "EXECUTING"
        BY <1>1, <3>1, <4>1 DEF Close, WorkerMemory
      <4>2. CASE worker[i].pc # "EXECUTING"
        BY <1>1, <3>1, <4>2 DEF Close, WorkerMemory
      <4> QED
        BY <4>1, <4>2
    <3>2. CASE Start(i)
      BY <1>1, <3>2 DEF Start, WorkerMemory
    <3>3. CASE Crash(i)
      BY <1>1, <3>3 DEF Crash, Fresh, WorkerMemory
    <3>4. CASE TransactionFails(i)
      BY <1>1, <3>4 DEF TransactionFails, Fresh, WorkerMemory
    <3>5. CASE ReleaseProcessLease(i)
      BY <1>1, <3>5 DEF ReleaseProcessLease, Fresh, WorkerMemory
    <3>6. CASE CloseTimesOut(i)
      BY <1>1, <3>6 DEF CloseTimesOut, Fresh, WorkerMemory
    <3>7. CASE ClaimNothing(i, lag)
      BY <1>1, <3>7 DEF ClaimNothing, Idle, Fresh, WorkerMemory
    <3>8. CASE StartHeartbeat(i)
      BY <1>1, <3>8 DEF StartHeartbeat, WorkerMemory
    <3>9. CASE FinalizeClaim(i, lag)
      BY <1>1, <3>9 DEF FinalizeClaim, Idle, Fresh, WorkerMemory
    <3>10. CASE HeartbeatRefused(i)
      <4> DEFINE memory == [Aborted(worker[i], "CANCELLED") EXCEPT !.beat = FALSE]
      <4>1. memory.claimed = worker[i].claimed /\ memory.id = worker[i].id
        BY <1>1 DEF Aborted, WorkerMemory
      <4>2. worker' = [worker EXCEPT ![i] = memory]
        BY <3>10 DEF HeartbeatRefused
      <4> HIDE DEF memory
      <4> QED
        BY <1>1, <4>1, <4>2
    <3>11. CASE Timeout(i)
      <4> DEFINE memory == Aborted(worker[i], IF worker[i].closing THEN "CANCELLED" ELSE "TIMEOUT")
      <4>1. memory.claimed = worker[i].claimed /\ memory.id = worker[i].id
        BY <1>1 DEF Aborted, WorkerMemory
      <4>2. worker' = [worker EXCEPT ![i] = memory]
        BY <3>11 DEF Timeout
      <4> HIDE DEF memory
      <4> QED
        BY <1>1, <4>1, <4>2
    <3>12. CASE HeartbeatClaim(i, lag)
      BY <1>1, <3>12 DEF HeartbeatClaim, WorkerMemory
    <3>13. CASE HandlerReturns(i)
      <4>1. PICK kind \in {"COMPLETED", "BLOCKED"}, cost \in Usage :
              worker' = [worker EXCEPT ![i].pc = "FINALIZING", ![i].kind = kind, ![i].cost = cost,
                           ![i].failure = IF cost > Budget THEN "INVALID_RESULT" ELSE "NONE"]
        BY <3>13 DEF HandlerReturns
      <4> QED
        BY <1>1, <4>1 DEF WorkerMemory
    <3>14. CASE HandlerThrows(i)
      BY <1>1, <3>14 DEF HandlerThrows, WorkerMemory
    <3>15. CASE ExternalActionRefused(i, lag)
      <4>1. worker' = [worker EXCEPT ![i].pc = "FINALIZING", ![i].failure = "CANCELLED"]
        BY <3>15 DEF ExternalActionRefused
      <4> QED
        BY <1>1, <4>1 DEF WorkerMemory
    <3>16. CASE HandlerQuiesces(i)
      BY <1>1, <3>16 DEF HandlerQuiesces, WorkerMemory
    <3>17. CASE HandlerDoesNotQuiesce(i)
      BY <1>1, <3>17 DEF HandlerDoesNotQuiesce, WorkerMemory
    <3>18. CASE AcquireProcessLease(i, lag)
      <4>1. PICK token : worker' = [worker EXCEPT ![i].pc = "LEASED", ![i].token = token]
        BY <3>18 DEF AcquireProcessLease
      <4> QED
        BY <1>1, <4>1 DEF WorkerMemory
    <3>19. CASE RecoverExpiredClaims(i, lag)
      <4>1. PICK pc : worker' = [worker EXCEPT ![i].pc = pc]
        BY <3>19 DEF RecoverExpiredClaims
      <4> QED
        BY <1>1, <4>1 DEF WorkerMemory
    <3> QED
      BY <1>4, <3>1, <3>2, <3>3, <3>4, <3>5, <3>6, <3>7, <3>8, <3>9, <3>10,
         <3>11, <3>12, <3>13, <3>14, <3>15, <3>16, <3>17, <3>18, <3>19
  <2>2. \A k \in Instance \ {i} : worker'[k] = worker[k]
    BY <1>1, <1>4 DEF Start, Crash, Close, TransactionFails, ReleaseProcessLease, CloseTimesOut,
       ClaimNothing, StartHeartbeat, FinalizeClaim, HeartbeatRefused, Timeout, HeartbeatClaim,
       HandlerReturns, HandlerThrows, ExternalActionRefused, HandlerQuiesces, HandlerDoesNotQuiesce,
       AcquireProcessLease, RecoverExpiredClaims
  <2> QED
    BY <2>1, <2>2 DEF KeepsClaim
<1>5. Tick \/ UpdateControl \/ (\E j \in Job : InsertJob(j) \/ RequestCancellation(j))
        \/ (\E S \in SUBSET Job : EnforceRetention(S)) => UNCHANGED worker
  BY DEF Tick, UpdateControl, InsertJob, RequestCancellation, EnforceRetention
<1>6. 0 \in Lag
  BY ConstantsAssumption DEF Lag
<1> QED
  BY <1>2, <1>3, <1>4, <1>5, <1>6 DEF Next, Run

LEMMA NextClaimInvariant ==
  ASSUME Invariant, ClaimInvariant, [Next]_vars
  PROVE  ClaimInvariant'
<1>1. Typed /\ Typed' /\ \A j \in Job : JobInvariant(j)
  BY NextTyped DEF Invariant
<1>2. /\ worker \in [Instance -> WorkerMemory] /\ worker' \in [Instance -> WorkerMemory]
      /\ \A i \in Instance : worker[i].claimed \in Job \cup {"none"} /\ worker[i].id \in Nat
      /\ \A i \in Instance : worker'[i].claimed \in Job \cup {"none"} /\ worker'[i].id \in Nat
      /\ \A j \in Job : job[j].attempt \in Nat /\ job'[j].attempt \in Nat
  BY <1>1 DEF Typed, TypeOK, WorkerMemory, JobRow
<1>3. CASE UNCHANGED vars
  BY <1>3 DEF ClaimInvariant, Kept, vars
<1>4. CASE Next
  <2>1. ASSUME NEW j \in Job
        PROVE  /\ job'[j].status = "ABSENT" => job[j].status = "ABSENT"
               /\ Kept(j)' /\ job[j].status # "ABSENT" => Kept(j)
               /\ Kept(j)' => job'[j].attempt >= job[j].attempt
    <3>1. Move(j)
      BY <1>1, <1>4, Moves
    <3> QED
      BY <1>2, <3>1 DEF Move, Unmoved, Inserted, Asked, Withdrawn, Removed, Begun, Ended, Untouched,
         NoJob, Kept, Outcome, Terminal, Waiting
  <2>2. CASE \A i \in Instance : KeepsClaim(i)
    BY <1>2, <2>1, <2>2 DEF ClaimInvariant, KeepsClaim
  <2>3. ASSUME NEW i \in Instance, NEW j \in Job, Claims(i, j)
        PROVE  ClaimInvariant'
    <3>1. /\ worker'[i].claimed = j /\ worker'[i].id = job[j].attempt + 1
          /\ job'[j].attempt = job[j].attempt + 1 /\ Kept(j)
          /\ \A k \in Instance \ {i} : worker'[k] = worker[k]
      BY <2>3 DEF Claims, Kept, Waiting
    <3>2. \A k \in Instance \ {i} : worker'[k].claimed = j /\ j # "none" => worker'[k].id <= job[j].attempt
      BY <3>1 DEF ClaimInvariant
    <3>3. job'[j].status # "ABSENT"
      BY <2>1, <3>1 DEF Kept
    <3> SUFFICES ASSUME NEW k \in Instance, worker'[k].claimed # "none"
                 PROVE  /\ job'[worker'[k].claimed].status # "ABSENT"
                        /\ Kept(worker[k].claimed)' =>
                             /\ worker'[k].id <= job'[worker'[k].claimed].attempt
                             /\ \A l \in Instance \ {k} :
                                  worker'[l].claimed = worker'[k].claimed => worker'[l].id # worker'[k].id
      BY DEF ClaimInvariant
    <3>4. CASE k = i
      BY <1>2, <3>1, <3>2, <3>3, <3>4
    <3>5. CASE k # i
      BY <1>2, <2>1, <3>1, <3>2, <3>5 DEF ClaimInvariant
    <3> QED
      BY <3>4, <3>5
  <2> QED
    BY <1>1, <1>4, <2>2, <2>3, ClaimMoves
<1> QED
  BY <1>3, <1>4

\* At most one instance holds the claim that a RUNNING row names, although
\* fencing tokens and worker identities repeat: one may finalize, no other.
THEOREM OneClaimHolderHolds == Spec => []OneClaimHolder
<1>1. Init => ClaimInvariant
  BY DEF Init, ClaimInvariant, Fresh
<1>2. Invariant /\ ClaimInvariant /\ [Next]_vars => ClaimInvariant'
  BY NextClaimInvariant
<1>3. ClaimInvariant => OneClaimHolder
  <2> SUFFICES ASSUME ClaimInvariant, NEW a \in Instance, NEW b \in Instance,
                      worker[a].claimed # "none", SameClaim(a),
                      worker[b].claimed = worker[a].claimed, SameClaim(b)
               PROVE  a = b
    BY DEF OneClaimHolder
  <2>1. Kept(worker[a].claimed) /\ worker[a].id = worker[b].id
    BY DEF SameClaim, Kept
  <2> QED
    BY <2>1 DEF ClaimInvariant
<1> QED
  BY <1>1, <1>2, <1>3, InvariantHolds, PTL DEF Spec

----------------------------------------------------------------------------
(* The runtime implements JobLifecycle: each of the seven moves of a job is  *)
(* a step of its lifecycle or leaves it as it is.                           *)

LEMMA PhaseOfStatus ==
  ASSUME NEW row, row.status \in Status
  PROVE  /\ Phase(row) \in Lifecycle!JobPhase
         /\ Phase(row) = "none" <=> row.status = "ABSENT"
         /\ Phase(row) = "waiting" <=> row.status \in Waiting
         /\ Phase(row) = "open" <=> row.status = "RUNNING"
         /\ Phase(row) = "cancelled" <=> row.status = "CANCELLED"
         /\ Phase(row) = "gone" <=> row.status = "DELETED"
         /\ Phase(row) \in Lifecycle!Verdict <=> row.status \in Terminal
  BY DEF Phase, Lifecycle!JobPhase, Lifecycle!Verdict, Status, Waiting, Terminal

LEMMA MoveImplements ==
  ASSUME Typed, Typed', NEW j \in Job, JobInvariant(j), Move(j)
  PROVE  Lifecycle!JobStep(j) \/ Lifecycle!Same(j)
<1>1. /\ job[j] \in JobRow /\ job'[j] \in JobRow /\ AutomaticRetries \in Nat
      /\ job[j].status \in Status /\ job'[j].status \in Status
      /\ job[j].attempt \in Nat /\ job[j].cancel \in BOOLEAN /\ job'[j].cancel \in BOOLEAN
  BY ConstantTypes DEF Typed, TypeOK, JobRow
<1> DEFINE before == Phase(job[j])
           after  == Phase(job'[j])
<1>2. /\ before = "none" <=> job[j].status = "ABSENT"
      /\ before = "waiting" <=> job[j].status \in Waiting
      /\ before = "open" <=> job[j].status = "RUNNING"
      /\ before \in Lifecycle!Verdict <=> job[j].status \in Terminal
  BY <1>1, PhaseOfStatus
<1>3. /\ after = "waiting" <=> job'[j].status \in Waiting
      /\ after = "open" <=> job'[j].status = "RUNNING"
      /\ after = "cancelled" <=> job'[j].status = "CANCELLED"
      /\ after = "gone" <=> job'[j].status = "DELETED"
      /\ after \in Lifecycle!Verdict <=> job'[j].status \in Terminal
  BY <1>1, PhaseOfStatus
<1>4. job'[j].status = job[j].status => after = before
  BY DEF Phase
<1>5. attempts'[j] = attempts[j]
        => {a.attempt : a \in attempts'[j]} = {a.attempt : a \in attempts[j]}
  OBVIOUS
<1> HIDE DEF before, after
<1>6. CASE Unmoved(j)
  BY <1>4, <1>5, <1>6 DEF Unmoved, Untouched, Lifecycle!Same, before, after
<1>7. CASE Inserted(j)
  BY <1>2, <1>3, <1>5, <1>7 DEF Inserted, Untouched, Waiting, Lifecycle!JobStep, Lifecycle!Submit, before, after
<1>8. CASE Asked(j)
  BY <1>2, <1>3, <1>5, <1>8 DEF Asked, Untouched, Lifecycle!JobStep, Lifecycle!Request, before, after
<1>9. CASE Withdrawn(j)
  BY <1>2, <1>3, <1>5, <1>9 DEF Withdrawn, Untouched, Lifecycle!JobStep, Lifecycle!Withdraw, before, after
<1>10. CASE Removed(j)
  <2>1. /\ job'[j].status = "DELETED" /\ job'[j].attempt = 0 /\ ~job'[j].cancel
        /\ {a.attempt : a \in attempts'[j]} = {}
    BY <1>10 DEF Removed, NoJob
  <2> QED
    BY <1>2, <1>3, <1>10, <2>1 DEF Removed, Lifecycle!JobStep, Lifecycle!Remove, before, after
<1>11. CASE Begun(j)
  <2>1. job[j].attempt < AutomaticRetries + 1 /\ ~job[j].cancel
    <3>1. Kept(j)
      BY <1>11 DEF Begun, Kept, Waiting
    <3> QED
      BY <1>1, <1>11, <3>1 DEF Begun, JobInvariant, RetryBounded, Waiting
  <2> QED
    BY <1>2, <1>3, <1>5, <1>11, <2>1 DEF Begun, Lifecycle!JobStep, Lifecycle!Begin, before, after
<1>12. CASE Ended(j)
  <2> DEFINE old == {a.attempt : a \in attempts[j]}
             new == {a.attempt : a \in attempts'[j]}
  <2>1. new = old \cup {job[j].attempt} /\ job[j].attempt \notin old
    <3>1. PICK cost \in Nat : attempts'[j] = attempts[j] \cup
            {[attempt |-> job[j].attempt, outcome |-> job'[j].status, cost |-> cost]}
      BY <1>12 DEF Ended
    <3> DEFINE record == [attempt |-> job[j].attempt, outcome |-> job'[j].status, cost |-> cost]
    <3>2. attempts'[j] = attempts[j] \cup {record} /\ record.attempt = job[j].attempt
      BY <3>1
    <3> HIDE DEF record
    <3>3. \A a \in attempts[j] : a.attempt # job[j].attempt
      BY <1>12 DEF Ended
    <3> QED
      BY <3>2, <3>3
  <2> HIDE DEF old, new
  <2>2. Lifecycle!EndAttempt(j)
    BY <1>2, <1>12, <2>1 DEF Ended, Lifecycle!EndAttempt, before, old, new
  <2>3. CASE job'[j].status = "RETRY_SCHEDULED"
    <3>1. Lifecycle!Retry(j)
      BY <1>1, <1>3, <1>12, <2>2, <2>3 DEF Ended, Waiting, Lifecycle!Retry, after
    <3> QED
      BY <3>1 DEF Lifecycle!JobStep
  <2>4. CASE job'[j].status \in Terminal
    <3>1. Lifecycle!Conclude(j)
      BY <1>1, <1>3, <1>12, <2>2, <2>4 DEF Ended, Lifecycle!Conclude, after
    <3> QED
      BY <3>1 DEF Lifecycle!JobStep
  <2> QED
    BY <1>12, <2>3, <2>4 DEF Ended, Outcome
<1> QED
  BY <1>6, <1>7, <1>8, <1>9, <1>10, <1>11, <1>12 DEF Move

\* Every behaviour of the runtime, projected on what the jobs' rows tell, is a
\* behaviour of JobLifecycle.
THEOREM LifecycleImplemented == Spec => ImplementsLifecycle
<1>1. Init => Lifecycle!LifecycleInit
  <2> SUFFICES ASSUME Init PROVE Lifecycle!LifecycleInit
    OBVIOUS
  <2>1. ASSUME NEW j \in Job
        PROVE  /\ Phase(job[j]) = "none" /\ job[j].attempt = 0 /\ job[j].cancel = FALSE
               /\ {a.attempt : a \in attempts[j]} = {}
    <3>1. job[j] = NoJob("ABSENT") /\ attempts[j] = {}
      BY DEF Init
    <3>2. job[j].status = "ABSENT" /\ job[j].attempt = 0 /\ job[j].cancel = FALSE
      BY <3>1 DEF NoJob
    <3>3. Phase(job[j]) = "none"
      BY <3>2 DEF Phase, Waiting
    <3>4. {a.attempt : a \in attempts[j]} = {}
      BY <3>1
    <3> QED
      BY <3>2, <3>3, <3>4
  <2> QED
    BY <2>1 DEF Lifecycle!LifecycleInit
<1>2. Invariant /\ Invariant' /\ [Next]_vars => [Lifecycle!LifecycleNext]_(Lifecycle!lifecycleVars)
  <2> SUFFICES ASSUME Invariant, Invariant', [Next]_vars
               PROVE  [Lifecycle!LifecycleNext]_(Lifecycle!lifecycleVars)
    OBVIOUS
  <2>1. CASE UNCHANGED vars
    BY <2>1 DEF vars, Lifecycle!lifecycleVars
  <2>2. CASE Next
    <3>1. \A j \in Job : Lifecycle!JobStep(j) \/ Lifecycle!Same(j)
      BY <2>2, Moves, MoveImplements DEF Invariant
    <3>2. ASSUME NEW j \in Job
          PROVE  /\ Phase(job'[j]) \in Lifecycle!JobPhase
                 /\ job'[j].attempt \in 0 .. AutomaticRetries + 1
                 /\ {a.attempt : a \in attempts'[j]} \in SUBSET (1 .. AutomaticRetries + 1)
                 /\ job'[j].cancel \in BOOLEAN
      <4>1. /\ job'[j].status \in Status /\ job'[j].attempt \in Nat /\ job'[j].cancel \in BOOLEAN
            /\ AutomaticRetries \in Nat
        BY ConstantTypes DEF Invariant, Typed, TypeOK, JobRow
      <4>2. job'[j].attempt <= AutomaticRetries + 1
        BY <4>1 DEF Invariant, JobInvariant, RetryBounded
      <4>3. \A a \in attempts'[j] : a.attempt \in 1 .. job'[j].attempt
        BY DEF Invariant, JobInvariant, AttemptsRecorded
      <4> QED
        BY <4>1, <4>2, <4>3, PhaseOfStatus
    <3> QED
      BY <3>1, <3>2 DEF Lifecycle!LifecycleNext
  <2> QED
    BY <2>1, <2>2
<1> QED
  BY <1>1, <1>2, InvariantHolds, PTL DEF Spec, ImplementsLifecycle, Lifecycle!LifecycleSpec

----------------------------------------------------------------------------
(* How a claim ends. *)

LEMMA ClaimEnds ==
  ASSUME Typed, Next, NEW j \in Job, job[j].status = "RUNNING", job'[j].status # "RUNNING"
  PROVE  \/ job[j].lease.ttl <= 0
         \/ \E i \in Instance : /\ worker[i].claimed = j /\ SameClaim(i)
                                /\ worker[i].pc = "FINALIZING" /\ worker'[i].pc = "IDLE"
<1>1. TypeOK /\ job[j] \in JobRow /\ job[j].lease.ttl \in Int
  BY DEF Typed, TypeOK, JobRow, JobLease
<1>2. job'[j] # job[j]
  OBVIOUS
<1>3. ~Tick
  <2> SUFFICES ASSUME Tick PROVE job'[j].status = job[j].status
    OBVIOUS
  <2> QED
    BY <1>1 DEF Tick, JobRow
<1>4. ~UpdateControl
  BY <1>2 DEF UpdateControl
<1>5. ASSUME NEW k \in Job PROVE ~InsertJob(k)
  BY <1>1 DEF InsertJob, TypeOK
<1>6. ASSUME NEW k \in Job PROVE ~RequestCancellation(k)
  BY <1>1 DEF RequestCancellation, Waiting, TypeOK, JobRow
<1>7. ASSUME NEW S \in SUBSET Job PROVE ~EnforceRetention(S)
  BY DEF EnforceRetention, Terminal
<1>8. ASSUME NEW i \in Instance, NEW lag \in Lag, RecoverExpiredClaims(i, lag)
      PROVE  job[j].lease.ttl <= 0
  <2>1. PICK S \in SUBSET Job :
          /\ ExpiredBatch(S, lag)
          /\ CloseAttempts(S, [k \in Job |-> RecoveryOutcome(job[k])], 0, lag)
    BY <1>8 DEF RecoverExpiredClaims
  <2>2. j \in S
    BY <1>2, <2>1 DEF CloseAttempts
  <2> QED
    BY <1>1, <2>1, <2>2, ConstantTypes DEF ExpiredBatch, Expired, Passed
<1>9. ASSUME NEW i \in Instance, NEW lag \in Lag PROVE ~ClaimNextDue(i, lag)
  BY <1>1 DEF ClaimNextDue, NextDue, Due, Waiting, TypeOK
<1>10. ASSUME NEW i \in Instance, NEW lag \in Lag PROVE ~HeartbeatClaim(i, lag)
  <2> SUFFICES ASSUME HeartbeatClaim(i, lag) PROVE job'[j].status = job[j].status
    OBVIOUS
  <2> QED
    BY <1>1 DEF HeartbeatClaim, TypeOK, JobRow
<1>11. ASSUME NEW i \in Instance, NEW lag \in Lag, FinalizeClaim(i, lag)
       PROVE  /\ worker[i].claimed = j /\ SameClaim(i)
              /\ worker[i].pc = "FINALIZING" /\ worker'[i].pc = "IDLE"
  <2>1. SameClaim(i)
    BY <1>2, <1>11 DEF FinalizeClaim
  <2>2. worker[i].claimed = j
    BY <1>2, <1>11, <2>1 DEF FinalizeClaim, CloseAttempts
  <2>3. worker'[i] = Idle(i)
    BY <1>1, <1>11 DEF FinalizeClaim, TypeOK
  <2>4. Idle(i).pc = "IDLE"
    BY DEF Idle, Fresh
  <2> QED
    BY <1>11, <2>1, <2>2, <2>3, <2>4 DEF FinalizeClaim
<1>12. ASSUME NEW i \in Instance, NEW lag \in Lag
       PROVE  ~(ReleaseProcessLease(i) \/ AcquireProcessLease(i, lag))
  BY <1>2 DEF ReleaseProcessLease, AcquireProcessLease
<1>13. 0 \in Lag
  BY ConstantsAssumption DEF Lag
<1>14. ~UNCHANGED rows
  BY <1>2
<1> QED
  BY <1>3, <1>4, <1>5, <1>6, <1>7, <1>8, <1>9, <1>10, <1>11, <1>12, <1>13, <1>14, MemorySteps DEF Next, Run

\* A claim is taken from its holder by expiry alone: an instance that recovers
\* with an old clock reading errs on the holder's side.
THEOREM ClaimEndsByHolderOrExpiryHolds == Spec => ClaimEndsByHolderOrExpiry
<1> DEFINE ends ==
      \A j \in Job : job[j].status = "RUNNING" /\ job'[j].status # "RUNNING" =>
        \/ job[j].lease.ttl <= 0
        \/ \E i \in Instance : /\ worker[i].claimed = j /\ SameClaim(i)
                               /\ worker[i].pc = "FINALIZING" /\ worker'[i].pc = "IDLE"
<1>1. Invariant /\ [Next]_vars => [ends]_vars
  BY ClaimEnds DEF Invariant
<1> QED
  BY <1>1, InvariantHolds, PTL DEF Spec, ClaimEndsByHolderOrExpiry

----------------------------------------------------------------------------
(* Usage.  A job's usage is the sum over its records, the workspace's the sum *)
(* over its jobs and what retention has rolled up.                            *)

\* A record that is not there yet adds its cost, whatever the others cost.
LEMMA RecordAdds ==
  ASSUME NEW R \in SUBSET Attempt, IsFiniteSet(R), NEW a \in Attempt, a \notin R
  PROVE  /\ Spent(R) \in Nat
         /\ Spent(R \cup {a}) = Spent(R) + a.cost
<1> DEFINE All == R \cup {a}
           f == [x \in All |-> x.cost]
           g == [x \in R |-> x.cost]
<1>1. a.cost \in Nat /\ \A x \in R : x.cost \in Nat
  BY DEF Attempt
<1>2. f[a] = a.cost /\ \A x \in R : f[x] = x.cost /\ g[x] = x.cost
  OBVIOUS
<1>3. Spent(All) = SumFunctionOnSet(f, All) /\ Spent(R) = SumFunctionOnSet(g, R)
  BY DEF Spent, SumFunction
<1> HIDE DEF f, g
<1>4. SumFunctionOnSet(f, All) = SumFunctionOnSet(f, R) + a.cost
  BY <1>1, <1>2, SumAdds
<1>5. SumFunctionOnSet(f, R) = SumFunctionOnSet(g, R)
  BY <1>1, <1>2, SumEqual
<1>6. SumFunctionOnSet(g, R) \in Nat
  BY <1>1, <1>2, SumIsNatural
<1> QED
  BY <1>3, <1>4, <1>5, <1>6

\* More records never cost less.
LEMMA SpentIncreases ==
  ASSUME NEW S \in SUBSET Attempt, IsFiniteSet(S), NEW R \in SUBSET S
  PROVE  Spent(R) \in Nat /\ Spent(S) \in Nat /\ Spent(R) <= Spent(S)
<1> DEFINE f == [x \in S |-> x.cost]
           g == [x \in R |-> x.cost]
<1>1. IsFiniteSet(R) /\ \A x \in S : x.cost \in Nat
  BY FS_Subset DEF Attempt
<1>2. (\A x \in S : f[x] = x.cost) /\ (\A x \in R : g[x] = x.cost)
  OBVIOUS
<1>3. Spent(S) = SumFunctionOnSet(f, S) /\ Spent(R) = SumFunctionOnSet(g, R)
  BY DEF Spent, SumFunction
<1> HIDE DEF f, g
<1>4. SumFunctionOnSet(f, R) = SumFunctionOnSet(g, R)
  BY <1>1, <1>2, SumEqual
<1>5. SumFunctionOnSet(f, R) <= SumFunctionOnSet(f, S)
  BY <1>1, <1>2, SumOfSubset
<1>6. SumFunctionOnSet(g, R) \in Nat /\ SumFunctionOnSet(f, S) \in Nat
  BY <1>1, <1>2, SumIsNatural
<1> QED
  BY <1>3, <1>4, <1>5, <1>6

\* The records of a job are finitely many, and what they cost fits its status.
BudgetKept(j) ==
  /\ IsFiniteSet(attempts[j])
  /\ Kept(j) /\ Spent(attempts[j]) > Budget => job[j].status \in {"FAILED", "CANCELLED"}

UsageInvariant == Invariant /\ \A j \in Job : BudgetKept(j)

LEMMA MoveKeepsBudget ==
  ASSUME Invariant, NEW j \in Job, BudgetKept(j), Move(j)
  PROVE  BudgetKept(j)'
<1>1. /\ attempts[j] \in SUBSET Attempt /\ IsFiniteSet(attempts[j]) /\ Budget \in Nat
      /\ JobInvariant(j) /\ job[j] \in JobRow
  BY ConstantTypes DEF Invariant, Typed, TypeOK, BudgetKept
<1>2. Spent({}) = 0
  <2>1. Spent({}) = SumFunctionOnSet([x \in {} |-> x.cost], {})
    BY DEF Spent, SumFunction
  <2> QED BY <2>1, SumOfNone
<1>3. Spent(attempts[j]) \in Nat
  BY <1>1, SpentIncreases
<1>4. CASE Unmoved(j) \/ Asked(j) \/ Begun(j) \/ Withdrawn(j)
  <2>1. /\ attempts'[j] = attempts[j] /\ (Kept(j)' => Kept(j))
        /\ job[j].status \in {"FAILED", "CANCELLED"} /\ Kept(j) => job'[j].status = job[j].status
    BY <1>4 DEF Unmoved, Asked, Begun, Withdrawn, Untouched, Kept, Waiting
  <2>2. job'[j].status = job[j].status \/ Withdrawn(j) \/ ~(job[j].status \in {"FAILED", "CANCELLED"})
    BY <1>4 DEF Unmoved, Asked, Begun, Waiting
  <2>3. Withdrawn(j) => job'[j].status = "CANCELLED"
    BY DEF Withdrawn
  <2> QED
    BY <2>1, <2>2, <2>3 DEF BudgetKept
<1>5. CASE Inserted(j)
  <2>1. attempts[j] = {} /\ attempts'[j] = {}
    BY <1>1, <1>5 DEF Inserted, Untouched, JobInvariant, Kept
  <2> QED
    BY <1>1, <1>2, <2>1 DEF BudgetKept
<1>6. CASE Removed(j)
  <2>1. attempts'[j] = {} /\ IsFiniteSet({})
    BY <1>6, FS_EmptySet DEF Removed
  <2> QED
    BY <1>1, <1>2, <2>1 DEF BudgetKept
<1>7. CASE Ended(j)
  <2>1. PICK cost \in Nat :
          /\ attempts'[j] = attempts[j] \cup
               {[attempt |-> job[j].attempt, outcome |-> job'[j].status, cost |-> cost]}
          /\ cost = 0 \/ Charged(j, cost, job'[j].status)
    BY <1>7 DEF Ended
  <2> DEFINE a == [attempt |-> job[j].attempt, outcome |-> job'[j].status, cost |-> cost]
  <2>2. a \in Attempt /\ a.cost = cost /\ a \notin attempts[j]
    BY <1>1, <1>7 DEF Ended, Attempt, JobRow
  <2>3. attempts'[j] = attempts[j] \cup {a}
    BY <2>1
  <2> HIDE DEF a
  <2>4. Spent(attempts'[j]) = Spent(attempts[j]) + cost
    BY <1>1, <2>2, <2>3, RecordAdds
  <2>5. IsFiniteSet(attempts'[j])
    BY <1>1, <2>3, FS_AddElement
  <2>6. Spent(attempts[j]) <= Budget
    <3>1. Kept(j) /\ job[j].status \notin {"FAILED", "CANCELLED"}
      BY <1>7 DEF Ended, Kept
    <3> QED BY <1>1, <1>3, <3>1 DEF BudgetKept
  <2>7. Spent(attempts'[j]) > Budget => job'[j].status \in {"FAILED", "CANCELLED"}
    BY <1>1, <1>3, <2>1, <2>4, <2>6 DEF Charged
  <2> QED
    BY <2>5, <2>7 DEF BudgetKept
<1> QED
  BY <1>4, <1>5, <1>6, <1>7 DEF Move

LEMMA UsageInvariantHolds == Spec => []UsageInvariant
<1>1. Init => UsageInvariant
  <2> SUFFICES ASSUME Init PROVE UsageInvariant
    OBVIOUS
  <2>1. Invariant
    BY InitInvariant
  <2>2. \A j \in Job : attempts[j] = {} /\ ~Kept(j)
    BY DEF Init, Kept, NoJob
  <2> QED BY <2>1, <2>2, FS_EmptySet DEF UsageInvariant, BudgetKept
<1>2. UsageInvariant /\ [Next]_vars => UsageInvariant'
  <2> SUFFICES ASSUME UsageInvariant, [Next]_vars PROVE UsageInvariant'
    OBVIOUS
  <2>1. Invariant /\ Invariant' /\ Typed
    BY NextInvariant DEF UsageInvariant, Invariant
  <2>2. CASE UNCHANGED vars
    BY <2>1, <2>2 DEF UsageInvariant, BudgetKept, Kept, vars
  <2>3. CASE Next
    <3>1. ASSUME NEW j \in Job PROVE BudgetKept(j)'
      BY <2>1, <2>3, Moves, MoveKeepsBudget DEF UsageInvariant
    <3> QED BY <2>1, <3>1 DEF UsageInvariant
  <2> QED BY <2>2, <2>3
<1> QED BY <1>1, <1>2, PTL DEF Spec

Counts(table) == [j \in Job |-> Cardinality(table[j])]
Costs(table) == [j \in Job |-> Spent(table[j])]

\* The usage of some jobs as sums over functions of all jobs.
LEMMA UsageSums ==
  ASSUME NEW table \in [Job -> SUBSET Attempt], \A j \in Job : IsFiniteSet(table[j]),
         NEW S \in SUBSET Job
  PROVE  /\ Counts(table) \in [Job -> Nat] /\ Costs(table) \in [Job -> Nat] /\ IsFiniteSet(S)
         /\ SumFunction([j \in S |-> Cardinality(table[j])]) = SumFunctionOnSet(Counts(table), S)
         /\ SumFunction([j \in S |-> Spent(table[j])]) = SumFunctionOnSet(Costs(table), S)
         /\ SumFunctionOnSet(Counts(table), S) \in Nat
         /\ SumFunctionOnSet(Costs(table), S) \in Nat
<1> DEFINE counts == [j \in S |-> Cardinality(table[j])]
           costs == [j \in S |-> Spent(table[j])]
<1>1. \A j \in Job : Cardinality(table[j]) \in Nat /\ Spent(table[j]) \in Nat
  <2> SUFFICES ASSUME NEW j \in Job PROVE Cardinality(table[j]) \in Nat /\ Spent(table[j]) \in Nat
    OBVIOUS
  <2>1. Cardinality(table[j]) \in Nat
    BY FS_CardinalityType
  <2>2. table[j] \in SUBSET Attempt /\ IsFiniteSet(table[j]) /\ table[j] \in SUBSET table[j]
    OBVIOUS
  <2>3. Spent(table[j]) \in Nat
    BY <2>2, SpentIncreases
  <2> QED BY <2>1, <2>3
<1>2. Counts(table) \in [Job -> Nat] /\ Costs(table) \in [Job -> Nat]
  BY <1>1 DEF Counts, Costs
<1>3. IsFiniteSet(S)
  BY ConstantsAssumption, FS_Subset
<1>4. /\ \A j \in S : counts[j] = Counts(table)[j] /\ counts[j] \in Int
      /\ \A j \in S : costs[j] = Costs(table)[j] /\ costs[j] \in Int
  BY <1>1 DEF Counts, Costs
<1>5. SumFunction(counts) = SumFunctionOnSet(counts, S) /\ SumFunction(costs) = SumFunctionOnSet(costs, S)
  BY DEF SumFunction
<1>6. \A j \in S : Counts(table)[j] \in Nat /\ Costs(table)[j] \in Nat
  BY <1>2
<1>7. SumFunctionOnSet(Counts(table), S) \in Nat /\ SumFunctionOnSet(Costs(table), S) \in Nat
  BY <1>3, <1>6, SumIsNatural
<1>8. SumFunctionOnSet(counts, S) = SumFunctionOnSet(Counts(table), S)
  <2> HIDE DEF counts
  <2> QED BY <1>3, <1>4, SumEqual
<1>9. SumFunctionOnSet(costs, S) = SumFunctionOnSet(Costs(table), S)
  <2> HIDE DEF costs
  <2> QED BY <1>3, <1>4, SumEqual
<1> QED
  BY <1>2, <1>3, <1>5, <1>7, <1>8, <1>9

\* Only retention forgets a record.
LEMMA OnlyRetentionForgets ==
  ASSUME Typed, Next, ~\E S \in SUBSET Job : EnforceRetention(S)
  PROVE  rollup' = rollup /\ \A j \in Job : attempts[j] \subseteq attempts'[j]
<1>1. CASE UNCHANGED <<attempts, rollup>>
  BY <1>1
<1>2. ASSUME NEW S, NEW outcome, NEW cost, NEW lag, CloseAttempts(S, outcome, cost, lag)
      PROVE  rollup' = rollup /\ \A j \in Job : attempts[j] \subseteq attempts'[j]
  BY <1>2 DEF CloseAttempts
<1>3. CASE Tick \/ UpdateControl \/ \E j \in Job : InsertJob(j) \/ RequestCancellation(j)
  BY <1>1, <1>3 DEF Tick, UpdateControl, InsertJob, RequestCancellation
<1>4. ASSUME NEW i \in Instance, NEW lag \in Lag, RecoverExpiredClaims(i, lag)
      PROVE  rollup' = rollup /\ \A j \in Job : attempts[j] \subseteq attempts'[j]
  BY <1>2, <1>4 DEF RecoverExpiredClaims
<1>5. ASSUME NEW i \in Instance, NEW lag \in Lag, FinalizeClaim(i, lag)
      PROVE  rollup' = rollup /\ \A j \in Job : attempts[j] \subseteq attempts'[j]
  BY <1>1, <1>2, <1>5 DEF FinalizeClaim
<1>6. ASSUME NEW i \in Instance, NEW lag \in Lag,
             AcquireProcessLease(i, lag) \/ ClaimNextDue(i, lag) \/ HeartbeatClaim(i, lag)
      PROVE  UNCHANGED <<attempts, rollup>>
  BY <1>6 DEF AcquireProcessLease, ClaimNextDue, HeartbeatClaim
<1>7. ASSUME NEW i \in Instance, NEW lag \in Lag,
             ClaimNothing(i, lag) \/ ExternalActionRefused(i, lag)
      PROVE  UNCHANGED <<attempts, rollup>>
  BY <1>7 DEF ClaimNothing, ExternalActionRefused
<1>8. ASSUME NEW i \in Instance,
             \/ Start(i) \/ Crash(i) \/ Close(i) \/ TransactionFails(i)
             \/ ReleaseProcessLease(i) \/ CloseTimesOut(i)
             \/ StartHeartbeat(i) \/ HeartbeatRefused(i) \/ Timeout(i)
             \/ HandlerReturns(i) \/ HandlerThrows(i) \/ HandlerQuiesces(i) \/ HandlerDoesNotQuiesce(i)
      PROVE  UNCHANGED <<attempts, rollup>>
  BY <1>8 DEF Start, Crash, Close, TransactionFails, ReleaseProcessLease, CloseTimesOut, StartHeartbeat,
              HeartbeatRefused, Timeout, HandlerReturns, HandlerThrows, HandlerQuiesces, HandlerDoesNotQuiesce
<1> QED
  BY <1>1, <1>3, <1>4, <1>5, <1>6, <1>7, <1>8, Zenon DEF Next, Run

\* A retention pass moves what it deletes.
LEMMA RetentionMoves ==
  ASSUME UsageInvariant, UsageInvariant', NEW S \in SUBSET Job, EnforceRetention(S)
  PROVE  TotalUsage' = TotalUsage
<1> DEFINE Rest == Job \ S
<1>1. /\ attempts \in [Job -> SUBSET Attempt] /\ \A j \in Job : IsFiniteSet(attempts[j])
      /\ attempts' \in [Job -> SUBSET Attempt] /\ \A j \in Job : IsFiniteSet(attempts'[j])
      /\ rollup.attempts \in Nat /\ rollup.cost \in Nat
  BY DEF UsageInvariant, BudgetKept, Invariant, Typed, TypeOK
<1>2. Job \in SUBSET Job /\ Rest \in SUBSET Job /\ S \cap Rest = {} /\ S \cup Rest = Job
  OBVIOUS
<1>3. ASSUME NEW table \in [Job -> SUBSET Attempt], \A j \in Job : IsFiniteSet(table[j])
      PROVE  /\ SumFunctionOnSet(Counts(table), Job)
                   = SumFunctionOnSet(Counts(table), S) + SumFunctionOnSet(Counts(table), Rest)
             /\ SumFunctionOnSet(Costs(table), Job)
                   = SumFunctionOnSet(Costs(table), S) + SumFunctionOnSet(Costs(table), Rest)
  <2>1. Counts(table) \in [Job -> Nat] /\ Costs(table) \in [Job -> Nat] /\ IsFiniteSet(S) /\ IsFiniteSet(Rest)
    BY <1>2, <1>3, UsageSums
  <2>2. \A j \in S \cup Rest : Counts(table)[j] \in Int /\ Costs(table)[j] \in Int
    BY <1>2, <2>1
  <2> HIDE DEF Rest
  <2>3. /\ SumFunctionOnSet(Counts(table), S \cup Rest)
              = SumFunctionOnSet(Counts(table), S) + SumFunctionOnSet(Counts(table), Rest)
        /\ SumFunctionOnSet(Costs(table), S \cup Rest)
              = SumFunctionOnSet(Costs(table), S) + SumFunctionOnSet(Costs(table), Rest)
    BY <1>2, <2>1, <2>2, SumOfUnion
  <2> QED BY <1>2, <2>3
<1>4. \A j \in S : Counts(attempts')[j] = 0 /\ Costs(attempts')[j] = 0
  <2>1. \A j \in S : attempts'[j] = {}
    BY DEF EnforceRetention
  <2>2. Cardinality({}) = 0
    BY FS_EmptySet
  <2>3. Spent({}) = SumFunctionOnSet([x \in {} |-> x.cost], {})
    BY DEF Spent, SumFunction
  <2>4. Spent({}) = 0
    BY <2>3, SumOfNone
  <2> QED BY <2>1, <2>2, <2>4 DEF Counts, Costs
<1>5. /\ SumFunctionOnSet(Counts(attempts'), S) = 0 /\ SumFunctionOnSet(Costs(attempts'), S) = 0
  <2>1. IsFiniteSet(S)
    BY ConstantsAssumption, FS_Subset
  <2> QED BY <1>4, <2>1, SumOfZeros
<1>6. /\ SumFunctionOnSet(Counts(attempts'), Rest) = SumFunctionOnSet(Counts(attempts), Rest)
      /\ SumFunctionOnSet(Costs(attempts'), Rest) = SumFunctionOnSet(Costs(attempts), Rest)
  <2>1. IsFiniteSet(Rest) /\ Counts(attempts) \in [Job -> Nat] /\ Costs(attempts) \in [Job -> Nat]
    BY <1>1, <1>2, UsageSums
  <2>2. \A j \in Rest : attempts'[j] = attempts[j]
    BY DEF EnforceRetention
  <2>3. \A j \in Rest : /\ Counts(attempts')[j] = Counts(attempts)[j] /\ Counts(attempts')[j] \in Int
                         /\ Costs(attempts')[j] = Costs(attempts)[j] /\ Costs(attempts')[j] \in Int
    BY <2>1, <2>2 DEF Counts, Costs
  <2> HIDE DEF Rest
  <2> QED BY <2>1, <2>3, SumEqual
<1> HIDE DEF Rest
<1>7. /\ SumFunctionOnSet(Counts(attempts), S) \in Nat /\ SumFunctionOnSet(Costs(attempts), S) \in Nat
      /\ SumFunctionOnSet(Counts(attempts), Rest) \in Nat /\ SumFunctionOnSet(Costs(attempts), Rest) \in Nat
  BY <1>1, <1>2, UsageSums
<1>8. /\ UsageOf(Job).attempts = SumFunctionOnSet(Counts(attempts), Job)
      /\ UsageOf(Job).cost = SumFunctionOnSet(Costs(attempts), Job)
      /\ UsageOf(S).attempts = SumFunctionOnSet(Counts(attempts), S)
      /\ UsageOf(S).cost = SumFunctionOnSet(Costs(attempts), S)
  BY <1>1, <1>2, UsageSums DEF UsageOf
<1>9. /\ UsageOf(Job)'.attempts = SumFunctionOnSet(Counts(attempts'), Job)
      /\ UsageOf(Job)'.cost = SumFunctionOnSet(Costs(attempts'), Job)
  BY <1>1, <1>2, UsageSums DEF UsageOf
<1>10. /\ rollup'.attempts = rollup.attempts + UsageOf(S).attempts
       /\ rollup'.cost = rollup.cost + UsageOf(S).cost
  BY DEF EnforceRetention, RolledUp
<1>11. /\ rollup'.attempts + UsageOf(Job)'.attempts = rollup.attempts + UsageOf(Job).attempts
       /\ rollup'.cost + UsageOf(Job)'.cost = rollup.cost + UsageOf(Job).cost
  BY <1>1, <1>3, <1>5, <1>6, <1>7, <1>8, <1>9, <1>10
<1> QED
  BY <1>11 DEF TotalUsage

\* Every other step adds to it.
LEMMA OthersAdd ==
  ASSUME UsageInvariant, UsageInvariant', rollup' = rollup,
         \A j \in Job : attempts[j] \subseteq attempts'[j]
  PROVE  TotalUsage'.attempts >= TotalUsage.attempts /\ TotalUsage'.cost >= TotalUsage.cost
<1>1. /\ attempts \in [Job -> SUBSET Attempt] /\ \A j \in Job : IsFiniteSet(attempts[j])
      /\ attempts' \in [Job -> SUBSET Attempt] /\ \A j \in Job : IsFiniteSet(attempts'[j])
      /\ rollup.attempts \in Nat /\ rollup.cost \in Nat /\ Job \in SUBSET Job
  BY DEF UsageInvariant, BudgetKept, Invariant, Typed, TypeOK
<1>2. ASSUME NEW j \in Job
      PROVE  /\ Counts(attempts)[j] \in Int /\ Counts(attempts')[j] \in Int
             /\ Counts(attempts)[j] <= Counts(attempts')[j]
             /\ Costs(attempts)[j] \in Int /\ Costs(attempts')[j] \in Int
             /\ Costs(attempts)[j] <= Costs(attempts')[j]
  <2> DEFINE R == attempts[j]
             T == attempts'[j]
  <2>1. R \in SUBSET T /\ T \in SUBSET Attempt /\ IsFiniteSet(T) /\ IsFiniteSet(R)
    BY <1>1
  <2> HIDE DEF R, T
  <2>2. Cardinality(R) \in Nat /\ Cardinality(T) \in Nat /\ Cardinality(R) <= Cardinality(T)
    BY <2>1, FS_Subset, FS_CardinalityType
  <2>3. Spent(R) \in Nat /\ Spent(T) \in Nat /\ Spent(R) <= Spent(T)
    BY <2>1, SpentIncreases
  <2> QED BY <2>2, <2>3 DEF R, T, Counts, Costs
<1>3. IsFiniteSet(Job)
  BY ConstantsAssumption
<1>4. /\ SumFunctionOnSet(Counts(attempts), Job) <= SumFunctionOnSet(Counts(attempts'), Job)
      /\ SumFunctionOnSet(Costs(attempts), Job) <= SumFunctionOnSet(Costs(attempts'), Job)
  BY <1>2, <1>3, SumMonotone
<1>5. /\ UsageOf(Job).attempts = SumFunctionOnSet(Counts(attempts), Job)
      /\ UsageOf(Job).cost = SumFunctionOnSet(Costs(attempts), Job)
      /\ UsageOf(Job).attempts \in Nat /\ UsageOf(Job).cost \in Nat
  BY <1>1, UsageSums DEF UsageOf
<1>6. /\ UsageOf(Job)'.attempts = SumFunctionOnSet(Counts(attempts'), Job)
      /\ UsageOf(Job)'.cost = SumFunctionOnSet(Costs(attempts'), Job)
      /\ UsageOf(Job)'.attempts \in Nat /\ UsageOf(Job)'.cost \in Nat
  BY <1>1, UsageSums DEF UsageOf
<1>7. /\ rollup'.attempts + UsageOf(Job)'.attempts >= rollup.attempts + UsageOf(Job).attempts
      /\ rollup'.cost + UsageOf(Job)'.cost >= rollup.cost + UsageOf(Job).cost
  BY <1>1, <1>4, <1>5, <1>6
<1> QED
  BY <1>7 DEF TotalUsage

\* Usage is neither lost to retention nor forgiven by a success: a pass moves what
\* it deletes into the rollup (deleteTerminalJob), every other step only adds, and
\* a job whose records pass its budget has failed or is cancelled (finalizeClaim).
THEOREM UsageIsAccountedHolds == Spec => UsageIsAccounted
<1>1. UsageInvariant /\ UsageInvariant' /\ [Next]_vars =>
        [<<attempts, rollup>>' # <<attempts, rollup>> =>
           /\ TotalUsage'.attempts >= TotalUsage.attempts
           /\ TotalUsage'.cost >= TotalUsage.cost
           /\ rollup' # rollup => TotalUsage' = TotalUsage]_vars
  <2> SUFFICES ASSUME UsageInvariant, UsageInvariant', Next
               PROVE  /\ TotalUsage'.attempts >= TotalUsage.attempts
                      /\ TotalUsage'.cost >= TotalUsage.cost
                      /\ rollup' # rollup => TotalUsage' = TotalUsage
    OBVIOUS
  <2>1. Typed
    BY DEF UsageInvariant, Invariant
  <2>2. CASE \E S \in SUBSET Job : EnforceRetention(S)
    <3>1. TotalUsage' = TotalUsage
      BY <2>2, RetentionMoves
    <3>2. TotalUsage.attempts \in Int /\ TotalUsage.cost \in Int
      <4>1. /\ attempts \in [Job -> SUBSET Attempt] /\ \A j \in Job : IsFiniteSet(attempts[j])
            /\ rollup.attempts \in Nat /\ rollup.cost \in Nat /\ Job \in SUBSET Job
        BY DEF UsageInvariant, BudgetKept, Invariant, Typed, TypeOK
      <4>2. UsageOf(Job).attempts \in Nat /\ UsageOf(Job).cost \in Nat
        BY <4>1, UsageSums DEF UsageOf
      <4> QED BY <4>1, <4>2 DEF TotalUsage
    <3> QED BY <3>1, <3>2
  <2>3. CASE ~\E S \in SUBSET Job : EnforceRetention(S)
    <3>1. rollup' = rollup /\ \A j \in Job : attempts[j] \subseteq attempts'[j]
      BY <2>1, <2>3, OnlyRetentionForgets
    <3> QED BY <3>1, OthersAdd
  <2> QED BY <2>2, <2>3
<1>2. Spec => UsageConserved
  BY <1>1, UsageInvariantHolds, PTL DEF Spec, UsageConserved
<1>3. UsageInvariant => OverBudgetIsFinal
  BY DEF UsageInvariant, BudgetKept, OverBudgetIsFinal
<1> QED
  BY <1>2, <1>3, UsageInvariantHolds, PTL DEF UsageIsAccounted

=============================================================================
