------------------------- MODULE OperationsRuntime -------------------------
(***************************************************************************)
(* The durable job runtime: jobs, their attempts, the process leases and   *)
(* the operator's stop controls, all rows of one SQLite database, and the  *)
(* OperationsWorkerService instances that lease, execute and finish jobs.  *)
(*                                                                         *)
(* Every action that touches a row is one repositories.transaction(...)    *)
(* body: BEGIN IMMEDIATE ... COMMIT makes it atomic.  What happens between *)
(* two transactions of one instance is the business of the others.         *)
(*                                                                         *)
(* Time is relative.  A row's deadline is kept as the distance "deadline   *)
(* minus now", which Tick decrements.  The code reads the clock before it  *)
(* enters the transaction, so a transaction sees the distance of up to     *)
(* MaxLag ticks ago: an instant that is x away looks x + lag away.         *)
(***************************************************************************)
EXTENDS Integers, FiniteSets, Functions

CONSTANTS
  Job,              \* job identities
  Instance,         \* worker processes (OperationsWorkerService objects)
  WorkerId,         \* configured worker identities; the CLI uses one
  WorkerOf,         \* the worker identity each instance is started with
  Priority,         \* the priority of each job
  AutomaticRetries, \* retryPolicy.automaticRetries
  Budget,           \* the job budget, one dimension
  Usage,            \* bound: the usages a handler may report
  Controls,         \* bound: the stop controls the operator chooses from
  LeaseDuration,    \* leaseDurationMs of a job, in ticks
  WorkerLease,      \* workerLeaseMs of a process lease, in ticks
  InitialBackoff,
  MaxBackoff,
  RecoveryLimit,    \* expired claims one recovery transaction handles
  MaxLag,           \* bound: ticks between reading the clock and committing
  MaxToken,         \* bound: the largest fencing token
  MaxStops,         \* bound: shutdowns, crashes and failed transactions
  SingleProcess     \* TRUE: one live process at a time, as under the CLI lock

ASSUME ConstantsAssumption ==
  /\ IsFiniteSet(Job)
  /\ WorkerOf \in [Instance -> WorkerId]
  /\ Priority \in [Job -> Nat]
  /\ {AutomaticRetries, Budget, MaxLag, MaxToken, MaxStops} \subseteq Nat
  /\ {LeaseDuration, WorkerLease, InitialBackoff, MaxBackoff, RecoveryLimit} \subseteq Nat \ {0}
  /\ Usage \subseteq Nat
  /\ Controls \subseteq [killSwitch : BOOLEAN, maintenance : BOOLEAN]
  /\ SingleProcess \in BOOLEAN

VARIABLES
  job,      \* operations_jobs (and DELETED after retention)
  attempts, \* operations_job_attempts, per job
  rollup,   \* operations_runtime_usage_rollups
  event,    \* per job, the type of its newest operational event
  lease,    \* operations_process_leases, per worker identity
  control,  \* operations_runtime_controls; absent reads as both stops on
  worker,   \* each instance's own memory
  stops     \* shutdowns, crashes and failed transactions so far

vars == <<job, attempts, rollup, event, lease, control, worker, stops>>

----------------------------------------------------------------------------
(* Data *)

Waiting  == {"QUEUED", "RETRY_SCHEDULED"}
Terminal == {"BLOCKED", "CANCELLED", "COMPLETED", "DEAD_LETTER", "FAILED"}
Status   == {"ABSENT", "RUNNING", "DELETED"} \cup Waiting \cup Terminal
Outcome  == Terminal \cup {"RETRY_SCHEDULED"}
Event    == {"NONE", "JOB_QUEUED", "JOB_LEASE_ACQUIRED", "JOB_HEARTBEAT"} \cup Outcome

NoLease == [id |-> 0, token |-> 0, workerId |-> "none", ttl |-> 0]
JobLease == [id : Nat, token : Nat, workerId : WorkerId \cup {"none"}, ttl : Int]

JobRow == [status : Status, attempt : Nat, cancel : BOOLEAN, lease : JobLease, wait : Int]
NoJob(status) == [status |-> status, attempt |-> 0, cancel |-> FALSE, lease |-> NoLease, wait |-> 0]
Attempt == [attempt : Nat, outcome : Outcome, cost : Nat]

NoProcessLease == [holder |-> "none", token |-> 0, ttl |-> 0]
ProcessLease == [holder : Instance \cup {"none"}, token : Nat, ttl : Int]

\* Where runOnce stands, between two awaits.
PC == {"DOWN", "STARTING", "IDLE", "LEASED", "RECOVERED", "EXECUTING",
       "SETTLING", "FINALIZING", "UNQUIESCED"}
Failure == {"NONE", "CANCELLED", "TIMEOUT", "EXECUTION_FAILED", "INVALID_RESULT"}

\* token: the fencing token of the processLease in hand; claimed and id: the
\* job and lease ID of the claim in hand; kind and cost: the handler's result;
\* beat: a claim heartbeat is in flight; closing: close() was called.
WorkerMemory == [pc : PC, token : Nat, claimed : Job \cup {"none"}, id : Nat,
                 kind : {"NONE", "COMPLETED", "BLOCKED"}, cost : Nat,
                 failure : Failure, beat : BOOLEAN, closing : BOOLEAN]

Fresh == [pc |-> "DOWN", token |-> 0, claimed |-> "none", id |-> 0, kind |-> "NONE",
          cost |-> 0, failure |-> "NONE", beat |-> FALSE, closing |-> FALSE]

Lesser(a, b) == IF a < b THEN a ELSE b
Backoff(n) == Lesser(MaxBackoff, InitialBackoff * 2^(IF n = 0 THEN 0 ELSE n - 1))
Spent(records) == SumFunction([a \in records |-> a.cost])
Lag == 0 .. MaxLag

PassedWithClockAhead(distance, lag) == distance - lag <= 0

\* As a transaction whose clock reading is lag ticks old sees it.
Passed(distance, lag) == distance + lag <= 0

Stopped == control.killSwitch \/ control.maintenance

SameProcessLease(i) ==
  LET row == lease[WorkerOf[i]] IN row.holder = i /\ row.token = worker[i].token

SameClaimWithoutLeaseId(i) ==
  LET row == job[worker[i].claimed] IN
    /\ row.status = "RUNNING"
    /\ row.lease.workerId = WorkerOf[i]
    /\ row.lease.token = worker[i].token

SameClaim(i) ==
  LET row == job[worker[i].claimed] IN
    /\ row.status = "RUNNING"
    /\ row.lease.id = worker[i].id
    /\ row.lease.workerId = WorkerOf[i]
    /\ row.lease.token = worker[i].token

----------------------------------------------------------------------------
Init ==
  /\ job = [j \in Job |-> NoJob("ABSENT")]
  /\ attempts = [j \in Job |-> {}]
  /\ rollup = [attempts |-> 0, cost |-> 0]
  /\ event = [j \in Job |-> "NONE"]
  /\ lease = [k \in WorkerId |-> NoProcessLease]
  /\ control = [killSwitch |-> TRUE, maintenance |-> TRUE]
  /\ worker = [i \in Instance |-> Fresh]
  /\ stops = 0

rows   == <<job, attempts, rollup, event, lease, control>>
tables == <<attempts, rollup, event>>

----------------------------------------------------------------------------
(* The clock, the producers of jobs and the operator *)

Sink(distance) == IF distance > -MaxLag THEN distance - 1 ELSE distance

Tick ==
  /\ job' = [j \in Job |-> [job[j] EXCEPT
       !.lease.ttl = IF job[j].status = "RUNNING" THEN Sink(@) ELSE @,
       !.wait = IF job[j].status \in Waiting THEN Sink(@) ELSE @]]
  /\ lease' = [k \in WorkerId |-> IF lease[k].holder = "none" THEN lease[k]
                                  ELSE [lease[k] EXCEPT !.ttl = Sink(@)]]
  /\ UNCHANGED <<tables, control, worker, stops>>

\* insertJob and its JOB_QUEUED event, due at once.
InsertJob(j) ==
  /\ job[j].status = "ABSENT"
  /\ job' = [job EXCEPT ![j].status = "QUEUED"]
  /\ event' = [event EXCEPT ![j] = "JOB_QUEUED"]
  /\ UNCHANGED <<attempts, rollup, lease, control, worker, stops>>

\* A terminal job ignores the request, a running one only records it.
RequestCancellation(j) ==
  /\ \/ /\ job[j].status = "RUNNING"
        /\ job' = [job EXCEPT ![j].cancel = TRUE]
        /\ UNCHANGED event
     \/ /\ job[j].status \in Waiting
        /\ job' = [job EXCEPT ![j].cancel = TRUE, ![j].status = "CANCELLED", ![j].wait = 0]
        /\ event' = [event EXCEPT ![j] = "CANCELLED"]
  /\ UNCHANGED <<attempts, rollup, lease, control, worker, stops>>

UpdateControl ==
  /\ control' \in Controls
  /\ UNCHANGED <<job, tables, lease, worker, stops>>

UsageOf(S) ==
  [attempts |-> SumFunction([j \in S |-> Cardinality(attempts[j])]),
   cost     |-> SumFunction([j \in S |-> Spent(attempts[j])])]

RolledUpByReplacing(S) == UsageOf(S)

RolledUp(S) ==
  [attempts |-> rollup.attempts + UsageOf(S).attempts, cost |-> rollup.cost + UsageOf(S).cost]

\* deleteTerminalJob for each job of one retention pass: the usage of its
\* attempts, which aggregate() checks, moves to the rollup, and the attempts go
\* with the job.
EnforceRetention(S) ==
  /\ S # {} /\ \A j \in S : job[j].status \in Terminal
  /\ UsageOf(S) \in [attempts : Nat, cost : Nat]
  /\ rollup' = RolledUp(S)
  /\ job' = [j \in Job |-> IF j \in S THEN NoJob("DELETED") ELSE job[j]]
  /\ attempts' = [j \in Job |-> IF j \in S THEN {} ELSE attempts[j]]
  /\ UNCHANGED <<event, lease, control, worker, stops>>

----------------------------------------------------------------------------
(* Closing an attempt: terminalJob, createAttempt and the outcome's event *)

ClosedRow(row, outcome, lag) ==
  [row EXCEPT !.status = outcome,
              !.lease = NoLease,
              !.cancel = @ \/ outcome = "CANCELLED",
              !.wait = IF outcome = "RETRY_SCHEDULED" THEN Backoff(row.attempt) - lag ELSE 0]

\* updateJob, insertAttempt and append for the jobs of S; UNIQUE (job, attempt)
\* refuses a second record of an attempt and with it the whole transaction.
CloseAttempts(S, outcome, cost, lag) ==
  /\ \A j \in S : \A a \in attempts[j] : a.attempt # job[j].attempt
  /\ job' = [j \in Job |-> IF j \in S THEN ClosedRow(job[j], outcome[j], lag) ELSE job[j]]
  /\ attempts' = [j \in Job |-> attempts[j] \cup
       IF j \in S THEN {[attempt |-> job[j].attempt, outcome |-> outcome[j], cost |-> cost]}
                  ELSE {}]
  /\ event' = [j \in Job |-> IF j \in S THEN outcome[j] ELSE event[j]]
  /\ UNCHANGED rollup

----------------------------------------------------------------------------
(* The life of a process *)

\* A process starts with a random instanceId: a slot is reused only when no
\* row names its last incarnation any more.
Start(i) ==
  /\ worker[i].pc = "DOWN"
  /\ \A k \in WorkerId : lease[k].holder # i
  /\ SingleProcess => \A other \in Instance : worker[other].pc = "DOWN"
  /\ worker' = [worker EXCEPT ![i].pc = "STARTING"]
  /\ UNCHANGED <<rows, stops>>

Idle(i) == [Fresh EXCEPT !.pc = "IDLE", !.closing = worker[i].closing]

\* Whatever ends a process counts against MaxStops.
Stop == stops < MaxStops /\ stops' = stops + 1

Crash(i) ==
  /\ worker[i].pc # "DOWN"
  /\ Stop
  /\ worker' = [worker EXCEPT ![i] = Fresh]
  /\ UNCHANGED rows

\* close(): no new run, and the shutdown signal aborts the execution.
Close(i) ==
  /\ worker[i].pc # "DOWN" /\ ~worker[i].closing
  /\ Stop
  /\ worker' = [worker EXCEPT ![i] =
       IF @.pc = "EXECUTING" THEN [@ EXCEPT !.closing = TRUE, !.pc = "SETTLING", !.failure = "CANCELLED"]
                             ELSE [@ EXCEPT !.closing = TRUE]]
  /\ UNCHANGED rows

\* A transaction of the run throws: the run rejects and the loop's process
\* ends through the same close.
TransactionFails(i) ==
  /\ worker[i].pc \in {"STARTING", "LEASED", "RECOVERED", "FINALIZING"} /\ ~worker[i].beat
  /\ Stop
  /\ worker' = [worker EXCEPT ![i] = [Fresh EXCEPT !.pc = "IDLE", !.closing = TRUE]]
  /\ UNCHANGED rows

\* settleAndRelease once the run and its handler have settled.
ReleaseProcessLease(i) ==
  /\ worker[i].closing /\ worker[i].pc \in {"IDLE", "UNQUIESCED"}
  /\ lease' = [lease EXCEPT ![WorkerOf[i]] = IF @.holder = i THEN NoProcessLease ELSE @]
  /\ worker' = [worker EXCEPT ![i] = Fresh]
  /\ UNCHANGED <<job, tables, control, stops>>

\* The handler outlives the shutdown grace too: the process ends and leaves
\* its lease to expire.
CloseTimesOut(i) ==
  /\ worker[i].pc = "UNQUIESCED"
  /\ worker' = [worker EXCEPT ![i] = Fresh]
  /\ UNCHANGED <<rows, stops>>

----------------------------------------------------------------------------
(* runOnce: process lease, recovery, claim *)

AcquireProcessLease(i, lag) ==
  LET k == WorkerOf[i]
      owned == lease[k].holder = i
      token == IF owned THEN lease[k].token ELSE lease[k].token + 1
  IN /\ worker[i].pc = "IDLE" /\ ~worker[i].closing
     /\ lease[k].holder = "none" \/ owned \/ Passed(lease[k].ttl, lag)
     /\ token <= MaxToken
     /\ lease' = [lease EXCEPT ![k] = [holder |-> i, token |-> token, ttl |-> WorkerLease - lag]]
     /\ worker' = [worker EXCEPT ![i].pc = "LEASED", ![i].token = token]
     /\ UNCHANGED <<job, tables, control, stops>>

ExpiredUnlessStopped(lag) ==
  {j \in Job : ~Stopped /\ job[j].status = "RUNNING" /\ Passed(job[j].lease.ttl, lag)}

Expired(lag) == {j \in Job : job[j].status = "RUNNING" /\ Passed(job[j].lease.ttl, lag)}

\* listExpiredClaims: the first RecoveryLimit expired claims, oldest first.
ExpiredBatch(S, lag) ==
  /\ S \subseteq Expired(lag)
  /\ Cardinality(S) = Lesser(RecoveryLimit, Cardinality(Expired(lag)))
  /\ \A j \in S, other \in Expired(lag) \ S : job[j].lease.ttl <= job[other].lease.ttl

RequeuedByRecovery(row) == IF row.cancel THEN "CANCELLED" ELSE "QUEUED"

RecoveryIgnoringCancellation(row) ==
  IF row.attempt > AutomaticRetries THEN "DEAD_LETTER" ELSE "RETRY_SCHEDULED"

RecoveryWithOneMoreRetry(row) ==
  IF row.cancel THEN "CANCELLED"
  ELSE IF row.attempt > AutomaticRetries + 1 THEN "DEAD_LETTER" ELSE "RETRY_SCHEDULED"

RecoveryOutcome(row) ==
  IF row.cancel THEN "CANCELLED"
  ELSE IF row.attempt > AutomaticRetries THEN "DEAD_LETTER" ELSE "RETRY_SCHEDULED"

\* Runs at startup and in every run, with no regard to the stop controls.
RecoverExpiredClaims(i, lag) ==
  /\ worker[i].pc \in {"STARTING", "LEASED"}
  /\ \E S \in SUBSET Job :
       /\ ExpiredBatch(S, lag)
       /\ CloseAttempts(S, [j \in Job |-> RecoveryOutcome(job[j])], 0, lag)
  /\ worker' = [worker EXCEPT ![i].pc = IF @ = "STARTING" THEN "IDLE" ELSE "RECOVERED"]
  /\ UNCHANGED <<lease, control, stops>>

Due(lag) == {j \in Job : job[j].status \in Waiting /\ Passed(job[j].wait, lag)}

\* Highest priority first, then the earliest runAfter.
NextDue(lag) ==
  {j \in Due(lag) : \A other \in Due(lag) :
     \/ Priority[j] > Priority[other]
     \/ Priority[j] = Priority[other] /\ job[j].wait <= job[other].wait}

MayClaim(i, lag) ==
  /\ ~Stopped
  /\ SameProcessLease(i)
  /\ ~Passed(lease[WorkerOf[i]].ttl, lag)

\* claimNextDue: one more attempt, a fresh leaseId, the runtime state stripped.
\* A random leaseId names one claim for ever, and so does the attempt number.
ClaimNextDue(i, lag) ==
  /\ worker[i].pc = "RECOVERED"
  /\ MayClaim(i, lag)
  /\ \E j \in NextDue(lag) :
       /\ job' = [job EXCEPT ![j] =
            [status |-> "RUNNING", attempt |-> @.attempt + 1, cancel |-> FALSE, wait |-> 0,
             lease |-> [id |-> @.attempt + 1, token |-> worker[i].token,
                        workerId |-> WorkerOf[i], ttl |-> LeaseDuration - lag]]]
       /\ event' = [event EXCEPT ![j] = "JOB_LEASE_ACQUIRED"]
       /\ worker' = [worker EXCEPT ![i].pc = "EXECUTING", ![i].claimed = j,
                                   ![i].id = job[j].attempt + 1]
  /\ UNCHANGED <<attempts, rollup, lease, control, stops>>

ClaimNothing(i, lag) ==
  /\ worker[i].pc = "RECOVERED"
  /\ ~MayClaim(i, lag) \/ Due(lag) = {}
  /\ worker' = [worker EXCEPT ![i] = Idle(i)]
  /\ UNCHANGED <<rows, stops>>

----------------------------------------------------------------------------
(* executeClaim: the handler, its heartbeats and the abort signals *)

\* The heartbeat timer fires; one heartbeat at a time.
StartHeartbeat(i) ==
  /\ worker[i].pc = "EXECUTING" /\ ~worker[i].beat /\ ~worker[i].closing
  /\ worker' = [worker EXCEPT ![i].beat = TRUE]
  /\ UNCHANGED <<rows, stops>>

HeartbeatAccepted(i) ==
  /\ ~control.killSwitch
  /\ SameProcessLease(i)
  /\ SameClaim(i) /\ ~job[worker[i].claimed].cancel

\* An accepted heartbeat renews the process lease and the claim together.
HeartbeatClaim(i, lag) ==
  /\ worker[i].beat /\ HeartbeatAccepted(i)
  /\ lease' = [lease EXCEPT ![WorkerOf[i]].ttl = WorkerLease - lag]
  /\ job' = [job EXCEPT ![worker[i].claimed].lease.ttl = LeaseDuration - lag]
  /\ event' = [event EXCEPT ![worker[i].claimed] = "JOB_HEARTBEAT"]
  /\ worker' = [worker EXCEPT ![i].beat = FALSE]
  /\ UNCHANGED <<attempts, rollup, control, stops>>

\* The signal reaches a handler that is still running; a second one is lost.
Aborted(memory, code) ==
  IF memory.pc = "EXECUTING" THEN [memory EXCEPT !.pc = "SETTLING", !.failure = code] ELSE memory

\* A refused heartbeat rolls back; so does one whose transaction throws.
HeartbeatRefused(i) ==
  /\ worker[i].beat
  /\ \/ ~HeartbeatAccepted(i) /\ UNCHANGED stops
     \/ Stop
  /\ worker' = [worker EXCEPT ![i] = [Aborted(@, "CANCELLED") EXCEPT !.beat = FALSE]]
  /\ UNCHANGED rows

Timeout(i) ==
  /\ worker[i].pc = "EXECUTING"
  /\ worker' = [worker EXCEPT ![i] = Aborted(@, IF @.closing THEN "CANCELLED" ELSE "TIMEOUT")]
  /\ UNCHANGED <<rows, stops>>

\* validateExecutionResult refuses a usage above the budget, yet keeps it.
HandlerReturns(i) ==
  /\ worker[i].pc = "EXECUTING"
  /\ \E kind \in {"COMPLETED", "BLOCKED"}, cost \in Usage :
       worker' = [worker EXCEPT ![i].pc = "FINALIZING", ![i].kind = kind, ![i].cost = cost,
                    ![i].failure = IF cost > Budget THEN "INVALID_RESULT" ELSE "NONE"]
  /\ UNCHANGED <<rows, stops>>

HandlerThrows(i) ==
  /\ worker[i].pc = "EXECUTING"
  /\ worker' = [worker EXCEPT ![i].pc = "FINALIZING",
                  ![i].failure = IF worker[i].closing THEN "CANCELLED" ELSE "EXECUTION_FAILED"]
  /\ UNCHANGED <<rows, stops>>

\* assertCanStartExternalAction throws, and its caller with it.
ExternalActionRefused(i, lag) ==
  /\ worker[i].pc = "EXECUTING"
  /\ \/ worker[i].closing
     \/ ~MayClaim(i, lag)
     \/ ~SameClaim(i)
     \/ job[worker[i].claimed].cancel
     \/ Passed(job[worker[i].claimed].lease.ttl, lag)
  /\ worker' = [worker EXCEPT ![i].pc = "FINALIZING", ![i].failure = "CANCELLED"]
  /\ UNCHANGED <<rows, stops>>

\* After an abort the handler settles within the grace period, or the run
\* rejects with its claim still RUNNING and the loop tears the process down.
HandlerQuiesces(i) ==
  /\ worker[i].pc = "SETTLING"
  /\ worker' = [worker EXCEPT ![i].pc = "FINALIZING"]
  /\ UNCHANGED <<rows, stops>>

HandlerDoesNotQuiesce(i) ==
  /\ worker[i].pc = "SETTLING"
  /\ worker' = [worker EXCEPT ![i].pc = "UNQUIESCED", ![i].closing = TRUE]
  /\ UNCHANGED <<rows, stops>>

----------------------------------------------------------------------------
(* finalizeClaim *)

\* A cancellation beats any result or failure; then a usage that passes the
\* budget, alone or with the earlier attempts, fails the job for good.
Cancelled(i) == job[worker[i].claimed].cancel \/ worker[i].failure = "CANCELLED"

OverBudget(i) ==
  \/ worker[i].failure = "INVALID_RESULT"
  \/ Spent(attempts[worker[i].claimed]) + worker[i].cost > Budget

FinalOutcome(i) ==
  IF Cancelled(i) THEN "CANCELLED"
  ELSE IF OverBudget(i) THEN "FAILED"
  ELSE IF worker[i].failure = "NONE" THEN worker[i].kind
  ELSE IF job[worker[i].claimed].attempt <= AutomaticRetries THEN "RETRY_SCHEDULED"
  ELSE "DEAD_LETTER"

\* Only the claim is compared: not the process lease, not the stop controls,
\* not the expiry of either lease.
FinalizeClaim(i, lag) ==
  /\ worker[i].pc = "FINALIZING" /\ ~worker[i].beat
  /\ IF SameClaim(i)
       THEN CloseAttempts({worker[i].claimed}, [j \in Job |-> FinalOutcome(i)], worker[i].cost, lag)
       ELSE UNCHANGED <<job, tables>>
  /\ worker' = [worker EXCEPT ![i] = Idle(i)]
  /\ UNCHANGED <<lease, control, stops>>

----------------------------------------------------------------------------
(* The specification *)

\* The steps of one instance that the event loop takes on its own.
Run(i) ==
  \/ ReleaseProcessLease(i) \/ CloseTimesOut(i)
  \/ StartHeartbeat(i) \/ HeartbeatRefused(i) \/ Timeout(i)
  \/ HandlerReturns(i) \/ HandlerThrows(i) \/ HandlerQuiesces(i) \/ HandlerDoesNotQuiesce(i)
  \/ \E lag \in Lag :
       \/ AcquireProcessLease(i, lag) \/ RecoverExpiredClaims(i, lag)
       \/ ClaimNextDue(i, lag) \/ ClaimNothing(i, lag)
       \/ HeartbeatClaim(i, lag) \/ ExternalActionRefused(i, lag) \/ FinalizeClaim(i, lag)

Next ==
  \/ Tick \/ UpdateControl
  \/ \E j \in Job : InsertJob(j) \/ RequestCancellation(j)
  \/ \E S \in SUBSET Job : EnforceRetention(S)
  \/ \E i \in Instance : Start(i) \/ Crash(i) \/ Close(i) \/ TransactionFails(i) \/ Run(i)

Spec == Init /\ [][Next]_vars

\* The clock runs; a process that ended is started again, after a failure by
\* launchd (KeepAlive), after a clean shutdown by the operator; every await of
\* a run settles.  A handler need not return: its timeout timer fires.
Fairness ==
  /\ WF_vars(Tick)
  /\ \A i \in Instance :
       /\ WF_vars(Start(i))
       /\ WF_vars(ReleaseProcessLease(i) \/ CloseTimesOut(i))
       /\ WF_vars(\E lag \in Lag : AcquireProcessLease(i, lag))
       /\ WF_vars(\E lag \in Lag : RecoverExpiredClaims(i, lag))
       /\ WF_vars(\E lag \in Lag : ClaimNextDue(i, lag) \/ ClaimNothing(i, lag))
       /\ WF_vars(Timeout(i))
       /\ WF_vars(HandlerQuiesces(i) \/ HandlerDoesNotQuiesce(i))
       /\ WF_vars(HeartbeatRefused(i) \/ \E lag \in Lag : HeartbeatClaim(i, lag))
       /\ WF_vars(\E lag \in Lag : FinalizeClaim(i, lag))

FairSpec == Spec /\ Fairness

----------------------------------------------------------------------------
(* Properties *)

\* Every row and every instance's memory has its shape (the validators of
\* operations-runtime-validator.ts and the fields of OperationsWorkerService).
TypeOK ==
  /\ job \in [Job -> JobRow]
  /\ attempts \in [Job -> SUBSET Attempt]
  /\ rollup \in [attempts : Nat, cost : Nat]
  /\ event \in [Job -> Event]
  /\ lease \in [WorkerId -> ProcessLease]
  /\ control \in [killSwitch : BOOLEAN, maintenance : BOOLEAN]
  /\ worker \in [Instance -> WorkerMemory]
  /\ stops \in 0 .. MaxStops

Kept(j) == job[j].status \notin {"ABSENT", "DELETED"}

AttemptsRecorded(j) ==
  /\ \A n \in 1 .. job[j].attempt :
       (\E a \in attempts[j] : a.attempt = n)
         <=> ~(job[j].status = "RUNNING" /\ n = job[j].attempt)
  /\ \A a, b \in attempts[j] : a.attempt = b.attempt => a = b
  /\ \A a \in attempts[j] : a.attempt \in 1 .. job[j].attempt

\* What insertAttempt's UNIQUE constraint relies on and the audit of a job
\* needs: the attempts a job has begun are exactly those with a record, but
\* for the one that is running, however its claims ended.
AttemptAccounting == \A j \in Job : Kept(j) => AttemptsRecorded(j)

RetryBounded(j) ==
  /\ job[j].attempt <= AutomaticRetries + 1
  /\ job[j].status = "RETRY_SCHEDULED" => job[j].attempt <= AutomaticRetries
  /\ \A a \in attempts[j] :
       a.outcome # "RETRY_SCHEDULED" => a.attempt = job[j].attempt /\ a.outcome = job[j].status

\* A job is retried only while the policy allows it, and only its last
\* attempt ends otherwise than in a retry, through finalizeClaim and recovery.
BoundedRetry == \A j \in Job : Kept(j) => RetryBounded(j)

\* claimNextDue strips the cancellation fields of the row it claims, so a
\* request survives only because no waiting row ever carries one.
CancellationKept ==
  \A j \in Job : job[j].status \in Waiting => ~job[j].cancel

\* At most one instance holds the claim a RUNNING row names, whatever crashed,
\* was superseded or was retried before: one may finalize, no other.
OneClaimHolder ==
  \A a, b \in Instance :
    (/\ worker[a].claimed # "none" /\ SameClaim(a)
     /\ worker[b].claimed = worker[a].claimed /\ SameClaim(b))
    => a = b

\* Once the recorded usage of a job exceeds its budget, over all its attempts,
\* the job is over and did not succeed.
OverBudgetIsFinal ==
  \A j \in Job : Kept(j) /\ Spent(attempts[j]) > Budget => job[j].status \in {"FAILED", "CANCELLED"}

EventFits(j) ==
  \/ event[j] = job[j].status
  \/ event[j] = "JOB_QUEUED" /\ job[j].status = "QUEUED"
  \/ event[j] \in {"JOB_LEASE_ACQUIRED", "JOB_HEARTBEAT"} /\ job[j].status = "RUNNING"

\* The newest operational event of a job tells its status: no transition is
\* committed without its event, and no event without its transition.
EventTellsStatus == \A j \in Job : Kept(j) => EventFits(j)

\* What a job's rows say after any sequence of stalls, recoveries, retries,
\* cancellations and crashes: the records, the bound, the request and the events
\* agree with each other and with the status, on every path to it.
JobsAreSound == AttemptAccounting /\ BoundedRetry /\ CancellationKept /\ EventTellsStatus

\* A claim ends by its holder's hand, or after its lease has really expired,
\* although the recovery may look at the row with an old clock reading.
ClaimEndsByHolderOrExpiry ==
  [][\A j \in Job : job[j].status = "RUNNING" /\ job'[j].status # "RUNNING" =>
       \/ job[j].lease.ttl <= 0
       \/ \E i \in Instance : /\ worker[i].claimed = j /\ SameClaim(i)
                              /\ worker[i].pc = "FINALIZING" /\ worker'[i].pc = "IDLE"]_vars

TotalUsage ==
  [attempts |-> rollup.attempts + UsageOf(Job).attempts, cost |-> rollup.cost + UsageOf(Job).cost]

\* Retention moves usage and loses none: the workspace's totals never fall,
\* and deleting jobs leaves them as they were.
UsageConserved ==
  [][<<attempts, rollup>>' # <<attempts, rollup>> =>
       /\ TotalUsage'.attempts >= TotalUsage.attempts
       /\ TotalUsage'.cost >= TotalUsage.cost
       /\ rollup' # rollup => TotalUsage' = TotalUsage]_vars

\* Usage is neither lost to retention nor forgiven by a success.
UsageIsAccounted == UsageConserved /\ []OverBudgetIsFinal

\* Every claim ends: by its holder, by its timeout, or by recovery after a
\* crash, a lost handler or a failed transaction, also while the kill switch
\* or maintenance mode stops new claims.
ClaimsEnd ==
  \A j \in Job : job[j].status = "RUNNING" ~> job[j].status # "RUNNING"

\* A cancellation requested of a running job takes effect.
CancellationTakesEffect ==
  \A j \in Job : job[j].status = "RUNNING" /\ job[j].cancel ~> job[j].status = "CANCELLED"

\* The runtime keeps the promises of JobLifecycle.
Phase(row) ==
  CASE row.status = "ABSENT"    -> "none"
    [] row.status \in Waiting   -> "waiting"
    [] row.status = "RUNNING"   -> "open"
    [] row.status = "COMPLETED" -> "succeeded"
    [] row.status = "CANCELLED" -> "cancelled"
    [] row.status = "DELETED"   -> "gone"
    [] OTHER                    -> "failed"

Lifecycle == INSTANCE JobLifecycle WITH
  LifecycleJob         <- Job,
  MaxLifecycleAttempts <- AutomaticRetries + 1,
  phase                <- [j \in Job |-> Phase(job[j])],
  begun                <- [j \in Job |-> job[j].attempt],
  ended                <- [j \in Job |-> {a.attempt : a \in attempts[j]}],
  requested            <- [j \in Job |-> job[j].cancel]

\* Every step of the runtime is a step or a stutter of each job's lifecycle,
\* whatever processes, leases, crashes and retention passes do.
ImplementsLifecycle == Lifecycle!LifecycleSpec

\* docs/SUPERVISED_H24_RUNTIME_V1.md:30, "monotonic fencing tokens": an
\* instance that lost the process lease holds an older token than its holder.
MonotonicFencing ==
  \A i \in Instance :
    LET row == lease[WorkerOf[i]] IN
      worker[i].token # 0 /\ row.holder \notin {i, "none"} => worker[i].token < row.token

\* The comment on OperationsWorkerService: the fencing token and the lease ID
\* prevent a superseded worker from committing results.
SupersededNeverCommits ==
  [][\A i \in Instance :
       worker[i].pc = "FINALIZING" /\ worker'[i].pc = "IDLE" /\ SameClaim(i)
         => SameProcessLease(i) \/ attempts' = attempts]_vars

=============================================================================
