---------------------------- MODULE JobLifecycle ----------------------------
(***************************************************************************)
(* What the job runtime promises about each job, with no word about        *)
(* processes, leases, clocks or stop controls: attempts are begun one at a *)
(* time and at most that many of them, each is ended once, a job has one  *)
(* verdict, and a cancellation requested during an attempt is that verdict.*)
(* Several jobs may step together, as in one recovery or retention pass.   *)
(***************************************************************************)
EXTENDS Integers

CONSTANTS LifecycleJob, MaxLifecycleAttempts

ASSUME MaxAttemptsAssumption == MaxLifecycleAttempts \in Nat \ {0}

VARIABLES
  phase,     \* where each job is
  begun,     \* how many attempts it has begun
  ended,     \* the numbers of the attempts that have ended
  requested  \* whether a cancellation was requested

lifecycleVars == <<phase, begun, ended, requested>>

Verdict == {"succeeded", "failed", "cancelled"}
JobPhase == {"none", "waiting", "open", "gone"} \cup Verdict

LifecycleInit ==
  /\ phase = [j \in LifecycleJob |-> "none"]
  /\ begun = [j \in LifecycleJob |-> 0]
  /\ ended = [j \in LifecycleJob |-> {}]
  /\ requested = [j \in LifecycleJob |-> FALSE]

Same(j) ==
  /\ phase'[j] = phase[j] /\ begun'[j] = begun[j]
  /\ ended'[j] = ended[j] /\ requested'[j] = requested[j]

Submit(j) ==
  /\ phase[j] = "none" /\ phase'[j] = "waiting"
  /\ begun'[j] = begun[j] /\ ended'[j] = ended[j] /\ requested'[j] = requested[j]

Begin(j) ==
  /\ phase[j] = "waiting" /\ phase'[j] = "open"
  /\ begun[j] < MaxLifecycleAttempts /\ begun'[j] = begun[j] + 1
  /\ ended'[j] = ended[j]
  /\ ~requested[j] /\ ~requested'[j]

Request(j) ==
  /\ phase[j] = "open" /\ phase'[j] = "open"
  /\ begun'[j] = begun[j] /\ ended'[j] = ended[j]
  /\ requested'[j]

EndAttempt(j) ==
  /\ phase[j] = "open"
  /\ begun[j] \notin ended[j] /\ ended'[j] = ended[j] \cup {begun[j]}
  /\ begun'[j] = begun[j]

\* A retry that leaves no record of the attempt.
RetryWithoutRecord(j) ==
  /\ phase[j] = "open" /\ phase'[j] = "waiting"
  /\ begun[j] < MaxLifecycleAttempts
  /\ begun'[j] = begun[j] /\ ended'[j] = ended[j] /\ requested'[j] = requested[j]

Retry(j) ==
  /\ EndAttempt(j)
  /\ begun[j] < MaxLifecycleAttempts
  /\ phase'[j] = "waiting"
  /\ ~requested[j] /\ ~requested'[j]

Conclude(j) ==
  /\ EndAttempt(j)
  /\ phase'[j] \in Verdict
  /\ requested[j] => phase'[j] = "cancelled"
  /\ requested'[j] <=> phase'[j] = "cancelled"

Withdraw(j) ==
  /\ phase[j] = "waiting" /\ phase'[j] = "cancelled"
  /\ begun'[j] = begun[j] /\ ended'[j] = ended[j]
  /\ requested'[j]

Remove(j) ==
  /\ phase[j] \in Verdict /\ phase'[j] = "gone"
  /\ begun'[j] = 0 /\ ended'[j] = {} /\ ~requested'[j]

JobStep(j) ==
  \/ Submit(j) \/ Begin(j) \/ Request(j) \/ Retry(j)
  \/ Conclude(j) \/ Withdraw(j) \/ Remove(j)

LifecycleNext ==
  /\ phase' \in [LifecycleJob -> JobPhase]
  /\ begun' \in [LifecycleJob -> 0 .. MaxLifecycleAttempts]
  /\ ended' \in [LifecycleJob -> SUBSET (1 .. MaxLifecycleAttempts)]
  /\ requested' \in [LifecycleJob -> BOOLEAN]
  /\ \A j \in LifecycleJob : Same(j) \/ JobStep(j)

LifecycleSpec == LifecycleInit /\ [][LifecycleNext]_lifecycleVars

----------------------------------------------------------------------------
LifecycleTypeOK ==
  /\ phase \in [LifecycleJob -> JobPhase]
  /\ begun \in [LifecycleJob -> 0 .. MaxLifecycleAttempts]
  /\ ended \in [LifecycleJob -> SUBSET (1 .. MaxLifecycleAttempts)]
  /\ requested \in [LifecycleJob -> BOOLEAN]

\* Whatever path a job took, the attempts it began are those that ended, but
\* for the open one: the receipts of operations_job_attempts have no gap, no
\* repetition and no orphan.
AttemptsEndOnce ==
  \A j \in LifecycleJob : ended[j] = IF phase[j] = "open" THEN 1 .. begun[j] - 1 ELSE 1 .. begun[j]

\* A request never survives into another attempt, nor into another verdict.
RequestIsDecided ==
  \A j \in LifecycleJob : requested[j] => phase[j] \in {"open", "cancelled"}

\* What the runtime promises about a job, and OperationsRuntime is shown to keep.
LifecycleSound == AttemptsEndOnce /\ RequestIsDecided

=============================================================================
