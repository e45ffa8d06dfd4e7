----------------------------- MODULE CommandsProofs -----------------------------
(***************************************************************************)
(* Theorems about components that MCCommands checks: the lifecycle of an   *)
(* operations job, the queue of content to produce, the operator's bot,    *)
(* the command boundary, the reviews and the workflow controls that cross  *)
(* it, and the stream of events to the pages, for any jobs, workers,       *)
(* attempts, updates, commands, callers, pages and crashes.                *)
(***************************************************************************)
EXTENDS MCCommands, BackupRetentionProofs, BusinessCalendarProofs, SequenceTheorems


\* Every step keeps the shape of the four variables.
THEOREM TypeCorrect == LifecycleSpec => []LifecycleTypeOK
<1>1. LifecycleInit => LifecycleTypeOK
  BY MaxAttemptsAssumption DEF LifecycleInit, LifecycleTypeOK, JobPhase
<1>2. LifecycleTypeOK /\ [LifecycleNext]_lifecycleVars => LifecycleTypeOK'
  BY DEF LifecycleTypeOK, LifecycleNext, lifecycleVars
<1> QED
  BY <1>1, <1>2, PTL DEF LifecycleSpec

\* One job's half of AttemptsEndOnce.
EndedInOrder(j) ==
  ended[j] = IF phase[j] = "open" THEN 1 .. begun[j] - 1 ELSE 1 .. begun[j]

\* Ending attempt n after the attempts 1 .. n - 1 leaves the attempts 1 .. n.
LEMMA NextAttemptEnds ==
  ASSUME NEW n \in Nat \ {0}
  PROVE  (1 .. n - 1) \cup {n} = 1 .. n
  OBVIOUS

\* The attempts begun and those ended differ by the open one: the receipts of
\* a job (operations_job_attempts) have neither gaps nor repetitions.
THEOREM AttemptsEndOnceHolds == LifecycleSpec => []AttemptsEndOnce
<1>1. LifecycleInit => AttemptsEndOnce
  <2>1. 1 .. 0 = {}
    OBVIOUS
  <2> QED
    BY <2>1, Zenon DEF LifecycleInit, AttemptsEndOnce
<1>2. LifecycleTypeOK /\ LifecycleTypeOK' /\ AttemptsEndOnce /\ [LifecycleNext]_lifecycleVars => AttemptsEndOnce'
  <2> SUFFICES ASSUME LifecycleTypeOK, LifecycleTypeOK', AttemptsEndOnce, [LifecycleNext]_lifecycleVars, NEW j \in LifecycleJob
               PROVE  EndedInOrder(j)'
    BY DEF AttemptsEndOnce, EndedInOrder
  <2>1. EndedInOrder(j)
    BY DEF AttemptsEndOnce, EndedInOrder
  <2>2. begun[j] \in Nat /\ begun'[j] \in Nat /\ ended'[j] \subseteq 1 .. MaxLifecycleAttempts
    BY MaxAttemptsAssumption DEF LifecycleTypeOK
  <2>3. CASE UNCHANGED lifecycleVars
    BY <2>1, <2>3 DEF EndedInOrder, lifecycleVars
  <2>4. CASE Same(j)
    BY <2>1, <2>4 DEF EndedInOrder, Same
  <2>5. CASE Submit(j)
    BY <2>1, <2>5 DEF EndedInOrder, Submit
  <2>6. CASE Begin(j)
    BY <2>1, <2>2, <2>6 DEF EndedInOrder, Begin
  <2>7. CASE Request(j)
    BY <2>1, <2>7 DEF EndedInOrder, Request
  <2>8. CASE EndAttempt(j) /\ phase'[j] # "open"
    <3>1. begun[j] \in ended'[j]
      BY <2>8 DEF EndAttempt
    <3>2. begun[j] \in Nat \ {0}
      BY <2>2, <3>1, MaxAttemptsAssumption
    <3> QED
      BY <2>1, <2>8, <3>2, NextAttemptEnds DEF EndedInOrder, EndAttempt
  <2>9. CASE Retry(j)
    BY <2>8, <2>9 DEF Retry
  <2>10. CASE Conclude(j)
    BY <2>8, <2>10 DEF Conclude, Verdict
  <2>11. CASE Withdraw(j)
    BY <2>1, <2>11 DEF EndedInOrder, Withdraw
  <2>12. CASE Remove(j)
    BY <2>12 DEF EndedInOrder, Remove
  <2> QED
    BY <2>3, <2>4, <2>5, <2>6, <2>7, <2>9, <2>10, <2>11, <2>12 DEF LifecycleNext, JobStep
<1> QED
  BY <1>1, <1>2, TypeCorrect, PTL DEF LifecycleSpec

\* A cancellation request is decided within the attempt it was made in.
THEOREM RequestIsDecidedHolds == LifecycleSpec => []RequestIsDecided
<1>1. LifecycleInit => RequestIsDecided
  BY DEF LifecycleInit, RequestIsDecided
<1>2. RequestIsDecided /\ [LifecycleNext]_lifecycleVars => RequestIsDecided'
  <2> SUFFICES ASSUME RequestIsDecided, [LifecycleNext]_lifecycleVars, NEW j \in LifecycleJob, requested'[j]
               PROVE  phase'[j] \in {"open", "cancelled"}
    BY DEF RequestIsDecided
  <2>1. requested[j] => phase[j] \in {"open", "cancelled"}
    BY DEF RequestIsDecided
  <2>2. CASE UNCHANGED lifecycleVars
    BY <2>1, <2>2 DEF lifecycleVars
  <2>3. CASE Same(j)
    BY <2>1, <2>3 DEF Same
  <2>4. CASE JobStep(j)
    BY <2>1, <2>4 DEF JobStep, Submit, Begin, Request, Retry, Conclude, Withdraw, Remove
  <2> QED
    BY <2>2, <2>3, <2>4 DEF LifecycleNext
<1> QED
  BY <1>1, <1>2, PTL DEF LifecycleSpec

\* Attempts are recorded once and requests decided, for any number of jobs.
THEOREM LifecycleSoundHolds == LifecycleSpec => []LifecycleSound
<1>1. AttemptsEndOnce /\ RequestIsDecided => LifecycleSound
  BY DEF LifecycleSound
<1> QED
  BY <1>1, AttemptsEndOnceHolds, RequestIsDecidedHolds, PTL

----------------------------------------------------------------------------
(* The queue of content to produce.                                        *)

ContentStatus == {"NONE", "QUEUED", "RUNNING", "RETRY_SCHEDULED", "COMPLETED", "DEAD_LETTER"}
ContentRow == [status : ContentStatus, attempt : Nat, version : Nat, waiting : BOOLEAN]
Claiming == {"looking", "producing", "storing", "completing", "failing"}
IdleRun == [at : {"idle"}]
RecoveringRun == [at : {"recovering"}, expired : SUBSET (ContentJob \X Nat)]
ClaimingRun == [at : Claiming, job : ContentJob, version : Nat]

ContentRows ==
  /\ contentJobs \in [ContentJob -> ContentRow]
  /\ produced \subseteq ContentJob /\ contentReceipts \subseteq ContentJob
  /\ workers \in [ContentWorker -> IdleRun \union RecoveringRun \union ClaimingRun]
  /\ workerCrashes \in 0 .. MaxWorkerCrashes

\* A job's version counts its claims and their ends.
VersionCounts(j) ==
  LET status == contentJobs[j].status
      tries == contentJobs[j].attempt
      v == contentJobs[j].version
  IN /\ status \in {"NONE", "QUEUED"} => tries = 0 /\ v = 0
     /\ status = "NONE" => ~contentJobs[j].waiting
     /\ status = "RUNNING" => tries \in 1 .. MaxJobAttempts /\ v = 2 * tries - 1
     /\ status = "RETRY_SCHEDULED" => tries \in 1 .. MaxJobAttempts - 1 /\ v = 2 * tries
     /\ status \in {"COMPLETED", "DEAD_LETTER"} => tries \in 1 .. MaxJobAttempts /\ v = 2 * tries

\* What a run read of a job is past, or the job still runs: under the lease that
\* was over when a recovery listed it, or under this run's own claim.  A command that
\* got so far has left its production, or its receipt.
RunIsSound(w) ==
  /\ workers[w].at = "recovering" => \A j \in ContentJob, v \in Nat : <<j, v>> \in workers[w].expired =>
       /\ v <= contentJobs[j].version
       /\ v = contentJobs[j].version => contentJobs[j].status = "RUNNING" /\ ~contentJobs[j].waiting
  /\ workers[w].at \in Claiming =>
       /\ workers[w].version <= contentJobs[Claimed(w)].version
       /\ workers[w].version = contentJobs[Claimed(w)].version => contentJobs[Claimed(w)].status = "RUNNING"
  /\ workers[w].at = "storing" => Claimed(w) \in produced
  /\ workers[w].at = "completing" => Claimed(w) \in contentReceipts

ContentInv ==
  /\ ContentRows
  /\ \A j \in ContentJob : VersionCounts(j)
  /\ \A w \in ContentWorker : RunIsSound(w)
  /\ CompletedIsProduced

LEMMA ContentInitInv == ContentInit => ContentInv
<1> SUFFICES ASSUME ContentInit PROVE ContentInv
  OBVIOUS
<1>1. ContentRows
  BY ContentAssumption DEF ContentInit, ContentRows, ContentRow, ContentStatus, NoContentJob,
     WorkerIdle, IdleRun
<1>2. \A j \in ContentJob : VersionCounts(j)
  BY DEF ContentInit, NoContentJob, VersionCounts
<1>3. \A w \in ContentWorker : RunIsSound(w)
  BY DEF ContentInit, WorkerIdle, RunIsSound, Claiming
<1>4. CompletedIsProduced
  BY DEF ContentInit, NoContentJob, CompletedIsProduced
<1> QED
  BY <1>1, <1>2, <1>3, <1>4 DEF ContentInv

\* A job that moves, with its version, leaves the runs that read it behind.
LEMMA RunKept ==
  ASSUME ContentInv, ContentRows', NEW w \in ContentWorker, workers'[w] = workers[w],
         produced \subseteq produced', contentReceipts \subseteq contentReceipts',
         \A j \in ContentJob :
           \/ contentJobs'[j].version > contentJobs[j].version
           \/ /\ contentJobs'[j].version = contentJobs[j].version
              /\ \/ contentJobs[j].status = "NONE"
                 \/ /\ contentJobs'[j].status = contentJobs[j].status
                    /\ contentJobs'[j].waiting => contentJobs[j].waiting
  PROVE  RunIsSound(w)'
<1>1. RunIsSound(w) /\ workers[w] \in IdleRun \union RecoveringRun \union ClaimingRun
  BY DEF ContentInv, ContentRows
<1>2. \A j \in ContentJob : contentJobs[j].version \in Nat /\ contentJobs'[j].version \in Nat
  BY DEF ContentInv, ContentRows, ContentRow
<1>3. ASSUME NEW j \in ContentJob, NEW v \in Nat, v <= contentJobs[j].version
      PROVE  /\ v <= contentJobs'[j].version
             /\ v = contentJobs'[j].version =>
                  /\ v = contentJobs[j].version
                  /\ \/ contentJobs[j].status = "NONE"
                     \/ /\ contentJobs'[j].status = contentJobs[j].status
                        /\ contentJobs'[j].waiting => contentJobs[j].waiting
  BY <1>2, <1>3
<1>4. ASSUME workers[w].at = "recovering", NEW j \in ContentJob, NEW v \in Nat,
             <<j, v>> \in workers[w].expired
      PROVE  /\ v <= contentJobs'[j].version
             /\ v = contentJobs'[j].version =>
                  contentJobs'[j].status = "RUNNING" /\ ~contentJobs'[j].waiting
  <2>1. /\ v <= contentJobs[j].version
        /\ v = contentJobs[j].version => contentJobs[j].status = "RUNNING" /\ ~contentJobs[j].waiting
    BY <1>1, <1>4 DEF RunIsSound
  <2> QED
    BY <1>3, <2>1
<1>5. ASSUME workers[w].at \in Claiming
      PROVE  /\ workers[w].version <= contentJobs'[Claimed(w)].version
             /\ workers[w].version = contentJobs'[Claimed(w)].version =>
                  contentJobs'[Claimed(w)].status = "RUNNING"
  <2>1. Claimed(w) \in ContentJob /\ workers[w].version \in Nat
    BY <1>1, <1>5 DEF IdleRun, RecoveringRun, ClaimingRun, Claiming, Claimed
  <2>2. /\ workers[w].version <= contentJobs[Claimed(w)].version
        /\ workers[w].version = contentJobs[Claimed(w)].version => contentJobs[Claimed(w)].status = "RUNNING"
    BY <1>1, <1>5 DEF RunIsSound
  <2> QED
    BY <1>3, <2>1, <2>2
<1>6. Claimed(w)' = Claimed(w)
  BY DEF Claimed
<1>7. /\ workers[w].at = "storing" => Claimed(w) \in produced
      /\ workers[w].at = "completing" => Claimed(w) \in contentReceipts
  BY <1>1 DEF RunIsSound
<1> QED
  BY <1>4, <1>5, <1>6, <1>7 DEF RunIsSound

\* What becomes of a job whose claim fails.
LEMMA FailedRow ==
  ASSUME ContentInv, NEW j \in ContentJob, contentJobs[j].status = "RUNNING",
         contentJobs' = [contentJobs EXCEPT ![j] = Failed(j)]
  PROVE  /\ contentJobs' \in [ContentJob -> ContentRow]
         /\ contentJobs'[j].version = contentJobs[j].version + 1
         /\ contentJobs'[j].version > contentJobs[j].version
         /\ contentJobs'[j].status \in {"DEAD_LETTER", "RETRY_SCHEDULED"}
         /\ \A k \in ContentJob : k # j => contentJobs'[k] = contentJobs[k]
         /\ \A k \in ContentJob : VersionCounts(k)'
<1> DEFINE row == Failed(j)
<1>1. contentJobs \in [ContentJob -> ContentRow] /\ VersionCounts(j)
  BY DEF ContentInv, ContentRows
<1>2. contentJobs[j].attempt \in Nat /\ contentJobs[j].version \in Nat
  BY <1>1 DEF ContentRow
<1>3. row = [contentJobs[j] EXCEPT !.status = IF Exhausted(contentJobs[j]) THEN "DEAD_LETTER" ELSE "RETRY_SCHEDULED",
              !.version = contentJobs[j].version + 1, !.waiting = ~Exhausted(contentJobs[j])]
  BY DEF Failed
<1>4. ASSUME NEW dead \in BOOLEAN, NEW next \in {"DEAD_LETTER", "RETRY_SCHEDULED"},
             row = [contentJobs[j] EXCEPT !.status = next, !.version = contentJobs[j].version + 1, !.waiting = dead]
      PROVE  /\ row \in ContentRow /\ row.version = contentJobs[j].version + 1
             /\ row.attempt = contentJobs[j].attempt /\ row.status = next
  <2> DEFINE old == contentJobs[j]
             v == contentJobs[j].version + 1
  <2>1. old \in ContentRow /\ v \in Nat
    BY <1>1, <1>2
  <2>2. row = [old EXCEPT !.status = next, !.version = v, !.waiting = dead]
    BY <1>4
  <2> HIDE DEF row, old, v
  <2>3. row \in ContentRow /\ row.version = v /\ row.attempt = old.attempt /\ row.status = next
    BY <2>1, <2>2 DEF ContentRow, ContentStatus
  <2> QED
    BY <2>3 DEF old, v
<1>5. /\ row \in ContentRow /\ row.version = contentJobs[j].version + 1
      /\ row.attempt = contentJobs[j].attempt
      /\ row.status = IF Exhausted(contentJobs[j]) THEN "DEAD_LETTER" ELSE "RETRY_SCHEDULED"
  <2>1. CASE Exhausted(contentJobs[j])
    <3>1. row = [contentJobs[j] EXCEPT !.status = "DEAD_LETTER", !.version = contentJobs[j].version + 1,
                                       !.waiting = FALSE]
      BY <1>3, <2>1
    <3> QED
      BY <1>4, <2>1, <3>1
  <2>2. CASE ~Exhausted(contentJobs[j])
    <3>1. row = [contentJobs[j] EXCEPT !.status = "RETRY_SCHEDULED", !.version = contentJobs[j].version + 1,
                                       !.waiting = TRUE]
      BY <1>3, <2>2
    <3> QED
      BY <1>4, <2>2, <3>1
  <2> QED
    BY <2>1, <2>2
<1> HIDE DEF row
<1>6. contentJobs' = [contentJobs EXCEPT ![j] = row]
  BY DEF row
<1>7. /\ contentJobs' \in [ContentJob -> ContentRow] /\ contentJobs'[j] = row
      /\ \A k \in ContentJob : k # j => contentJobs'[k] = contentJobs[k]
  BY <1>1, <1>5, <1>6
<1>8. ASSUME NEW k \in ContentJob PROVE VersionCounts(k)'
  <2>1. CASE k # j
    BY <1>7, <2>1 DEF VersionCounts, ContentInv
  <2>2. CASE k = j
    <3> DEFINE tries == contentJobs[j].attempt
               v == contentJobs[j].version
    <3>1. tries \in 1 .. MaxJobAttempts /\ v = 2 * tries - 1
      BY <1>1 DEF VersionCounts
    <3>2. Exhausted(contentJobs[j]) <=> tries >= MaxJobAttempts
      BY DEF Exhausted
    <3>3. MaxJobAttempts \in Nat
      BY ContentAssumption
    <3> HIDE DEF tries, v
    <3>4. /\ v + 1 = 2 * tries
          /\ ~(tries >= MaxJobAttempts) => tries \in 1 .. MaxJobAttempts - 1
      BY <3>1, <3>3
    <3>5. CASE Exhausted(contentJobs[j])
      BY <1>5, <1>7, <2>2, <3>1, <3>4, <3>5 DEF VersionCounts, tries, v
    <3>6. CASE ~Exhausted(contentJobs[j])
      BY <1>5, <1>7, <2>2, <3>2, <3>4, <3>6 DEF VersionCounts, tries, v
    <3> QED
      BY <3>5, <3>6
  <2> QED
    BY <2>1, <2>2
<1> QED
  BY <1>2, <1>5, <1>7, <1>8

\* The steps of a run that write no job.
LEMMA RunOnlyStep ==
  ASSUME ContentInv, NEW w \in ContentWorker,
         NEW run \in IdleRun \union RecoveringRun \union ClaimingRun, WorkerGoes(w, run),
         UNCHANGED <<contentJobs, workerCrashes>>,
         produced \subseteq produced', produced' \subseteq ContentJob,
         contentReceipts \subseteq contentReceipts', contentReceipts' \subseteq ContentJob,
         contentReceipts' \subseteq produced', RunIsSound(w)'
  PROVE  ContentInv'
<1>1. ContentRows' /\ \A x \in ContentWorker : x # w => workers'[x] = workers[x]
  BY DEF ContentInv, ContentRows, WorkerGoes
<1>2. \A j \in ContentJob : VersionCounts(j)'
  BY DEF ContentInv, VersionCounts
<1>3. \A x \in ContentWorker : RunIsSound(x)'
  BY <1>1, RunKept
<1>4. CompletedIsProduced'
  BY DEF ContentInv, CompletedIsProduced
<1> QED
  BY <1>1, <1>2, <1>3, <1>4 DEF ContentInv

\* The steps of a run that move the job j on.
LEMMA RunMovesJob ==
  ASSUME ContentInv, NEW w \in ContentWorker, NEW j \in ContentJob,
         NEW run \in IdleRun \union RecoveringRun \union ClaimingRun, WorkerGoes(w, run),
         UNCHANGED <<produced, contentReceipts, workerCrashes>>,
         contentJobs' \in [ContentJob -> ContentRow],
         contentJobs'[j].version > contentJobs[j].version,
         contentJobs'[j].status = "COMPLETED" => j \in contentReceipts,
         \A k \in ContentJob : k # j => contentJobs'[k] = contentJobs[k],
         \A k \in ContentJob : VersionCounts(k)',
         RunIsSound(w)'
  PROVE  ContentInv'
<1>1. ContentRows' /\ \A x \in ContentWorker : x # w => workers'[x] = workers[x]
  BY DEF ContentInv, ContentRows, WorkerGoes
<1>2. \A k \in ContentJob :
           \/ contentJobs'[k].version > contentJobs[k].version
           \/ /\ contentJobs'[k].version = contentJobs[k].version
              /\ \/ contentJobs[k].status = "NONE"
                 \/ /\ contentJobs'[k].status = contentJobs[k].status
                    /\ contentJobs'[k].waiting => contentJobs[k].waiting
  OBVIOUS
<1>3. \A x \in ContentWorker : RunIsSound(x)'
  BY <1>1, <1>2, RunKept
<1>4. CompletedIsProduced'
  BY DEF ContentInv, CompletedIsProduced
<1> QED
  BY <1>1, <1>3, <1>4 DEF ContentInv

LEMMA IdleIsSound ==
  ASSUME ContentRows, NEW w \in ContentWorker, WorkerGoes(w, WorkerIdle)
  PROVE  RunIsSound(w)' /\ WorkerIdle \in IdleRun
  BY DEF ContentRows, WorkerGoes, WorkerIdle, RunIsSound, Claiming, IdleRun

\* Where a claiming run goes on, with its claim.
LEMMA ClaimingMoves ==
  ASSUME ContentInv, NEW w \in ContentWorker, workers[w].at \in Claiming,
         NEW place \in Claiming, Moves(w, place), UNCHANGED contentJobs,
         place = "storing" => Claimed(w) \in produced',
         place = "completing" => Claimed(w) \in contentReceipts'
  PROVE  /\ RunIsSound(w)'
         /\ WorkerGoes(w, [workers[w] EXCEPT !.at = place])
         /\ [workers[w] EXCEPT !.at = place] \in ClaimingRun
<1>1. /\ workers \in [ContentWorker -> IdleRun \union RecoveringRun \union ClaimingRun] /\ RunIsSound(w)
  BY DEF ContentInv, ContentRows
<1>2. workers[w] \in ClaimingRun
  BY <1>1 DEF IdleRun, RecoveringRun, ClaimingRun, Claiming
<1> DEFINE run == [workers[w] EXCEPT !.at = place]
<1>3. /\ run \in ClaimingRun /\ run.at = place /\ run.job = workers[w].job
      /\ run.version = workers[w].version
  BY <1>2 DEF ClaimingRun
<1>4. workers' = [workers EXCEPT ![w] = run]
  BY DEF Moves, WorkerGoes
<1> HIDE DEF run
<1>5. workers'[w] = run
  BY <1>1, <1>4
<1>6. RunIsSound(w)'
  BY <1>1, <1>3, <1>5 DEF RunIsSound, Claimed, Claiming
<1> QED
  BY <1>3, <1>4, <1>6 DEF run, WorkerGoes

\* A job comes in, or its time is over.
LEMMA ContentJobSteps ==
  ASSUME ContentInv, NEW j \in ContentJob, Enqueue(j) \/ TimeIsOver(j)
  PROVE  ContentInv'
<1>1. contentJobs \in [ContentJob -> ContentRow] /\ VersionCounts(j)
  BY DEF ContentInv, ContentRows
<1>2. UNCHANGED <<produced, contentReceipts, workers, workerCrashes>>
  BY DEF Enqueue, TimeIsOver
<1>3. /\ contentJobs' \in [ContentJob -> ContentRow] /\ VersionCounts(j)'
      /\ contentJobs'[j].version = contentJobs[j].version
      /\ \/ contentJobs[j].status = "NONE" /\ contentJobs'[j].status = "QUEUED"
         \/ /\ contentJobs'[j].status = contentJobs[j].status
            /\ contentJobs'[j].waiting => contentJobs[j].waiting
      /\ \A k \in ContentJob : k # j => contentJobs'[k] = contentJobs[k]
  <2>1. CASE Enqueue(j)
    BY <1>1, <2>1 DEF Enqueue, NoContentJob, ContentRow, ContentStatus, VersionCounts
  <2>2. CASE TimeIsOver(j)
    <3> DEFINE row == [contentJobs[j] EXCEPT !.waiting = FALSE]
    <3>1. /\ row \in ContentRow /\ row.status = contentJobs[j].status
          /\ row.attempt = contentJobs[j].attempt /\ row.version = contentJobs[j].version
          /\ row.waiting = FALSE
      BY <1>1 DEF ContentRow
    <3>2. contentJobs' = [contentJobs EXCEPT ![j] = row]
      BY <2>2 DEF TimeIsOver
    <3> HIDE DEF row
    <3>3. /\ contentJobs' \in [ContentJob -> ContentRow] /\ contentJobs'[j] = row
          /\ \A k \in ContentJob : k # j => contentJobs'[k] = contentJobs[k]
      BY <1>1, <3>1, <3>2
    <3>4. VersionCounts(j)'
      BY <1>1, <3>1, <3>3 DEF VersionCounts
    <3> QED
      BY <3>1, <3>3, <3>4
  <2> QED
    BY <2>1, <2>2
<1>4. ContentRows'
  BY <1>2, <1>3 DEF ContentInv, ContentRows
<1>5. \A k \in ContentJob : VersionCounts(k)'
  BY <1>3 DEF ContentInv, VersionCounts
<1>6. \A k \in ContentJob :
        /\ contentJobs'[k].version = contentJobs[k].version
        /\ \/ contentJobs[k].status = "NONE"
           \/ /\ contentJobs'[k].status = contentJobs[k].status
              /\ contentJobs'[k].waiting => contentJobs[k].waiting
  BY <1>3
<1>7. \A w \in ContentWorker : RunIsSound(w)'
  BY <1>2, <1>4, <1>6, RunKept
<1>8. CompletedIsProduced'
  BY <1>2, <1>3 DEF ContentInv, CompletedIsProduced
<1> QED
  BY <1>4, <1>5, <1>7, <1>8 DEF ContentInv

LEMMA StartRunStep ==
  ASSUME ContentInv, NEW w \in ContentWorker, StartRun(w)
  PROVE  ContentInv'
<1> DEFINE run == [at |-> "recovering", expired |-> ExpiredClaims]
<1>1. contentJobs \in [ContentJob -> ContentRow] /\ workers \in [ContentWorker -> IdleRun \union RecoveringRun \union ClaimingRun]
  BY DEF ContentInv, ContentRows
<1>2. ExpiredClaims \in SUBSET (ContentJob \X Nat)
  BY <1>1 DEF ExpiredClaims, ContentRow
<1>3. run \in RecoveringRun /\ run.at = "recovering" /\ run.expired = ExpiredClaims
  BY <1>2 DEF RecoveringRun
<1>4. \A j \in ContentJob, v \in Nat : <<j, v>> \in ExpiredClaims =>
        v = contentJobs[j].version /\ contentJobs[j].status = "RUNNING" /\ ~contentJobs[j].waiting
  BY DEF ExpiredClaims
<1>5. WorkerGoes(w, run) /\ UNCHANGED <<contentJobs, produced, contentReceipts, workerCrashes>>
  BY DEF StartRun
<1> HIDE DEF run
<1>6. workers'[w] = run
  BY <1>1, <1>5 DEF WorkerGoes
<1>7. \A v \in Nat : v <= v
  OBVIOUS
<1>8. RunIsSound(w)'
  BY <1>3, <1>4, <1>5, <1>6, <1>7 DEF RunIsSound, Claiming
<1> QED
  BY <1>3, <1>5, <1>8, RunOnlyStep DEF ContentInv, ContentRows, CompletedIsProduced

LEMMA GiveBackStep ==
  ASSUME ContentInv, NEW w \in ContentWorker, GiveBack(w)
  PROVE  ContentInv'
<1>1. PICK claim \in workers[w].expired :
        IF Unchanged(claim[1], claim[2])
          THEN /\ contentJobs' = [contentJobs EXCEPT ![claim[1]] = Failed(claim[1])]
               /\ WorkerGoes(w, [workers[w] EXCEPT !.expired = @ \ {claim}])
          ELSE WorkerGoes(w, WorkerIdle) /\ UNCHANGED contentJobs
  BY DEF GiveBack
<1>2. /\ workers[w].at = "recovering" /\ UNCHANGED <<produced, contentReceipts, workerCrashes>>
      /\ ContentRows /\ RunIsSound(w)
      /\ workers \in [ContentWorker -> IdleRun \union RecoveringRun \union ClaimingRun]
  BY DEF GiveBack, WorkerAt, ContentInv, ContentRows
<1>3. workers[w] \in RecoveringRun
  BY <1>2 DEF IdleRun, RecoveringRun, ClaimingRun, Claiming
<1>4. PICK j \in ContentJob, v \in Nat : claim = <<j, v>>
  BY <1>1, <1>3 DEF RecoveringRun
<1>5. CASE ~Unchanged(j, v)
  <2>1. WorkerGoes(w, WorkerIdle) /\ UNCHANGED contentJobs
    BY <1>1, <1>4, <1>5
  <2> QED
    BY <1>2, <2>1, IdleIsSound, RunOnlyStep DEF ContentInv, ContentRows, CompletedIsProduced
<1>6. CASE Unchanged(j, v)
  <2> DEFINE left == workers[w].expired \ {claim}
             run == [workers[w] EXCEPT !.expired = left]
  <2>1. contentJobs' = [contentJobs EXCEPT ![j] = Failed(j)] /\ WorkerGoes(w, run)
    BY <1>1, <1>4, <1>6
  <2>2. run \in RecoveringRun /\ run.at = "recovering" /\ run.expired = left
    BY <1>3 DEF RecoveringRun
  <2>3. contentJobs[j].status = "RUNNING"
    BY <1>1, <1>2, <1>4, <1>6 DEF RunIsSound, Unchanged
  <2>4. /\ contentJobs' \in [ContentJob -> ContentRow]
        /\ contentJobs'[j].version > contentJobs[j].version
        /\ contentJobs'[j].status \in {"DEAD_LETTER", "RETRY_SCHEDULED"}
        /\ \A k \in ContentJob : k # j => contentJobs'[k] = contentJobs[k]
        /\ \A k \in ContentJob : VersionCounts(k)'
    BY <2>1, <2>3, FailedRow
  <2> HIDE DEF run, left
  <2>5. workers'[w] = run
    BY <1>2, <2>1 DEF WorkerGoes
  <2>6. \A k \in ContentJob, u \in Nat : <<k, u>> \in left =>
          /\ u <= contentJobs'[k].version
          /\ u = contentJobs'[k].version => contentJobs'[k].status = "RUNNING" /\ ~contentJobs'[k].waiting
    <3> SUFFICES ASSUME NEW k \in ContentJob, NEW u \in Nat, <<k, u>> \in left
                 PROVE  /\ u <= contentJobs'[k].version
                        /\ u = contentJobs'[k].version =>
                             contentJobs'[k].status = "RUNNING" /\ ~contentJobs'[k].waiting
      OBVIOUS
    <3>1. <<k, u>> \in workers[w].expired
      BY DEF left
    <3>2. /\ u <= contentJobs[k].version
          /\ u = contentJobs[k].version => contentJobs[k].status = "RUNNING" /\ ~contentJobs[k].waiting
      BY <1>2, <3>1 DEF RunIsSound
    <3>3. CASE k # j
      BY <2>4, <3>2, <3>3
    <3>4. CASE k = j
      <4>1. contentJobs[j].version \in Nat /\ contentJobs'[j].version \in Nat
        BY <1>2, <2>4 DEF ContentRows, ContentRow
      <4>2. u <= contentJobs'[j].version /\ u # contentJobs'[j].version
        BY <2>4, <3>2, <3>4, <4>1
      <4> QED
        BY <3>4, <4>2
    <3> QED
      BY <3>3, <3>4
  <2>7. RunIsSound(w)'
    BY <2>2, <2>5, <2>6 DEF RunIsSound, Claiming
  <2> QED
    BY <1>2, <2>1, <2>2, <2>4, <2>7, RunMovesJob
<1> QED
  BY <1>5, <1>6

LEMMA ClaimNextStep ==
  ASSUME ContentInv, NEW w \in ContentWorker, ClaimNextContentJob(w)
  PROVE  ContentInv'
<1>1. /\ UNCHANGED <<produced, contentReceipts, workerCrashes>>
      /\ ContentRows /\ contentJobs \in [ContentJob -> ContentRow]
      /\ workers \in [ContentWorker -> IdleRun \union RecoveringRun \union ClaimingRun]
  BY DEF ClaimNextContentJob, ContentInv, ContentRows
<1>2. CASE WorkerGoes(w, WorkerIdle) /\ UNCHANGED contentJobs
  BY <1>1, <1>2, IdleIsSound, RunOnlyStep DEF ContentInv, ContentRows, CompletedIsProduced
<1>3. ASSUME NEW j \in ClaimableJobs,
             contentJobs' = [contentJobs EXCEPT ![j].status = "RUNNING", ![j].attempt = @ + 1,
                                                ![j].version = @ + 1, ![j].waiting = TRUE],
             WorkerGoes(w, [at |-> "looking", job |-> j, version |-> contentJobs[j].version + 1])
      PROVE  ContentInv'
  <2> DEFINE tries == contentJobs[j].attempt
             v == contentJobs[j].version
             row == [status |-> "RUNNING", attempt |-> tries + 1, version |-> v + 1, waiting |-> TRUE]
             run == [at |-> "looking", job |-> j, version |-> v + 1]
  <2>1. j \in ContentJob /\ contentJobs[j].status \in {"QUEUED", "RETRY_SCHEDULED"}
    BY DEF ClaimableJobs
  <2>2. tries \in Nat /\ v \in Nat
    BY <1>1, <2>1 DEF ContentRow
  <2>3. tries + 1 \in 1 .. MaxJobAttempts /\ v + 1 = 2 * (tries + 1) - 1
    <3>1. (tries = 0 /\ v = 0) \/ (tries \in 1 .. MaxJobAttempts - 1 /\ v = 2 * tries)
      BY <2>1 DEF ContentInv, VersionCounts
    <3> HIDE DEF tries, v
    <3> QED
      BY <3>1, ContentAssumption
  <2>4. tries + 1 \in Nat /\ v + 1 \in Nat /\ v + 1 > v /\ v + 1 <= v + 1
    BY <2>2
  <2> HIDE DEF tries, v
  <2>5. row \in ContentRow /\ run \in ClaimingRun
    BY <2>1, <2>4 DEF ContentRow, ContentStatus, ClaimingRun, Claiming
  <2>6. contentJobs' = [contentJobs EXCEPT ![j] = row]
    BY <1>1, <1>3, <2>1 DEF ContentRow, tries, v
  <2>7. WorkerGoes(w, run)
    BY <1>3 DEF v
  <2>8. row.status = "RUNNING" /\ row.attempt = tries + 1 /\ row.version = v + 1
    OBVIOUS
  <2>9. run.at = "looking" /\ run.job = j /\ run.version = v + 1
    OBVIOUS
  <2> HIDE DEF row, run
  <2>10. /\ contentJobs' \in [ContentJob -> ContentRow] /\ contentJobs'[j] = row
         /\ \A k \in ContentJob : k # j => contentJobs'[k] = contentJobs[k]
    BY <1>1, <2>1, <2>5, <2>6
  <2>11. workers'[w] = run
    BY <1>1, <2>7 DEF WorkerGoes
  <2>12. contentJobs'[j].version > contentJobs[j].version
    BY <2>4, <2>8, <2>10 DEF v
  <2>13. \A k \in ContentJob : VersionCounts(k)'
    <3>1. VersionCounts(j)'
      BY <2>3, <2>8, <2>10 DEF VersionCounts
    <3>2. ASSUME NEW k \in ContentJob, k # j PROVE VersionCounts(k)'
      BY <2>10, <3>2 DEF VersionCounts, ContentInv
    <3> QED
      BY <3>1, <3>2
  <2>14. RunIsSound(w)'
    BY <2>4, <2>8, <2>9, <2>10, <2>11 DEF RunIsSound, Claiming, Claimed
  <2> QED
    BY <1>1, <2>1, <2>5, <2>7, <2>8, <2>10, <2>12, <2>13, <2>14, RunMovesJob
<1> QED
  BY <1>2, <1>3 DEF ClaimNextContentJob

\* The three transactions of the command, and its failures.
LEMMA CommandSteps ==
  ASSUME ContentInv, NEW w \in ContentWorker,
         LookForReceipt(w) \/ InsertProduction(w) \/ StoreReceipt(w) \/ CommandFails(w)
  PROVE  ContentInv'
<1>1. /\ workers[w].at \in Claiming /\ UNCHANGED <<contentJobs, workerCrashes>>
      /\ ContentRows /\ RunIsSound(w) /\ contentReceipts \subseteq produced
      /\ produced \subseteq ContentJob /\ contentReceipts \subseteq ContentJob
  BY DEF LookForReceipt, InsertProduction, StoreReceipt, CommandFails, WorkerAt, Claiming,
     ContentInv, ContentRows, CompletedIsProduced
<1>2. Claimed(w) \in ContentJob
  BY <1>1 DEF ContentRows, IdleRun, RecoveringRun, ClaimingRun, Claiming, Claimed
<1>3. ASSUME NEW place \in Claiming, Moves(w, place),
             produced \subseteq produced', produced' \subseteq ContentJob,
             contentReceipts \subseteq contentReceipts', contentReceipts' \subseteq produced',
             place = "storing" => Claimed(w) \in produced',
             place = "completing" => Claimed(w) \in contentReceipts'
      PROVE  ContentInv'
  BY <1>1, <1>3, ClaimingMoves, RunOnlyStep
<1>4. CASE LookForReceipt(w)
  BY <1>1, <1>3, <1>4 DEF LookForReceipt, Claiming
<1>5. CASE InsertProduction(w)
  BY <1>1, <1>2, <1>3, <1>5 DEF InsertProduction, Claiming
<1>6. CASE StoreReceipt(w)
  <2>1. Claimed(w) \in produced
    BY <1>1, <1>6 DEF StoreReceipt, WorkerAt, RunIsSound
  <2> QED
    BY <1>1, <1>2, <1>3, <1>6, <2>1 DEF StoreReceipt, Claiming
<1>7. CASE CommandFails(w)
  BY <1>1, <1>3, <1>7 DEF CommandFails, Claiming
<1> QED
  BY <1>4, <1>5, <1>6, <1>7

LEMMA CompleteStep ==
  ASSUME ContentInv, NEW w \in ContentWorker, CompleteJob(w)
  PROVE  ContentInv'
<1> DEFINE j == Claimed(w)
<1>1. /\ workers[w].at = "completing" /\ UNCHANGED <<produced, contentReceipts, workerCrashes>>
      /\ ContentRows /\ RunIsSound(w) /\ contentJobs \in [ContentJob -> ContentRow]
  BY DEF CompleteJob, WorkerAt, ContentInv, ContentRows
<1>2. j \in ContentJob /\ j \in contentReceipts
  BY <1>1 DEF ContentRows, IdleRun, RecoveringRun, ClaimingRun, Claiming, Claimed, RunIsSound
<1>3. CASE ~Unchanged(j, workers[w].version)
  <2>1. Moves(w, "failing") /\ UNCHANGED contentJobs
    BY <1>3 DEF CompleteJob
  <2> QED
    BY <1>1, <2>1, ClaimingMoves, RunOnlyStep DEF Claiming, ContentInv, ContentRows,
       CompletedIsProduced
<1>4. CASE Unchanged(j, workers[w].version)
  <2> DEFINE v == contentJobs[j].version
             row == [contentJobs[j] EXCEPT !.status = "COMPLETED", !.version = v + 1, !.waiting = FALSE]
  <2>1. contentJobs' = [contentJobs EXCEPT ![j] = row] /\ WorkerGoes(w, WorkerIdle)
    BY <1>1, <1>2, <1>4 DEF CompleteJob, ContentRow
  <2>2. contentJobs[j].status = "RUNNING" /\ VersionCounts(j)
    BY <1>1, <1>2, <1>4 DEF RunIsSound, Unchanged, Claiming, ContentInv
  <2>3. v \in Nat /\ contentJobs[j].attempt \in Nat
    BY <1>1, <1>2 DEF ContentRow
  <2>4. v + 1 \in Nat /\ v + 1 > v
    BY <2>3
  <2>5. contentJobs[j].attempt \in 1 .. MaxJobAttempts /\ v + 1 = 2 * contentJobs[j].attempt
    <3>1. contentJobs[j].attempt \in 1 .. MaxJobAttempts /\ v = 2 * contentJobs[j].attempt - 1
      BY <2>2 DEF VersionCounts
    <3> HIDE DEF v
    <3> QED
      BY <2>3, <3>1
  <2> HIDE DEF v
  <2>6. /\ row \in ContentRow /\ row.status = "COMPLETED" /\ row.version = v + 1
        /\ row.attempt = contentJobs[j].attempt
    BY <1>1, <1>2, <2>4 DEF ContentRow, ContentStatus
  <2> HIDE DEF row, j
  <2>7. /\ contentJobs' \in [ContentJob -> ContentRow] /\ contentJobs'[j] = row
        /\ \A k \in ContentJob : k # j => contentJobs'[k] = contentJobs[k]
    BY <1>1, <1>2, <2>1, <2>6
  <2>8. contentJobs'[j].version > contentJobs[j].version
    BY <2>4, <2>6, <2>7 DEF v
  <2>9. ASSUME NEW k \in ContentJob PROVE VersionCounts(k)'
    <3>1. CASE k = j
      BY <2>5, <2>6, <2>7, <3>1 DEF VersionCounts
    <3>2. CASE k # j
      BY <2>7, <3>2 DEF VersionCounts, ContentInv
    <3> QED
      BY <3>1, <3>2
  <2>10. RunIsSound(w)' /\ WorkerIdle \in IdleRun
    BY <1>1, <2>1, IdleIsSound
  <2> QED
    BY <1>1, <1>2, <2>1, <2>7, <2>8, <2>9, <2>10, RunMovesJob
<1> QED
  BY <1>3, <1>4

LEMMA FailJobStep ==
  ASSUME ContentInv, NEW w \in ContentWorker, FailJob(w)
  PROVE  ContentInv'
<1> DEFINE j == Claimed(w)
<1>1. /\ workers[w].at = "failing" /\ UNCHANGED <<produced, contentReceipts, workerCrashes>>
      /\ WorkerGoes(w, WorkerIdle) /\ ContentRows /\ RunIsSound(w)
  BY DEF FailJob, WorkerAt, ContentInv
<1>2. j \in ContentJob
  BY <1>1 DEF ContentRows, IdleRun, RecoveringRun, ClaimingRun, Claiming, Claimed
<1>3. RunIsSound(w)' /\ WorkerIdle \in IdleRun
  BY <1>1, IdleIsSound
<1>4. CASE UNCHANGED contentJobs
  BY <1>1, <1>3, <1>4, RunOnlyStep DEF ContentInv, ContentRows, CompletedIsProduced
<1>5. CASE Unchanged(j, workers[w].version) /\ contentJobs' = [contentJobs EXCEPT ![j] = Failed(j)]
  <2>1. contentJobs[j].status = "RUNNING"
    BY <1>1, <1>2, <1>5 DEF RunIsSound, Unchanged, Claiming
  <2> HIDE DEF j
  <2>2. /\ contentJobs' \in [ContentJob -> ContentRow]
        /\ contentJobs'[j].version > contentJobs[j].version
        /\ contentJobs'[j].status \in {"DEAD_LETTER", "RETRY_SCHEDULED"}
        /\ \A k \in ContentJob : k # j => contentJobs'[k] = contentJobs[k]
        /\ \A k \in ContentJob : VersionCounts(k)'
    BY <1>2, <1>5, <2>1, FailedRow
  <2> QED
    BY <1>1, <1>2, <1>3, <2>2, RunMovesJob
<1> QED
  BY <1>4, <1>5 DEF FailJob

LEMMA CrashStep ==
  ASSUME ContentInv, NEW w \in ContentWorker, WorkerCrash(w)
  PROVE  ContentInv'
<1>1. /\ WorkerGoes(w, WorkerIdle) /\ UNCHANGED <<contentJobs, produced, contentReceipts>>
      /\ workerCrashes' = workerCrashes + 1 /\ workerCrashes < MaxWorkerCrashes
  BY DEF WorkerCrash
<1>2. RunIsSound(w)' /\ WorkerIdle \in IdleRun
  BY <1>1, IdleIsSound DEF ContentInv
<1>3. workerCrashes' \in 0 .. MaxWorkerCrashes
  <2>1. workerCrashes \in 0 .. MaxWorkerCrashes /\ MaxWorkerCrashes \in Nat
    BY ContentAssumption DEF ContentInv, ContentRows
  <2> QED
    BY <1>1, <2>1
<1>4. ContentRows' /\ \A x \in ContentWorker : x # w => workers'[x] = workers[x]
  BY <1>1, <1>2, <1>3 DEF ContentInv, ContentRows, WorkerGoes
<1>5. \A x \in ContentWorker : RunIsSound(x)'
  BY <1>1, <1>2, <1>4, RunKept
<1> QED
  BY <1>1, <1>4, <1>5 DEF ContentInv, VersionCounts, CompletedIsProduced

LEMMA ContentStep ==
  ASSUME ContentInv, [ContentNext]_contentVars
  PROVE  ContentInv'
<1>1. CASE UNCHANGED contentVars
  <2>1. UNCHANGED <<contentJobs, produced, contentReceipts, workers, workerCrashes>>
    BY <1>1 DEF contentVars
  <2>2. ContentRows' /\ CompletedIsProduced'
    BY <2>1 DEF ContentInv, ContentRows, CompletedIsProduced
  <2>3. \A w \in ContentWorker : RunIsSound(w)'
    BY <2>1 DEF ContentInv, RunIsSound, Claimed
  <2> QED
    BY <2>1, <2>2, <2>3 DEF ContentInv, VersionCounts
<1>2. ASSUME NEW j \in ContentJob, Enqueue(j) \/ TimeIsOver(j) PROVE ContentInv'
  BY <1>2, ContentJobSteps
<1>3. ASSUME NEW w \in ContentWorker, RunStep(w) \/ CommandFails(w) \/ WorkerCrash(w)
      PROVE  ContentInv'
  BY <1>3, StartRunStep, GiveBackStep, ClaimNextStep, CommandSteps, CompleteStep, FailJobStep,
     CrashStep DEF RunStep
<1> QED
  BY <1>1, <1>2, <1>3 DEF ContentNext

\* The invariant of the queue holds of every state.
THEOREM ContentInvariant == ContentSpec => []ContentInv
<1>1. ContentInv /\ [ContentNext]_contentVars => ContentInv'
  BY ContentStep
<1> QED
  BY <1>1, ContentInitInv, PTL DEF ContentSpec

\* A run that lost its claim changes nothing any more: a claim ends by the run that
\* holds it, or by the end of its lease, and a completed job has its production and
\* its receipt (#complete, #fail and recoverExpired of production-runtime-service.ts).
THEOREM ProductionsAreSoundHolds == ContentSpec => ProductionsAreSound
<1> DEFINE Decided(j) ==
      \/ contentJobs'[j].status = "RUNNING" /\ contentJobs[j].status \in {"QUEUED", "RETRY_SCHEDULED"}
      \/ contentJobs[j].status = "RUNNING" /\ ~contentJobs[j].waiting
      \/ \E w \in ContentWorker :
           /\ workers[w].at \in {"completing", "failing"}
           /\ Claimed(w) = j /\ workers[w].version = contentJobs[j].version
<1>1. ContentInv => CompletedIsProduced
  BY DEF ContentInv
<1>2. ASSUME ContentInv, ContentNext, NEW j \in ContentJob, contentJobs[j].status # "NONE",
             contentJobs'[j].version # contentJobs[j].version
      PROVE  Decided(j)
  <2>1. contentJobs \in [ContentJob -> ContentRow]
    BY <1>2 DEF ContentInv, ContentRows
  <2>2. ASSUME NEW k \in ContentJob, Enqueue(k) \/ TimeIsOver(k) PROVE Decided(j)
    <3>1. CASE Enqueue(k)
      BY <1>2, <2>1, <3>1 DEF Enqueue, NoContentJob
    <3>2. CASE TimeIsOver(k)
      BY <1>2, <2>1, <3>2 DEF TimeIsOver, ContentRow
    <3> QED
      BY <2>2, <3>1, <3>2
  <2>3. ASSUME NEW w \in ContentWorker, GiveBack(w) PROVE Decided(j)
    <3>1. PICK claim \in workers[w].expired :
            \/ /\ Unchanged(claim[1], claim[2])
               /\ contentJobs' = [contentJobs EXCEPT ![claim[1]] = Failed(claim[1])]
            \/ UNCHANGED contentJobs
      BY <2>3 DEF GiveBack
    <3>2. workers[w] \in RecoveringRun /\ RunIsSound(w) /\ workers[w].at = "recovering"
      BY <1>2, <2>3 DEF ContentInv, ContentRows, GiveBack, WorkerAt, IdleRun, RecoveringRun,
         ClaimingRun, Claiming
    <3>3. PICK k \in ContentJob, v \in Nat : claim = <<k, v>>
      BY <3>1, <3>2 DEF RecoveringRun
    <3>4. k = j /\ contentJobs[j].version = v
      BY <1>2, <2>1, <3>1, <3>3 DEF Unchanged
    <3>5. contentJobs[j].status = "RUNNING" /\ ~contentJobs[j].waiting
      BY <3>1, <3>2, <3>3, <3>4 DEF RunIsSound
    <3> QED
      BY <3>5
  <2>4. ASSUME NEW w \in ContentWorker, ClaimNextContentJob(w) PROVE Decided(j)
    <3>1. PICK k \in ClaimableJobs :
            contentJobs' = [contentJobs EXCEPT ![k].status = "RUNNING", ![k].attempt = @ + 1,
                                               ![k].version = @ + 1, ![k].waiting = TRUE]
      BY <1>2, <2>4 DEF ClaimNextContentJob
    <3>2. k = j
      BY <1>2, <2>1, <3>1
    <3>3. contentJobs'[j].status = "RUNNING" /\ contentJobs[j].status \in {"QUEUED", "RETRY_SCHEDULED"}
      BY <2>1, <3>1, <3>2 DEF ClaimableJobs, ContentRow
    <3> QED
      BY <3>3
  <2>5. ASSUME NEW w \in ContentWorker, CompleteJob(w) \/ FailJob(w) PROVE Decided(j)
    <3>1. workers[w].at \in {"completing", "failing"}
      BY <2>5 DEF CompleteJob, FailJob, WorkerAt
    <3>2. Claimed(w) = j /\ workers[w].version = contentJobs[j].version
      BY <1>2, <2>1, <2>5 DEF CompleteJob, FailJob, Unchanged
    <3> QED
      BY <3>1, <3>2
  <2> HIDE DEF Decided
  <2> QED
    BY <1>2, <2>2, <2>3, <2>4, <2>5 DEF ContentNext, RunStep, StartRun, LookForReceipt,
       InsertProduction, StoreReceipt, CommandFails, WorkerCrash
<1>3. ContentInv /\ [ContentNext]_contentVars =>
        [\A j \in ContentJob :
           contentJobs[j].status # "NONE" /\ contentJobs'[j].version # contentJobs[j].version =>
             Decided(j)]_contentVars
  BY <1>2
<1> QED
  BY <1>1, <1>3, ContentInvariant, PTL DEF ContentSpec, ProductionsAreSound, OnlyTheClaimDecides

\* The jobs and the runs keep their shapes, and a job is attempted no more often than
\* it may be, whatever leases end and workers die.
THEOREM ContentTyped == ContentSpec => []ContentTypeOK
<1>1. ContentInv => ContentTypeOK
  <2> SUFFICES ASSUME ContentInv PROVE ContentTypeOK
    OBVIOUS
  <2>1. ContentRows
    BY DEF ContentInv
  <2>2. ASSUME NEW j \in ContentJob
        PROVE  /\ contentJobs[j].attempt \in 0 .. MaxJobAttempts
               /\ contentJobs[j].version \in 0 .. (2 * MaxJobAttempts)
    <3> DEFINE tries == contentJobs[j].attempt
               v == contentJobs[j].version
    <3>1. VersionCounts(j) /\ contentJobs[j].status \in ContentStatus /\ tries \in Nat /\ v \in Nat
      BY <2>1 DEF ContentInv, ContentRows, ContentRow
    <3>2. \/ tries = 0 /\ v = 0
          \/ tries \in 1 .. MaxJobAttempts /\ v = 2 * tries - 1
          \/ tries \in 1 .. MaxJobAttempts - 1 /\ v = 2 * tries
          \/ tries \in 1 .. MaxJobAttempts /\ v = 2 * tries
      BY <3>1 DEF VersionCounts, ContentStatus
    <3>3. MaxJobAttempts \in Nat
      BY ContentAssumption
    <3> HIDE DEF tries, v
    <3>4. tries \in 0 .. MaxJobAttempts /\ v \in 0 .. (2 * MaxJobAttempts)
      BY <3>1, <3>2, <3>3
    <3> QED
      BY <3>4 DEF tries, v
  <2>3. \A w \in ContentWorker : workers[w].at \in
          {"idle", "recovering", "looking", "producing", "storing", "completing", "failing"}
    BY <2>1 DEF ContentRows, IdleRun, RecoveringRun, ClaimingRun, Claiming
  <2> QED
    BY <2>1, <2>2, <2>3 DEF ContentRows, ContentRow, ContentStatus, ContentTypeOK
<1> QED
  BY <1>1, ContentInvariant, PTL


----------------------------------------------------------------------------
(* The Telegram operator.                                                  *)

Handling == {"HANDLE", "ACT", "OPEN", "SEND", "SETTLE", "RECONCILE"}
ConsoleStep == Handling \union {"DOWN", "PURGE", "PURGE_RECEIPTS", "POLL", "NEXT"}
Console == [step : ConsoleStep, next : Nat, last : 0 .. LastUpdate, retries : Nat,
            outcome : Settled, stop : BOOLEAN]
ReceiptState == {"NONE", "RECEIVED", "DELIVERY_UNCERTAIN"} \union Settled
DeliveryState == {"NONE", "UNCERTAIN", "DELIVERED"}
SessionState == {"NONE", "IDLE", "EXPIRED"} \union MissionStates

TelegramTypes ==
  /\ updateKind \in [Update -> UpdateKind] /\ arrived \in 0 .. LastUpdate
  /\ telegramTime \in 0 .. MaxTelegramTime /\ offset \in 1 .. LastUpdate + 1
  /\ receipt \in [Update -> [state : ReceiptState, expiresAt : Nat]]
  /\ delivery \in [Update -> DeliveryState]
  /\ session \in [state : SessionState, expiresAt : Nat]
  /\ console \in Console
  /\ chat \in [Update -> Nat] /\ opened \subseteq Update /\ forgotten \in [Update -> Nat]

\* The update in hand is the one the offset stands at.  Once a delivery was opened its
\* receipt says so, and before it is sent the chat has no answer but forgotten ones.
AtUpdate ==
  /\ console.step \in Handling \union {"NEXT"} => console.next = offset
  /\ console.step \in Handling => console.next \in Update
  /\ console.step \in {"SEND", "SETTLE", "RECONCILE"} => console.next \in opened
  /\ console.step = "SEND" =>
       /\ receipt[console.next].state = "DELIVERY_UNCERTAIN"
       /\ chat[console.next] <= forgotten[console.next]
  /\ console.step = "SETTLE" => chat[console.next] > 0

\* An update that is due and has no delivery under its present receipt was answered
\* only as often as earlier receipts of it were forgotten.
UpdateSound(u) ==
  /\ chat[u] <= 1 + forgotten[u]
  /\ receipt[u].state \in {"NONE", "RECEIVED"} /\ u >= offset => chat[u] <= forgotten[u]
  /\ u < offset => updateKind[u] = "FOREIGN" \/ u \in opened
  /\ receipt[u].state \notin {"NONE", "RECEIVED"} => u \in opened
  /\ receipt[u].state \in Settled => chat[u] > 0 /\ u < offset

TelegramInv == TelegramTypes /\ AtUpdate /\ \A u \in Update : UpdateSound(u)

\* The bounds are numbers.
LEMMA TelegramBounds ==
  /\ LastUpdate \in Nat /\ LastUpdate > 0 /\ PollLimit \in Nat /\ PollLimit > 0
  /\ ReceiptRetention \in Nat /\ SessionRetention \in Nat
  /\ MaxPollingRetries \in Nat /\ MaxTelegramTime \in Nat /\ 0 \in 0 .. LastUpdate
BY TelegramAssumption

\* The console's records that the steps of an update lead to.
LEMMA DownTyped ==
  ASSUME NEW step \in ConsoleStep
  PROVE  /\ [Down EXCEPT !.step = step] \in Console /\ [Down EXCEPT !.step = step].step = step
         /\ Down \in Console /\ Down.step = "DOWN"
<1>1. 0 \in 0 .. LastUpdate /\ "COMPLETED" \in Settled
  BY TelegramBounds DEF Settled
<1> QED
  BY <1>1 DEF Down, Console, ConsoleStep

LEMMA ConsoleTyped ==
  ASSUME console \in Console
  PROVE  /\ Down \in Console /\ OnToNext \in Console /\ Reject \in Console
         /\ Down.step = "DOWN"
         /\ OnToNext.step = "NEXT" /\ OnToNext.next = console.next + 1
         /\ Reject.step = "OPEN" /\ Reject.next = console.next
         /\ \A step \in ConsoleStep :
              /\ [console EXCEPT !.step = step] \in Console
              /\ [console EXCEPT !.step = step].step = step
              /\ [console EXCEPT !.step = step].next = console.next
<1>1. "COMPLETED" \in Settled /\ "REJECTED" \in Settled /\ {"NEXT", "OPEN", "DOWN"} \subseteq ConsoleStep
  BY DEF Settled, ConsoleStep, Handling
<1>2. Down \in Console /\ Down.step = "DOWN"
  BY <1>1, DownTyped
<1>3. console.next + 1 \in Nat
  BY DEF Console
<1>4. OnToNext \in Console /\ OnToNext.step = "NEXT" /\ OnToNext.next = console.next + 1
  BY <1>1, <1>3 DEF Console, OnToNext
<1>5. Reject \in Console /\ Reject.step = "OPEN" /\ Reject.next = console.next
  BY <1>1 DEF Console, Reject
<1>6. ASSUME NEW step \in ConsoleStep
      PROVE  /\ [console EXCEPT !.step = step] \in Console
             /\ [console EXCEPT !.step = step].step = step
             /\ [console EXCEPT !.step = step].next = console.next
  BY <1>6 DEF Console
<1> QED
  BY <1>2, <1>4, <1>5, <1>6

\* The first state satisfies the invariant.
LEMMA TelegramInitInv == TelegramInit => TelegramInv
<1> SUFFICES ASSUME TelegramInit PROVE TelegramInv
  OBVIOUS
<1>1. TelegramTypes
  BY TelegramAssumption DEF TelegramInit, TelegramTypes, NoReceipt, NoSession, Down, Console,
     ConsoleStep, ReceiptState, DeliveryState, SessionState, Settled
<1>2. AtUpdate
  BY DEF TelegramInit, AtUpdate, Down, Handling
<1>3. ASSUME NEW u \in Update PROVE UpdateSound(u)
  BY <1>3 DEF TelegramInit, UpdateSound, NoReceipt, Update, Settled
<1> QED
  BY <1>1, <1>2, <1>3 DEF TelegramInv

\* An update in hand is one of the chat, and the offset moves to the one behind it.
LEMMA UpdateInHand ==
  ASSUME TelegramTypes, AtUpdate, \E step \in Handling \union {"NEXT"} : IsAt(step)
  PROVE  /\ console.next \in Update /\ console.next = offset
         /\ OffsetPast(console.next) = offset + 1 /\ offset + 1 \in 1 .. LastUpdate + 1
<1>1. console.step \in Handling \union {"NEXT"} /\ console.next = offset
  BY DEF IsAt, AtUpdate
<1>2. /\ console.next \in Nat /\ console.last \in 0 .. LastUpdate
      /\ offset \in 1 .. LastUpdate + 1 /\ LastUpdate \in Nat
  BY TelegramAssumption DEF TelegramTypes, Console
<1>3. console.next \in Update
  <2>1. CASE console.step \in Handling
    BY <2>1 DEF AtUpdate
  <2>2. CASE console.step = "NEXT"
    <3>1. console.next <= console.last
      BY <2>2 DEF IsAt, Handling
    <3> QED
      BY <3>1, <1>1, <1>2 DEF Update
  <2> QED
    BY <2>1, <2>2, <1>1
<1>4. offset \in 1 .. LastUpdate
  BY <1>1, <1>3 DEF Update
<1> QED
  BY <1>1, <1>2, <1>3, <1>4 DEF OffsetPast

\* The surroundings and a stop of the process change no record of an update.
LEMMA SurroundingsKeep ==
  ASSUME TelegramInv,
         \/ UpdateArrives \/ TelegramTick \/ OperatorStops \/ StartOperator \/ UNCHANGED telegramVars
  PROVE  TelegramInv'
<1> USE DEF TelegramInv
<1>1. UNCHANGED <<updateKind, offset, receipt, delivery, session, ghosts>>
  BY DEF UpdateArrives, TelegramTick, OperatorStops, StartOperator, surroundings, telegramVars, ghosts
<1>2. \/ UNCHANGED console
      \/ console' = Down
      \/ console' = [Down EXCEPT !.step = "PURGE"]
  BY DEF UpdateArrives, TelegramTick, OperatorStops, StartOperator, telegramVars
<1>3. arrived' \in 0 .. LastUpdate /\ telegramTime' \in 0 .. MaxTelegramTime
  BY TelegramAssumption
     DEF UpdateArrives, TelegramTick, OperatorStops, StartOperator, surroundings, telegramVars, TelegramTypes
<1>4. /\ Down \in Console /\ [Down EXCEPT !.step = "PURGE"] \in Console
      /\ Down.step \notin Handling \union {"NEXT"}
      /\ [Down EXCEPT !.step = "PURGE"].step \notin Handling \union {"NEXT"}
  BY DownTyped DEF ConsoleStep, Handling
<1>5. TelegramTypes'
  BY <1>1, <1>2, <1>3, <1>4, Zenon DEF TelegramTypes, ghosts
<1>6. AtUpdate'
  <2>1. CASE UNCHANGED console
    BY <1>1, <2>1 DEF AtUpdate, ghosts
  <2>2. CASE console'.step \notin Handling \union {"NEXT"}
    BY <2>2 DEF AtUpdate, Handling
  <2> QED
    BY <1>2, <1>4, <2>1, <2>2, Zenon
<1>7. \A u \in Update : UpdateSound(u)'
  BY <1>1 DEF UpdateSound, ghosts
<1> QED
  BY <1>5, <1>6, <1>7

\* A purge forgets receipts, and counts those of updates that are still due.
LEMMA PurgeKeeps ==
  ASSUME TelegramInv, PurgeSessions \/ PurgeReceipts
  PROVE  TelegramInv'
<1> USE DEF TelegramInv
<1>1. CASE PurgeSessions
  <2>1. UNCHANGED <<surroundings, offset, receipt, ghosts>>
    BY <1>1 DEF PurgeSessions
  <2>2. console' \in Console /\ console'.step \notin Handling \union {"NEXT"}
    <3>1. console' = Down \/ console' = [console EXCEPT !.step = "PURGE_RECEIPTS"]
      BY <1>1 DEF PurgeSessions
    <3>2. console \in Console
      BY DEF TelegramTypes
    <3>3. "PURGE_RECEIPTS" \in ConsoleStep
      BY DEF ConsoleStep
    <3>4. console' \in Console /\ console'.step \in {"DOWN", "PURGE_RECEIPTS"}
      BY <3>1, <3>2, <3>3, ConsoleTyped
    <3> QED
      BY <3>4 DEF Handling
  <2>3. session' \in [state : SessionState, expiresAt : Nat]
    BY <1>1 DEF PurgeSessions, TelegramTypes, SessionState
  <2>4. delivery' \in [Update -> DeliveryState]
    BY <1>1 DEF PurgeSessions, TelegramTypes, DeliveryState
  <2>5. TelegramTypes'
    BY <2>1, <2>2, <2>3, <2>4 DEF TelegramTypes, surroundings, ghosts
  <2>6. AtUpdate'
    BY <2>2 DEF AtUpdate, Handling
  <2>7. \A u \in Update : UpdateSound(u)'
    BY <2>1 DEF UpdateSound, surroundings, ghosts
  <2> QED
    BY <2>5, <2>6, <2>7
<1>2. CASE PurgeReceipts
  <2>1. UNCHANGED <<surroundings, offset, delivery, session, chat, opened>>
    BY <1>2 DEF PurgeReceipts
  <2>2. console' \in Console /\ console'.step \notin Handling \union {"NEXT"}
    BY <1>2 DEF PurgeReceipts, TelegramTypes, Console, ConsoleStep, Handling
  <2>3. /\ NoReceipt \in [state : ReceiptState, expiresAt : Nat] /\ NoReceipt.state = "NONE"
    BY DEF NoReceipt, ReceiptState
  <2>4. /\ receipt' \in [Update -> [state : ReceiptState, expiresAt : Nat]]
        /\ forgotten' \in [Update -> Nat]
    BY <1>2, <2>3 DEF PurgeReceipts, TelegramTypes
  <2>5. TelegramTypes'
    BY <2>1, <2>2, <2>4 DEF TelegramTypes, surroundings
  <2>6. AtUpdate'
    BY <2>2 DEF AtUpdate, Handling
  <2>7. ASSUME NEW u \in Update PROVE UpdateSound(u)'
    <3>1. CASE PastRetention(receipt[u])
      <4>1. /\ receipt'[u].state = "NONE"
            /\ forgotten'[u] = IF u >= offset THEN forgotten[u] + 1 ELSE forgotten[u]
        BY <1>2, <2>3, <3>1 DEF PurgeReceipts
      <4>2. chat[u] \in Nat /\ forgotten[u] \in Nat /\ u \in Nat /\ offset \in Nat
        BY DEF TelegramTypes, Update
      <4>3. /\ chat[u] <= 1 + forgotten[u]
            /\ u < offset => updateKind[u] = "FOREIGN" \/ u \in opened
        BY DEF UpdateSound
      <4>4. chat'[u] = chat[u] /\ offset' = offset /\ updateKind' = updateKind /\ opened' = opened
        BY <2>1 DEF surroundings
      <4> QED
        BY <4>1, <4>2, <4>3, <4>4 DEF UpdateSound, Settled
    <3>2. CASE ~PastRetention(receipt[u])
      <4>1. receipt'[u] = receipt[u] /\ forgotten'[u] = forgotten[u]
        BY <1>2, <3>2 DEF PurgeReceipts
      <4> QED
        BY <2>1, <4>1 DEF UpdateSound, surroundings
    <3> QED
      BY <3>1, <3>2
  <2> QED
    BY <2>5, <2>6, <2>7
<1> QED
  BY <1>1, <1>2

\* A poll starts at the offset.
LEMMA PollKeeps ==
  ASSUME TelegramInv, Poll \/ PollFails \/ PollIsDone
  PROVE  TelegramInv'
<1> USE DEF TelegramInv
<1>1. UNCHANGED <<surroundings, offset, receipt, delivery, session, ghosts>>
  BY DEF Poll, PollFails, PollIsDone
<1>2. /\ console \in Console /\ arrived \in 0 .. LastUpdate /\ offset \in 1 .. LastUpdate + 1
      /\ LastUpdate \in Nat /\ PollLimit \in Nat \ {0}
  BY TelegramAssumption DEF TelegramTypes
<1>3. /\ console' \in Console /\ console'.step \notin Handling
      /\ console'.step = "NEXT" => console'.next = offset
  <2>1. CASE Poll
    <3> DEFINE last == IF arrived < offset + PollLimit THEN arrived ELSE offset + PollLimit - 1
    <3>1. last \in 0 .. LastUpdate
      BY <1>2
    <3> HIDE DEF last
    <3>2. console' = [console EXCEPT !.step = "NEXT", !.next = offset, !.last = last]
      BY <2>1 DEF Poll, last
    <3>3. offset \in Nat
      BY <1>2
    <3>4. console' \in Console
      BY <3>1, <3>2, <3>3, <1>2 DEF Console, ConsoleStep
    <3> QED
      BY <3>2, <3>4, <1>2 DEF Console, Handling
  <2>2. CASE PollFails \/ PollIsDone
    <3>1. \/ console' = Down \/ console' = [Down EXCEPT !.step = "PURGE"]
          \/ console' = [console EXCEPT !.step = "PURGE", !.retries = console.retries + 1]
      BY <2>2 DEF PollFails, PollIsDone
    <3>2. CASE console' = Down \/ console' = [Down EXCEPT !.step = "PURGE"]
      <4>1. "PURGE" \in ConsoleStep
        BY DEF ConsoleStep
      <4>2. console' \in Console /\ console'.step \in {"DOWN", "PURGE"}
        BY <3>2, <4>1, DownTyped
      <4> QED
        BY <4>2 DEF Handling
    <3>3. CASE console' = [console EXCEPT !.step = "PURGE", !.retries = console.retries + 1]
      <4>1. console.retries + 1 \in Nat
        BY <1>2 DEF Console
      <4> QED
        BY <1>2, <3>3, <4>1 DEF Console, ConsoleStep, Handling
    <3> QED
      BY <3>1, <3>2, <3>3
  <2> QED
    BY <2>1, <2>2
<1>4. TelegramTypes'
  BY <1>1, <1>3 DEF TelegramTypes, surroundings, ghosts
<1>5. AtUpdate'
  BY <1>1, <1>3 DEF AtUpdate, Handling
<1>6. \A u \in Update : UpdateSound(u)'
  BY <1>1 DEF UpdateSound, surroundings, ghosts
<1> QED
  BY <1>4, <1>5, <1>6

\* What claiming, handling and answering leave alone in the update in hand.
LEMMA ConsoleMoves ==
  ASSUME TelegramInv, console' \in Console,
         UNCHANGED <<surroundings, receipt, chat, forgotten>>, opened \subseteq opened',
         delivery' \in [Update -> DeliveryState], opened' \subseteq Update,
         session' \in [state : SessionState, expiresAt : Nat],
         \/ UNCHANGED offset
         \/ /\ offset' = offset + 1 /\ offset + 1 \in 1 .. LastUpdate + 1 /\ offset \in Update
            /\ updateKind[offset] = "FOREIGN" \/ offset \in opened
  PROVE  TelegramTypes' /\ \A u \in Update : UpdateSound(u)'
<1>1. TelegramTypes'
  BY DEF TelegramInv, TelegramTypes, surroundings
<1>2. ASSUME NEW u \in Update PROVE UpdateSound(u)'
  <2>1. /\ UpdateSound(u) /\ receipt' = receipt /\ chat' = chat /\ forgotten' = forgotten
        /\ updateKind' = updateKind
    BY DEF TelegramInv, surroundings
  <2>2. CASE UNCHANGED offset
    BY <2>1, <2>2 DEF UpdateSound
  <2>3. CASE offset' = offset + 1 /\ (updateKind[offset] = "FOREIGN" \/ offset \in opened)
    <3>1. u \in Nat /\ offset \in Nat
      BY DEF TelegramInv, TelegramTypes, Update
    <3>2. u < offset' => u < offset \/ u = offset
      BY <2>3, <3>1
    <3>3. u >= offset' => u >= offset
      BY <2>3, <3>1
    <3>4. u < offset => u < offset'
      BY <2>3, <3>1
    <3> QED
      BY <2>1, <2>3, <3>2, <3>3, <3>4 DEF UpdateSound
  <2> QED
    BY <2>2, <2>3
<1> QED
  BY <1>1, <1>2

\* An update is refused, claimed or passed over.
LEMMA ClaimKeeps ==
  ASSUME TelegramInv, Discard \/ Claim
  PROVE  TelegramInv'
<1> DEFINE u == console.next
<1>1. /\ u \in Update /\ u = offset /\ OffsetPast(u) = offset + 1
      /\ offset + 1 \in 1 .. LastUpdate + 1
  BY UpdateInHand DEF TelegramInv, Discard, Claim
<1>2. console \in Console /\ UpdateSound(u) /\ offset \in Nat
  BY <1>1 DEF TelegramInv, TelegramTypes
<1>3. UNCHANGED <<surroundings, delivery, session, ghosts>>
  BY DEF Discard, Claim
<1>4. /\ delivery' \in [Update -> DeliveryState] /\ opened' \subseteq Update /\ opened \subseteq opened'
      /\ session' \in [state : SessionState, expiresAt : Nat]
      /\ chat' = chat /\ forgotten' = forgotten
  BY <1>3 DEF TelegramInv, TelegramTypes, ghosts
<1>5. ASSUME updateKind[u] = "FOREIGN" \/ u \in opened, UNCHANGED receipt,
             offset' = OffsetPast(u), console' \in {OnToNext, Down}
      PROVE  TelegramInv'
  <2>1. TelegramTypes' /\ \A v \in Update : UpdateSound(v)'
    <3>1. console' \in Console
      BY <1>2, <1>5, ConsoleTyped
    <3>2. offset' = offset + 1 /\ (updateKind[offset] = "FOREIGN" \/ offset \in opened) /\ offset \in Update
      BY <1>1, <1>5
    <3> QED
      BY <1>1, <1>3, <1>4, <1>5, <3>1, <3>2, ConsoleMoves
  <2>2. AtUpdate'
    <3>1. console'.step \notin Handling
      BY <1>2, <1>5, ConsoleTyped DEF Handling
    <3>2. console'.step = "NEXT" => console'.next = offset'
      BY <1>1, <1>2, <1>5, ConsoleTyped
    <3> QED
      BY <3>1, <3>2 DEF AtUpdate, Handling
  <2> QED
    BY <2>1, <2>2 DEF TelegramInv
<1>6. ASSUME UNCHANGED <<receipt, offset>>, console' = Reject \/ console' = [console EXCEPT !.step = "HANDLE"]
      PROVE  TelegramInv'
  <2>1. console' \in Console /\ console'.next = u /\ console'.step \in {"OPEN", "HANDLE"}
    <3>1. "HANDLE" \in ConsoleStep
      BY DEF ConsoleStep, Handling
    <3> QED
      BY <1>2, <1>6, <3>1, ConsoleTyped
  <2>2. TelegramTypes' /\ \A v \in Update : UpdateSound(v)'
    BY <1>3, <1>4, <1>6, <2>1, ConsoleMoves
  <2>3. AtUpdate'
    BY <1>1, <1>6, <2>1 DEF AtUpdate
  <2> QED
    BY <2>2, <2>3 DEF TelegramInv
<1>7. CASE Discard
  BY <1>5, <1>7 DEF Discard
<1>8. CASE Claim /\ receipt[u].state = "NONE"
  <2> DEFINE new == [state |-> "RECEIVED", expiresAt |-> telegramTime + ReceiptRetention]
  <2>1. /\ receipt' = [receipt EXCEPT ![u] = new] /\ console' = [console EXCEPT !.step = "HANDLE"]
        /\ UNCHANGED offset
    BY <1>8 DEF Claim, Settled
  <2>2. new \in [state : ReceiptState, expiresAt : Nat] /\ new.state = "RECEIVED"
    BY TelegramAssumption DEF TelegramInv, TelegramTypes, ReceiptState
  <2> HIDE DEF new
  <2>3. console' \in Console /\ console'.step = "HANDLE" /\ console'.next = u
    BY <1>2, <2>1, ConsoleTyped DEF ConsoleStep, Handling
  <2>4. receipt \in [Update -> [state : ReceiptState, expiresAt : Nat]]
    BY DEF TelegramInv, TelegramTypes
  <2>5. /\ receipt' \in [Update -> [state : ReceiptState, expiresAt : Nat]]
        /\ receipt'[u].state = "RECEIVED" /\ \A v \in Update : v # u => receipt'[v] = receipt[v]
    BY <1>1, <2>1, <2>2, <2>4
  <2>6. TelegramTypes'
    BY <1>3, <1>4, <2>1, <2>3, <2>5 DEF TelegramInv, TelegramTypes, surroundings, ghosts
  <2>7. AtUpdate'
    BY <1>1, <2>1, <2>3 DEF AtUpdate
  <2>8. ASSUME NEW v \in Update PROVE UpdateSound(v)'
    <3>1. UpdateSound(v) /\ offset' = offset /\ chat' = chat /\ forgotten' = forgotten
          /\ updateKind' = updateKind /\ opened' = opened
      BY <1>3, <2>1 DEF TelegramInv, surroundings, ghosts
    <3>2. CASE v # u
      BY <2>5, <3>1, <3>2 DEF UpdateSound
    <3>3. CASE v = u
      BY <1>8, <2>5, <3>1, <3>3 DEF UpdateSound, Settled
    <3> QED
      BY <3>2, <3>3
  <2> QED
    BY <2>6, <2>7, <2>8 DEF TelegramInv
<1>9. CASE Claim /\ receipt[u].state = "RECEIVED"
  BY <1>6, <1>9 DEF Claim, Settled
<1>10. CASE Claim /\ receipt[u].state = "DELIVERY_UNCERTAIN"
  <2>1. u \in opened
    BY <1>2, <1>10 DEF UpdateSound
  <2>2. \/ offset' = OffsetPast(u) /\ console' = Down /\ UNCHANGED receipt
        \/ console' = Reject /\ UNCHANGED <<offset, receipt>>
    BY <1>10 DEF Claim, Settled
  <2> QED
    BY <1>5, <1>6, <2>1, <2>2
<1>11. CASE Claim /\ receipt[u].state \in Settled
  <2>1. u \in opened
    BY <1>2, <1>11 DEF UpdateSound, Settled
  <2>2. offset' = OffsetPast(u) /\ console' = OnToNext /\ UNCHANGED receipt
    BY <1>11 DEF Claim, Settled
  <2> QED
    BY <1>5, <2>1, <2>2
<1>12. receipt[u].state \in {"NONE", "RECEIVED", "DELIVERY_UNCERTAIN"} \union Settled
  BY <1>1 DEF TelegramInv, TelegramTypes, ReceiptState
<1> QED
  BY <1>7, <1>8, <1>9, <1>10, <1>11, <1>12

\* Handling an update moves the session and the console.
LEMMA HandlingKeeps ==
  ASSUME TelegramInv, OpenSession \/ Act \/ HandlerFails
  PROVE  TelegramInv'
<1>1. console.next \in Update /\ console.next = offset /\ console \in Console
  BY UpdateInHand DEF TelegramInv, TelegramTypes, OpenSession, Act, HandlerFails, Handling
<1>2. UNCHANGED <<surroundings, offset, receipt, delivery, ghosts>>
  BY DEF OpenSession, Act, HandlerFails
<1>3. /\ delivery' \in [Update -> DeliveryState] /\ opened' \subseteq Update /\ opened \subseteq opened'
  BY <1>2 DEF TelegramInv, TelegramTypes, ghosts
<1>4. session' \in [state : SessionState, expiresAt : Nat]
  <2>1. /\ session \in [state : SessionState, expiresAt : Nat]
        /\ telegramTime + SessionRetention \in Nat
    BY TelegramAssumption DEF TelegramInv, TelegramTypes
  <2>2. CASE OpenSession
    BY <2>1, <2>2 DEF OpenSession, SessionState
  <2>3. CASE Act
    BY <2>1, <2>3 DEF Act, SessionState, MissionStates
  <2>4. CASE HandlerFails
    BY <2>1, <2>4 DEF HandlerFails
  <2> QED
    BY <2>2, <2>3, <2>4
<1>5. console' \in Console /\ console'.next = console.next /\ console'.step \in {"ACT", "OPEN"}
  <2>1. CASE OpenSession
    BY <1>1, <2>1, ConsoleTyped DEF OpenSession, ConsoleStep, Handling
  <2>2. CASE Act
    <3>1. \/ console' = Reject
          \/ console' = [console EXCEPT !.step = "OPEN"]
          \/ console' = [console EXCEPT !.step = "OPEN", !.stop = session.state = "WAITING_CONFIRMATION"]
      BY <2>2 DEF Act
    <3>2. "OPEN" \in ConsoleStep
      BY DEF ConsoleStep, Handling
    <3>3. CASE console' = Reject \/ console' = [console EXCEPT !.step = "OPEN"]
      BY <1>1, <3>2, <3>3, ConsoleTyped
    <3>4. CASE console' = [console EXCEPT !.step = "OPEN", !.stop = session.state = "WAITING_CONFIRMATION"]
      <4> DEFINE stop == session.state = "WAITING_CONFIRMATION"
      <4>1. stop \in BOOLEAN
        OBVIOUS
      <4> HIDE DEF stop
      <4>2. console' = [console EXCEPT !.step = "OPEN", !.stop = stop]
        BY <3>4 DEF stop
      <4> QED
        BY <1>1, <3>2, <4>1, <4>2 DEF Console
    <3> QED
      BY <3>1, <3>3, <3>4
  <2>3. CASE HandlerFails
    BY <1>1, <2>3, ConsoleTyped DEF HandlerFails
  <2> QED
    BY <2>1, <2>2, <2>3
<1>6. TelegramTypes' /\ \A u \in Update : UpdateSound(u)'
  BY <1>2, <1>3, <1>4, <1>5, ConsoleMoves DEF ghosts
<1>7. AtUpdate'
  BY <1>1, <1>2, <1>5 DEF AtUpdate
<1> QED
  BY <1>6, <1>7 DEF TelegramInv

\* A delivery is opened for a receipt that has none.
LEMMA BeginDeliveryKeeps ==
  ASSUME TelegramInv, BeginDelivery
  PROVE  TelegramInv'
<1> DEFINE u == console.next
<1>1. u \in Update /\ u = offset /\ console \in Console /\ offset \in Nat
  BY UpdateInHand DEF TelegramInv, TelegramTypes, BeginDelivery, Handling
<1>2. UNCHANGED <<surroundings, offset, session, chat, forgotten>>
  BY DEF BeginDelivery
<1>3. CASE ~(receipt[u].state = "RECEIVED" /\ delivery[u] = "NONE")
  <2>1. console' = Down /\ UNCHANGED <<delivery, receipt, opened>>
    BY <1>3 DEF BeginDelivery
  <2>2. console' \in Console /\ console'.step = "DOWN"
    BY <1>1, <2>1, ConsoleTyped
  <2>3. TelegramTypes' /\ \A v \in Update : UpdateSound(v)'
    BY <1>2, <2>1, <2>2, ConsoleMoves DEF TelegramInv, TelegramTypes
  <2>4. AtUpdate'
    BY <2>2 DEF AtUpdate, Handling
  <2> QED
    BY <2>3, <2>4 DEF TelegramInv
<1>4. CASE receipt[u].state = "RECEIVED" /\ delivery[u] = "NONE"
  <2> DEFINE new == [receipt[u] EXCEPT !.state = "DELIVERY_UNCERTAIN"]
  <2>1. /\ delivery' = [delivery EXCEPT ![u] = "UNCERTAIN"] /\ receipt' = [receipt EXCEPT ![u] = new]
        /\ opened' = opened \union {u} /\ console' = [console EXCEPT !.step = "SEND"]
    BY <1>4 DEF BeginDelivery
  <2>2. receipt \in [Update -> [state : ReceiptState, expiresAt : Nat]]
    BY DEF TelegramInv, TelegramTypes
  <2>3. new \in [state : ReceiptState, expiresAt : Nat] /\ new.state = "DELIVERY_UNCERTAIN"
    BY <1>1, <2>2 DEF ReceiptState
  <2> HIDE DEF new
  <2>4. /\ receipt' \in [Update -> [state : ReceiptState, expiresAt : Nat]]
        /\ receipt'[u].state = "DELIVERY_UNCERTAIN"
        /\ \A v \in Update : v # u => receipt'[v] = receipt[v]
    BY <1>1, <2>1, <2>2, <2>3
  <2>5. console' \in Console /\ console'.step = "SEND" /\ console'.next = u
    BY <1>1, <2>1, ConsoleTyped DEF ConsoleStep, Handling
  <2>6. delivery' \in [Update -> DeliveryState] /\ opened' \subseteq Update
    BY <1>1, <2>1 DEF TelegramInv, TelegramTypes, DeliveryState
  <2>7. TelegramTypes'
    BY <1>2, <2>4, <2>5, <2>6 DEF TelegramInv, TelegramTypes, surroundings
  <2>8. chat[u] <= forgotten[u]
    BY <1>1, <1>4 DEF TelegramInv, UpdateSound
  <2>9. AtUpdate'
    BY <1>1, <1>2, <2>1, <2>4, <2>5, <2>8 DEF AtUpdate
  <2>10. ASSUME NEW v \in Update PROVE UpdateSound(v)'
    <3>1. UpdateSound(v) /\ updateKind' = updateKind /\ offset' = offset /\ chat' = chat /\ forgotten' = forgotten
      BY <1>2 DEF TelegramInv, surroundings
    <3>2. CASE v # u
      BY <2>1, <2>4, <3>1, <3>2 DEF UpdateSound
    <3>3. CASE v = u
      BY <2>1, <2>4, <3>1, <3>3 DEF UpdateSound, Settled
    <3> QED
      BY <3>2, <3>3
  <2> QED
    BY <2>7, <2>9, <2>10 DEF TelegramInv
<1> QED
  BY <1>3, <1>4

\* One message leaves for the update in hand, and its receipt says that it may have.
LEMMA DeliverKeeps ==
  ASSUME TelegramInv, Deliver
  PROVE  TelegramInv'
<1> DEFINE u == console.next
<1>1. u \in Update /\ u = offset /\ console \in Console
  BY UpdateInHand DEF TelegramInv, TelegramTypes, Deliver, Handling
<1>2. /\ receipt[u].state = "DELIVERY_UNCERTAIN" /\ chat[u] <= forgotten[u] /\ u \in opened
  BY DEF TelegramInv, AtUpdate, Deliver, IsAt
<1>3. PICK taken \in BOOLEAN, answered \in BOOLEAN :
        /\ answered => taken
        /\ chat' = [chat EXCEPT ![u] = chat[u] + IF taken THEN 1 ELSE 0]
        /\ console' = [console EXCEPT !.step = IF answered THEN "SETTLE" ELSE "RECONCILE"]
  BY DEF Deliver
<1>4. UNCHANGED <<surroundings, offset, receipt, delivery, session, opened, forgotten>>
  BY DEF Deliver
<1>5. chat \in [Update -> Nat] /\ chat[u] \in Nat /\ forgotten[u] \in Nat
  BY <1>1 DEF TelegramInv, TelegramTypes
<1>6. /\ chat' \in [Update -> Nat] /\ chat'[u] <= 1 + forgotten[u] /\ chat'[u] >= chat[u]
      /\ \A v \in Update : v # u => chat'[v] = chat[v]
  BY <1>1, <1>2, <1>3, <1>5
<1>7. answered => chat'[u] > 0
  BY <1>1, <1>3, <1>5
<1>8. /\ console' \in Console /\ console'.next = u
      /\ console'.step = IF answered THEN "SETTLE" ELSE "RECONCILE"
  BY <1>1, <1>3, ConsoleTyped DEF ConsoleStep, Handling
<1>9. TelegramTypes'
  BY <1>4, <1>6, <1>8 DEF TelegramInv, TelegramTypes, surroundings
<1>10. AtUpdate'
  BY <1>1, <1>2, <1>4, <1>7, <1>8 DEF AtUpdate
<1>11. ASSUME NEW v \in Update PROVE UpdateSound(v)'
  <2>1. /\ UpdateSound(v) /\ updateKind' = updateKind /\ offset' = offset /\ receipt' = receipt
        /\ opened' = opened /\ forgotten' = forgotten
    BY <1>4 DEF TelegramInv, surroundings
  <2>2. CASE v # u
    BY <1>6, <2>1, <2>2 DEF UpdateSound
  <2>3. CASE v = u
    BY <1>2, <1>6, <2>1, <2>3 DEF UpdateSound, Settled
  <2> QED
    BY <2>2, <2>3
<1> QED
  BY <1>9, <1>10, <1>11 DEF TelegramInv

\* The answer's receipt is settled together with the offset.
LEMMA CompleteDeliveryKeeps ==
  ASSUME TelegramInv, CompleteDelivery
  PROVE  TelegramInv'
<1> DEFINE u == console.next
           new == [receipt[u] EXCEPT !.state = console.outcome]
<1>1. /\ u \in Update /\ u = offset /\ console \in Console /\ OffsetPast(u) = offset + 1
      /\ offset + 1 \in 1 .. LastUpdate + 1
  BY UpdateInHand DEF TelegramInv, TelegramTypes, CompleteDelivery, Handling
<1>20. offset \in Nat /\ offset' = offset + 1 /\ \A v \in Update : v \in Nat
  BY <1>1 DEF TelegramInv, TelegramTypes, CompleteDelivery, Update
<1>2. u \in opened /\ chat[u] > 0
  BY DEF TelegramInv, AtUpdate, CompleteDelivery, IsAt
<1>3. /\ delivery' = [delivery EXCEPT ![u] = "DELIVERED"] /\ receipt' = [receipt EXCEPT ![u] = new]
      /\ offset' = offset + 1 /\ console' \in {OnToNext, Down}
      /\ UNCHANGED <<surroundings, session, ghosts>>
  BY <1>1 DEF CompleteDelivery
<1>4. receipt \in [Update -> [state : ReceiptState, expiresAt : Nat]] /\ console.outcome \in Settled
  BY <1>1 DEF TelegramInv, TelegramTypes, Console
<1>5. new \in [state : ReceiptState, expiresAt : Nat] /\ new.state \in Settled
  BY <1>1, <1>4 DEF ReceiptState
<1> HIDE DEF new
<1>6. /\ receipt' \in [Update -> [state : ReceiptState, expiresAt : Nat]] /\ receipt'[u].state \in Settled
      /\ \A v \in Update : v # u => receipt'[v] = receipt[v]
  BY <1>1, <1>3, <1>4, <1>5
<1>7. delivery' \in [Update -> DeliveryState]
  BY <1>3 DEF TelegramInv, TelegramTypes, DeliveryState
<1>8. console' \in Console
  BY <1>1, <1>3, ConsoleTyped
<1>9. TelegramTypes'
  BY <1>1, <1>3, <1>6, <1>7, <1>8 DEF TelegramInv, TelegramTypes, surroundings, ghosts
<1>10. AtUpdate'
  <2>1. console'.step \notin Handling /\ (console'.step = "NEXT" => console'.next = offset')
    BY <1>1, <1>3, ConsoleTyped DEF Handling
  <2> QED
    BY <2>1 DEF AtUpdate, Handling
<1>11. ASSUME NEW v \in Update PROVE UpdateSound(v)'
  <2>1. /\ UpdateSound(v) /\ updateKind' = updateKind /\ chat' = chat /\ opened' = opened
        /\ forgotten' = forgotten
    BY <1>3 DEF TelegramInv, surroundings, ghosts
  <2>3. CASE v # u
    <3>1. /\ v < offset' => v < offset
          /\ v >= offset' => v >= offset
          /\ v < offset => v < offset'
      BY <1>1, <1>20, <2>3
    <3> QED
      BY <1>6, <2>1, <2>3, <3>1 DEF UpdateSound
  <2>4. CASE v = u
    <3>1. v < offset'
      BY <1>1, <1>20, <2>4
    <3> QED
      BY <1>2, <1>6, <2>1, <2>4, <3>1 DEF UpdateSound, Settled
  <2> QED
    BY <2>3, <2>4
<1> QED
  BY <1>9, <1>10, <1>11 DEF TelegramInv

\* An answer whose fate is not known is passed over, and the operator ends.
LEMMA LeaveUncertainKeeps ==
  ASSUME TelegramInv, LeaveUncertain
  PROVE  TelegramInv'
<1>1. /\ console.next \in Update /\ console.next = offset /\ console \in Console
      /\ OffsetPast(console.next) = offset + 1 /\ offset + 1 \in 1 .. LastUpdate + 1
  BY UpdateInHand DEF TelegramInv, TelegramTypes, LeaveUncertain, Handling
<1>2. console.next \in opened
  BY DEF TelegramInv, AtUpdate, LeaveUncertain, IsAt
<1>3. /\ offset' = offset + 1 /\ console' = Down
      /\ UNCHANGED <<surroundings, receipt, delivery, session, ghosts>>
  BY <1>1 DEF LeaveUncertain
<1>4. console' \in Console /\ console'.step = "DOWN"
  BY <1>1, <1>3, ConsoleTyped
<1>5. TelegramTypes' /\ \A u \in Update : UpdateSound(u)'
  <2>1. /\ delivery' \in [Update -> DeliveryState] /\ opened' \subseteq Update /\ opened \subseteq opened'
        /\ session' \in [state : SessionState, expiresAt : Nat]
        /\ chat' = chat /\ forgotten' = forgotten
    BY <1>3 DEF TelegramInv, TelegramTypes, ghosts
  <2> QED
    BY <1>1, <1>2, <1>3, <1>4, <2>1, ConsoleMoves
<1>6. AtUpdate'
  BY <1>4 DEF AtUpdate, Handling
<1> QED
  BY <1>5, <1>6 DEF TelegramInv

\* For any updates, retentions, retries and crashes: the update in hand is the one the
\* offset stands at, and what the receipts, the chat and the offset say of an update fits.
THEOREM TelegramInvariant == TelegramSpec => []TelegramInv
<1>1. TelegramInv /\ [TelegramNext]_telegramVars => TelegramInv'
  BY SurroundingsKeep, PurgeKeeps, PollKeeps, ClaimKeeps, HandlingKeeps, BeginDeliveryKeeps,
     DeliverKeeps, CompleteDeliveryKeeps, LeaveUncertainKeeps DEF TelegramNext, ProcessUpdate
<1> QED
  BY TelegramInitInv, <1>1, PTL DEF TelegramSpec

\* The stored records and the process of the operator keep their shapes.
THEOREM TelegramTyped == TelegramSpec => []TelegramTypeOK
<1>1. TelegramInv => TelegramTypeOK
  BY DEF TelegramInv, TelegramTypes, TelegramTypeOK, Console, ConsoleStep, Handling, ReceiptState,
     DeliveryState, SessionState
<1> QED
  BY <1>1, TelegramInvariant, PTL

\* An update is answered again only if its receipt was purged while it was due, none
\* is passed over without a delivery, and no receipt says more than what happened.
THEOREM UpdatesAreSettledHolds == TelegramSpec => []UpdatesAreSettled
<1>1. TelegramInv => UpdatesAreSettled
  BY DEF TelegramInv, UpdateSound, UpdatesAreSettled
<1> QED
  BY <1>1, TelegramInvariant, PTL

-----------------------------------------------------------------------------
(* The command boundary: the receipts, whatever the callers' commands are. *)

IsExecution(e) ==
  \/ e = NoExecution
  \/ /\ e = [step |-> e.step, command |-> e.command, response |-> e.response]
     /\ e.step \in {"LOOKUP", "DISPATCH", "INSERT", "ANSWERED", "REFUSED"}

Underway == /\ execution = [c \in Caller |-> execution[c]]
            /\ \A c \in Caller : IsExecution(execution[c])

IsReceipt(r) == r = [id |-> r.id, input |-> r.input, response |-> r.response]

\* An identifier has one receipt, and what a caller was told is in it.
ReceiptsAreUnique ==
  /\ \A r \in commandReceipts : IsReceipt(r)
  /\ \A r, s \in commandReceipts : r.id = s.id => r = s

BoundaryInv == Underway /\ ReceiptsAreUnique /\ OneAnswer

LEMMA BoundaryInitInv == BoundaryInit => BoundaryInv
BY DEF BoundaryInit, BoundaryInv, Underway, IsExecution, ReceiptsAreUnique, OneAnswer, NoExecution

\* A caller that starts, gives up or goes on without an answer disturbs nobody.
LEMMA CallerMoves ==
  ASSUME BoundaryInv, NEW c \in Caller, NEW e, IsExecution(e), e.step # "ANSWERED",
         execution' = [execution EXCEPT ![c] = e], UNCHANGED commandReceipts
  PROVE  BoundaryInv'
<1>1. \A d \in Caller : execution'[d] = IF d = c THEN e ELSE execution[d]
  BY DEF BoundaryInv, Underway
<1>2. execution' = [d \in Caller |-> execution'[d]]
  BY DEF BoundaryInv, Underway
<1>3. \A d \in Caller : IsExecution(execution'[d])
  BY <1>1 DEF BoundaryInv, Underway
<1>4. Underway'
  BY <1>2, <1>3 DEF Underway, IsExecution
<1>5. ReceiptsAreUnique'
  BY DEF BoundaryInv, ReceiptsAreUnique, IsReceipt
<1>6. OneAnswer'
  BY <1>1 DEF BoundaryInv, OneAnswer, Receipts
<1> QED
  BY <1>4, <1>5, <1>6 DEF BoundaryInv

LEMMA StartsAndEnds ==
  /\ IsExecution(NoExecution) /\ NoExecution.step = "NONE"
  /\ \A command : IsExecution(Execution(command)) /\ Execution(command).step = "LOOKUP"
  /\ \A command : Execution(command).command = command
BY DEF IsExecution, NoExecution, Execution

\* An execution whose step, response or both are replaced.
LEMMA StepSet ==
  ASSUME NEW x, x = [step |-> x.step, command |-> x.command, response |-> x.response], NEW s
  PROVE  [x EXCEPT !.step = s] = [step |-> s, command |-> x.command, response |-> x.response]
<1>1. x \in [step : {x.step}, command : {x.command}, response : {x.response}]
  OBVIOUS
<1> QED
  BY <1>1

LEMMA ResponseSet ==
  ASSUME NEW x, x = [step |-> x.step, command |-> x.command, response |-> x.response], NEW r
  PROVE  [x EXCEPT !.response = r] = [step |-> x.step, command |-> x.command, response |-> r]
<1>1. x \in [step : {x.step}, command : {x.command}, response : {x.response}]
  OBVIOUS
<1> QED
  BY <1>1

LEMMA StepAndResponseSet ==
  ASSUME NEW x, x = [step |-> x.step, command |-> x.command, response |-> x.response],
         NEW s, NEW r
  PROVE  [x EXCEPT !.step = s, !.response = r] = [step |-> s, command |-> x.command, response |-> r]
<1> DEFINE y == [x EXCEPT !.step = s]
<1>1. y = [step |-> s, command |-> x.command, response |-> x.response]
  BY StepSet
<1>2. [x EXCEPT !.step = s, !.response = r] = [y EXCEPT !.response = r]
  BY Zenon
<1> HIDE DEF y
<1>3. y = [step |-> y.step, command |-> y.command, response |-> y.response]
  BY <1>1
<1>4. [y EXCEPT !.response = r] = [step |-> y.step, command |-> y.command, response |-> r]
  BY <1>3, ResponseSet
<1> QED
  BY <1>1, <1>2, <1>4

\* The fields of an execution after a step of the boundary.
LEMMA ExecutionMoves ==
  ASSUME Underway, NEW c \in Caller, execution[c].step # "NONE"
  PROVE  /\ \A response : /\ IsExecution(Answered(c, response))
                          /\ Answered(c, response).step = "ANSWERED"
                          /\ Answered(c, response).response = response
                          /\ Answered(c, response).command = execution[c].command
         /\ IsExecution(Refused(c)) /\ Refused(c).step = "REFUSED"
         /\ Refused(c).command = execution[c].command
<1> DEFINE x == execution[c]
<1>1. x = [step |-> x.step, command |-> x.command, response |-> x.response]
  BY DEF Underway, IsExecution, NoExecution
<1>2. \A response : Answered(c, response) = [step |-> "ANSWERED", command |-> x.command, response |-> response]
  <2> TAKE response
  <2> HIDE DEF x
  <2>1. [x EXCEPT !.step = "ANSWERED", !.response = response]
          = [step |-> "ANSWERED", command |-> x.command, response |-> response]
    BY <1>1, StepAndResponseSet
  <2> QED
    BY <2>1, Zenon DEF Answered, x
<1>3. Refused(c) = [step |-> "REFUSED", command |-> x.command, response |-> x.response]
  <2> HIDE DEF x
  <2>1. [x EXCEPT !.step = "REFUSED"] = [step |-> "REFUSED", command |-> x.command, response |-> x.response]
    BY <1>1, StepSet
  <2> QED
    BY <2>1, Zenon DEF Refused, x
<1> QED
  BY <1>2, <1>3 DEF IsExecution

\* A dispatch that starts, and one that ends with a response.
Dispatching(c) ==
  [step |-> "DISPATCH", command |-> execution[c].command, response |-> execution[c].response]

LEMMA DispatchMoves ==
  ASSUME Underway, NEW c \in Caller, execution[c].step # "NONE"
  PROVE  /\ IsExecution(Dispatching(c)) /\ Dispatching(c).step = "DISPATCH"
         /\ Dispatching(c).command = execution[c].command
         /\ [execution EXCEPT ![c].step = "DISPATCH"] = [execution EXCEPT ![c] = Dispatching(c)]
<1> DEFINE x == execution[c]
<1>1. x = [step |-> x.step, command |-> x.command, response |-> x.response]
  BY DEF Underway, IsExecution, NoExecution
<1>2. [x EXCEPT !.step = "DISPATCH"] = Dispatching(c)
  <2>1. Dispatching(c) = [step |-> "DISPATCH", command |-> x.command, response |-> x.response]
    BY DEF Dispatching
  <2> HIDE DEF x
  <2> QED
    BY <1>1, <2>1, StepSet
<1>3. [execution EXCEPT ![c].step = "DISPATCH"] = [execution EXCEPT ![c] = Dispatching(c)]
  BY <1>2, Zenon DEF x
<1>4. IsExecution(Dispatching(c)) /\ Dispatching(c).step = "DISPATCH"
      /\ Dispatching(c).command = execution[c].command
  BY DEF IsExecution, Dispatching
<1> QED
  BY <1>3, <1>4

LEMMA DispatchedMoves ==
  ASSUME Underway, NEW c \in Caller, NEW response, Dispatched(c, response)
  PROVE  \E e : /\ IsExecution(e) /\ e.step = "INSERT" /\ e.command = execution[c].command
                /\ e.response = response
                /\ execution' = [execution EXCEPT ![c] = e]
<1> DEFINE x == execution[c]
           e == [step |-> "INSERT", command |-> x.command, response |-> response]
           y == [x EXCEPT !.step = "INSERT"]
<1>1. x = [step |-> x.step, command |-> x.command, response |-> x.response]
  BY DEF Dispatched, Underway, IsExecution, NoExecution
<1>2. [x EXCEPT !.step = "INSERT", !.response = response] = e
  <2> HIDE DEF x
  <2> QED
    BY <1>1, StepAndResponseSet
<1>3. execution' = [execution EXCEPT ![c].step = "INSERT", ![c].response = response]
  BY DEF Dispatched
<1>4. [execution EXCEPT ![c].step = "INSERT", ![c].response = response] = [execution EXCEPT ![c] = e]
  <2> DEFINE first == [execution EXCEPT ![c].step = "INSERT"]
  <2>1. first = [d \in Caller |-> IF d = c THEN y ELSE execution[d]]
    BY DEF Underway
  <2>2. [execution EXCEPT ![c].step = "INSERT", ![c].response = response]
          = [first EXCEPT ![c].response = response]
    BY Zenon
  <2>3. first[c] = y /\ \A d \in Caller \ {c} : first[d] = execution[d]
    BY <2>1
  <2> HIDE DEF first, y
  <2>4. [first EXCEPT ![c].response = response]
          = [d \in Caller |-> IF d = c THEN [y EXCEPT !.response = response] ELSE execution[d]]
    BY <2>1, <2>3, Zenon
  <2>5. [y EXCEPT !.response = response] = e
    BY <1>2, Zenon DEF y
  <2> HIDE DEF e
  <2>6. [execution EXCEPT ![c] = e] = [d \in Caller |-> IF d = c THEN e ELSE execution[d]]
    BY DEF Underway
  <2> QED
    BY <2>2, <2>4, <2>5, <2>6
<1>5. IsExecution(e) /\ e.step = "INSERT" /\ e.command = execution[c].command /\ e.response = response
  BY DEF IsExecution
<1> QED
  BY <1>3, <1>4, <1>5

\* What the boundary stores and answers.
LEMMA InsertReceiptActs ==
  ASSUME BoundaryInv, NEW c \in Caller, BoundaryStep(c)
  PROVE  \/ UNCHANGED commandReceipts
         \/ /\ execution[c].step = "INSERT" /\ Receipts(execution[c].command.id) = {}
            /\ commandReceipts' = commandReceipts \union
                 {[id |-> execution[c].command.id, input |-> execution[c].command.input,
                   response |-> execution[c].response]}
BY DEF BoundaryStep, LookUp, InsertReceipt

LEMMA ReplayKeeps ==
  ASSUME BoundaryInv, NEW c \in Caller, execution[c].step # "NONE", Replay(c),
         UNCHANGED commandReceipts
  PROVE  BoundaryInv'
<1>1. PICK r \in Receipts(execution[c].command.id) :
        execution' = [execution EXCEPT ![c] =
          IF r.input = execution[c].command.input THEN Answered(c, r.response) ELSE Refused(c)]
  BY DEF Replay
<1>2. CASE r.input # execution[c].command.input
  BY <1>1, <1>2, ExecutionMoves, CallerMoves DEF BoundaryInv
<1>3. CASE r.input = execution[c].command.input
  <2> DEFINE e == Answered(c, r.response)
  <2>1. /\ IsExecution(e) /\ e.step = "ANSWERED" /\ e.response = r.response
        /\ e.command = execution[c].command
    BY ExecutionMoves DEF BoundaryInv
  <2>2. execution' = [execution EXCEPT ![c] = e]
    BY <1>1, <1>3
  <2> HIDE DEF e
  <2>3. \A d \in Caller : execution'[d] = IF d = c THEN e ELSE execution[d]
    BY <2>2 DEF BoundaryInv, Underway
  <2>4. execution' = [d \in Caller |-> execution'[d]]
    BY <2>2 DEF BoundaryInv, Underway
  <2>5. Underway'
    BY <2>1, <2>3, <2>4 DEF BoundaryInv, Underway, IsExecution
  <2>6. ReceiptsAreUnique'
    BY DEF BoundaryInv, ReceiptsAreUnique, IsReceipt
  <2>7. Receipts(e.command.id) = {[id |-> e.command.id, input |-> e.command.input, response |-> e.response]}
    <3>1. r \in commandReceipts /\ r.id = e.command.id /\ r.input = e.command.input
          /\ r.response = e.response
      BY <1>1, <1>3, <2>1 DEF Receipts
    <3>2. r = [id |-> e.command.id, input |-> e.command.input, response |-> e.response]
      BY <3>1 DEF BoundaryInv, ReceiptsAreUnique, IsReceipt
    <3>3. \A s \in commandReceipts : s.id = e.command.id => s = r
      BY <3>1 DEF BoundaryInv, ReceiptsAreUnique
    <3> QED
      BY <3>1, <3>2, <3>3 DEF Receipts
  <2>8. OneAnswer'
    BY <2>3, <2>7 DEF BoundaryInv, OneAnswer, Receipts
  <2> QED
    BY <2>5, <2>6, <2>8 DEF BoundaryInv
<1> QED
  BY <1>2, <1>3

LEMMA BoundaryStepKeeps ==
  ASSUME BoundaryInv, NEW c \in Caller, BoundaryStep(c)
  PROVE  BoundaryInv'
<1>1. CASE LookUp(c)
  <2>1. execution[c].step # "NONE" /\ UNCHANGED commandReceipts
    BY <1>1 DEF LookUp
  <2>2. CASE Receipts(execution[c].command.id) # {}
    BY <1>1, <2>1, <2>2, ReplayKeeps DEF LookUp
  <2>3. CASE Receipts(execution[c].command.id) = {}
    <3>1. execution' = [execution EXCEPT ![c].step = "DISPATCH"]
      BY <1>1, <2>3 DEF LookUp
    <3>2. execution' = [execution EXCEPT ![c] = Dispatching(c)]
      BY <2>1, <3>1, DispatchMoves DEF BoundaryInv
    <3>3. IsExecution(Dispatching(c)) /\ Dispatching(c).step # "ANSWERED"
      BY <2>1, DispatchMoves DEF BoundaryInv
    <3> QED
      BY <2>1, <3>2, <3>3, CallerMoves
  <2> QED
    BY <2>2, <2>3
<1>2. CASE InsertReceipt(c)
  <2>1. execution[c].step # "NONE"
    BY <1>2 DEF InsertReceipt
  <2>2. CASE Receipts(execution[c].command.id) # {}
    BY <1>2, <2>1, <2>2, ReplayKeeps DEF InsertReceipt
  <2>3. CASE Receipts(execution[c].command.id) = {}
    <3> DEFINE e == Answered(c, execution[c].response)
               r == [id |-> execution[c].command.id, input |-> execution[c].command.input,
                     response |-> execution[c].response]
    <3>1. /\ IsExecution(e) /\ e.step = "ANSWERED" /\ e.response = execution[c].response
          /\ e.command = execution[c].command
      BY <2>1, ExecutionMoves DEF BoundaryInv
    <3>2. /\ execution' = [execution EXCEPT ![c] = e]
          /\ commandReceipts' = commandReceipts \union {r}
      BY <1>2, <2>3 DEF InsertReceipt
    <3>3. r.id = e.command.id /\ r.input = e.command.input /\ r.response = e.response /\ IsReceipt(r)
      BY <3>1 DEF IsReceipt
    <3>4. \A s \in commandReceipts : s.id # r.id
      BY <2>3, <3>1, <3>3 DEF Receipts
    <3>5. r = [id |-> e.command.id, input |-> e.command.input, response |-> e.response]
      BY <3>1
    <3> HIDE DEF e, r
    <3>6. \A d \in Caller : execution'[d] = IF d = c THEN e ELSE execution[d]
      BY <3>2 DEF BoundaryInv, Underway
    <3>7. execution' = [d \in Caller |-> execution'[d]]
      BY <3>2 DEF BoundaryInv, Underway
    <3>8. Underway'
      BY <3>1, <3>6, <3>7 DEF BoundaryInv, Underway, IsExecution
    <3>9. ReceiptsAreUnique'
      BY <3>2, <3>3, <3>4 DEF BoundaryInv, ReceiptsAreUnique, IsReceipt
    <3>10. ASSUME NEW d \in Caller, execution'[d].step = "ANSWERED"
           PROVE  (Receipts(execution[d].command.id) =
                     {[id |-> execution[d].command.id, input |-> execution[d].command.input,
                       response |-> execution[d].response]})'
      <4>1. CASE d = c
        BY <3>2, <3>3, <3>4, <3>5, <3>6, <4>1 DEF Receipts
      <4>2. CASE d # c
        <5>1. execution'[d] = execution[d] /\ execution[d].step = "ANSWERED"
          BY <3>6, <3>10, <4>2
        <5>2. Receipts(execution[d].command.id) =
                {[id |-> execution[d].command.id, input |-> execution[d].command.input,
                  response |-> execution[d].response]}
          BY <5>1 DEF BoundaryInv, OneAnswer
        <5>3. execution[d].command.id # r.id
          BY <3>4, <5>2 DEF Receipts
        <5> QED
          BY <3>2, <5>1, <5>2, <5>3 DEF Receipts
      <4> QED
        BY <4>1, <4>2
    <3>11. OneAnswer'
      BY <3>10 DEF OneAnswer
    <3> QED
      BY <3>8, <3>9, <3>11 DEF BoundaryInv
  <2> QED
    BY <2>2, <2>3
<1> QED
  BY <1>1, <1>2 DEF BoundaryStep

-----------------------------------------------------------------------------
(* The reviews of a content production that cross the boundary. *)

Decided(history, id, status) ==
  \E i \in 1..Len(history) : history[i].by = id /\ history[i].status = status

\* A review that waits for its receipt went through, too.
UnstoredReviewsDecided ==
  \A c \in Caller :
    execution[c].step = "INSERT" /\ execution[c].command.input.operation = "REVIEW" =>
      Decided(changes, execution[c].command.id, execution[c].response.status)

ReviewInv ==
  /\ BoundaryInv
  /\ \E S : changes \in Seq(S)
  /\ AnsweredReviewDecided
  /\ UnstoredReviewsDecided

LEMMA ReviewInitInv == ReviewInit => ReviewInv
<1> SUFFICES ASSUME ReviewInit PROVE ReviewInv
  OBVIOUS
<1>1. BoundaryInit /\ changes = <<>>
  BY DEF ReviewInit
<1>2. BoundaryInv
  BY <1>1, BoundaryInitInv
<1>3. changes \in Seq({})
  BY <1>1, EmptySeq
<1>4. AnsweredReviewDecided /\ UnstoredReviewsDecided
  BY <1>1 DEF BoundaryInit, NoExecution, AnsweredReviewDecided, UnstoredReviewsDecided
<1> QED
  BY <1>2, <1>3, <1>4 DEF ReviewInv

\* The history only grows, by what a caller's command did.
LEMMA HistoryGrows ==
  ASSUME NEW S, changes \in Seq(S), NEW c \in Caller, Changed(c)
  PROVE  /\ \E T : changes' \in Seq(T)
         /\ \A id, status : Decided(changes, id, status) => Decided(changes', id, status)
         /\ Decided(changes', execution[c].command.id, content'.status)
<1> DEFINE entry == [by |-> execution[c].command.id, input |-> execution[c].command.input,
                      manifest |-> manifest.current, shown |-> Shown(c),
                      status |-> content'.status]
           T == S \union {entry}
<1>1. changes' = Append(changes, entry)
  BY DEF Changed
<1>2. entry.by = execution[c].command.id /\ entry.status = content'.status
  OBVIOUS
<1> HIDE DEF entry
<1>3. changes \in Seq(T) /\ entry \in T
  BY SeqMonotonic
<1> HIDE DEF T
<1>4. /\ changes' \in Seq(T)
      /\ Len(changes') = Len(changes) + 1
      /\ \A i \in 1..Len(changes) : changes'[i] = changes[i]
      /\ changes'[Len(changes) + 1] = entry
  BY <1>1, <1>3, AppendProperties
<1>5. Len(changes) \in Nat
  BY <1>3, LenProperties
<1>6. \A i \in 1..Len(changes) : i \in 1..Len(changes')
  BY <1>4, <1>5
<1>7. Len(changes) + 1 \in 1..Len(changes')
  BY <1>4, <1>5
<1>8. ASSUME NEW id, NEW status, Decided(changes, id, status)
      PROVE  Decided(changes', id, status)
  BY <1>8, <1>4, <1>6 DEF Decided
<1>9. Decided(changes', execution[c].command.id, content'.status)
  BY <1>2, <1>4, <1>7 DEF Decided
<1> QED
  BY <1>4, <1>8, <1>9

\* Steps of the callers that store no receipt and dispatch no command.
LEMMA CallersMove ==
  ASSUME ReviewInv, BoundaryInv', UNCHANGED <<commandReceipts, changes>>,
         \A c \in Caller : execution'[c] = execution[c] \/ execution'[c].step # "INSERT"
  PROVE  ReviewInv'
<1>1. AnsweredReviewDecided'
  BY DEF ReviewInv, AnsweredReviewDecided
<1>2. UnstoredReviewsDecided'
  BY DEF ReviewInv, UnstoredReviewsDecided
<1> QED
  BY <1>1, <1>2 DEF ReviewInv

LEMMA CallerStartsOrEnds ==
  ASSUME ReviewInv, NEW c \in Caller, NEW e, IsExecution(e), e.step \in {"NONE", "LOOKUP"},
         execution' = [execution EXCEPT ![c] = e], UNCHANGED <<commandReceipts, changes>>
  PROVE  ReviewInv'
<1>1. e.step # "ANSWERED" /\ e.step # "INSERT"
  OBVIOUS
<1>2. BoundaryInv'
  BY <1>1, CallerMoves DEF ReviewInv
<1>3. \A d \in Caller : execution'[d] = execution[d] \/ execution'[d] = e
  BY DEF ReviewInv, BoundaryInv, Underway
<1> QED
  BY <1>1, <1>2, <1>3, CallersMove

\* A command reaches the production, or the boundary looks up or stores.
LEMMA DispatchedKeeps ==
  ASSUME ReviewInv, NEW c \in Caller, NEW response, Dispatched(c, response),
         \E S : changes' \in Seq(S),
         \A id, status : Decided(changes, id, status) => Decided(changes', id, status),
         execution[c].command.input.operation = "REVIEW" =>
           Decided(changes', execution[c].command.id, response.status)
  PROVE  ReviewInv'
<1>1. PICK e : /\ IsExecution(e) /\ e.step = "INSERT" /\ e.command = execution[c].command
               /\ e.response = response
               /\ execution' = [execution EXCEPT ![c] = e]
  BY DispatchedMoves DEF ReviewInv, BoundaryInv
<1>2. UNCHANGED commandReceipts
  BY DEF Dispatched
<1>3. BoundaryInv'
  BY <1>1, <1>2, CallerMoves DEF ReviewInv
<1>4. \A d \in Caller : execution'[d] = IF d = c THEN e ELSE execution[d]
  BY <1>1 DEF ReviewInv, BoundaryInv, Underway
<1>5. AnsweredReviewDecided'
  <2>1. \A r \in commandReceipts : r.input.operation = "REVIEW" => Decided(changes, r.id, r.response.status)
    BY DEF ReviewInv, AnsweredReviewDecided, Decided
  <2>2. \A r \in commandReceipts' : r.input.operation = "REVIEW" => Decided(changes', r.id, r.response.status)
    BY <1>2, <2>1
  <2> QED
    BY <2>2 DEF AnsweredReviewDecided, Decided
<1>6. UnstoredReviewsDecided'
  BY <1>1, <1>4 DEF ReviewInv, UnstoredReviewsDecided
<1> QED
  BY <1>3, <1>5, <1>6 DEF ReviewInv

LEMMA RefusedKeeps ==
  ASSUME ReviewInv, NEW c \in Caller, DispatchFails(c), UNCHANGED changes
  PROVE  ReviewInv'
<1>1. /\ execution[c].step # "NONE" /\ execution' = [execution EXCEPT ![c] = Refused(c)]
      /\ UNCHANGED commandReceipts
  BY DEF DispatchFails
<1>2. IsExecution(Refused(c)) /\ Refused(c).step = "REFUSED"
  BY <1>1, ExecutionMoves DEF ReviewInv, BoundaryInv
<1>3. BoundaryInv'
  BY <1>1, <1>2, CallerMoves DEF ReviewInv
<1>4. \A d \in Caller : execution'[d] = execution[d] \/ execution'[d].step # "INSERT"
  BY <1>1, <1>2 DEF ReviewInv, BoundaryInv, Underway
<1> QED
  BY <1>1, <1>3, <1>4, CallersMove

LEMMA DispatchKeeps ==
  ASSUME ReviewInv, NEW c \in Caller, Dispatch(c)
  PROVE  ReviewInv'
<1> DEFINE input == execution[c].command.input
<1>1. PICK S : changes \in Seq(S)
  BY DEF ReviewInv
<1>2. CASE input = Inspect /\ Dispatched(c, content) /\ UNCHANGED changes
  <2>1. input.operation # "REVIEW"
    BY <1>2 DEF Inspect
  <2> QED
    BY <1>1, <1>2, <2>1, DispatchedKeeps
<1>3. CASE Changed(c) /\ Dispatched(c, content')
  <2> DEFINE after == content'
  <2>1. /\ \E T : changes' \in Seq(T)
        /\ \A id, status : Decided(changes, id, status) => Decided(changes', id, status)
        /\ Decided(changes', execution[c].command.id, after.status)
    BY <1>1, <1>3, HistoryGrows
  <2> QED
    BY <1>3, <2>1, DispatchedKeeps
<1>4. CASE DispatchFails(c) /\ UNCHANGED changes
  BY <1>4, RefusedKeeps
<1> QED
  BY <1>2, <1>3, <1>4 DEF Dispatch, DispatchArchive, DispatchReview

LEMMA BoundaryKeepsReviews ==
  ASSUME ReviewInv, NEW c \in Caller, BoundaryStep(c), UNCHANGED changes
  PROVE  ReviewInv'
<1>1. BoundaryInv'
  BY BoundaryStepKeeps DEF ReviewInv
<1>2. \A d \in Caller : execution'[d] = execution[d] \/ execution'[d].step # "INSERT"
  <2>1. execution[c].step # "NONE"
    BY DEF BoundaryStep, LookUp, InsertReceipt
  <2>2. \/ \E r : execution' = [execution EXCEPT ![c] = Answered(c, r)]
        \/ execution' = [execution EXCEPT ![c] = Refused(c)]
        \/ execution' = [execution EXCEPT ![c].step = "DISPATCH"]
    BY DEF BoundaryStep, LookUp, InsertReceipt, Replay
  <2>3. \E e : /\ e.step \in {"ANSWERED", "REFUSED", "DISPATCH"}
               /\ execution' = [execution EXCEPT ![c] = e]
    <3>1. /\ \A r : Answered(c, r).step = "ANSWERED"
          /\ Refused(c).step = "REFUSED"
      BY <2>1, ExecutionMoves DEF ReviewInv, BoundaryInv
    <3>2. /\ Dispatching(c).step = "DISPATCH"
          /\ [execution EXCEPT ![c].step = "DISPATCH"] = [execution EXCEPT ![c] = Dispatching(c)]
      BY <2>1, DispatchMoves DEF ReviewInv, BoundaryInv
    <3> QED
      BY <2>2, <3>1, <3>2
  <2> QED
    BY <2>3 DEF ReviewInv, BoundaryInv, Underway
<1>3. CASE UNCHANGED commandReceipts
  BY <1>1, <1>2, <1>3, CallersMove
<1>4. CASE /\ execution[c].step = "INSERT"
           /\ commandReceipts' = commandReceipts \union
                {[id |-> execution[c].command.id, input |-> execution[c].command.input,
                  response |-> execution[c].response]}
  <2>1. AnsweredReviewDecided'
    BY <1>4 DEF ReviewInv, AnsweredReviewDecided, UnstoredReviewsDecided, Decided
  <2>2. UnstoredReviewsDecided'
    BY <1>2 DEF ReviewInv, UnstoredReviewsDecided
  <2> QED
    BY <1>1, <2>1, <2>2 DEF ReviewInv
<1> QED
  BY <1>3, <1>4, InsertReceiptActs DEF ReviewInv

LEMMA CrashKeepsReviews ==
  ASSUME ReviewInv, NEW callers, AdapterCrashes(callers)
  PROVE  ReviewInv'
<1>1. /\ execution' = [c \in Caller |-> IF c \in callers THEN NoExecution ELSE execution[c]]
      /\ UNCHANGED <<commandReceipts, changes>>
  BY DEF AdapterCrashes
<1>2. NoExecution.step = "NONE" /\ IsExecution(NoExecution)
  BY StartsAndEnds
<1>3. \A c \in Caller : execution'[c] = execution[c] \/ execution'[c] = NoExecution
  BY <1>1
<1>4. Underway'
  BY <1>1, <1>2, <1>3 DEF ReviewInv, BoundaryInv, Underway, IsExecution
<1>5. ReceiptsAreUnique' /\ OneAnswer'
  BY <1>1, <1>2, <1>3 DEF ReviewInv, BoundaryInv, ReceiptsAreUnique, IsReceipt, OneAnswer, Receipts
<1>6. BoundaryInv'
  BY <1>4, <1>5 DEF BoundaryInv
<1> QED
  BY <1>1, <1>2, <1>3, <1>6, CallersMove

LEMMA ReviewStepKeeps == ReviewInv /\ [ReviewNext]_reviewVars => ReviewInv'
<1> SUFFICES ASSUME ReviewInv, [ReviewNext]_reviewVars PROVE ReviewInv'
  OBVIOUS
<1> USE ReviewAssumption
<1>1. CASE UNCHANGED <<execution, commandReceipts, changes>>
  <2>1. BoundaryInv'
    BY <1>1 DEF ReviewInv, BoundaryInv, Underway, IsExecution, ReceiptsAreUnique, IsReceipt,
                OneAnswer, Receipts
  <2> QED
    BY <1>1, <2>1, CallersMove
<1>2. ASSUME NEW c \in Caller, NEW command, Execute(c, command), UNCHANGED <<commandReceipts, changes>>
      PROVE  ReviewInv'
  <2>1. execution' = [execution EXCEPT ![c] = Execution(command)]
    BY <1>2 DEF Execute
  <2> QED
    BY <1>2, <2>1, StartsAndEnds, CallerStartsOrEnds
<1>3. ASSUME NEW c \in Caller, execution' = [execution EXCEPT ![c] = NoExecution],
             UNCHANGED <<commandReceipts, changes>>
      PROVE  ReviewInv'
  BY <1>3, StartsAndEnds, CallerStartsOrEnds
<1>4. CASE ManifestChanges \/ ProductionIsControlled \/ OfferApproval
  BY <1>1, <1>4 DEF ManifestChanges, ProductionIsControlled, OfferApproval, boundaryVars
<1>5. ASSUME NEW c \in Caller, CommandStep(c)
      PROVE  ReviewInv'
  BY <1>5, DispatchKeeps, BoundaryKeepsReviews DEF CommandStep
<1>6. ASSUME NEW act \in CenterAction, NEW decision, ProposeReview(act, decision) \/ ActionExpires(act)
      PROVE  ReviewInv'
  BY <1>1, <1>6 DEF ProposeReview, ActionExpires, boundaryVars
<1>7. ASSUME NEW c \in CenterCaller, NEW act \in CenterAction, CheckAction(c, act)
      PROVE  ReviewInv'
  BY <1>1, <1>7 DEF CheckAction, boundaryVars
<1>8. ASSUME NEW c \in CenterCaller, SendAction(c)
      PROVE  ReviewInv'
  <2>1. UNCHANGED changes
    BY <1>8 DEF SendAction
  <2>2. UNCHANGED boundaryVars \/ \E command : Execute(c, command) /\ UNCHANGED commandReceipts
    BY <1>8, Zenon DEF SendAction
  <2> QED
    BY <1>1, <1>2, <2>1, <2>2 DEF boundaryVars
<1>9. ASSUME NEW c \in CenterCaller, CenterAnswers(c)
      PROVE  ReviewInv'
  BY <1>3, <1>9 DEF CenterAnswers
<1>10. CASE PressApproval
  BY <1>2, <1>10 DEF PressApproval
<1>11. CASE TelegramContinues
  <2>1. UNCHANGED <<commandReceipts, changes>>
    BY <1>11 DEF TelegramContinues
  <2>2. \/ \E command : Execute(TelegramCaller, command)
        \/ execution' = [execution EXCEPT ![TelegramCaller] = NoExecution]
    BY <1>11, Zenon DEF TelegramContinues
  <2> QED
    BY <1>2, <1>3, <2>1, <2>2
<1>12. CASE SendDirectly
  BY <1>2, <1>12 DEF SendDirectly
<1>13. CASE DirectAnswers
  BY <1>3, <1>13 DEF DirectAnswers
<1>14. ASSUME NEW callers, AdapterCrashes(callers)
       PROVE  ReviewInv'
  BY <1>14, CrashKeepsReviews
<1>15. CASE UNCHANGED reviewVars
  BY <1>1, <1>15 DEF reviewVars, boundaryVars
<1> QED
  BY <1>4, <1>5, <1>6, <1>7, <1>8, <1>9, <1>10, <1>11, <1>12, <1>13, <1>14, <1>15 DEF ReviewNext

\* A caller that is answered was told what is stored, and what is stored or about
\* to be stored of a review is a change of its production (execute, replay).
THEOREM ReviewInvariant == ReviewSpec => []ReviewInv
BY ReviewInitInv, ReviewStepKeeps, PTL DEF ReviewSpec

\* Of all the confirmations, buttons and commands that race for a production no
\* more than one is told that it went through (AnswersAreSound).
THEOREM AnswersAreSoundHolds == ReviewSpec => []AnswersAreSound
<1>1. ReviewInv => AnswersAreSound
  BY DEF ReviewInv, BoundaryInv, AnswersAreSound
<1> QED
  BY <1>1, ReviewInvariant, PTL

-----------------------------------------------------------------------------
(* The controls of a workflow that cross the boundary. *)

WorkflowRecord == [status : {"ACTIVE", "PAUSED", "CANCELLED"}, version : 0..MaxVersion]

\* What Telegram asks is not named as the operator's controls are.
OwnCommands ==
  /\ \A c \in Operator : execution[c].step # "NONE" =>
       /\ execution[c].command.id \in ControlId
       /\ execution[c].command.input.operation \in DOMAIN ControlStatus
  /\ execution[Reporter].step # "NONE" =>
       /\ execution[Reporter].command.id \notin ControlId
       /\ execution[Reporter].command.input.operation \in {"INSPECT", "REPORT"}

RecordedAs(records, id, input) == \E r \in records : r.id = id /\ r.input = input

\* A control is recorded once, before it is answered.
ControlsAreRecorded ==
  /\ \A r, s \in lifecycleRecords : r.id = s.id => r = s
  /\ \A r \in commandReceipts : r.id \in ControlId => RecordedAs(lifecycleRecords, r.id, r.input)
  /\ \A c \in Operator : execution[c].step = "INSERT" =>
       RecordedAs(lifecycleRecords, execution[c].command.id, execution[c].command.input)

\* An inspection's answer names a version of the workflow.
InspectionsAreTyped ==
  /\ \A r \in commandReceipts : r.input = InspectWorkflow => r.response.version \in 0..MaxVersion
  /\ \A c \in Operator \union {Reporter} :
       execution[c].step = "INSERT" /\ execution[c].command.input = InspectWorkflow =>
         execution[c].response.version \in 0..MaxVersion

ReportsInv ==
  /\ BoundaryInv
  /\ workflow \in WorkflowRecord
  /\ OwnCommands /\ ControlsAreRecorded /\ InspectionsAreTyped

LEMMA ReportsInitInv == ReportsInit => ReportsInv
<1> SUFFICES ASSUME ReportsInit PROVE ReportsInv
  OBVIOUS
<1> USE ReportsAssumption
<1>1. BoundaryInit /\ lifecycleRecords = {} /\ commandReceipts = {}
  BY DEF ReportsInit, BoundaryInit
<1>2. \A c \in Operator \union {Reporter} : execution[c].step = "NONE"
  BY <1>1 DEF BoundaryInit, NoExecution
<1>3. workflow \in WorkflowRecord
  BY DEF ReportsInit, WorkflowRecord
<1>4. OwnCommands /\ ControlsAreRecorded /\ InspectionsAreTyped
  BY <1>1, <1>2 DEF OwnCommands, ControlsAreRecorded, InspectionsAreTyped
<1> QED
  BY <1>1, <1>3, <1>4, BoundaryInitInv DEF ReportsInv

Callers == Operator \union {Reporter}

\* A step of one caller: the others, and what the invariant says of them, stay.
LEMMA CallerOnly ==
  ASSUME ReportsInv, NEW c \in Callers, NEW e, execution' = [execution EXCEPT ![c] = e]
  PROVE  \A d \in Callers : execution'[d] = IF d = c THEN e ELSE execution[d]
BY ReportsAssumption DEF ReportsInv, BoundaryInv, Underway, Callers

\* Callers that store nothing and dispatch nothing.
LEMMA CallersKeepReports ==
  ASSUME ReportsInv, BoundaryInv', workflow' \in WorkflowRecord,
         UNCHANGED <<commandReceipts, lifecycleRecords>>, OwnCommands',
         \A c \in Callers : execution'[c] = execution[c] \/ execution'[c].step # "INSERT"
  PROVE  ReportsInv'
<1>1. ControlsAreRecorded'
  BY DEF ReportsInv, ControlsAreRecorded, RecordedAs, Callers
<1>2. InspectionsAreTyped'
  BY DEF ReportsInv, InspectionsAreTyped, Callers
<1> QED
  BY <1>1, <1>2 DEF ReportsInv

\* A caller's command stays its own while it is under way.
LEMMA SameCommand ==
  ASSUME ReportsInv, NEW c \in Callers, execution[c].step # "NONE", NEW e,
         e.command = execution[c].command, execution' = [execution EXCEPT ![c] = e]
  PROVE  OwnCommands'
BY CallerOnly, ReportsAssumption DEF ReportsInv, OwnCommands, Callers

LEMMA NoCommand ==
  ASSUME ReportsInv, NEW c \in Callers, execution' = [execution EXCEPT ![c] = NoExecution]
  PROVE  OwnCommands'
BY CallerOnly, ReportsAssumption, StartsAndEnds DEF ReportsInv, OwnCommands, Callers

LEMMA CallerEnds ==
  ASSUME ReportsInv, NEW c \in Callers, execution' = [execution EXCEPT ![c] = NoExecution],
         UNCHANGED <<commandReceipts, workflow, lifecycleRecords>>
  PROVE  ReportsInv'
<1>1. BoundaryInv'
  BY ReportsAssumption, StartsAndEnds, CallerMoves DEF ReportsInv, Callers
<1>2. \A d \in Callers : execution'[d] = execution[d] \/ execution'[d].step # "INSERT"
  BY CallerOnly, StartsAndEnds
<1> QED
  BY <1>1, <1>2, NoCommand, CallersKeepReports DEF ReportsInv

LEMMA CallerStarts ==
  ASSUME ReportsInv, NEW c \in Callers, NEW command, Execute(c, command),
         c \in Operator => command.id \in ControlId /\ command.input.operation \in DOMAIN ControlStatus,
         c = Reporter => command.id \notin ControlId /\ command.input.operation \in {"INSPECT", "REPORT"},
         UNCHANGED <<commandReceipts, workflow, lifecycleRecords>>
  PROVE  ReportsInv'
<1> DEFINE e == Execution(command)
<1>1. IsExecution(e) /\ e.step = "LOOKUP" /\ e.command = command
  BY StartsAndEnds
<1>2. execution' = [execution EXCEPT ![c] = e]
  BY DEF Execute
<1> HIDE DEF e
<1>3. BoundaryInv'
  BY <1>1, <1>2, ReportsAssumption, CallerMoves DEF ReportsInv, Callers
<1>4. \A d \in Callers : execution'[d] = IF d = c THEN e ELSE execution[d]
  BY <1>2, CallerOnly
<1>5. OwnCommands'
  BY <1>1, <1>4, ReportsAssumption DEF ReportsInv, OwnCommands, Callers
<1> QED
  BY <1>1, <1>3, <1>4, <1>5, CallersKeepReports DEF ReportsInv

LEMMA RefusalKeepsReports ==
  ASSUME ReportsInv, NEW c \in Callers, DispatchFails(c), UNCHANGED <<workflow, lifecycleRecords>>
  PROVE  ReportsInv'
<1>1. /\ execution[c].step # "NONE" /\ execution' = [execution EXCEPT ![c] = Refused(c)]
      /\ UNCHANGED commandReceipts
  BY DEF DispatchFails
<1>2. c \in Caller
  BY ReportsAssumption DEF Callers
<1>3. IsExecution(Refused(c)) /\ Refused(c).step = "REFUSED" /\ Refused(c).command = execution[c].command
  BY <1>1, <1>2, ExecutionMoves DEF ReportsInv, BoundaryInv
<1>4. BoundaryInv'
  BY <1>1, <1>2, <1>3, CallerMoves DEF ReportsInv
<1>5. OwnCommands'
  BY <1>1, <1>3, SameCommand
<1>6. \A d \in Callers : execution'[d] = execution[d] \/ execution'[d].step # "INSERT"
  BY <1>1, <1>3, CallerOnly
<1> QED
  BY <1>1, <1>4, <1>5, <1>6, CallersKeepReports DEF ReportsInv

\* A command that is dispatched: a control is recorded by then.
LEMMA DispatchedKeepsReports ==
  ASSUME ReportsInv, NEW c \in Callers, NEW response, Dispatched(c, response),
         workflow' \in WorkflowRecord, lifecycleRecords \subseteq lifecycleRecords',
         \A r, s \in lifecycleRecords' : r.id = s.id => r = s,
         c \in Operator => RecordedAs(lifecycleRecords', execution[c].command.id, execution[c].command.input),
         execution[c].command.input = InspectWorkflow => response.version \in 0..MaxVersion
  PROVE  ReportsInv'
<1>1. c \in Caller
  BY ReportsAssumption DEF Callers
<1>2. PICK e : /\ IsExecution(e) /\ e.step = "INSERT" /\ e.command = execution[c].command
               /\ e.response = response
               /\ execution' = [execution EXCEPT ![c] = e]
  BY <1>1, DispatchedMoves DEF ReportsInv, BoundaryInv
<1>3. UNCHANGED commandReceipts /\ execution[c].step # "NONE"
  BY DEF Dispatched
<1>4. BoundaryInv'
  BY <1>1, <1>2, <1>3, CallerMoves DEF ReportsInv
<1>5. \A d \in Callers : execution'[d] = IF d = c THEN e ELSE execution[d]
  BY <1>2, CallerOnly
<1>6. OwnCommands'
  BY <1>2, <1>3, SameCommand
<1>7. ControlsAreRecorded'
  BY <1>2, <1>3, <1>5 DEF ReportsInv, ControlsAreRecorded, RecordedAs, Callers
<1>8. InspectionsAreTyped'
  BY <1>2, <1>3, <1>5 DEF ReportsInv, InspectionsAreTyped, Callers
<1> QED
  BY <1>4, <1>6, <1>7, <1>8 DEF ReportsInv

LEMMA ControlWorkflowKeeps ==
  ASSUME ReportsInv, NEW c \in Callers, DispatchToWorkflow(c),
         execution[c].command.input.operation \notin {"INSPECT", "REPORT"}
  PROVE  ReportsInv'
<1> DEFINE id == execution[c].command.id
           input == execution[c].command.input
<1>1. ControlWorkflow(c, id, input)
  BY DEF DispatchToWorkflow
<1>2. input # InspectWorkflow
  BY DEF InspectWorkflow
<1>3. CASE DispatchFails(c) /\ UNCHANGED <<workflow, lifecycleRecords>>
  BY <1>3, RefusalKeepsReports
<1>4. ASSUME NEW record \in Recorded(id), record.input = input,
             Dispatched(c, ControlResponse(record, TRUE)), UNCHANGED <<workflow, lifecycleRecords>>
      PROVE  ReportsInv'
  <2>1. RecordedAs(lifecycleRecords', id, input)
    BY <1>4 DEF RecordedAs, Recorded
  <2>2. \A r, s \in lifecycleRecords' : r.id = s.id => r = s
    BY <1>4 DEF ReportsInv, ControlsAreRecorded
  <2>3. workflow' \in WorkflowRecord
    BY <1>4 DEF ReportsInv
  <2>4. lifecycleRecords \subseteq lifecycleRecords'
    BY <1>4
  <2> QED
    BY <1>2, <1>4, <2>1, <2>2, <2>3, <2>4, DispatchedKeepsReports
<1>5. ASSUME Recorded(id) = {}, workflow.version < MaxVersion,
             NEW record, record = [id |-> id, input |-> input, version |-> workflow.version + 1],
             workflow' = [status |-> ControlStatus[input.operation].to, version |-> record.version],
             lifecycleRecords' = lifecycleRecords \union {record},
             Dispatched(c, ControlResponse(record, FALSE)),
             input.operation \in DOMAIN ControlStatus
      PROVE  ReportsInv'
  <2>1. record.id = id /\ record.input = input /\ record.version = workflow.version + 1
    BY <1>5
  <2>2. RecordedAs(lifecycleRecords', id, input)
    BY <1>5, <2>1 DEF RecordedAs
  <2>3. \A r, s \in lifecycleRecords' : r.id = s.id => r = s
    BY <1>5, <2>1 DEF ReportsInv, ControlsAreRecorded, Recorded
  <2>4. workflow.version + 1 \in 0..MaxVersion
    BY <1>5, ReportsAssumption DEF ReportsInv, WorkflowRecord
  <2>5. ControlStatus[input.operation].to \in {"ACTIVE", "PAUSED", "CANCELLED"}
    BY <1>5 DEF ControlStatus
  <2>6. workflow' \in WorkflowRecord
    BY <1>5, <2>1, <2>4, <2>5 DEF WorkflowRecord
  <2>7. lifecycleRecords \subseteq lifecycleRecords'
    BY <1>5
  <2> QED
    BY <1>2, <1>5, <2>2, <2>3, <2>6, <2>7, DispatchedKeepsReports
<1>6. c \in Operator => input.operation \in DOMAIN ControlStatus
  BY DEF ReportsInv, OwnCommands, DispatchToWorkflow
<1>7. CASE Recorded(id) # {}
  BY <1>1, <1>3, <1>4, <1>7 DEF ControlWorkflow
<1>8. CASE Recorded(id) = {}
  <2>1. ~(DispatchFails(c) /\ UNCHANGED <<workflow, lifecycleRecords>>) =>
          LET record == [id |-> id, input |-> input, version |-> workflow.version + 1] IN
          /\ workflow.version < MaxVersion
          /\ workflow' = [status |-> ControlStatus[input.operation].to, version |-> record.version]
          /\ lifecycleRecords' = lifecycleRecords \union {record}
          /\ Dispatched(c, ControlResponse(record, FALSE))
    BY <1>1, <1>8 DEF ControlWorkflow
  <2>2. c \in Operator
    BY DEF ReportsInv, OwnCommands, DispatchToWorkflow, Callers
  <2> QED
    BY <1>3, <1>5, <1>6, <1>8, <2>1, <2>2
<1> QED
  BY <1>7, <1>8

LEMMA DispatchReadKeeps ==
  ASSUME ReportsInv, NEW c \in Callers, DispatchToWorkflow(c),
         execution[c].command.input.operation \in {"INSPECT", "REPORT"}
  PROVE  ReportsInv'
<1> DEFINE response == [status |-> "OK", version |-> workflow.version]
<1>1. DispatchRead(c, execution[c].command.input)
  BY DEF DispatchToWorkflow
<1>2. CASE DispatchFails(c) /\ UNCHANGED <<workflow, lifecycleRecords>>
  BY <1>2, RefusalKeepsReports
<1>3. CASE Dispatched(c, response) /\ UNCHANGED <<workflow, lifecycleRecords>>
  <2>1. c \notin Operator
    BY DEF ReportsInv, OwnCommands, DispatchToWorkflow, ControlStatus
  <2>2. workflow' \in WorkflowRecord /\ lifecycleRecords \subseteq lifecycleRecords'
    BY <1>3 DEF ReportsInv
  <2>3. \A r, s \in lifecycleRecords' : r.id = s.id => r = s
    BY <1>3 DEF ReportsInv, ControlsAreRecorded
  <2>4. response.version \in 0..MaxVersion
    BY DEF ReportsInv, WorkflowRecord
  <2> HIDE DEF response
  <2> QED
    BY <1>3, <2>1, <2>2, <2>3, <2>4, DispatchedKeepsReports
<1> QED
  BY <1>1, <1>2, <1>3 DEF DispatchRead

LEMMA BoundaryKeepsReports ==
  ASSUME ReportsInv, NEW c \in Callers, BoundaryStep(c), UNCHANGED <<workflow, lifecycleRecords>>
  PROVE  ReportsInv'
<1>1. c \in Caller
  BY ReportsAssumption DEF Callers
<1>2. BoundaryInv'
  BY <1>1, BoundaryStepKeeps DEF ReportsInv
<1>3. execution[c].step # "NONE"
  BY DEF BoundaryStep, LookUp, InsertReceipt
<1>4. PICK e : /\ e.step \in {"ANSWERED", "REFUSED", "DISPATCH"}
               /\ e.command = execution[c].command
               /\ execution' = [execution EXCEPT ![c] = e]
  <2>1. \/ \E r : execution' = [execution EXCEPT ![c] = Answered(c, r)]
        \/ execution' = [execution EXCEPT ![c] = Refused(c)]
        \/ execution' = [execution EXCEPT ![c].step = "DISPATCH"]
    BY DEF BoundaryStep, LookUp, InsertReceipt, Replay
  <2>2. /\ \A r : Answered(c, r).step = "ANSWERED" /\ Answered(c, r).command = execution[c].command
        /\ Refused(c).step = "REFUSED" /\ Refused(c).command = execution[c].command
    BY <1>1, <1>3, ExecutionMoves DEF ReportsInv, BoundaryInv
  <2>3. /\ Dispatching(c).step = "DISPATCH" /\ Dispatching(c).command = execution[c].command
        /\ [execution EXCEPT ![c].step = "DISPATCH"] = [execution EXCEPT ![c] = Dispatching(c)]
    BY <1>1, <1>3, DispatchMoves DEF ReportsInv, BoundaryInv
  <2> QED
    BY <2>1, <2>2, <2>3
<1>5. \A d \in Callers : execution'[d] = IF d = c THEN e ELSE execution[d]
  BY <1>4, CallerOnly
<1>6. OwnCommands'
  BY <1>3, <1>4, SameCommand
<1>7. workflow' \in WorkflowRecord
  BY DEF ReportsInv
<1>8. CASE UNCHANGED commandReceipts
  BY <1>2, <1>4, <1>5, <1>6, <1>7, <1>8, CallersKeepReports
<1>9. CASE /\ execution[c].step = "INSERT"
           /\ commandReceipts' = commandReceipts \union
                {[id |-> execution[c].command.id, input |-> execution[c].command.input,
                  response |-> execution[c].response]}
  <2> DEFINE r == [id |-> execution[c].command.id, input |-> execution[c].command.input,
                   response |-> execution[c].response]
  <2>1. /\ r.id = execution[c].command.id /\ r.input = execution[c].command.input
        /\ r.response = execution[c].response
        /\ commandReceipts' = commandReceipts \union {r}
    BY <1>9
  <2> HIDE DEF r
  <2>2. r.id \in ControlId => RecordedAs(lifecycleRecords, r.id, r.input)
    BY <1>3, <1>9, <2>1, ReportsAssumption DEF ReportsInv, OwnCommands, ControlsAreRecorded, Callers
  <2>3. ControlsAreRecorded'
    BY <1>4, <1>5, <2>1, <2>2 DEF ReportsInv, ControlsAreRecorded, Callers
  <2>4. r.input = InspectWorkflow => r.response.version \in 0..MaxVersion
    BY <1>9, <2>1 DEF ReportsInv, InspectionsAreTyped, Callers
  <2>5. InspectionsAreTyped'
    BY <1>4, <1>5, <2>1, <2>4 DEF ReportsInv, InspectionsAreTyped, Callers
  <2> QED
    BY <1>2, <1>6, <1>7, <2>3, <2>5 DEF ReportsInv
<1> QED
  BY <1>1, <1>8, <1>9, InsertReceiptActs DEF ReportsInv

LEMMA ReportContinuesKeeps ==
  ASSUME ReportsInv, ReportContinues
  PROVE  ReportsInv'
<1> USE ReportsAssumption
<1> DEFINE done == execution[Reporter]
           command == [id |-> <<"report", done.response.version>>,
                       input |-> GetReport(done.response.version)]
<1>1. Reporter \in Callers /\ Reporter \in Caller /\ Reporter \notin Operator
  BY DEF Callers
<1>2. UNCHANGED <<commandReceipts, workflow, lifecycleRecords>>
  BY DEF ReportContinues
<1>3. CASE execution' = [execution EXCEPT ![Reporter] = NoExecution]
  BY <1>1, <1>2, <1>3, CallerEnds
<1>4. CASE /\ done.step = "ANSWERED" /\ done.command.input = InspectWorkflow
           /\ Execute(Reporter, command)
  <2>1. done.response.version \in 0..MaxVersion
    <3>1. [id |-> done.command.id, input |-> done.command.input, response |-> done.response]
            \in commandReceipts
      BY <1>1, <1>4 DEF ReportsInv, BoundaryInv, OneAnswer, Receipts
    <3> DEFINE r == [id |-> done.command.id, input |-> done.command.input, response |-> done.response]
    <3>2. r \in commandReceipts /\ r.input = InspectWorkflow /\ r.response = done.response
      BY <1>4, <3>1
    <3> HIDE DEF r, done
    <3> QED
      BY <3>2 DEF ReportsInv, InspectionsAreTyped
  <2> DEFINE version == done.response.version
  <2>2. <<"report", version>> \notin ControlId
    <3> HIDE DEF version, done
    <3> QED
      BY <2>1, IdentifiersAreApart DEF version
  <2>3. command.id = <<"report", version>> /\ command.input = GetReport(version)
    OBVIOUS
  <2>4. GetReport(version).operation = "REPORT"
    BY DEF GetReport
  <2> HIDE DEF command
  <2> QED
    BY <1>1, <1>2, <1>4, <2>2, <2>3, <2>4, CallerStarts
<1> QED
  BY <1>2, <1>3, <1>4 DEF ReportContinues

LEMMA ReportsStepKeeps == ReportsInv /\ [ReportsNext]_reportVars => ReportsInv'
<1> SUFFICES ASSUME ReportsInv, [ReportsNext]_reportVars PROVE ReportsInv'
  OBVIOUS
<1> USE ReportsAssumption DEF Callers
<1>1. ASSUME UNCHANGED <<execution, commandReceipts, lifecycleRecords>>, workflow' \in WorkflowRecord
      PROVE  ReportsInv'
  <2>1. BoundaryInv'
    BY <1>1 DEF ReportsInv, BoundaryInv, Underway, IsExecution, ReceiptsAreUnique, IsReceipt,
                OneAnswer, Receipts
  <2>2. OwnCommands'
    BY <1>1 DEF ReportsInv, OwnCommands
  <2> QED
    BY <1>1, <2>1, <2>2, CallersKeepReports
<1>2. CASE WorkflowAdvances
  <2>1. workflow \in WorkflowRecord /\ workflow.version < MaxVersion
    BY <1>2 DEF ReportsInv, WorkflowAdvances
  <2>2. workflow' = [workflow EXCEPT !.version = workflow.version + 1]
    BY <1>2 DEF WorkflowAdvances
  <2>3. workflow' \in WorkflowRecord
    BY <2>1, <2>2 DEF WorkflowRecord
  <2> QED
    BY <1>1, <1>2, <2>3 DEF WorkflowAdvances, boundaryVars
<1>3. ASSUME NEW c \in Operator, OperatorSends(c)
      PROVE  ReportsInv'
  <2>1. PICK id \in ControlId, action \in DOMAIN ControlStatus, version \in 0..MaxVersion - 1 :
          Execute(c, [id |-> id, input |-> Control(action, version)])
    BY <1>3 DEF OperatorSends
  <2> DEFINE command == [id |-> id, input |-> Control(action, version)]
  <2>2. command.id \in ControlId /\ command.input.operation \in DOMAIN ControlStatus
    BY DEF Control
  <2>3. UNCHANGED <<commandReceipts, workflow, lifecycleRecords>> /\ c # Reporter
    BY <1>3 DEF OperatorSends
  <2> HIDE DEF command
  <2> QED
    BY <2>1, <2>2, <2>3, CallerStarts DEF command
<1>4. ASSUME NEW c \in Callers, OperatorIsAnswered(c) \/ CallerCrashes(c)
      PROVE  ReportsInv'
  BY <1>4, CallerEnds DEF OperatorIsAnswered, CallerCrashes
<1>5. CASE SendReport
  <2> DEFINE command == [id |-> <<"inspect">>, input |-> InspectWorkflow]
  <2>1. command.id \notin ControlId /\ command.input.operation = "INSPECT"
    BY IdentifiersAreApart DEF InspectWorkflow
  <2>2. Execute(Reporter, command) /\ UNCHANGED <<commandReceipts, workflow, lifecycleRecords>>
    BY <1>5 DEF SendReport
  <2> HIDE DEF command
  <2> QED
    BY <2>1, <2>2, CallerStarts
<1>6. CASE ReportContinues
  BY <1>6, ReportContinuesKeeps
<1>7. ASSUME NEW c \in Callers, DispatchToWorkflow(c)
      PROVE  ReportsInv'
  BY <1>7, DispatchReadKeeps, ControlWorkflowKeeps
<1>8. ASSUME NEW c \in Callers, BoundaryStep(c), UNCHANGED <<workflow, lifecycleRecords, reportStops>>
      PROVE  ReportsInv'
  BY <1>8, BoundaryKeepsReports
<1>9. CASE UNCHANGED reportVars
  BY <1>1, <1>9 DEF reportVars, boundaryVars, ReportsInv
<1> QED
  BY <1>2, <1>3, <1>4, <1>5, <1>6, <1>7, <1>8, <1>9 DEF ReportsNext

\* A control is recorded with its workflow before its command is answered, under
\* one input, and only its own command bears its identifier (controlWorkflow).
THEOREM ReportsInvariant == ReportsSpec => []ReportsInv
BY ReportsInitInv, ReportsStepKeeps, PTL DEF ReportsSpec

\* A control that was applied is never refused to one who sends the same command
\* again (ControlsAreReplayed).
THEOREM ControlsAreReplayedHolds == ReportsSpec => ControlsAreReplayed
<1> DEFINE Replayed ==
      \A c \in Operator : execution[c].step # "REFUSED" /\ execution'[c].step = "REFUSED" =>
        \A r \in Recorded(execution[c].command.id) : r.input # execution[c].command.input
<1>1. ASSUME ReportsInv, [ReportsNext]_reportVars PROVE [Replayed]_reportVars
  <2> SUFFICES ASSUME ReportsNext, NEW c \in Operator,
                      execution[c].step # "REFUSED", execution'[c].step = "REFUSED",
                      NEW r \in Recorded(execution[c].command.id)
               PROVE  r.input # execution[c].command.input
    BY <1>1
  <2> USE ReportsAssumption
  <2>1. \A d \in Caller : \A e : execution' = [execution EXCEPT ![d] = e] =>
          execution'[c] = IF c = d THEN e ELSE execution[c]
    BY <1>1 DEF ReportsInv, BoundaryInv, Underway
  <2>2. ASSUME NEW d \in Caller, NEW e, e.step # "REFUSED", execution' = [execution EXCEPT ![d] = e]
        PROVE  FALSE
    BY <2>1, <2>2
  <2>3. ASSUME NEW d \in Caller, NEW command, Execute(d, command) PROVE FALSE
    <3>1. Execution(command).step = "LOOKUP" /\ execution' = [execution EXCEPT ![d] = Execution(command)]
      BY <2>3, StartsAndEnds DEF Execute
    <3> QED
      BY <2>2, <3>1
  <2>4. ASSUME NEW d \in Caller, execution' = [execution EXCEPT ![d] = NoExecution] PROVE FALSE
    BY <2>2, <2>4, StartsAndEnds
  <2>5. UNCHANGED execution => FALSE
    OBVIOUS
  <2>6. ~WorkflowAdvances /\ ~SendReport
    BY <2>3, <2>5 DEF WorkflowAdvances, SendReport, boundaryVars
  <2>7. ~ReportContinues
    BY <2>3, <2>4 DEF ReportContinues
  <2>8. \A d \in Operator : ~OperatorSends(d) /\ ~OperatorIsAnswered(d)
    BY <2>3, <2>4 DEF OperatorSends, OperatorIsAnswered
  <2>9. \A d \in Operator \union {Reporter} : ~CallerCrashes(d)
    BY <2>4 DEF CallerCrashes
  <2>10. PICK d \in Operator \union {Reporter} :
           DispatchToWorkflow(d) \/ BoundaryStep(d)
    BY <2>6, <2>7, <2>8, <2>9 DEF ReportsNext
  <2>11. d = c /\ execution[c].step # "NONE"
    <3>1. execution[d].step # "NONE"
      BY <2>10 DEF DispatchToWorkflow, BoundaryStep, LookUp, InsertReceipt
    <3>2. \E e : execution' = [execution EXCEPT ![d] = e]
      <4>1. CASE BoundaryStep(d)
        <5>1. CASE execution' = [execution EXCEPT ![d].step = "DISPATCH"]
          BY <1>1, <3>1, <5>1, DispatchMoves DEF ReportsInv, BoundaryInv
        <5> QED
          BY <4>1, <5>1 DEF BoundaryStep, LookUp, InsertReceipt, Replay
      <4>2. CASE DispatchToWorkflow(d)
        <5>1. DispatchFails(d) \/ \E response : Dispatched(d, response)
          BY <4>2 DEF DispatchToWorkflow, DispatchRead, ControlWorkflow
        <5>2. CASE DispatchFails(d)
          BY <5>2 DEF DispatchFails
        <5>3. ASSUME NEW response, Dispatched(d, response)
              PROVE  \E e : execution' = [execution EXCEPT ![d] = e]
          BY <1>1, <5>3, DispatchedMoves DEF ReportsInv, BoundaryInv
        <5> QED
          BY <5>1, <5>2, <5>3
      <4> QED
        BY <2>10, <4>1, <4>2
    <3>3. d = c
      BY <2>1, <3>2
    <3> QED
      BY <3>1, <3>3
  <2>12. execution[c].command.id \in ControlId
         /\ execution[c].command.input.operation \in DOMAIN ControlStatus
    BY <1>1, <2>11 DEF ReportsInv, OwnCommands
  <2>13. \A s \in lifecycleRecords : s.id = execution[c].command.id => s = r
    BY <1>1 DEF ReportsInv, ControlsAreRecorded, Recorded
  <2>14. CASE DispatchToWorkflow(c)
    <3>1. \A response : ~Dispatched(c, response)
      <4> SUFFICES ASSUME NEW response, Dispatched(c, response) PROVE FALSE
        OBVIOUS
      <4>1. PICK e : e.step = "INSERT" /\ execution' = [execution EXCEPT ![c] = e]
        BY <1>1, DispatchedMoves DEF ReportsInv, BoundaryInv
      <4> QED
        BY <2>2, <4>1
    <3>2. ControlWorkflow(c, execution[c].command.id, execution[c].command.input)
      BY <2>12, <2>14 DEF DispatchToWorkflow, ControlStatus
    <3>3. PICK record \in Recorded(execution[c].command.id) : record.input # execution[c].command.input
      BY <3>1, <3>2 DEF ControlWorkflow
    <3> QED
      BY <2>13, <3>3 DEF Recorded
  <2>15. CASE BoundaryStep(c)
    <3>1. Replay(c)
      <4>1. execution' # [execution EXCEPT ![c].step = "DISPATCH"]
        <5>1. /\ Dispatching(c).step = "DISPATCH"
              /\ [execution EXCEPT ![c].step = "DISPATCH"] = [execution EXCEPT ![c] = Dispatching(c)]
          BY <1>1, <2>11, DispatchMoves DEF ReportsInv, BoundaryInv
        <5> QED
          BY <2>2, <5>1
      <4>2. execution' # [execution EXCEPT ![c] = Answered(c, execution[c].response)]
        BY <1>1, <2>2, <2>11, ExecutionMoves DEF ReportsInv, BoundaryInv
      <4> QED
        BY <2>15, <4>1, <4>2 DEF BoundaryStep, LookUp, InsertReceipt
    <3>2. PICK stored \in Receipts(execution[c].command.id) :
            execution' = [execution EXCEPT ![c] =
              IF stored.input = execution[c].command.input
                THEN Answered(c, stored.response) ELSE Refused(c)]
      BY <3>1 DEF Replay
    <3>3. stored.input # execution[c].command.input
      BY <1>1, <2>2, <2>11, <3>2, ExecutionMoves DEF ReportsInv, BoundaryInv
    <3>4. RecordedAs(lifecycleRecords, stored.id, stored.input) /\ stored.id = execution[c].command.id
      BY <1>1, <2>12, <3>2 DEF ReportsInv, ControlsAreRecorded, Receipts
    <3> QED
      BY <2>13, <3>3, <3>4 DEF RecordedAs
  <2> QED
    BY <2>10, <2>11, <2>14, <2>15
<1>2. ReportsSpec => [][Replayed]_reportVars
  BY <1>1, ReportsInvariant, PTL DEF ReportsSpec
<1> QED
  BY <1>2 DEF ControlsAreReplayed

-----------------------------------------------------------------------------
(* The events on their way to the pages of the Command Center: each page   *)
(* is led forward by its frames, from what it has seen to the cursor that  *)
(* the server keeps for it.                                                *)

\* Only an event and a reset have a number of their own.
EventFrame == {f \in [kind : FrameKind, id : Nat] : f.kind \in {"EVENT", "RESET"} \/ f.id = 0}
StreamRequest == [at : {"NONE", "WINDOW", "REPLAY"}, requested : Nat, cursor : Nat, high : Nat, loaded : Seq(Nat)]
Source == [state : {"CLOSED", "CONNECTING", "OPEN", "WAITING", "FAILED"}, lastId : Nat]

StreamShape ==
  /\ firstEvent \in Nat \ {0} /\ lastEvent \in 0..LastEventNumber /\ firstEvent <= lastEvent + 1
  /\ server \in {"UP", "CLOSING", "DOWN"}
  /\ eventRequest \in [Page -> StreamRequest]
  /\ cursors \in [Page -> {NotJoined} \union Nat]
  /\ pump \in [at : {"IDLE", "LIST"}, after : Nat]
  /\ wire \in [Page -> Seq(EventFrame)]
  /\ eventSource \in [Page -> Source]
  /\ streamFaults \in 0..MaxStreamFaults

\* A frame that moves the page's cursor, and one that tells nothing older than what
\* a page with that cursor has.
Carries(frame) == frame.kind \in {"EVENT", "RESET"}
IsNews(frame, cursor) ==
  /\ frame.kind = "EVENT" => cursor < frame.id
  /\ frame.kind = "RESET" => cursor <= frame.id

\* The frames lead a page from one cursor to another, and never back.
Leads(frames, from, to) ==
  /\ \A i \in 1..Len(frames) : Carries(frames[i]) => IsNews(frames[i], from) /\ frames[i].id <= to
  /\ \A i, j \in 1..Len(frames) : i < j /\ Carries(frames[i]) => IsNews(frames[j], frames[i].id)

Ascends(ids, from, to) ==
  /\ \A i \in 1..Len(ids) : from < ids[i] /\ ids[i] <= to
  /\ \A i, j \in 1..Len(ids) : i < j => ids[i] < ids[j]

\* A connection is a request that is being read for, or a joined page, or neither.
RequestIsSound(request, source, last) ==
  /\ request.at # "NONE" /\ request.requested = source.lastId
  /\ request.at = "WINDOW" => request.loaded = <<>> /\ request.cursor = 0 /\ request.high = 0
  /\ request.at = "REPLAY" =>
       /\ request.requested <= request.cursor /\ request.cursor <= last
       /\ request.requested <= request.high /\ request.high <= last
       /\ Len(request.loaded) <= MaxReplay
       /\ Ascends(request.loaded, request.requested, request.cursor)

PageIsSound(request, cursor, frames, source, last) ==
  /\ source.lastId <= last /\ Leads(frames, source.lastId, last)
  /\ Len(frames) <= MaxBuffer + 1
  /\ cursor # NotJoined =>
       /\ source.lastId <= cursor /\ cursor <= last /\ Leads(frames, source.lastId, cursor)
       /\ Len(frames) <= MaxBuffer
  /\ request # NoRequest =>
       RequestIsSound(request, source, last) /\ cursor = NotJoined /\ frames = <<>>
  /\ source.state = "CLOSED" => request = NoRequest /\ cursor = NotJoined /\ frames = <<>>

StreamInv ==
  /\ StreamShape
  /\ \A p \in Page : PageIsSound(eventRequest[p], cursors[p], wire[p], eventSource[p], lastEvent)

LEMMA OfTwo ==
  ASSUME NEW low \in Int, NEW high \in Int
  PROVE  /\ Max({low, high}) \in {low, high} /\ Max({low, high}) >= low /\ Max({low, high}) >= high
         /\ Min({low, high}) \in {low, high} /\ Min({low, high}) <= low /\ Min({low, high}) <= high
<1>1. \E x \in {low, high} : \A y \in {low, high} : x >= y
  BY low >= high \/ high >= low
<1>2. \E x \in {low, high} : \A y \in {low, high} : x =< y
  BY low <= high \/ high <= low
<1>3. Max({low, high}) \in {low, high} /\ \A y \in {low, high} : Max({low, high}) >= y
  BY <1>1 DEF Max
<1>4. Min({low, high}) \in {low, high} /\ \A y \in {low, high} : Min({low, high}) =< y
  BY <1>2 DEF Min
<1> QED
  BY <1>3, <1>4

\* The least of some cursors is one of them.
LEMMA LeastCursor ==
  ASSUME NEW n \in Nat, NEW S \in SUBSET (0..n), S # {}
  PROVE  Min(S) \in S
<1> DEFINE Below(high) == {c \in S : c <= high}
           Sets == {Below(high) : high \in S}
<1>0. \A high \in S : high \in Int
  OBVIOUS
<1>1. IsFiniteSet(S)
  <2>1. IsFiniteSet(0..n)
    BY FS_Interval
  <2> QED
    BY <2>1, FS_Subset
<1>2. IsWellFoundedOn(StrictSubsetOrdering(S), SUBSET S)
  BY <1>1, FS_StrictSubsetOrderingWellFounded, FS_FiniteSubsetsOfFinite
<1>3. Sets \subseteq SUBSET S /\ Sets # {}
  OBVIOUS
<1>4. PICK T \in Sets : \A U \in Sets : ~(<<U, T>> \in StrictSubsetOrdering(S))
  <2> HIDE DEF Sets
  <2> QED
    BY <1>2, <1>3, WFMin
<1>5. PICK least \in S : T = Below(least)
  BY <1>4
<1>6. ASSUME NEW high \in S, high < least PROVE FALSE
  <2>0. high \in Int /\ least \in Int /\ ~(least <= high) /\ least <= least /\ \A c \in S : c <= high => c <= least
    BY <1>0, <1>6
  <2>1. Below(high) \subseteq Below(least) /\ least \notin Below(high) /\ least \in Below(least)
    BY ONLY <2>0, least \in S
  <2>2. Below(high) \in SUBSET S /\ Below(least) \in SUBSET S
    OBVIOUS
  <2>3. <<Below(high), Below(least)>> \in StrictSubsetOrdering(S)
    <3> HIDE DEF Below
    <3> QED
      BY <2>1, <2>2 DEF StrictSubsetOrdering
  <2> QED
    BY <1>4, <1>5, <2>3
<1>7. \A high \in S : least =< high
  BY <1>0, <1>6
<1> QED
  BY <1>7 DEF Min

LEMMA EventsInOrder ==
  ASSUME NEW from \in Nat, NEW to \in Int
  PROVE  /\ EventsOf(from, to) \in Seq(Nat)
         /\ Len(EventsOf(from, to)) = IF from <= to THEN to - from + 1 ELSE 0
         /\ \A i \in 1..Len(EventsOf(from, to)) : EventsOf(from, to)[i] = from + i - 1
<1> DEFINE n == IF from <= to THEN to - from + 1 ELSE 0
           s == [i \in 1..n |-> from + i - 1]
<1>1. n \in Nat /\ 1..n = 1..(to - from + 1)
  OBVIOUS
<1>2. EventsOf(from, to) = s
  BY <1>1 DEF EventsOf
<1>3. s \in [1..n -> Nat]
  <2>1. \A i \in 1..n : from + i - 1 \in Nat
    BY <1>1
  <2> HIDE DEF n
  <2> QED
    BY <2>1
<1>4. s \in Seq(Nat)
  <2> HIDE DEF n, s
  <2> QED
    BY <1>1, <1>3, SeqDef
<1>5. Len(s) = n
  <2>1. DOMAIN s = 1..n
    OBVIOUS
  <2>2. Len(s) \in Nat /\ DOMAIN s = 1..Len(s)
    BY <1>4, LenProperties
  <2> HIDE DEF s, n
  <2> QED
    BY <1>1, <2>1, <2>2
<1>6. \A i \in 1..n : s[i] = from + i - 1
  OBVIOUS
<1> HIDE DEF s
<1> QED
  BY <1>2, <1>4, <1>5, <1>6

LEMMA FramesOfEvents ==
  ASSUME NEW ids \in Seq(Nat)
  PROVE  /\ EventFrames(ids) \in Seq(EventFrame) /\ Len(EventFrames(ids)) = Len(ids)
         /\ \A i \in 1..Len(ids) : EventFrames(ids)[i].kind = "EVENT" /\ EventFrames(ids)[i].id = ids[i]
<1> DEFINE n == Len(ids)
           s == [i \in 1..n |-> Frame("EVENT", ids[i])]
<1>1. n \in Nat /\ \A i \in 1..n : ids[i] \in Nat
  BY LenProperties, ElementOfSeq
<1>2. EventFrames(ids) = s
  BY DEF EventFrames
<1>3. \A i \in 1..n : Frame("EVENT", ids[i]) \in EventFrame
  BY <1>1 DEF Frame, EventFrame, FrameKind
<1>4. s \in [1..n -> EventFrame]
  <2> HIDE DEF n
  <2> QED
    BY <1>3
<1>5. s \in Seq(EventFrame)
  <2> HIDE DEF n, s
  <2> QED
    BY <1>1, <1>4, SeqDef
<1>6. Len(s) = n
  <2>1. DOMAIN s = 1..n
    OBVIOUS
  <2>2. Len(s) \in Nat /\ DOMAIN s = 1..Len(s)
    BY <1>5, LenProperties
  <2> HIDE DEF s, n
  <2> QED
    BY <1>1, <2>1, <2>2
<1>7. \A i \in 1..n : s[i].kind = "EVENT" /\ s[i].id = ids[i]
  BY DEF Frame
<1> HIDE DEF s
<1> QED
  BY <1>2, <1>5, <1>6, <1>7

\* Frames that lead on from where the others have led.
LEMMA LeadsOn ==
  ASSUME NEW s \in Seq(EventFrame), NEW t \in Seq(EventFrame), NEW low \in Nat, NEW high \in Nat, NEW c \in Nat,
         low <= high, high <= c, Leads(s, low, high), Leads(t, high, c)
  PROVE  s \o t \in Seq(EventFrame) /\ Leads(s \o t, low, c)
<1> DEFINE w == s \o t
           n == Len(s)
<1>1. /\ w \in Seq(EventFrame) /\ Len(w) = n + Len(t) /\ n \in Nat /\ Len(t) \in Nat
      /\ \A i \in 1..Len(w) : w[i] = IF i <= n THEN s[i] ELSE t[i - n]
  BY ConcatProperties, LenProperties
<1>2. \A i \in 1..n : s[i].id \in Nat
  <2>1. \A i \in 1..n : s[i] \in EventFrame
    BY ElementOfSeq
  <2> QED
    BY <2>1 DEF EventFrame
<1>3. \A i \in 1..Len(t) : t[i].id \in Nat
  <2>1. \A i \in 1..Len(t) : t[i] \in EventFrame
    BY ElementOfSeq
  <2> QED
    BY <2>1 DEF EventFrame
<1> HIDE DEF w, n
<1>4. ASSUME NEW i \in 1..n, Carries(s[i]) PROVE IsNews(s[i], low) /\ s[i].id <= high
  BY <1>4 DEF Leads, n
<1>5. ASSUME NEW i \in 1..Len(t), Carries(t[i]) PROVE IsNews(t[i], high) /\ t[i].id <= c
  BY <1>5 DEF Leads
<1>6. ASSUME NEW f \in EventFrame, NEW x \in Nat, NEW y \in Nat, x <= y, IsNews(f, y) PROVE IsNews(f, x)
  <2>1. f.id \in Nat
    BY DEF EventFrame
  <2> QED
    BY <1>6, <2>1 DEF IsNews
<1>7. \A i \in 1..Len(t) : IsNews(t[i], high)
  BY <1>5 DEF Carries, IsNews
<1>8. ASSUME NEW i \in 1..Len(w), Carries(w[i]) PROVE IsNews(w[i], low) /\ w[i].id <= c
  <2>1. CASE i <= n
    <3>1. i \in 1..n /\ w[i] = s[i]
      BY <1>1, <2>1
    <3> QED
      BY <1>2, <1>4, <1>8, <3>1
  <2>2. CASE ~(i <= n)
    <3>1. i - n \in 1..Len(t) /\ w[i] = t[i - n]
      BY <1>1, <2>2
    <3>2. t[i - n] \in EventFrame
      BY <3>1, ElementOfSeq
    <3> QED
      BY <1>5, <1>6, <1>8, <3>1, <3>2
  <2> QED
    BY <2>1, <2>2
<1>9. ASSUME NEW i \in 1..Len(w), NEW j \in 1..Len(w), i < j, Carries(w[i]) PROVE IsNews(w[j], w[i].id)
  <2>1. CASE j <= n
    <3>1. i \in 1..n /\ j \in 1..n /\ w[i] = s[i] /\ w[j] = s[j]
      BY <1>1, <1>9, <2>1
    <3> QED
      BY <1>9, <3>1 DEF Leads, n
  <2>2. CASE i <= n /\ ~(j <= n)
    <3>1. i \in 1..n /\ w[i] = s[i] /\ j - n \in 1..Len(t) /\ w[j] = t[j - n]
      BY <1>1, <2>2
    <3>2. s[i].id \in Nat /\ s[i].id <= high
      BY <1>2, <1>4, <1>9, <3>1
    <3>3. t[j - n] \in EventFrame /\ IsNews(t[j - n], high)
      BY <1>7, <3>1, ElementOfSeq
    <3> QED
      BY <1>6, <3>1, <3>2, <3>3
  <2>3. CASE ~(i <= n)
    <3>0. Len(w) = n + Len(t) /\ n \in Nat /\ Len(t) \in Nat /\ i < j
      BY <1>1, <1>9
    <3>1. /\ i - n \in 1..Len(t) /\ j - n \in 1..Len(t) /\ i - n < j - n
          /\ ~(i <= n) /\ ~(j <= n)
      BY ONLY <2>3, <3>0, i \in 1..Len(w), j \in 1..Len(w)
    <3>2. w[i] = t[i - n] /\ w[j] = t[j - n]
      BY <1>1, <3>1
    <3> QED
      BY <1>9, <3>1, <3>2 DEF Leads
  <2> QED
    BY <2>1, <2>2, <2>3
<1>10. Leads(w, low, c)
  BY <1>8, <1>9 DEF Leads
<1> QED
  BY <1>1, <1>10 DEF w

LEMMA LeadsWider ==
  ASSUME NEW s \in Seq(EventFrame), NEW low \in Nat, NEW high \in Nat, NEW c \in Nat, high <= c, Leads(s, low, high)
  PROVE  Leads(s, low, c)
<1>1. \A i \in 1..Len(s) : s[i].id \in Nat
  <2>1. \A i \in 1..Len(s) : s[i] \in EventFrame
    BY ElementOfSeq
  <2> QED
    BY <2>1 DEF EventFrame
<1>2. \A i \in 1..Len(s) : s[i].id <= high => s[i].id <= c
  BY <1>1
<1> QED
  BY <1>2 DEF Leads

LEMMA LeadsPrefix ==
  ASSUME NEW s \in Seq(EventFrame), NEW low, NEW high, NEW n \in Int, n <= Len(s), Leads(s, low, high)
  PROVE  /\ SubSeq(s, 1, n) \in Seq(EventFrame) /\ Leads(SubSeq(s, 1, n), low, high)
         /\ Len(SubSeq(s, 1, n)) = IF 1 <= n THEN n ELSE 0
         /\ \A i \in 1..n : SubSeq(s, 1, n)[i] = s[i]
<1> DEFINE w == SubSeq(s, 1, n)
<1>1. Len(s) \in Nat /\ \A i \in 1..n : s[i] \in EventFrame
  BY LenProperties, ElementOfSeq
<1>2. w \in Seq(EventFrame) /\ Len(w) = (IF 1 <= n THEN n - 1 + 1 ELSE 0) /\ \A i \in 1..(n - 1 + 1) : w[i] = s[1 + i - 1]
  BY <1>1, SubSeqProperties
<1> HIDE DEF w
<1>3. Len(w) = (IF 1 <= n THEN n ELSE 0) /\ \A i \in 1..n : w[i] = s[i]
  BY <1>2
<1>4. \A i \in 1..Len(w) : i \in 1..Len(s) /\ w[i] = s[i]
  BY <1>1, <1>3
<1>5. Leads(w, low, high)
  BY <1>4 DEF Leads
<1> QED
  BY <1>2, <1>3, <1>5 DEF w

\* What is left of the frames when the first has been received.
LEMMA LeadsTail ==
  ASSUME NEW s \in Seq(EventFrame), s # <<>>, NEW low, NEW high, Leads(s, low, high)
  PROVE  /\ Tail(s) \in Seq(EventFrame) /\ Len(Tail(s)) = Len(s) - 1 /\ Head(s) \in EventFrame
         /\ Leads(Tail(s), IF Carries(Head(s)) THEN Head(s).id ELSE low, high)
         /\ Carries(Head(s)) => IsNews(Head(s), low) /\ Head(s).id <= high
<1> DEFINE w == Tail(s)
<1>1. /\ w \in Seq(EventFrame) /\ Len(w) = Len(s) - 1 /\ Head(s) \in EventFrame
      /\ \A i \in 1..Len(w) : w[i] = s[i + 1]
  BY HeadTailProperties
<1>2. Len(s) \in Nat \ {0} /\ Head(s) = s[1]
  BY EmptySeq
<1> HIDE DEF w
<1>3. 1 \in 1..Len(s) /\ \A i \in 1..Len(w) : i + 1 \in 1..Len(s) /\ 1 < i + 1 /\ w[i] = s[i + 1]
  BY <1>1, <1>2
<1>4. Carries(s[1]) => IsNews(s[1], low) /\ s[1].id <= high /\ \A i \in 1..Len(w) : IsNews(w[i], s[1].id)
  BY <1>3 DEF Leads
<1>5. \A i, j \in 1..Len(w) : i < j => i + 1 < j + 1
  BY <1>1, <1>2
<1>6. Leads(w, IF Carries(s[1]) THEN s[1].id ELSE low, high)
  BY <1>3, <1>4, <1>5 DEF Leads
<1> QED
  BY <1>1, <1>2, <1>4, <1>6 DEF w

LEMMA EventsLead ==
  ASSUME NEW ids \in Seq(Nat), NEW low \in Nat, NEW high \in Nat, Ascends(ids, low, high)
  PROVE  Leads(EventFrames(ids), low, high)
<1>1. /\ EventFrames(ids) \in Seq(EventFrame) /\ Len(EventFrames(ids)) = Len(ids)
      /\ \A i \in 1..Len(ids) : EventFrames(ids)[i].kind = "EVENT" /\ EventFrames(ids)[i].id = ids[i]
  BY FramesOfEvents
<1> QED
  BY <1>1 DEF Leads, Ascends, IsNews

\* One frame, or none.
LEMMA OneLeads ==
  ASSUME NEW low, NEW high
  PROVE  /\ Leads(<<>>, low, high) /\ <<>> \in Seq(EventFrame) /\ Len(<<>>) = 0
         /\ \A f \in EventFrame :
              /\ <<f>> \in Seq(EventFrame) /\ Len(<<f>>) = 1 /\ <<f>>[1] = f
              /\ (Carries(f) => IsNews(f, low) /\ f.id <= high) => Leads(<<f>>, low, high)
  BY DEF Leads

-----------------------------------------------------------------------------
(* One page. *)

LEMMA StreamBounds ==
  /\ ConnectionLimit \in Nat \ {0} /\ EventBatch \in Nat \ {0} /\ MaxReplay \in Nat \ {0}
  /\ MaxBuffer \in Nat \ {0} /\ RetainNewest \in Nat \ {0}
  /\ LastEventNumber \in Nat /\ MaxStreamFaults \in Nat
  BY StreamAssumption

\* What a read of the events brings ascends from the cursor to the last of them.
LEMMA EventsAfterAscend ==
  ASSUME StreamShape, NEW cursor \in Nat, NEW limit \in Nat \ {0}, NEW high, high = EventsAfter(cursor, limit)
  PROVE  /\ high \in Seq(Nat) /\ Len(high) <= limit
         /\ high # <<>> => /\ Len(high) \in 1..limit /\ high[Len(high)] \in Nat /\ high[1] \in Nat
                        /\ cursor < high[Len(high)] /\ high[Len(high)] <= lastEvent
                        /\ high[1] = Max({cursor + 1, firstEvent}) /\ high[1] <= high[Len(high)]
                        /\ Ascends(high, cursor, high[Len(high)])
<1> DEFINE from == Max({cursor + 1, firstEvent})
           to == Min({lastEvent, from + limit - 1})
<1>1. firstEvent \in Nat /\ lastEvent \in Nat
  BY StreamBounds DEF StreamShape
<1>2. from \in Nat /\ cursor < from
  <2>1. cursor + 1 \in Int /\ firstEvent \in Int
    BY <1>1
  <2>2. from \in {cursor + 1, firstEvent} /\ from >= cursor + 1
    BY <2>1, OfTwo
  <2> HIDE DEF from
  <2> QED
    BY <1>1, <2>2
<1> HIDE DEF from
<1>3. to \in Int /\ to <= lastEvent /\ to <= from + limit - 1
  <2>1. lastEvent \in Int /\ from + limit - 1 \in Int
    BY <1>1, <1>2
  <2>2. to \in {lastEvent, from + limit - 1} /\ to <= lastEvent /\ to <= from + limit - 1
    BY <2>1, OfTwo
  <2> HIDE DEF to
  <2> QED
    BY <2>1, <2>2
<1>4. high = EventsOf(from, to)
  BY DEF EventsAfter, from
<1> HIDE DEF to
<1>5. /\ high \in Seq(Nat) /\ Len(high) = (IF from <= to THEN to - from + 1 ELSE 0)
      /\ \A i \in 1..Len(high) : high[i] = from + i - 1
  <2>1. from \in Nat /\ to \in Int
    BY <1>2, <1>3
  <2>2. /\ EventsOf(from, to) \in Seq(Nat)
        /\ Len(EventsOf(from, to)) = (IF from <= to THEN to - from + 1 ELSE 0)
        /\ \A i \in 1..Len(EventsOf(from, to)) : EventsOf(from, to)[i] = from + i - 1
    BY <2>1, EventsInOrder
  <2> QED
    BY ONLY <1>4, <2>2
<1>6. Len(high) <= limit
  BY <1>2, <1>3, <1>5
<1>7. ASSUME high # <<>>
      PROVE  /\ Len(high) \in 1..limit /\ high[Len(high)] = to /\ high[1] = from /\ from <= to
             /\ Ascends(high, cursor, to)
  <2>1. Len(high) # 0
    BY <1>5, <1>7, EmptySeq
  <2>2. from <= to /\ Len(high) = to - from + 1 /\ Len(high) \in 1..limit
    BY <1>2, <1>3, <1>5, <1>6, <2>1
  <2>3. 1 \in 1..Len(high) /\ Len(high) \in 1..Len(high)
    BY <2>2
  <2>4. high[1] = from + 1 - 1 /\ high[Len(high)] = from + Len(high) - 1
    BY <1>5, <2>3
  <2>5. high[1] = from /\ high[Len(high)] = to
    BY <1>2, <1>3, <2>2, <2>4
  <2>6. Ascends(high, cursor, to)
    BY <1>2, <1>3, <1>5, <2>2 DEF Ascends
  <2> QED
    BY <2>2, <2>5, <2>6
<1>8. high # <<>> => to \in Nat /\ cursor < to
  BY <1>2, <1>3, <1>7
<1>9. high # <<>> => /\ Len(high) \in 1..limit /\ high[Len(high)] \in Nat /\ high[1] \in Nat
                  /\ cursor < high[Len(high)] /\ high[Len(high)] <= lastEvent
                  /\ high[1] = from /\ high[1] <= high[Len(high)] /\ Ascends(high, cursor, high[Len(high)])
  <2> SUFFICES ASSUME high # <<>>
               PROVE  /\ Len(high) \in 1..limit /\ high[Len(high)] \in Nat /\ high[1] \in Nat
                      /\ cursor < high[Len(high)] /\ high[Len(high)] <= lastEvent
                      /\ high[1] = from /\ high[1] <= high[Len(high)] /\ Ascends(high, cursor, high[Len(high)])
    OBVIOUS
  <2>1. Len(high) \in 1..limit /\ high[Len(high)] = to /\ high[1] = from /\ from <= to /\ Ascends(high, cursor, to)
    BY <1>7
  <2> QED
    BY <1>2, <1>3, <1>8, <2>1
<1> QED
  BY <1>5, <1>6, <1>9 DEF from

LEMMA AscendsOn ==
  ASSUME NEW s \in Seq(Nat), NEW t \in Seq(Nat), NEW low \in Nat, NEW high \in Nat, NEW c \in Nat,
         low <= high, high <= c, Ascends(s, low, high), Ascends(t, high, c)
  PROVE  /\ s \o t \in Seq(Nat) /\ Len(s \o t) = Len(s) + Len(t) /\ Ascends(s \o t, low, c)
<1> DEFINE w == s \o t
           n == Len(s)
<1>1. /\ w \in Seq(Nat) /\ Len(w) = n + Len(t) /\ n \in Nat /\ Len(t) \in Nat
      /\ \A i \in 1..Len(w) : w[i] = IF i <= n THEN s[i] ELSE t[i - n]
  BY ConcatProperties, LenProperties
<1>2. /\ \A i \in 1..n : s[i] \in Nat /\ low < s[i] /\ s[i] <= high
      /\ \A i \in 1..Len(t) : t[i] \in Nat /\ high < t[i] /\ t[i] <= c
  BY ElementOfSeq DEF Ascends
<1>3. /\ \A i, j \in 1..n : i < j => s[i] < s[j]
      /\ \A i, j \in 1..Len(t) : i < j => t[i] < t[j]
  BY DEF Ascends
<1> HIDE DEF w, n
<1>4. ASSUME NEW i \in 1..Len(w)
      PROVE  \/ i \in 1..n /\ w[i] = s[i]
             \/ i - n \in 1..Len(t) /\ w[i] = t[i - n] /\ n < i
  BY <1>1
<1>5. ASSUME NEW i \in 1..Len(w) PROVE low < w[i] /\ w[i] <= c
  <2>1. CASE i \in 1..n /\ w[i] = s[i]
    <3>1. s[i] \in Nat /\ low < s[i] /\ s[i] <= high
      BY <1>2, <2>1
    <3> QED
      BY <2>1, <3>1
  <2>2. CASE i - n \in 1..Len(t) /\ w[i] = t[i - n]
    <3>1. t[i - n] \in Nat /\ high < t[i - n] /\ t[i - n] <= c
      BY <1>2, <2>2
    <3> QED
      BY <2>2, <3>1
  <2> QED
    BY <1>4, <2>1, <2>2
<1>6. ASSUME NEW i \in 1..Len(w), NEW j \in 1..Len(w), i < j PROVE w[i] < w[j]
  <2>1. CASE j \in 1..n /\ w[j] = s[j]
    <3>1. i \in 1..n /\ w[i] = s[i]
      BY <1>1, <1>6, <2>1
    <3> QED
      BY <1>3, <1>6, <2>1, <3>1
  <2>2. CASE j - n \in 1..Len(t) /\ w[j] = t[j - n] /\ n < j
    <3>1. CASE i \in 1..n /\ w[i] = s[i]
      BY <1>2, <2>2, <3>1
    <3>2. CASE i - n \in 1..Len(t) /\ w[i] = t[i - n] /\ n < i
      <4>1. i - n < j - n
        BY <1>1, <1>6
      <4> QED
        BY <1>3, <2>2, <3>2, <4>1
    <3> QED
      BY <1>4, <3>1, <3>2
  <2> QED
    BY <1>4, <2>1, <2>2
<1>7. Ascends(w, low, c)
  BY <1>5, <1>6 DEF Ascends
<1> QED
  BY <1>1, <1>7 DEF w, n

LEMMA FrameKinds ==
  ASSUME NEW id \in Nat
  PROVE  /\ \A kind \in {"EVENT", "RESET"} : Frame(kind, id) \in EventFrame
         /\ \A kind \in FrameKind : Frame(kind, 0) \in EventFrame
         /\ \A kind \in FrameKind : Frame(kind, id).kind = kind /\ Frame(kind, id).id = id
  BY DEF Frame, EventFrame, FrameKind

\* A frame that moves no cursor leads from anywhere to anywhere.
LEMMA IdleFrame ==
  ASSUME NEW kind \in FrameKind \ {"EVENT", "RESET"}, NEW low, NEW high
  PROVE  /\ <<Frame(kind, 0)>> \in Seq(EventFrame) /\ Len(<<Frame(kind, 0)>>) = 1
         /\ Leads(<<Frame(kind, 0)>>, low, high)
<1> DEFINE f == Frame(kind, 0)
<1>1. f \in EventFrame /\ f.kind = kind
  BY FrameKinds
<1>2. ~Carries(f)
  BY <1>1 DEF Carries
<1> HIDE DEF f
<1>3. <<f>> \in Seq(EventFrame) /\ Len(<<f>>) = 1 /\ Leads(<<f>>, low, high)
  BY <1>1, <1>2, OneLeads
<1> QED
  BY <1>3 DEF f

LEMMA ResetFrame ==
  ASSUME NEW id \in Nat, NEW low \in Nat, low <= id
  PROVE  /\ <<Frame("RESET", id)>> \in Seq(EventFrame) /\ Len(<<Frame("RESET", id)>>) = 1
         /\ Leads(<<Frame("RESET", id)>>, low, id)
<1> DEFINE f == Frame("RESET", id)
<1>1. f \in EventFrame /\ f.kind = "RESET" /\ f.id = id
  BY FrameKinds DEF FrameKind
<1>2. IsNews(f, low) /\ f.id <= id
  BY <1>1 DEF IsNews
<1> HIDE DEF f
<1>3. <<f>> \in Seq(EventFrame) /\ Len(<<f>>) = 1 /\ Leads(<<f>>, low, id)
  BY <1>1, <1>2, OneLeads
<1> QED
  BY <1>3 DEF f

\* A joined page has no request, and what is on its way leads it to its cursor.
LEMMA JoinedPage ==
  ASSUME NEW q \in StreamRequest, NEW c \in Nat, NEW w \in Seq(EventFrame), NEW s \in Source, NEW last \in Nat,
         PageIsSound(q, c, w, s, last)
  PROVE  /\ q = NoRequest /\ s.state # "CLOSED" /\ s.lastId \in Nat /\ s.lastId <= last
         /\ s.lastId <= c /\ c <= last /\ Leads(w, s.lastId, c) /\ Len(w) <= MaxBuffer
  BY DEF PageIsSound, NotJoined, Source

\* A page whose request is being read for has neither cursor nor frames.
LEMMA RequestedPage ==
  ASSUME NEW q \in StreamRequest, NEW c, NEW w, NEW s \in Source, NEW last \in Nat,
         PageIsSound(q, c, w, s, last), q # NoRequest
  PROVE  /\ RequestIsSound(q, s, last) /\ c = NotJoined /\ w = <<>> /\ s.state # "CLOSED"
         /\ s.lastId \in Nat /\ s.lastId <= last
  BY DEF PageIsSound, Source

\* A page without a connection.
LEMMA LonePage ==
  ASSUME NEW s \in Source, NEW last \in Nat, s.lastId <= last
  PROVE  PageIsSound(NoRequest, NotJoined, <<>>, s, last)
<1>1. Leads(<<>>, s.lastId, last) /\ Len(<<>>) = 0
  BY OneLeads
<1> QED
  BY <1>1, StreamBounds DEF PageIsSound

\* Frames that all fit take a page to another cursor.
LEMMA PageSent ==
  ASSUME NEW c \in Nat, NEW w \in Seq(EventFrame), NEW s \in Source, NEW last \in Nat, s.state # "CLOSED",
         s.lastId <= c, c <= last, Leads(w, s.lastId, c),
         NEW f \in Seq(EventFrame), NEW to \in Nat, c <= to, to <= last, Leads(f, c, to),
         Len(w) + Len(f) <= MaxBuffer
  PROVE  w \o f \in Seq(EventFrame) /\ PageIsSound(NoRequest, to, w \o f, s, last)
<1>1. s.lastId \in Nat /\ s.lastId <= to /\ s.lastId <= last
  BY DEF Source
<1>2. w \o f \in Seq(EventFrame) /\ Leads(w \o f, s.lastId, to)
  BY <1>1, LeadsOn
<1>3. Leads(w \o f, s.lastId, last)
  BY <1>1, <1>2, LeadsWider
<1>4. Len(w \o f) = Len(w) + Len(f) /\ Len(w) \in Nat /\ Len(f) \in Nat
  BY ConcatProperties, LenProperties
<1>5. Len(w \o f) <= MaxBuffer /\ Len(w \o f) <= MaxBuffer + 1
  BY <1>4, StreamBounds
<1> QED
  BY <1>1, <1>2, <1>3, <1>5 DEF PageIsSound

\* A page that loses its connection gets the end of the answer behind what fitted.
LEMMA PageEnded ==
  ASSUME NEW c \in Nat, NEW w \in Seq(EventFrame), NEW s \in Source, NEW last \in Nat, s.state # "CLOSED",
         s.lastId <= c, c <= last, Leads(w, s.lastId, c), Len(w) <= MaxBuffer
  PROVE  w \o Ended \in Seq(EventFrame) /\ PageIsSound(NoRequest, NotJoined, w \o Ended, s, last)
<1>1. s.lastId \in Nat /\ s.lastId <= last
  BY DEF Source
<1>2. Ended \in Seq(EventFrame) /\ Len(Ended) = 1 /\ Leads(Ended, c, c)
  BY IdleFrame DEF Ended, FrameKind
<1>3. w \o Ended \in Seq(EventFrame) /\ Leads(w \o Ended, s.lastId, c)
  BY <1>1, <1>2, LeadsOn
<1>4. Leads(w \o Ended, s.lastId, last)
  BY <1>1, <1>3, LeadsWider
<1>5. Len(w \o Ended) = Len(w) + Len(Ended) /\ Len(w) \in Nat
  BY <1>2, ConcatProperties, LenProperties
<1>6. Len(w \o Ended) <= MaxBuffer + 1
  BY <1>2, <1>5, StreamBounds
<1> QED
  BY <1>1, <1>3, <1>4, <1>6 DEF PageIsSound

\* As far as the frames fit.
LEMMA PageCut ==
  ASSUME NEW c \in Nat, NEW w \in Seq(EventFrame), NEW s \in Source, NEW last \in Nat, s.state # "CLOSED",
         s.lastId <= c, c <= last, Leads(w, s.lastId, c), Len(w) <= MaxBuffer,
         NEW f \in Seq(EventFrame), NEW to \in Nat, c <= to, to <= last, Leads(f, c, to),
         ~(Len(w) + Len(f) <= MaxBuffer)
  PROVE  LET cut == w \o SubSeq(f, 1, MaxBuffer - Len(w)) \o Ended
         IN  cut \in Seq(EventFrame) /\ PageIsSound(NoRequest, NotJoined, cut, s, last)
<1> DEFINE room == MaxBuffer - Len(w)
           piece == SubSeq(f, 1, room)
<1>1. Len(w) \in Nat /\ Len(f) \in Nat /\ MaxBuffer \in Nat
  BY LenProperties, StreamBounds
<1>2. room \in Int /\ room <= Len(f) /\ 0 <= room
  BY <1>1
<1> HIDE DEF room
<1>3. /\ piece \in Seq(EventFrame) /\ Leads(piece, c, to)
      /\ Len(piece) = IF 1 <= room THEN room ELSE 0
  BY <1>2, LeadsPrefix
<1> HIDE DEF piece
<1>4. s.lastId \in Nat /\ s.lastId <= to
  BY DEF Source
<1>5. w \o piece \in Seq(EventFrame) /\ Leads(w \o piece, s.lastId, to)
  BY <1>3, <1>4, LeadsOn
<1>6. Len(w \o piece) = Len(w) + Len(piece)
  BY <1>3, ConcatProperties
<1>7. Len(w \o piece) <= MaxBuffer
  BY <1>1, <1>2, <1>3, <1>6 DEF room
<1>8. (w \o piece) \o Ended \in Seq(EventFrame) /\ PageIsSound(NoRequest, NotJoined, (w \o piece) \o Ended, s, last)
  BY <1>4, <1>5, <1>7, PageEnded
<1> QED
  BY <1>8 DEF piece, room

\* The page takes a frame off the wire.
LEMMA PageReceives ==
  ASSUME NEW q \in StreamRequest, NEW c \in {NotJoined} \union Nat, NEW w \in Seq(EventFrame), w # <<>>,
         NEW s \in Source, NEW last \in Nat, PageIsSound(q, c, w, s, last),
         NEW t \in Source, t.state # "CLOSED",
         t.lastId = IF Carries(Head(w)) THEN Head(w).id ELSE s.lastId
  PROVE  Tail(w) \in Seq(EventFrame) /\ PageIsSound(q, c, Tail(w), t, last)
<1>1. q = NoRequest /\ s.lastId \in Nat /\ s.lastId <= last
  BY DEF PageIsSound, Source
<1>2. Leads(w, s.lastId, last) /\ Len(w) <= MaxBuffer + 1
  BY DEF PageIsSound
<1>3. /\ Tail(w) \in Seq(EventFrame) /\ Len(Tail(w)) = Len(w) - 1 /\ Head(w) \in EventFrame
      /\ Leads(Tail(w), t.lastId, last) /\ t.lastId <= last
  BY <1>1, <1>2, LeadsTail
<1>4. Len(w) \in Nat /\ MaxBuffer \in Nat
  BY LenProperties, StreamBounds
<1>5. Len(Tail(w)) <= MaxBuffer + 1
  BY <1>2, <1>3, <1>4
<1>6. ASSUME c # NotJoined
      PROVE  /\ t.lastId <= c /\ c <= last /\ Leads(Tail(w), t.lastId, c) /\ Len(Tail(w)) <= MaxBuffer
  <2>1. c \in Nat /\ s.lastId <= c /\ c <= last /\ Leads(w, s.lastId, c) /\ Len(w) <= MaxBuffer
    BY <1>6 DEF PageIsSound
  <2>2. Leads(Tail(w), t.lastId, c) /\ t.lastId <= c
    BY <2>1, LeadsTail
  <2>3. Len(Tail(w)) <= MaxBuffer
    BY <1>3, <1>4, <2>1
  <2> QED
    BY <2>1, <2>2, <2>3
<1> QED
  BY <1>1, <1>3, <1>5, <1>6 DEF PageIsSound

\* More events change nothing for a page.
LEMMA PageGrows ==
  ASSUME NEW q \in StreamRequest, NEW c \in {NotJoined} \union Nat, NEW w \in Seq(EventFrame), NEW s \in Source,
         NEW last \in Nat, PageIsSound(q, c, w, s, last)
  PROVE  PageIsSound(q, c, w, s, last + 1)
<1>1. s.lastId \in Nat /\ s.lastId <= last /\ Leads(w, s.lastId, last)
  BY DEF PageIsSound, Source
<1>2. s.lastId <= last + 1 /\ Leads(w, s.lastId, last + 1)
  <2>1. last <= last + 1 /\ last + 1 \in Nat
    OBVIOUS
  <2> QED
    BY <1>1, <2>1, LeadsWider
<1>3. c # NotJoined => c <= last + 1
  BY DEF PageIsSound
<1>4. q # NoRequest => RequestIsSound(q, s, last + 1)
  <2>1. q.cursor \in Nat /\ q.high \in Nat
    BY DEF StreamRequest
  <2>2. q # NoRequest => RequestIsSound(q, s, last)
    BY DEF PageIsSound
  <2> QED
    BY <2>1, <2>2 DEF RequestIsSound
<1> QED
  BY <1>2, <1>3, <1>4 DEF PageIsSound

-----------------------------------------------------------------------------
(* The steps of the table and of one page. *)

LEMMA StreamFacts ==
  ASSUME StreamInv
  PROVE  /\ firstEvent \in Nat \ {0} /\ lastEvent \in Nat /\ firstEvent <= lastEvent + 1
         /\ \A p \in Page : /\ eventRequest[p] \in StreamRequest /\ cursors[p] \in {NotJoined} \union Nat
                            /\ wire[p] \in Seq(EventFrame) /\ eventSource[p] \in Source
                            /\ PageIsSound(eventRequest[p], cursors[p], wire[p], eventSource[p], lastEvent)
<1>1. StreamShape
  BY DEF StreamInv
<1>2. firstEvent \in Nat \ {0} /\ lastEvent \in Nat /\ firstEvent <= lastEvent + 1
  BY <1>1, StreamBounds DEF StreamShape
<1>3. \A p \in Page : /\ eventRequest[p] \in StreamRequest /\ cursors[p] \in {NotJoined} \union Nat
                      /\ wire[p] \in Seq(EventFrame) /\ eventSource[p] \in Source
  BY <1>1 DEF StreamShape
<1> QED
  BY <1>2, <1>3 DEF StreamInv

LEMMA FaultCounts ==
  ASSUME StreamShape, StreamFaults
  PROVE  streamFaults' \in 0..MaxStreamFaults
  BY StreamBounds DEF StreamShape, StreamFaults

LEMMA RequestShapes ==
  /\ NoRequest \in StreamRequest /\ NoRequest.at = "NONE" /\ NoRequest.loaded = <<>>
  /\ NoRequest.cursor = 0 /\ NoRequest.high = 0
  /\ PumpIdle \in [at : {"IDLE", "LIST"}, after : Nat]
  /\ NewSource \in Source /\ NewSource.lastId = 0 /\ NewSource.state = "CONNECTING"
<1>1. <<>> \in Seq(Nat)
  OBVIOUS
<1> QED
  BY <1>1 DEF NoRequest, StreamRequest, PumpIdle, NewSource, Source

\* A step of one page.
LEMMA OnePage ==
  ASSUME StreamInv, NEW p \in Page, NEW q \in StreamRequest, NEW c \in {NotJoined} \union Nat,
         NEW w \in Seq(EventFrame), NEW s \in Source, PageIsSound(q, c, w, s, lastEvent),
         eventRequest' = [eventRequest EXCEPT ![p] = q], cursors' = [cursors EXCEPT ![p] = c],
         wire' = [wire EXCEPT ![p] = w], eventSource' = [eventSource EXCEPT ![p] = s],
         UNCHANGED <<tableVars, server, pump>>, streamFaults' \in 0..MaxStreamFaults
  PROVE  StreamInv'
<1>1. StreamShape
  BY DEF StreamInv
<1>2. StreamShape'
  BY <1>1 DEF StreamShape, tableVars
<1>3. ASSUME NEW r \in Page
      PROVE  PageIsSound(eventRequest[r], cursors[r], wire[r], eventSource[r], lastEvent)'
  <2>1. lastEvent' = lastEvent
    BY DEF tableVars
  <2>2. CASE r = p
    <3>1. eventRequest'[r] = q /\ cursors'[r] = c /\ wire'[r] = w /\ eventSource'[r] = s
      BY <1>1, <2>2 DEF StreamShape
    <3> QED
      BY <2>1, <3>1
  <2>3. CASE r # p
    <3>1. /\ eventRequest'[r] = eventRequest[r] /\ cursors'[r] = cursors[r]
          /\ wire'[r] = wire[r] /\ eventSource'[r] = eventSource[r]
      BY <1>1, <2>3 DEF StreamShape
    <3>2. PageIsSound(eventRequest[r], cursors[r], wire[r], eventSource[r], lastEvent)
      BY DEF StreamInv
    <3> QED
      BY <2>1, <3>1, <3>2
  <2> QED
    BY <2>2, <2>3
<1> QED
  BY <1>2, <1>3 DEF StreamInv

\* Only the EventSource changes.
LEMMA SourceChanges ==
  ASSUME StreamInv, NEW p \in Page, NEW s \in Source,
         PageIsSound(eventRequest[p], cursors[p], wire[p], s, lastEvent),
         eventSource' = [eventSource EXCEPT ![p] = s],
         UNCHANGED <<tableVars, server, eventRequest, cursors, pump, wire, streamFaults>>
  PROVE  StreamInv'
<1>1. StreamShape
  BY DEF StreamInv
<1>2. /\ eventRequest' = [eventRequest EXCEPT ![p] = eventRequest[p]]
      /\ cursors' = [cursors EXCEPT ![p] = cursors[p]] /\ wire' = [wire EXCEPT ![p] = wire[p]]
      /\ streamFaults' \in 0..MaxStreamFaults
  BY <1>1 DEF StreamShape
<1>3. /\ eventRequest[p] \in StreamRequest /\ cursors[p] \in {NotJoined} \union Nat /\ wire[p] \in Seq(EventFrame)
  BY StreamFacts
<1>4. UNCHANGED <<tableVars, server, pump>>
  OBVIOUS
<1> QED
  BY <1>2, <1>3, <1>4, OnePage

LEMMA AppendEventKeeps ==
  ASSUME StreamInv, AppendEvent
  PROVE  StreamInv'
<1>1. StreamShape /\ StreamShape'
  <2>1. StreamShape
    BY DEF StreamInv
  <2>2. lastEvent' \in 0..LastEventNumber /\ firstEvent' \in Nat \ {0} /\ firstEvent' <= lastEvent' + 1
    BY <2>1, StreamBounds DEF StreamShape, AppendEvent
  <2> QED
    BY <2>1, <2>2 DEF StreamShape, AppendEvent
<1>2. ASSUME NEW r \in Page
      PROVE  PageIsSound(eventRequest[r], cursors[r], wire[r], eventSource[r], lastEvent)'
  <2>1. /\ eventRequest[r] \in StreamRequest /\ cursors[r] \in {NotJoined} \union Nat
        /\ wire[r] \in Seq(EventFrame) /\ eventSource[r] \in Source /\ lastEvent \in Nat
        /\ PageIsSound(eventRequest[r], cursors[r], wire[r], eventSource[r], lastEvent)
    BY StreamFacts
  <2>2. PageIsSound(eventRequest[r], cursors[r], wire[r], eventSource[r], lastEvent + 1)
    BY <2>1, PageGrows
  <2> QED
    BY <2>2 DEF AppendEvent
<1> QED
  BY <1>1, <1>2 DEF StreamInv

LEMMA PruneEventsKeeps ==
  ASSUME StreamInv, PruneEvents
  PROVE  StreamInv'
<1>1. StreamShape
  BY DEF StreamInv
<1>2. firstEvent' \in Nat \ {0} /\ firstEvent' <= lastEvent + 1
  <2>1. PICK first \in (firstEvent + 1)..(lastEvent - RetainNewest + 1) : firstEvent' = first
    BY DEF PruneEvents
  <2>2. firstEvent \in Nat /\ lastEvent \in Nat /\ RetainNewest \in Nat
    BY <1>1, StreamBounds DEF StreamShape
  <2> QED
    BY <2>1, <2>2
<1>3. StreamShape'
  BY <1>1, <1>2 DEF StreamShape, PruneEvents
<1>4. \A r \in Page : PageIsSound(eventRequest[r], cursors[r], wire[r], eventSource[r], lastEvent)'
  BY DEF StreamInv, PruneEvents
<1> QED
  BY <1>3, <1>4 DEF StreamInv

LEMMA RequestArrivesKeeps ==
  ASSUME StreamInv, NEW p \in Page, RequestArrives(p)
  PROVE  StreamInv'
<1> DEFINE s == eventSource[p]
           q == [NoRequest EXCEPT !.at = "WINDOW", !.requested = eventSource[p].lastId]
<1>1. StreamShape
  BY DEF StreamInv
<1>2. s \in Source /\ s.lastId \in Nat /\ s.lastId <= lastEvent /\ lastEvent \in Nat
  <2>1. s \in Source /\ lastEvent \in Nat /\ s.lastId <= lastEvent
    BY StreamFacts DEF PageIsSound
  <2> QED
    BY <2>1 DEF Source
<1>3. eventRequest[p] = NoRequest /\ cursors[p] = NotJoined /\ wire[p] = <<>> /\ s.state = "CONNECTING"
  BY DEF RequestArrives
<1>4. CASE eventRequest' = [eventRequest EXCEPT ![p] = q] /\ UNCHANGED eventSource
  <2>1. /\ q \in StreamRequest /\ q.at = "WINDOW" /\ q.requested = s.lastId /\ q.loaded = <<>>
        /\ q.cursor = 0 /\ q.high = 0
    BY <1>2, RequestShapes DEF StreamRequest
  <2>2. RequestIsSound(q, s, lastEvent)
    <3> HIDE DEF q, s
    <3> QED
      BY <2>1 DEF RequestIsSound
  <2>3. Leads(<<>>, s.lastId, lastEvent) /\ <<>> \in Seq(EventFrame) /\ Len(<<>>) = 0
    BY OneLeads
  <2>4. PageIsSound(q, NotJoined, <<>>, s, lastEvent)
    <3> HIDE DEF q, s
    <3> QED
      BY <1>2, <1>3, <2>2, <2>3, StreamBounds DEF PageIsSound
  <2>5. /\ cursors' = [cursors EXCEPT ![p] = NotJoined] /\ wire' = [wire EXCEPT ![p] = <<>>]
        /\ eventSource' = [eventSource EXCEPT ![p] = s]
        /\ UNCHANGED <<tableVars, server, pump>> /\ streamFaults' \in 0..MaxStreamFaults
    BY <1>1, <1>3, <1>4 DEF RequestArrives, StreamShape
  <2> HIDE DEF q, s
  <2> QED
    BY <1>2, <1>4, <2>1, <2>3, <2>4, <2>5, OnePage DEF q
<1>5. ASSUME NEW state \in {"FAILED", "WAITING"}, eventSource' = [eventSource EXCEPT ![p].state = state],
             UNCHANGED eventRequest
      PROVE  StreamInv'
  <2> DEFINE t == [s EXCEPT !.state = state]
  <2>1. t \in Source /\ t.lastId = s.lastId /\ t.state = state
    BY <1>2 DEF Source
  <2>2. eventSource' = [eventSource EXCEPT ![p] = t]
    BY <1>5
  <2> HIDE DEF t
  <2>3. PageIsSound(NoRequest, NotJoined, <<>>, t, lastEvent)
    BY <1>2, <2>1, LonePage
  <2>4. PageIsSound(eventRequest[p], cursors[p], wire[p], t, lastEvent)
    BY <1>3, <2>3
  <2>5. UNCHANGED <<tableVars, server, eventRequest, cursors, pump, wire, streamFaults>>
    BY <1>5 DEF RequestArrives
  <2> QED
    BY <2>1, <2>2, <2>4, <2>5, SourceChanges
<1> QED
  BY <1>4, <1>5 DEF RequestArrives

LEMMA RequestFailsKeeps ==
  ASSUME StreamInv, NEW p \in Page, RequestFails(p)
  PROVE  StreamInv'
<1> DEFINE s == eventSource[p]
           t == [s EXCEPT !.state = "FAILED"]
<1>1. StreamShape
  BY DEF StreamInv
<1>2. /\ s \in Source /\ lastEvent \in Nat /\ eventRequest[p] \in StreamRequest /\ eventRequest[p] # NoRequest
      /\ PageIsSound(eventRequest[p], cursors[p], wire[p], s, lastEvent)
  BY StreamFacts DEF RequestFails
<1>3. /\ cursors[p] = NotJoined /\ wire[p] = <<>> /\ s.lastId \in Nat /\ s.lastId <= lastEvent
  <2> HIDE DEF s
  <2> QED
    BY <1>2, RequestedPage
<1>4. t \in Source /\ t.lastId = s.lastId
  BY <1>2 DEF Source
<1>5. /\ eventRequest' = [eventRequest EXCEPT ![p] = NoRequest] /\ cursors' = [cursors EXCEPT ![p] = NotJoined]
      /\ wire' = [wire EXCEPT ![p] = <<>>] /\ eventSource' = [eventSource EXCEPT ![p] = t]
      /\ UNCHANGED <<tableVars, server, pump>> /\ streamFaults' \in 0..MaxStreamFaults
  BY <1>1, <1>3, FaultCounts DEF RequestFails, StreamShape
<1> HIDE DEF t
<1>6. PageIsSound(NoRequest, NotJoined, <<>>, t, lastEvent)
  BY <1>2, <1>3, <1>4, LonePage
<1>7. NoRequest \in StreamRequest /\ <<>> \in Seq(EventFrame)
  BY RequestShapes, OneLeads
<1> QED
  BY <1>4, <1>5, <1>6, <1>7, OnePage

\* An answer whose frames lead from the page's cursor to the one it joins with.
LEMMA AnswerKeeps ==
  ASSUME StreamInv, NEW p \in Page, eventRequest[p] # NoRequest,
         NEW frames \in Seq(EventFrame), NEW cursor \in Nat,
         eventSource[p].lastId <= cursor, cursor <= lastEvent,
         Leads(frames, eventSource[p].lastId, cursor),
         Answer(p, frames, cursor), UNCHANGED <<tableVars, server, pump, eventSource, streamFaults>>
  PROVE  StreamInv'
<1> DEFINE s == eventSource[p]
           answer == <<Frame("OPEN", 0)>> \o frames
<1>1. StreamShape
  BY DEF StreamInv
<1>2. /\ s \in Source /\ lastEvent \in Nat /\ eventRequest[p] \in StreamRequest
      /\ PageIsSound(eventRequest[p], cursors[p], wire[p], s, lastEvent)
  BY StreamFacts
<1>3. /\ cursors[p] = NotJoined /\ s.lastId \in Nat /\ s.state # "CLOSED"
  <2> HIDE DEF s
  <2> QED
    BY <1>2, RequestedPage
<1>4. /\ eventRequest' = [eventRequest EXCEPT ![p] = NoRequest] /\ eventSource' = [eventSource EXCEPT ![p] = s]
      /\ UNCHANGED <<tableVars, server, pump>> /\ streamFaults' \in 0..MaxStreamFaults
  BY <1>1 DEF Answer, StreamShape
<1>5. IF Len(answer) <= MaxBuffer
        THEN wire' = [wire EXCEPT ![p] = answer] /\ cursors' = [cursors EXCEPT ![p] = cursor]
        ELSE wire' = [wire EXCEPT ![p] = SubSeq(answer, 1, MaxBuffer) \o Ended] /\ UNCHANGED cursors
  BY DEF Answer
<1>6. /\ <<Frame("OPEN", 0)>> \in Seq(EventFrame) /\ Len(<<Frame("OPEN", 0)>>) = 1
      /\ Leads(<<Frame("OPEN", 0)>>, s.lastId, s.lastId)
  BY IdleFrame DEF FrameKind
<1>7. s.lastId <= cursor /\ cursor <= lastEvent /\ Leads(frames, s.lastId, cursor)
  OBVIOUS
<1> HIDE DEF s
<1>8. answer \in Seq(EventFrame) /\ Leads(answer, s.lastId, cursor)
  <2>1. s.lastId <= s.lastId
    BY <1>3
  <2> QED
    BY <1>3, <1>6, <1>7, <2>1, LeadsOn
<1>9. NoRequest \in StreamRequest
  BY RequestShapes
<1> HIDE DEF answer
<1>10. Len(answer) \in Nat /\ MaxBuffer \in Nat
  BY <1>8, LenProperties, StreamBounds
<1>11. CASE Len(answer) <= MaxBuffer
  <2>1. Leads(answer, s.lastId, lastEvent) /\ s.lastId <= lastEvent
    BY <1>2, <1>3, <1>7, <1>8, LeadsWider
  <2>2. Len(answer) <= MaxBuffer + 1
    BY <1>10, <1>11
  <2>3. PageIsSound(NoRequest, cursor, answer, s, lastEvent)
    BY <1>3, <1>7, <1>8, <1>11, <2>1, <2>2 DEF PageIsSound
  <2>4. wire' = [wire EXCEPT ![p] = answer] /\ cursors' = [cursors EXCEPT ![p] = cursor]
    BY <1>5, <1>11
  <2> QED
    BY <1>2, <1>4, <1>8, <1>9, <2>3, <2>4, OnePage
<1>12. CASE ~(Len(answer) <= MaxBuffer)
  <2> DEFINE piece == SubSeq(answer, 1, MaxBuffer)
             cut == piece \o Ended
  <2>1. /\ piece \in Seq(EventFrame) /\ Leads(piece, s.lastId, cursor)
        /\ Len(piece) = IF 1 <= MaxBuffer THEN MaxBuffer ELSE 0
    BY <1>8, <1>10, <1>12, LeadsPrefix
  <2> HIDE DEF piece
  <2>2. Len(piece) <= MaxBuffer
    BY <1>10, <2>1
  <2>3. cut \in Seq(EventFrame) /\ PageIsSound(NoRequest, NotJoined, cut, s, lastEvent)
    BY <1>2, <1>3, <1>7, <2>1, <2>2, PageEnded
  <2>4. wire' = [wire EXCEPT ![p] = cut]
    BY <1>5, <1>12 DEF piece
  <2>5. cursors' = [cursors EXCEPT ![p] = NotJoined]
    BY <1>1, <1>3, <1>5, <1>12 DEF StreamShape
  <2> HIDE DEF cut
  <2> QED
    BY <1>2, <1>4, <1>9, <2>3, <2>4, <2>5, OnePage
<1> QED
  BY <1>11, <1>12

LEMMA ReadWindowKeeps ==
  ASSUME StreamInv, NEW p \in Page, ReadWindow(p)
  PROVE  StreamInv'
<1> DEFINE q == eventRequest[p]
           s == eventSource[p]
<1>1. StreamShape
  BY DEF StreamInv
<1>2. /\ s \in Source /\ lastEvent \in Nat /\ q \in StreamRequest /\ firstEvent \in Nat
      /\ PageIsSound(q, cursors[p], wire[p], s, lastEvent)
  BY StreamFacts
<1>3. q.at = "WINDOW"
  BY DEF ReadWindow
<1>4. q # NoRequest
  BY <1>3, RequestShapes
<1>5. UNCHANGED <<tableVars, server, pump, eventSource, streamFaults>>
  BY DEF ReadWindow
<1>6. /\ RequestIsSound(q, s, lastEvent) /\ cursors[p] = NotJoined /\ wire[p] = <<>> /\ s.state # "CLOSED"
      /\ s.lastId \in Nat /\ s.lastId <= lastEvent
  <2> HIDE DEF q, s
  <2> QED
    BY <1>2, <1>4, RequestedPage
<1>7. q.requested = s.lastId
  BY <1>6 DEF RequestIsSound
<1>8. lastEvent <= lastEvent
  BY <1>2
<1>9. Leads(<<>>, s.lastId, lastEvent) /\ <<>> \in Seq(EventFrame) /\ Leads(<<>>, s.lastId, s.lastId)
  BY OneLeads
<1>10. CASE Answer(p, <<>>, lastEvent)
  BY <1>2, <1>4, <1>5, <1>6, <1>8, <1>9, <1>10, AnswerKeeps
<1>11. CASE Answer(p, <<Frame("RESET", lastEvent)>>, lastEvent)
  <2>1. <<Frame("RESET", lastEvent)>> \in Seq(EventFrame) /\ Leads(<<Frame("RESET", lastEvent)>>, s.lastId, lastEvent)
    BY <1>2, <1>6, ResetFrame
  <2> QED
    BY <1>2, <1>4, <1>5, <1>6, <1>8, <1>11, <2>1, AnswerKeeps
<1>12. CASE q.requested = lastEvent /\ Answer(p, <<>>, q.requested)
  <2>1. Answer(p, <<>>, lastEvent)
    BY <1>12
  <2> QED
    BY <1>10, <2>1
<1>13. CASE /\ q.requested \in (firstEvent - 1)..(lastEvent - 1)
            /\ eventRequest' = [eventRequest EXCEPT ![p] =
                 [@ EXCEPT !.at = "REPLAY", !.cursor = q.requested, !.high = lastEvent]]
            /\ UNCHANGED <<wire, cursors>>
  <2> DEFINE r == [q EXCEPT !.at = "REPLAY", !.cursor = q.requested, !.high = lastEvent]
  <2>0. q.requested \in Nat /\ q.loaded \in Seq(Nat)
    BY <1>2 DEF StreamRequest
  <2>1. /\ r \in StreamRequest /\ r.at = "REPLAY" /\ r.requested = q.requested
        /\ r.cursor = q.requested /\ r.high = lastEvent /\ r.loaded = q.loaded
    BY <1>2, <2>0 DEF StreamRequest
  <2>2. /\ eventRequest' = [eventRequest EXCEPT ![p] = r] /\ cursors' = [cursors EXCEPT ![p] = NotJoined]
        /\ wire' = [wire EXCEPT ![p] = <<>>] /\ eventSource' = [eventSource EXCEPT ![p] = s]
        /\ UNCHANGED <<tableVars, server, pump>> /\ streamFaults' \in 0..MaxStreamFaults
    BY <1>1, <1>5, <1>6, <1>13 DEF StreamShape
  <2> HIDE DEF r, s, q
  <2>3. Len(r.loaded) <= MaxReplay /\ Ascends(r.loaded, r.requested, r.cursor)
    <3>1. r.loaded = <<>>
      BY <1>3, <1>6, <2>1 DEF RequestIsSound
    <3>2. Len(<<>>) = 0
      OBVIOUS
    <3> QED
      BY <3>1, <3>2, StreamBounds DEF Ascends
  <2>4. RequestIsSound(r, s, lastEvent)
    BY <1>2, <1>6, <1>7, <1>8, <2>1, <2>3 DEF RequestIsSound
  <2>5. Leads(<<>>, s.lastId, lastEvent) /\ Len(<<>>) = 0 /\ <<>> \in Seq(EventFrame)
    BY OneLeads
  <2>6. PageIsSound(r, NotJoined, <<>>, s, lastEvent)
    BY <1>6, <2>4, <2>5, StreamBounds DEF PageIsSound
  <2> QED
    BY <1>2, <2>1, <2>2, <2>5, <2>6, OnePage
<1> QED
  BY <1>10, <1>11, <1>12, <1>13 DEF ReadWindow

LEMMA LoadReplayKeeps ==
  ASSUME StreamInv, NEW p \in Page, LoadReplay(p)
  PROVE  StreamInv'
<1> DEFINE q == eventRequest[p]
           s == eventSource[p]
           limit == Min({EventBatch, MaxReplay - Len(q.loaded) + 1})
           batch == EventsAfter(q.cursor, limit)
           loaded == q.loaded \o batch
           cursor == IF batch = <<>> THEN q.cursor ELSE batch[Len(batch)]
           done == cursor >= q.high \/ Len(batch) < limit
<1>1. StreamShape
  BY DEF StreamInv
<1>2. /\ s \in Source /\ lastEvent \in Nat /\ q \in StreamRequest
      /\ PageIsSound(q, cursors[p], wire[p], s, lastEvent)
  BY StreamFacts
<1>3. q.at = "REPLAY"
  BY DEF LoadReplay
<1>4. q # NoRequest
  BY <1>3, RequestShapes
<1>5. UNCHANGED <<tableVars, server, pump, eventSource, streamFaults>>
  BY DEF LoadReplay
<1>6. \/ Answer(p, <<Frame("RESET", q.high)>>, q.high)
      \/ Answer(p, EventFrames(loaded), cursor)
      \/ /\ Len(loaded) < MaxReplay
         /\ eventRequest' = [eventRequest EXCEPT ![p] = [@ EXCEPT !.cursor = cursor, !.loaded = loaded]]
         /\ UNCHANGED <<wire, cursors>>
  BY DEF LoadReplay
<1>7. /\ RequestIsSound(q, s, lastEvent) /\ cursors[p] = NotJoined /\ wire[p] = <<>> /\ s.state # "CLOSED"
      /\ s.lastId \in Nat /\ s.lastId <= lastEvent
  <2> HIDE DEF q, s
  <2> QED
    BY <1>2, <1>4, RequestedPage
<1>8. /\ q.requested = s.lastId /\ q.requested <= q.cursor /\ q.cursor <= lastEvent
      /\ q.requested <= q.high /\ q.high <= lastEvent /\ Len(q.loaded) <= MaxReplay
      /\ Ascends(q.loaded, q.requested, q.cursor)
  BY <1>3, <1>7 DEF RequestIsSound
<1>9. /\ q.requested \in Nat /\ q.cursor \in Nat /\ q.high \in Nat /\ q.loaded \in Seq(Nat)
  BY <1>2 DEF StreamRequest
<1>10. limit \in Nat \ {0}
  <2>1. Len(q.loaded) \in Nat /\ EventBatch \in Nat \ {0} /\ MaxReplay \in Nat
    BY <1>9, LenProperties, StreamBounds
  <2>2. MaxReplay - Len(q.loaded) + 1 \in Nat \ {0}
    BY <1>8, <2>1
  <2> DEFINE room == MaxReplay - Len(q.loaded) + 1
  <2> HIDE DEF room
  <2>3. EventBatch \in Int /\ room \in Int
    BY <2>1, <2>2 DEF room
  <2>4. Min({EventBatch, room}) \in {EventBatch, room}
    BY <2>3, OfTwo
  <2>5. limit \in {EventBatch, MaxReplay - Len(q.loaded) + 1}
    BY <2>4 DEF room
  <2> HIDE DEF limit
  <2> QED
    BY <2>1, <2>2, <2>5
<1> HIDE DEF limit
<1>11. /\ batch \in Seq(Nat)
       /\ batch # <<>> => /\ batch[Len(batch)] \in Nat /\ q.cursor < batch[Len(batch)]
                          /\ batch[Len(batch)] <= lastEvent /\ Ascends(batch, q.cursor, batch[Len(batch)])
  BY <1>1, <1>9, <1>10, EventsAfterAscend
<1> HIDE DEF batch, q, s
<1>12. cursor \in Nat /\ q.cursor <= cursor /\ cursor <= lastEvent /\ Ascends(batch, q.cursor, cursor)
  <2>1. CASE batch = <<>>
    BY <1>8, <1>9, <2>1 DEF Ascends
  <2>2. CASE batch # <<>>
    BY <1>9, <1>11, <2>2
  <2> QED
    BY <2>1, <2>2
<1> HIDE DEF cursor
<1>13. loaded \in Seq(Nat) /\ Ascends(loaded, q.requested, cursor)
  BY <1>8, <1>9, <1>11, <1>12, AscendsOn
<1> HIDE DEF loaded
<1>14. s.lastId <= cursor
  BY <1>2, <1>7, <1>8, <1>9, <1>12
<1>15. CASE Answer(p, <<Frame("RESET", q.high)>>, q.high)
  <2>1. s.lastId <= q.high
    BY <1>8
  <2>2. <<Frame("RESET", q.high)>> \in Seq(EventFrame) /\ Leads(<<Frame("RESET", q.high)>>, s.lastId, q.high)
    BY <1>7, <1>9, <2>1, ResetFrame
  <2> QED
    BY <1>4, <1>5, <1>8, <1>9, <1>15, <2>1, <2>2, AnswerKeeps DEF q, s
<1>16. CASE Answer(p, EventFrames(loaded), cursor)
  <2>1. EventFrames(loaded) \in Seq(EventFrame)
    BY <1>13, FramesOfEvents
  <2>2. Leads(EventFrames(loaded), s.lastId, cursor)
    BY <1>7, <1>8, <1>12, <1>13, EventsLead
  <2> QED
    BY <1>4, <1>5, <1>12, <1>14, <1>16, <2>1, <2>2, AnswerKeeps DEF q, s
<1>17. CASE /\ Len(loaded) < MaxReplay
            /\ eventRequest' = [eventRequest EXCEPT ![p] = [@ EXCEPT !.cursor = cursor, !.loaded = loaded]]
            /\ UNCHANGED <<wire, cursors>>
  <2> DEFINE r == [q EXCEPT !.cursor = cursor, !.loaded = loaded]
  <2>1. /\ r \in StreamRequest /\ r.at = q.at /\ r.requested = q.requested
        /\ r.cursor = cursor /\ r.high = q.high /\ r.loaded = loaded
    BY <1>2, <1>12, <1>13 DEF StreamRequest
  <2>2. /\ eventRequest' = [eventRequest EXCEPT ![p] = r] /\ cursors' = [cursors EXCEPT ![p] = NotJoined]
        /\ wire' = [wire EXCEPT ![p] = <<>>] /\ eventSource' = [eventSource EXCEPT ![p] = s]
        /\ UNCHANGED <<tableVars, server, pump>> /\ streamFaults' \in 0..MaxStreamFaults
    BY <1>1, <1>5, <1>7, <1>17 DEF StreamShape, q, s
  <2> HIDE DEF r
  <2>3. Len(loaded) <= MaxReplay
    <3>1. Len(loaded) \in Nat /\ MaxReplay \in Nat
      BY <1>13, LenProperties, StreamBounds
    <3> QED
      BY <1>17, <3>1
  <2>4. RequestIsSound(r, s, lastEvent)
    <3>1. r.requested <= cursor
      BY <1>7, <1>8, <1>14, <2>1
    <3> QED
      BY <1>3, <1>8, <1>12, <1>13, <2>1, <2>3, <3>1 DEF RequestIsSound
  <2>5. Leads(<<>>, s.lastId, lastEvent) /\ Len(<<>>) = 0 /\ <<>> \in Seq(EventFrame)
    BY OneLeads
  <2>6. PageIsSound(r, NotJoined, <<>>, s, lastEvent)
    BY <1>7, <2>4, <2>5, StreamBounds DEF PageIsSound
  <2> QED
    BY <1>2, <2>1, <2>2, <2>5, <2>6, OnePage
<1> QED
  BY <1>6, <1>15, <1>16, <1>17

LEMMA ReceiveKeeps ==
  ASSUME StreamInv, NEW p \in Page, Receive(p)
  PROVE  StreamInv'
<1> DEFINE w == wire[p]
           s == eventSource[p]
           f == Head(w)
           t == CASE f.kind = "OPEN" -> [s EXCEPT !.state = "OPEN"]
                  [] f.kind = "END" -> [s EXCEPT !.state = "WAITING"]
                  [] f.kind \in {"EVENT", "RESET"} -> [s EXCEPT !.lastId = f.id]
                  [] OTHER -> s
<1>1. StreamShape
  BY DEF StreamInv
<1>2. /\ s \in Source /\ lastEvent \in Nat /\ eventRequest[p] \in StreamRequest /\ w \in Seq(EventFrame)
      /\ cursors[p] \in {NotJoined} \union Nat
      /\ PageIsSound(eventRequest[p], cursors[p], w, s, lastEvent)
  BY StreamFacts
<1>3. w # <<>> /\ wire' = [wire EXCEPT ![p] = Tail(w)]
  BY DEF Receive
<1>4. eventSource' = [eventSource EXCEPT ![p] = t]
  BY DEF Receive
<1>5. f \in EventFrame
  <2> HIDE DEF w
  <2> QED
    BY <1>2, <1>3, EmptySeq, HeadTailProperties
<1>6. s.state # "CLOSED"
  BY <1>2, <1>3 DEF PageIsSound
<1> HIDE DEF w
<1>7. t \in Source /\ t.state # "CLOSED" /\ t.lastId = IF Carries(f) THEN f.id ELSE s.lastId
  <2> HIDE DEF f, s
  <2>1. f.kind \in FrameKind /\ f.id \in Nat
    BY <1>5 DEF EventFrame
  <2>2. CASE f.kind = "OPEN"
    <3>1. t = [s EXCEPT !.state = "OPEN"]
      BY <2>2
    <3> QED
      BY <1>2, <2>2, <3>1 DEF Source, Carries
  <2>3. CASE f.kind = "END"
    <3>1. t = [s EXCEPT !.state = "WAITING"]
      BY <2>3
    <3> QED
      BY <1>2, <2>3, <3>1 DEF Source, Carries
  <2>4. CASE f.kind \in {"EVENT", "RESET"}
    <3>1. t = [s EXCEPT !.lastId = f.id]
      BY <2>4
    <3> QED
      BY <1>2, <1>6, <2>1, <2>4, <3>1 DEF Source, Carries
  <2>5. CASE f.kind \notin {"OPEN", "END", "EVENT", "RESET"}
    <3>1. t = s
      BY <2>5
    <3> QED
      BY <1>2, <1>6, <2>5, <3>1 DEF Carries
  <2> QED
    BY <2>2, <2>3, <2>4, <2>5
<1>8. /\ eventRequest' = [eventRequest EXCEPT ![p] = eventRequest[p]]
      /\ cursors' = [cursors EXCEPT ![p] = cursors[p]]
      /\ UNCHANGED <<tableVars, server, pump>> /\ streamFaults' \in 0..MaxStreamFaults
  BY <1>1 DEF Receive, StreamShape
<1> HIDE DEF t, s
<1>9. Tail(w) \in Seq(EventFrame) /\ PageIsSound(eventRequest[p], cursors[p], Tail(w), t, lastEvent)
  BY <1>2, <1>3, <1>7, PageReceives
<1> QED
  BY <1>2, <1>3, <1>4, <1>7, <1>8, <1>9, OnePage

LEMMA ReconnectKeeps ==
  ASSUME StreamInv, NEW p \in Page, Reconnect(p)
  PROVE  StreamInv'
<1> DEFINE s == eventSource[p]
           t == [s EXCEPT !.state = "CONNECTING"]
<1>1. /\ s \in Source /\ PageIsSound(eventRequest[p], cursors[p], wire[p], s, lastEvent)
      /\ eventRequest[p] \in StreamRequest
  BY StreamFacts
<1>2. t \in Source /\ t.lastId = s.lastId /\ t.state = "CONNECTING"
  BY <1>1 DEF Source
<1>3. /\ eventSource' = [eventSource EXCEPT ![p] = t]
      /\ UNCHANGED <<tableVars, server, eventRequest, cursors, pump, wire, streamFaults>>
  BY DEF Reconnect
<1> HIDE DEF t, s
<1>4. PageIsSound(eventRequest[p], cursors[p], wire[p], t, lastEvent)
  BY <1>1, <1>2 DEF PageIsSound, RequestIsSound
<1> QED
  BY <1>2, <1>3, <1>4, SourceChanges

LEMMA ShowKeeps ==
  ASSUME StreamInv, NEW p \in Page, Show(p)
  PROVE  StreamInv'
<1>1. /\ lastEvent \in Nat /\ NewSource \in Source /\ NewSource.lastId <= lastEvent
      /\ PageIsSound(eventRequest[p], cursors[p], wire[p], eventSource[p], lastEvent)
  BY StreamFacts, RequestShapes
<1>2. eventRequest[p] = NoRequest /\ cursors[p] = NotJoined /\ wire[p] = <<>>
  BY <1>1 DEF PageIsSound, Show
<1>3. PageIsSound(eventRequest[p], cursors[p], wire[p], NewSource, lastEvent)
  BY <1>1, <1>2, LonePage
<1>4. /\ eventSource' = [eventSource EXCEPT ![p] = NewSource]
      /\ UNCHANGED <<tableVars, server, eventRequest, cursors, pump, wire, streamFaults>>
  BY DEF Show
<1> QED
  BY <1>1, <1>3, <1>4, SourceChanges

\* A connection that goes, with whatever state the EventSource is left in.
LEMMA DisconnectKeeps ==
  ASSUME StreamInv, NEW p \in Page, Disconnect(p), NEW state \in {"WAITING", "CLOSED"},
         eventSource' = [eventSource EXCEPT ![p].state = state],
         UNCHANGED <<tableVars, server, pump>>, streamFaults' \in 0..MaxStreamFaults
  PROVE  StreamInv'
<1> DEFINE s == eventSource[p]
           t == [s EXCEPT !.state = state]
<1>1. /\ s \in Source /\ lastEvent \in Nat /\ PageIsSound(eventRequest[p], cursors[p], wire[p], s, lastEvent)
  BY StreamFacts
<1>2. t \in Source /\ t.lastId = s.lastId
  BY <1>1 DEF Source
<1>3. /\ eventRequest' = [eventRequest EXCEPT ![p] = NoRequest] /\ cursors' = [cursors EXCEPT ![p] = NotJoined]
      /\ wire' = [wire EXCEPT ![p] = <<>>] /\ eventSource' = [eventSource EXCEPT ![p] = t]
  BY DEF Disconnect
<1> HIDE DEF t, s
<1>4. PageIsSound(NoRequest, NotJoined, <<>>, t, lastEvent)
  <2>1. t.lastId <= lastEvent
    BY <1>1, <1>2 DEF PageIsSound
  <2> QED
    BY <1>1, <1>2, <2>1, LonePage
<1>5. NoRequest \in StreamRequest /\ <<>> \in Seq(EventFrame)
  BY RequestShapes, OneLeads
<1> QED
  BY <1>2, <1>3, <1>4, <1>5, OnePage

LEMMA PageLeaves ==
  ASSUME StreamInv, NEW p \in Page, ConnectionLost(p) \/ Hide(p)
  PROVE  StreamInv'
<1>1. StreamShape
  BY DEF StreamInv
<1>2. CASE ConnectionLost(p)
  <2>1. streamFaults' \in 0..MaxStreamFaults
    BY <1>1, <1>2, FaultCounts DEF ConnectionLost
  <2> QED
    BY <1>2, <2>1, DisconnectKeeps DEF ConnectionLost
<1>3. CASE Hide(p)
  <2>1. streamFaults' \in 0..MaxStreamFaults /\ UNCHANGED <<tableVars, server, pump>>
    BY <1>1, <1>3 DEF Hide, StreamShape
  <2>2. Disconnect(p) /\ eventSource' = [eventSource EXCEPT ![p].state = "CLOSED"]
    BY <1>3 DEF Hide
  <2> QED
    BY <2>1, <2>2, DisconnectKeeps
<1> QED
  BY <1>2, <1>3

-----------------------------------------------------------------------------
(* The steps of the pump and of the server. *)

LEMMA JoinedPages ==
  ASSUME StreamInv, NEW p \in Joined
  PROVE  /\ p \in Page /\ cursors[p] \in Nat /\ eventRequest[p] = NoRequest /\ wire[p] \in Seq(EventFrame)
         /\ eventSource[p] \in Source /\ eventSource[p].state # "CLOSED"
         /\ eventSource[p].lastId \in Nat /\ eventSource[p].lastId <= lastEvent
         /\ eventSource[p].lastId <= cursors[p] /\ cursors[p] <= lastEvent
         /\ Leads(wire[p], eventSource[p].lastId, cursors[p]) /\ Len(wire[p]) <= MaxBuffer
<1>1. p \in Page /\ cursors[p] # NotJoined
  BY DEF Joined
<1>2. /\ eventRequest[p] \in StreamRequest /\ cursors[p] \in Nat /\ lastEvent \in Nat
      /\ wire[p] \in Seq(EventFrame) /\ eventSource[p] \in Source
      /\ PageIsSound(eventRequest[p], cursors[p], wire[p], eventSource[p], lastEvent)
  BY <1>1, StreamFacts
<1> QED
  BY <1>1, <1>2, JoinedPage

\* Each joined page is sent frames that lead it from its cursor to another.
LEMMA SendKeeps ==
  ASSUME StreamInv, NEW frames \in [Page -> Seq(EventFrame)], NEW to \in [Page -> Nat],
         \A p \in Joined : cursors[p] <= to[p] /\ to[p] <= lastEvent /\ Leads(frames[p], cursors[p], to[p]),
         Send(frames),
         cursors' = [p \in Page |-> IF p \notin Joined THEN cursors[p]
                                    ELSE IF Fits(p, frames[p]) THEN to[p] ELSE NotJoined],
         pump' \in [at : {"IDLE", "LIST"}, after : Nat],
         UNCHANGED <<tableVars, server, eventRequest, eventSource, streamFaults>>
  PROVE  StreamInv'
<1>1. StreamShape /\ lastEvent \in Nat
  BY StreamFacts DEF StreamInv
<1>2. ASSUME NEW r \in Page
      PROVE  /\ wire'[r] \in Seq(EventFrame) /\ cursors'[r] \in {NotJoined} \union Nat
             /\ PageIsSound(eventRequest[r], cursors'[r], wire'[r], eventSource[r], lastEvent)
  <2>1. CASE r \notin Joined
    <3>1. wire'[r] = wire[r] /\ cursors'[r] = cursors[r]
      BY <2>1 DEF Send
    <3> QED
      BY <3>1, StreamFacts
  <2>2. CASE r \in Joined
    <3> DEFINE c == cursors[r]
               w == wire[r]
               s == eventSource[r]
               f == frames[r]
               t == to[r]
    <3>1. /\ c \in Nat /\ eventRequest[r] = NoRequest /\ w \in Seq(EventFrame) /\ s \in Source
          /\ s.state # "CLOSED" /\ s.lastId <= c /\ c <= lastEvent /\ Leads(w, s.lastId, c) /\ Len(w) <= MaxBuffer
      BY <2>2, JoinedPages
    <3>2. f \in Seq(EventFrame) /\ t \in Nat /\ c <= t /\ t <= lastEvent /\ Leads(f, c, t)
      BY <2>2
    <3>3. CASE Fits(r, f)
      <4>1. wire'[r] = w \o f /\ cursors'[r] = t /\ Len(w) + Len(f) <= MaxBuffer
        BY <2>2, <3>3 DEF Send, Fits
      <4> HIDE DEF c, w, s, f, t
      <4>2. w \o f \in Seq(EventFrame) /\ PageIsSound(NoRequest, t, w \o f, s, lastEvent)
        BY <1>1, <3>1, <3>2, <4>1, PageSent
      <4> QED
        BY <3>1, <3>2, <4>1, <4>2 DEF s
    <3>4. CASE ~Fits(r, f)
      <4> DEFINE cut == w \o SubSeq(f, 1, MaxBuffer - Len(w)) \o Ended
      <4>1. wire'[r] = cut /\ cursors'[r] = NotJoined /\ ~(Len(w) + Len(f) <= MaxBuffer)
        BY <2>2, <3>4 DEF Send, Fits
      <4> HIDE DEF c, w, s, f, t
      <4>2. cut \in Seq(EventFrame) /\ PageIsSound(NoRequest, NotJoined, cut, s, lastEvent)
        BY <1>1, <3>1, <3>2, <4>1, PageCut
      <4> QED
        BY <3>1, <4>1, <4>2 DEF s
    <3> QED
      BY <3>3, <3>4
  <2> QED
    BY <2>1, <2>2
<1>3. wire' \in [Page -> Seq(EventFrame)] /\ cursors' \in [Page -> {NotJoined} \union Nat]
  <2>1. wire' = [r \in Page |-> wire'[r]] /\ cursors' = [r \in Page |-> cursors'[r]]
    BY DEF Send
  <2> QED
    BY <1>2, <2>1
<1>4. StreamShape'
  BY <1>1, <1>3 DEF StreamShape, tableVars
<1>5. \A r \in Page : PageIsSound(eventRequest[r], cursors[r], wire[r], eventSource[r], lastEvent)'
  BY <1>2 DEF tableVars
<1> QED
  BY <1>4, <1>5 DEF StreamInv

LEMMA PumpReadsWindowKeeps ==
  ASSUME StreamInv, PumpReadsWindow
  PROVE  StreamInv' /\ pump'.after <= lastEvent
<1> DEFINE expired == {p \in Joined : firstEvent <= lastEvent /\ cursors[p] < firstEvent - 1}
           frames == [p \in Page |-> IF p \in expired THEN <<Frame("RESET", lastEvent)>> ELSE <<>>]
           moved == [p \in Page |->
             IF p \in Joined /\ ~Fits(p, frames[p]) THEN NotJoined
             ELSE IF p \in expired THEN lastEvent ELSE cursors[p]]
           remaining == {moved[p] : p \in Page} \ {NotJoined}
           to == [p \in Page |-> IF p \in expired THEN lastEvent ELSE IF p \in Joined THEN cursors[p] ELSE 0]
<1>1. lastEvent \in Nat
  BY StreamFacts
<1>2. /\ Send(frames) /\ cursors' = moved
      /\ pump' = IF remaining = {} THEN PumpIdle ELSE [at |-> "LIST", after |-> Min(remaining)]
      /\ UNCHANGED <<tableVars, server, eventRequest, eventSource, streamFaults>>
  BY DEF PumpReadsWindow
<1>3. expired \subseteq Joined /\ Joined \subseteq Page
  BY DEF Joined
<1>4. \A p \in Page : moved[p] = IF p \notin Joined THEN cursors[p] ELSE IF Fits(p, frames[p]) THEN to[p] ELSE NotJoined
  <2> HIDE DEF expired, frames
  <2> QED
    BY <1>3
<1>5. \A p \in Joined : cursors[p] \in Nat /\ cursors[p] <= lastEvent
  BY JoinedPages
<1>6. to \in [Page -> Nat]
  <2> HIDE DEF expired
  <2> QED
    BY <1>1, <1>3, <1>5
<1>7. \A p \in Joined : cursors[p] <= to[p] /\ to[p] <= lastEvent
  <2> HIDE DEF expired
  <2> QED
    BY <1>1, <1>3, <1>5
<1>8. frames \in [Page -> Seq(EventFrame)]
  <2>0. lastEvent <= lastEvent
    BY <1>1
  <2>1. <<Frame("RESET", lastEvent)>> \in Seq(EventFrame) /\ <<>> \in Seq(EventFrame)
    BY <1>1, <2>0, ResetFrame, OneLeads
  <2> HIDE DEF expired
  <2> QED
    BY <2>1
<1>9. ASSUME NEW p \in Joined PROVE Leads(frames[p], cursors[p], to[p])
  <2> HIDE DEF expired
  <2>1. p \in Page /\ cursors[p] \in Nat /\ cursors[p] <= lastEvent
    BY <1>3, <1>5
  <2>2. CASE p \in expired
    <3>1. frames[p] = <<Frame("RESET", lastEvent)>> /\ to[p] = lastEvent
      BY <2>1, <2>2
    <3>2. Leads(<<Frame("RESET", lastEvent)>>, cursors[p], lastEvent)
      BY <1>1, <2>1, ResetFrame
    <3> QED
      BY <3>1, <3>2
  <2>3. CASE p \notin expired
    <3>1. frames[p] = <<>>
      BY <2>1, <2>3
    <3>2. Leads(<<>>, cursors[p], to[p])
      BY OneLeads
    <3> QED
      BY <3>1, <3>2
  <2> QED
    BY <2>2, <2>3
<1> HIDE DEF to, frames, expired
<1>10. cursors' = [p \in Page |-> IF p \notin Joined THEN cursors[p]
                                  ELSE IF Fits(p, frames[p]) THEN to[p] ELSE NotJoined]
  BY <1>2, <1>4
<1>11. pump' \in [at : {"IDLE", "LIST"}, after : Nat] /\ pump'.after <= lastEvent
  <2>1. CASE remaining = {}
    <3>1. pump' = PumpIdle
      BY <1>2, <2>1
    <3> QED
      BY <1>1, <3>1, RequestShapes DEF PumpIdle
  <2>2. CASE remaining # {}
    <3>1. ASSUME NEW p \in Page, moved[p] # NotJoined PROVE moved[p] \in 0..lastEvent
      <4>1. p \in Joined
        BY <1>4, <3>1 DEF Joined
      <4>2. moved[p] = to[p]
        BY <1>4, <3>1, <4>1
      <4>3. cursors[p] \in Nat /\ to[p] \in Nat /\ to[p] <= lastEvent
        BY <1>3, <1>5, <1>6, <1>7, <4>1
      <4> QED
        BY <1>1, <4>2, <4>3
    <3>2. remaining \in SUBSET (0..lastEvent)
      <4> HIDE DEF moved
      <4> QED
        BY <3>1
    <3> HIDE DEF remaining
    <3>3. Min(remaining) \in remaining
      BY <1>1, <2>2, <3>2, LeastCursor
    <3>4. Min(remaining) \in Nat /\ Min(remaining) <= lastEvent
      <4>1. Min(remaining) \in 0..lastEvent
        BY <3>2, <3>3
      <4> QED
        BY <1>1, <4>1
    <3>5. pump' = [at |-> "LIST", after |-> Min(remaining)]
      BY <1>2, <2>2
    <3> QED
      BY <3>4, <3>5
  <2> QED
    BY <2>1, <2>2
<1> QED
  BY <1>2, <1>6, <1>7, <1>8, <1>9, <1>10, <1>11, SendKeeps

\* What of the batch is sent to a joined page, and where it leads.
LEMMA UnseenAhead ==
  ASSUME StreamInv, NEW p \in Joined, NEW batch, batch = EventsAfter(pump.after, EventBatch),
         NEW unseen, unseen = Unseen(p, batch)
  PROVE  /\ unseen \in Seq(Nat)
         /\ unseen # <<>> => /\ batch # <<>> /\ batch[Len(batch)] \in Nat
                             /\ cursors[p] <= batch[Len(batch)] /\ batch[Len(batch)] <= lastEvent
                             /\ Ascends(unseen, cursors[p], batch[Len(batch)])
                             /\ Len(unseen) \in Nat \ {0} /\ unseen[1] = Max({batch[1], cursors[p] + 1})
                             /\ batch[1] = Max({pump.after + 1, firstEvent})
<1>1. StreamShape /\ pump.after \in Nat /\ EventBatch \in Nat \ {0}
  BY StreamBounds DEF StreamInv, StreamShape
<1>2. /\ batch \in Seq(Nat)
      /\ batch # <<>> => /\ batch[Len(batch)] \in Nat /\ batch[1] \in Nat /\ batch[Len(batch)] <= lastEvent
                         /\ batch[1] = Max({pump.after + 1, firstEvent})
  BY <1>1, EventsAfterAscend
<1>3. cursors[p] \in Nat
  BY JoinedPages
<1>4. CASE batch = <<>>
  BY <1>2, <1>4 DEF Unseen
<1>5. CASE batch # <<>>
  <2> DEFINE from == Max({batch[1], cursors[p] + 1})
             last == batch[Len(batch)]
  <2>1. unseen = EventsOf(from, last)
    BY <1>5 DEF Unseen
  <2>2. from \in Nat /\ cursors[p] + 1 <= from
    <3>1. batch[1] \in Int /\ cursors[p] + 1 \in Int /\ batch[1] \in Nat
      BY <1>2, <1>3, <1>5
    <3>2. from \in {batch[1], cursors[p] + 1} /\ from >= cursors[p] + 1
      BY <3>1, OfTwo
    <3> HIDE DEF from
    <3> QED
      BY <1>3, <3>1, <3>2
  <2>3. last \in Nat /\ last <= lastEvent
    BY <1>2, <1>5
  <2> HIDE DEF from, last
  <2>0. last \in Int
    BY <2>3
  <2>4. /\ EventsOf(from, last) \in Seq(Nat)
        /\ Len(EventsOf(from, last)) = (IF from <= last THEN last - from + 1 ELSE 0)
        /\ \A i \in 1..Len(EventsOf(from, last)) : EventsOf(from, last)[i] = from + i - 1
    BY <2>0, <2>2, EventsInOrder
  <2>5. /\ unseen \in Seq(Nat) /\ Len(unseen) = (IF from <= last THEN last - from + 1 ELSE 0)
        /\ \A i \in 1..Len(unseen) : unseen[i] = from + i - 1
    BY ONLY <2>1, <2>4
  <2>6. ASSUME unseen # <<>>
        PROVE  /\ cursors[p] <= last /\ Ascends(unseen, cursors[p], last)
               /\ Len(unseen) \in Nat \ {0} /\ unseen[1] = from
    <3>1. Len(unseen) # 0
      BY <2>5, <2>6, EmptySeq
    <3>2. from <= last /\ Len(unseen) = last - from + 1 /\ Len(unseen) \in Nat \ {0}
      BY <2>2, <2>3, <2>5, <3>1
    <3>3. cursors[p] <= last
      BY <1>3, <2>2, <2>3, <3>2
    <3>4. unseen[1] = from + 1 - 1
      BY <2>5, <3>2
    <3>5. unseen[1] = from
      BY <2>2, <3>4
    <3>6. Ascends(unseen, cursors[p], last)
      BY <1>3, <2>2, <2>3, <2>5, <3>2 DEF Ascends
    <3> QED
      BY <3>2, <3>3, <3>5, <3>6
  <2> QED
    BY <1>2, <1>5, <2>3, <2>5, <2>6 DEF from, last
<1> QED
  BY <1>4, <1>5

LEMMA PumpSendsBatchKeeps ==
  ASSUME StreamInv, PumpSendsBatch
  PROVE  StreamInv'
<1> DEFINE batch == EventsAfter(pump.after, EventBatch)
           frames == [p \in Page |-> EventFrames(Unseen(p, batch))]
           to == [p \in Page |-> IF p \notin Joined THEN 0
                                 ELSE IF Unseen(p, batch) = <<>> THEN cursors[p] ELSE batch[Len(batch)]]
<1>1. lastEvent \in Nat
  BY StreamFacts
<1>2. /\ Send(frames) /\ pump' = PumpIdle
      /\ cursors' = [p \in Page |->
           IF p \notin Joined \/ frames[p] = <<>> THEN cursors[p]
           ELSE IF Fits(p, frames[p]) THEN batch[Len(batch)] ELSE NotJoined]
      /\ UNCHANGED <<tableVars, server, eventRequest, eventSource, streamFaults>>
  BY DEF PumpSendsBatch
<1>3. ASSUME NEW p \in Joined
      PROVE  /\ p \in Page /\ cursors[p] \in Nat /\ cursors[p] <= lastEvent /\ Len(wire[p]) \in Nat
             /\ Len(wire[p]) <= MaxBuffer /\ Unseen(p, batch) \in Seq(Nat)
             /\ Unseen(p, batch) # <<>> => /\ batch[Len(batch)] \in Nat /\ cursors[p] <= batch[Len(batch)]
                                           /\ batch[Len(batch)] <= lastEvent
                                           /\ Ascends(Unseen(p, batch), cursors[p], batch[Len(batch)])
  <2>1. /\ p \in Page /\ cursors[p] \in Nat /\ cursors[p] <= lastEvent /\ wire[p] \in Seq(EventFrame)
        /\ Len(wire[p]) <= MaxBuffer
    BY JoinedPages
  <2>2. Len(wire[p]) \in Nat
    BY <2>1, LenProperties
  <2> HIDE DEF batch
  <2> QED
    BY <2>1, <2>2, UnseenAhead DEF batch
<1> HIDE DEF batch
<1>4. ASSUME NEW p \in Joined
      PROVE  /\ frames[p] \in Seq(EventFrame) /\ to[p] \in Nat
             /\ cursors[p] <= to[p] /\ to[p] <= lastEvent /\ Leads(frames[p], cursors[p], to[p])
             /\ frames[p] = <<>> <=> Unseen(p, batch) = <<>>
  <2> DEFINE unseen == Unseen(p, batch)
  <2>1. /\ p \in Page /\ cursors[p] \in Nat /\ cursors[p] <= lastEvent /\ unseen \in Seq(Nat)
    BY <1>3
  <2>2. /\ frames[p] = EventFrames(unseen)
        /\ to[p] = IF unseen = <<>> THEN cursors[p] ELSE batch[Len(batch)]
    BY <2>1
  <2>3. unseen # <<>> => /\ batch[Len(batch)] \in Nat /\ cursors[p] <= batch[Len(batch)]
                         /\ batch[Len(batch)] <= lastEvent /\ Ascends(unseen, cursors[p], batch[Len(batch)])
    BY <1>3
  <2> HIDE DEF unseen, frames, to
  <2>4. /\ EventFrames(unseen) \in Seq(EventFrame) /\ Len(EventFrames(unseen)) = Len(unseen)
    BY <2>1, FramesOfEvents
  <2>5. EventFrames(unseen) = <<>> <=> unseen = <<>>
    BY <2>1, <2>4, EmptySeq
  <2>6. CASE unseen = <<>>
    <3>1. Leads(<<>>, cursors[p], to[p])
      BY OneLeads
    <3>2. cursors[p] <= cursors[p] /\ to[p] = cursors[p] /\ frames[p] = <<>>
      BY <2>1, <2>2, <2>5, <2>6
    <3> QED
      BY <2>1, <2>2, <2>4, <2>6, <3>1, <3>2 DEF unseen
  <2>7. CASE unseen # <<>>
    <3>1. to[p] = batch[Len(batch)]
      BY <2>2, <2>7
    <3>2. Leads(EventFrames(unseen), cursors[p], batch[Len(batch)])
      BY <2>1, <2>3, <2>7, EventsLead
    <3> QED
      BY <2>2, <2>3, <2>4, <2>5, <2>7, <3>1, <3>2 DEF unseen
  <2> QED
    BY <2>6, <2>7
<1>5. cursors' = [p \in Page |-> IF p \notin Joined THEN cursors[p]
                                 ELSE IF Fits(p, frames[p]) THEN to[p] ELSE NotJoined]
  <2>1. ASSUME NEW p \in Page
        PROVE  (IF p \notin Joined \/ frames[p] = <<>> THEN cursors[p]
                ELSE IF Fits(p, frames[p]) THEN batch[Len(batch)] ELSE NotJoined)
               = (IF p \notin Joined THEN cursors[p] ELSE IF Fits(p, frames[p]) THEN to[p] ELSE NotJoined)
    <3>1. CASE p \notin Joined
      BY <3>1
    <3>2. CASE p \in Joined
      <4>1. to[p] = IF Unseen(p, batch) = <<>> THEN cursors[p] ELSE batch[Len(batch)]
        BY <3>2
      <4>2. frames[p] = <<>> <=> Unseen(p, batch) = <<>>
        BY <1>4, <3>2
      <4> HIDE DEF frames, to
      <4>3. frames[p] = <<>> => Fits(p, frames[p])
        <5>1. Len(wire[p]) \in Nat /\ Len(wire[p]) <= MaxBuffer
          BY <1>3, <3>2
        <5>2. Len(<<>>) = 0
          OBVIOUS
        <5> QED
          BY <5>1, <5>2, StreamBounds DEF Fits
      <4> QED
        BY <3>2, <4>1, <4>2, <4>3
    <3> QED
      BY <3>1, <3>2
  <2> HIDE DEF frames, to
  <2> QED
    BY <1>2, <2>1
<1>6. to \in [Page -> Nat]
  <2>1. \A p \in Joined : to[p] \in Nat
    BY <1>4
  <2>2. \A p \in Page : p \notin Joined => to[p] = 0
    OBVIOUS
  <2>3. to = [p \in Page |-> to[p]]
    OBVIOUS
  <2> HIDE DEF to
  <2>4. \A p \in Page : to[p] \in Nat
    BY <2>1, <2>2
  <2> QED
    BY <2>3, <2>4
<1> DEFINE sent == [p \in Page |-> IF p \in Joined THEN frames[p] ELSE <<>>]
<1>7. sent \in [Page -> Seq(EventFrame)] /\ \A p \in Joined : sent[p] = frames[p]
  <2>1. <<>> \in Seq(EventFrame) /\ \A p \in Joined : p \in Page
    BY OneLeads DEF Joined
  <2>2. \A p \in Joined : frames[p] \in Seq(EventFrame)
    BY <1>4
  <2> HIDE DEF frames
  <2> QED
    BY <2>1, <2>2
<1> HIDE DEF frames, to, sent
<1>8. Send(sent)
  <2>1. Send(frames)
    BY <1>2
  <2>2. \A p \in Joined : sent[p] = frames[p] /\ (Fits(p, sent[p]) <=> Fits(p, frames[p]))
    BY <1>7
  <2> QED
    BY <2>1, <2>2 DEF Send
<1>9. cursors' = [p \in Page |-> IF p \notin Joined THEN cursors[p]
                                 ELSE IF Fits(p, sent[p]) THEN to[p] ELSE NotJoined]
  BY <1>5, <1>7
<1>10. \A p \in Joined : cursors[p] <= to[p] /\ to[p] <= lastEvent /\ Leads(sent[p], cursors[p], to[p])
  BY <1>4, <1>7
<1>11. pump' \in [at : {"IDLE", "LIST"}, after : Nat]
  BY <1>2, RequestShapes
<1> QED
  BY <1>2, <1>6, <1>7, <1>8, <1>9, <1>10, <1>11, SendKeeps

\* Every connection is told something, if it fits, and ended.
LEMMA EndingKeeps ==
  ASSUME StreamInv, NEW kind \in {"UNAVAILABLE", "SHUTDOWN"},
         wire' = [p \in Page |->
           IF p \notin Joined THEN wire[p]
           ELSE IF Fits(p, <<Frame(kind, 0)>>) THEN wire[p] \o <<Frame(kind, 0)>> \o Ended
           ELSE wire[p] \o Ended],
         cursors' = [p \in Page |-> NotJoined],
         server' \in {"UP", "CLOSING", "DOWN"}, pump' \in [at : {"IDLE", "LIST"}, after : Nat],
         streamFaults' \in 0..MaxStreamFaults, UNCHANGED <<tableVars, eventRequest, eventSource>>
  PROVE  StreamInv'
<1>1. StreamShape /\ lastEvent \in Nat
  BY StreamFacts DEF StreamInv
<1>2. ASSUME NEW r \in Page
      PROVE  /\ wire'[r] \in Seq(EventFrame)
             /\ PageIsSound(eventRequest[r], NotJoined, wire'[r], eventSource[r], lastEvent)
  <2>1. CASE r \notin Joined
    <3>1. wire'[r] = wire[r] /\ cursors[r] = NotJoined
      BY <2>1 DEF Joined
    <3> QED
      BY <3>1, StreamFacts
  <2>2. CASE r \in Joined
    <3> DEFINE c == cursors[r]
               w == wire[r]
               s == eventSource[r]
               told == <<Frame(kind, 0)>>
    <3>1. /\ c \in Nat /\ eventRequest[r] = NoRequest /\ w \in Seq(EventFrame) /\ s \in Source
          /\ s.state # "CLOSED" /\ s.lastId \in Nat /\ s.lastId <= c /\ c <= lastEvent
          /\ Leads(w, s.lastId, c) /\ Len(w) <= MaxBuffer
      BY <2>2, JoinedPages
    <3>2. CASE Fits(r, told)
      <4>1. wire'[r] = w \o told \o Ended /\ Len(w) + Len(told) <= MaxBuffer
        BY <2>2, <3>2 DEF Fits
      <4>2. told \in Seq(EventFrame) /\ Len(told) = 1 /\ Leads(told, c, c)
        BY IdleFrame DEF FrameKind
      <4> HIDE DEF c, w, s, told
      <4>3. w \o told \in Seq(EventFrame) /\ Leads(w \o told, s.lastId, c)
        BY <3>1, <4>2, LeadsOn
      <4>4. Len(w \o told) = Len(w) + Len(told)
        BY <3>1, <4>2, ConcatProperties
      <4>5. Len(w \o told) <= MaxBuffer
        BY <4>1, <4>4
      <4>6. (w \o told) \o Ended \in Seq(EventFrame) /\ PageIsSound(NoRequest, NotJoined, (w \o told) \o Ended, s, lastEvent)
        BY <1>1, <3>1, <4>3, <4>5, PageEnded
      <4> QED
        BY <3>1, <4>1, <4>6 DEF s
    <3>3. CASE ~Fits(r, told)
      <4>1. wire'[r] = w \o Ended
        BY <2>2, <3>3
      <4> HIDE DEF c, w, s
      <4>2. w \o Ended \in Seq(EventFrame) /\ PageIsSound(NoRequest, NotJoined, w \o Ended, s, lastEvent)
        BY <1>1, <3>1, PageEnded
      <4> QED
        BY <3>1, <4>1, <4>2 DEF s
    <3> QED
      BY <3>2, <3>3
  <2> QED
    BY <2>1, <2>2
<1>3. wire' \in [Page -> Seq(EventFrame)] /\ cursors' \in [Page -> {NotJoined} \union Nat]
  <2>1. wire' = [r \in Page |-> wire'[r]]
    OBVIOUS
  <2> QED
    BY <1>2, <2>1
<1>4. StreamShape'
  BY <1>1, <1>3 DEF StreamShape, tableVars
<1>5. \A r \in Page : PageIsSound(eventRequest[r], cursors[r], wire[r], eventSource[r], lastEvent)'
  BY <1>2 DEF tableVars
<1> QED
  BY <1>4, <1>5 DEF StreamInv

LEMMA PumpFailsKeeps ==
  ASSUME StreamInv, PumpFails
  PROVE  StreamInv'
<1>1. streamFaults' \in 0..MaxStreamFaults
  BY FaultCounts DEF PumpFails, StreamInv
<1>2. server' \in {"UP", "CLOSING", "DOWN"} /\ pump' \in [at : {"IDLE", "LIST"}, after : Nat]
  BY RequestShapes DEF PumpFails, StreamInv, StreamShape
<1> QED
  BY <1>1, <1>2, EndingKeeps DEF PumpFails

LEMMA ServerClosesKeeps ==
  ASSUME StreamInv, ServerCloses
  PROVE  StreamInv'
<1>1. streamFaults' \in 0..MaxStreamFaults
  BY FaultCounts DEF ServerCloses, StreamInv
<1>2. server' \in {"UP", "CLOSING", "DOWN"} /\ pump' \in [at : {"IDLE", "LIST"}, after : Nat]
  BY DEF ServerCloses, StreamInv, StreamShape
<1> QED
  BY <1>1, <1>2, EndingKeeps DEF ServerCloses

LEMMA ServerIsGoneKeeps ==
  ASSUME StreamInv, ServerIsGone, streamFaults' \in 0..MaxStreamFaults
  PROVE  StreamInv'
<1>1. StreamShape /\ lastEvent \in Nat
  BY StreamFacts DEF StreamInv
<1>2. /\ server' = "DOWN" /\ cursors' = [p \in Page |-> NotJoined] /\ eventRequest' = [p \in Page |-> NoRequest]
      /\ wire' = [p \in Page |-> IF p \in Joined \/ eventRequest[p] # NoRequest THEN wire[p] \o Ended ELSE wire[p]]
      /\ pump' = PumpIdle /\ UNCHANGED <<tableVars, eventSource>>
  BY DEF ServerIsGone
<1>3. ASSUME NEW r \in Page
      PROVE  /\ wire'[r] \in Seq(EventFrame)
             /\ PageIsSound(NoRequest, NotJoined, wire'[r], eventSource[r], lastEvent)
  <2> DEFINE q == eventRequest[r]
             c == cursors[r]
             w == wire[r]
             s == eventSource[r]
  <2>1. q \in StreamRequest /\ w \in Seq(EventFrame) /\ s \in Source /\ PageIsSound(q, c, w, s, lastEvent)
    BY StreamFacts
  <2>2. CASE r \in Joined
    <3>1. /\ c \in Nat /\ s.state # "CLOSED" /\ s.lastId <= c /\ c <= lastEvent
          /\ Leads(w, s.lastId, c) /\ Len(w) <= MaxBuffer
      BY <2>2, JoinedPages
    <3>2. wire'[r] = w \o Ended
      BY <1>2, <2>2
    <3> HIDE DEF c, w, s
    <3>3. w \o Ended \in Seq(EventFrame) /\ PageIsSound(NoRequest, NotJoined, w \o Ended, s, lastEvent)
      BY <1>1, <2>1, <3>1, PageEnded
    <3> QED
      BY <3>2, <3>3 DEF s
  <2>3. CASE q # NoRequest
    <3>1. wire'[r] = w \o Ended
      BY <1>2, <2>3
    <3> HIDE DEF q, c, w, s
    <3>2. /\ w = <<>> /\ s.lastId \in Nat /\ s.state # "CLOSED" /\ s.lastId <= lastEvent
      BY <1>1, <2>1, <2>3, RequestedPage
    <3>3. Leads(w, s.lastId, s.lastId) /\ Len(w) <= MaxBuffer /\ s.lastId <= s.lastId
      <4>1. Leads(<<>>, s.lastId, s.lastId) /\ Len(<<>>) = 0
        BY OneLeads
      <4> QED
        BY <3>2, <4>1, StreamBounds
    <3>4. w \o Ended \in Seq(EventFrame) /\ PageIsSound(NoRequest, NotJoined, w \o Ended, s, lastEvent)
      BY <1>1, <2>1, <3>2, <3>3, PageEnded
    <3> QED
      BY <3>1, <3>4 DEF s
  <2>4. CASE r \notin Joined /\ q = NoRequest
    <3>1. wire'[r] = w /\ c = NotJoined
      BY <1>2, <2>4 DEF Joined
    <3> QED
      BY <2>1, <2>4, <3>1
  <2> QED
    BY <2>2, <2>3, <2>4
<1>4. wire' \in [Page -> Seq(EventFrame)] /\ cursors' \in [Page -> {NotJoined} \union Nat]
  <2>1. wire' = [r \in Page |-> wire'[r]]
    BY <1>2
  <2>2. \A r \in Page : wire'[r] \in Seq(EventFrame)
    BY <1>3
  <2>3. wire' \in [Page -> Seq(EventFrame)]
    BY ONLY <2>1, <2>2
  <2> QED
    BY <1>2, <2>3
<1>5. eventRequest' \in [Page -> StreamRequest] /\ pump' \in [at : {"IDLE", "LIST"}, after : Nat]
  BY <1>2, RequestShapes
<1>6. StreamShape'
  BY <1>1, <1>2, <1>4, <1>5 DEF StreamShape, tableVars
<1>7. \A r \in Page : PageIsSound(eventRequest[r], cursors[r], wire[r], eventSource[r], lastEvent)'
  BY <1>2, <1>3 DEF tableVars
<1> QED
  BY <1>6, <1>7 DEF StreamInv

LEMMA ServerStepsKeep ==
  ASSUME StreamInv, ServerEnds \/ ServerIsKilled \/ StartServer
  PROVE  StreamInv'
<1>1. StreamShape
  BY DEF StreamInv
<1>2. CASE ServerEnds
  <2>1. streamFaults' \in 0..MaxStreamFaults
    BY <1>1, <1>2 DEF ServerEnds, StreamShape
  <2> QED
    BY <1>2, <2>1, ServerIsGoneKeeps DEF ServerEnds
<1>3. CASE ServerIsKilled
  <2>1. streamFaults' \in 0..MaxStreamFaults
    BY <1>1, <1>3, FaultCounts DEF ServerIsKilled
  <2> QED
    BY <1>3, <2>1, ServerIsGoneKeeps DEF ServerIsKilled
<1>4. CASE StartServer
  <2>1. StreamShape'
    BY <1>1, <1>4 DEF StreamShape, StartServer, tableVars
  <2>2. \A r \in Page : PageIsSound(eventRequest[r], cursors[r], wire[r], eventSource[r], lastEvent)'
    BY <1>4 DEF StreamInv, StartServer, tableVars
  <2> QED
    BY <2>1, <2>2 DEF StreamInv
<1> QED
  BY <1>2, <1>3, <1>4

-----------------------------------------------------------------------------

LEMMA StreamStarts == StreamInit => StreamInv
<1> SUFFICES ASSUME StreamInit PROVE StreamInv
  OBVIOUS
<1>1. StreamShape
  <2>1. wire \in [Page -> Seq(EventFrame)]
    BY OneLeads DEF StreamInit
  <2>2. firstEvent \in Nat \ {0} /\ lastEvent \in 0..LastEventNumber /\ firstEvent <= lastEvent + 1
    BY StreamBounds DEF StreamInit
  <2>3. streamFaults \in 0..MaxStreamFaults
    BY StreamBounds DEF StreamInit
  <2> QED
    BY <2>1, <2>2, <2>3, RequestShapes DEF StreamInit, StreamShape
<1>2. \A p \in Page : PageIsSound(eventRequest[p], cursors[p], wire[p], eventSource[p], lastEvent)
  <2>1. NewSource \in Source /\ NewSource.lastId <= 0
    BY RequestShapes
  <2>2. PageIsSound(NoRequest, NotJoined, <<>>, NewSource, 0)
    BY <2>1, LonePage
  <2> QED
    BY <2>2 DEF StreamInit
<1> QED
  BY <1>1, <1>2 DEF StreamInv

LEMMA StreamStutters ==
  ASSUME StreamInv, UNCHANGED streamVars
  PROVE  StreamInv'
<1>1. StreamShape'
  BY DEF StreamInv, StreamShape, streamVars, tableVars
<1>2. \A r \in Page : PageIsSound(eventRequest[r], cursors[r], wire[r], eventSource[r], lastEvent)'
  BY DEF StreamInv, streamVars, tableVars
<1> QED
  BY <1>1, <1>2 DEF StreamInv

\* What is on its way to a page, and what the server is about to send it, lies ahead of
\* what the page has seen.
THEOREM StreamInvariant == StreamSpec => []StreamInv
<1>1. StreamInit => StreamInv
  BY StreamStarts
<1>2. StreamInv /\ [StreamNext]_streamVars => StreamInv'
  <2> SUFFICES ASSUME StreamInv, [StreamNext]_streamVars PROVE StreamInv'
    OBVIOUS
  <2>1. CASE AppendEvent \/ PruneEvents
    BY <2>1, AppendEventKeeps, PruneEventsKeeps
  <2>2. CASE PumpReadsWindow \/ PumpSendsBatch \/ PumpFails
    BY <2>2, PumpReadsWindowKeeps, PumpSendsBatchKeeps, PumpFailsKeeps
  <2>3. CASE ServerCloses \/ ServerEnds \/ ServerIsKilled \/ StartServer
    BY <2>3, ServerClosesKeeps, ServerStepsKeep
  <2>4. ASSUME NEW p \in Page, RequestArrives(p) \/ ReadWindow(p) \/ LoadReplay(p) \/ RequestFails(p)
        PROVE  StreamInv'
    BY <2>4, RequestArrivesKeeps, ReadWindowKeeps, LoadReplayKeeps, RequestFailsKeeps
  <2>5. ASSUME NEW p \in Page, Receive(p) \/ Reconnect(p) \/ ConnectionLost(p) \/ Hide(p) \/ Show(p)
        PROVE  StreamInv'
    BY <2>5, ReceiveKeeps, ReconnectKeeps, PageLeaves, ShowKeeps
  <2>6. CASE UNCHANGED streamVars
    BY <2>6, StreamStutters
  <2> QED
    BY <2>1, <2>2, <2>3, <2>4, <2>5, <2>6 DEF StreamNext
<1> QED
  BY <1>1, <1>2, PTL DEF StreamSpec

-----------------------------------------------------------------------------
(* EventsFollow. *)

\* What comes first behind the frames that were on their way.
LEMMA FirstSent ==
  ASSUME StreamInv, PumpSendsBatch, NEW p \in Joined, NEW batch, batch = EventsAfter(pump.after, EventBatch),
         NEW unseen, unseen = Unseen(p, batch), Len(wire'[p]) > Len(wire[p])
  PROVE  \/ wire'[p][Len(wire[p]) + 1].kind = "END"
         \/ unseen # <<>> /\ wire'[p][Len(wire[p]) + 1].id = unseen[1]
<1> DEFINE w == wire[p]
           f == EventFrames(unseen)
           room == MaxBuffer - Len(w)
           piece == SubSeq(f, 1, room)
<1>1. p \in Page /\ w \in Seq(EventFrame) /\ Len(w) <= MaxBuffer
  BY JoinedPages
<1>2. unseen \in Seq(Nat)
  BY UnseenAhead
<1>3. wire'[p] = IF Fits(p, f) THEN w \o f ELSE w \o piece \o Ended
  <2> DEFINE frames == [r \in Page |-> EventFrames(Unseen(r, batch))]
  <2>1. Send(frames)
    BY DEF PumpSendsBatch
  <2>2. frames[p] = f
    BY <1>1
  <2> HIDE DEF frames, f
  <2> QED
    BY <1>1, <2>1, <2>2 DEF Send
<1>4. /\ f \in Seq(EventFrame) /\ Len(f) = Len(unseen)
      /\ \A i \in 1..Len(unseen) : f[i].id = unseen[i]
  BY <1>2, FramesOfEvents
<1>5. Fits(p, f) <=> Len(w) + Len(f) <= MaxBuffer
  BY DEF Fits
<1> HIDE DEF w, f
<1>6. Len(w) \in Nat /\ Len(f) \in Nat /\ MaxBuffer \in Nat
  BY <1>1, <1>4, LenProperties, StreamBounds
<1>7. ASSUME Len(f) > 0 PROVE unseen # <<>> /\ f[1].id = unseen[1]
  BY <1>2, <1>4, <1>6, <1>7, EmptySeq
<1>8. CASE Fits(p, f)
  <2>1. /\ Len(w \o f) = Len(w) + Len(f)
        /\ \A i \in 1..Len(w \o f) : (w \o f)[i] = IF i <= Len(w) THEN w[i] ELSE f[i - Len(w)]
    <3>1. w \in Seq(EventFrame) /\ f \in Seq(EventFrame)
      BY <1>1, <1>4
    <3> QED
      BY ONLY <3>1, ConcatProperties
  <2>2. wire'[p] = w \o f /\ Len(wire'[p]) > Len(w)
    BY <1>3, <1>8 DEF w
  <2>3. Len(f) > 0
    BY <1>6, <2>1, <2>2
  <2>4. Len(w) + 1 \in 1..Len(w \o f) /\ ~(Len(w) + 1 <= Len(w)) /\ (Len(w) + 1) - Len(w) = 1
    BY <1>6, <2>1, <2>3
  <2>5. (w \o f)[Len(w) + 1] = f[1]
    BY <2>1, <2>4
  <2> QED
    BY <1>7, <2>2, <2>3, <2>5 DEF w
<1>9. CASE ~Fits(p, f)
  <2>1. room \in Nat /\ room <= Len(f) /\ Len(f) > 0
    BY <1>1, <1>5, <1>6, <1>9
  <2> HIDE DEF room
  <2>2. /\ piece \in Seq(EventFrame) /\ Len(piece) = room /\ \A i \in 1..room : piece[i] = f[i]
    <3>1. \A i \in 1..room : f[i] \in EventFrame
      BY <1>4, <1>6, <2>1, ElementOfSeq
    <3>2. /\ piece \in Seq(EventFrame) /\ Len(piece) = (IF 1 <= room THEN room - 1 + 1 ELSE 0)
          /\ \A i \in 1..(room - 1 + 1) : piece[i] = f[1 + i - 1]
      BY <2>1, <3>1, SubSeqProperties
    <3> HIDE DEF piece
    <3> QED
      BY <2>1, <3>2
  <2> HIDE DEF piece
  <2>3. Ended \in Seq(EventFrame) /\ Len(Ended) = 1 /\ Ended[1].kind = "END"
    <3>1. Frame("END", 0) \in EventFrame /\ Frame("END", 0).kind = "END"
      BY FrameKinds DEF FrameKind
    <3>2. <<Frame("END", 0)>> \in Seq(EventFrame) /\ Len(<<Frame("END", 0)>>) = 1
          /\ <<Frame("END", 0)>>[1] = Frame("END", 0)
      BY <3>1, OneLeads
    <3> QED
      BY <3>1, <3>2 DEF Ended
  <2>4. /\ w \o piece \in Seq(EventFrame) /\ Len(w \o piece) = Len(w) + room
        /\ \A i \in 1..Len(w \o piece) : (w \o piece)[i] = IF i <= Len(w) THEN w[i] ELSE piece[i - Len(w)]
    <3>1. w \in Seq(EventFrame) /\ piece \in Seq(EventFrame) /\ Len(piece) = room
      BY <1>1, <2>2
    <3> QED
      BY ONLY <3>1, ConcatProperties
  <2> DEFINE head == w \o piece
  <2> HIDE DEF head
  <2>5. /\ head \in Seq(EventFrame) /\ Len(head \o Ended) = Len(head) + 1
        /\ \A i \in 1..Len(head \o Ended) :
             (head \o Ended)[i] = IF i <= Len(head) THEN head[i] ELSE Ended[i - Len(head)]
    <3>1. head \in Seq(EventFrame)
      BY <2>4 DEF head
    <3> QED
      BY <2>3, <3>1, ConcatProperties
  <2>6. wire'[p] = head \o Ended
    BY <1>3, <1>9 DEF head
  <2>7. CASE room = 0
    <3>1. Len(head) = Len(w)
      BY <1>6, <2>4, <2>7 DEF head
    <3>2. Len(w) + 1 \in 1..Len(head \o Ended) /\ ~(Len(w) + 1 <= Len(head)) /\ (Len(w) + 1) - Len(head) = 1
      BY <1>6, <2>5, <3>1
    <3>3. (head \o Ended)[Len(w) + 1] = Ended[1]
      BY <2>5, <3>2
    <3> QED
      BY <2>3, <2>6, <3>3 DEF w
  <2>8. CASE room > 0
    <3>1. Len(head) = Len(w) + room
      BY <2>4 DEF head
    <3>2. Len(w) + 1 \in 1..Len(head \o Ended) /\ Len(w) + 1 <= Len(head) /\ Len(w) + 1 \in 1..Len(head)
      BY <1>6, <2>1, <2>5, <2>8, <3>1
    <3>3. (head \o Ended)[Len(w) + 1] = head[Len(w) + 1]
      BY <2>5, <3>2
    <3>4. ~(Len(w) + 1 <= Len(w)) /\ (Len(w) + 1) - Len(w) = 1
      BY <1>6
    <3>5. head[Len(w) + 1] = piece[1]
      BY <2>4, <3>2, <3>4 DEF head
    <3>6. piece[1] = f[1]
      BY <2>1, <2>2, <2>8
    <3> QED
      BY <1>7, <2>1, <2>6, <3>3, <3>5, <3>6 DEF w
  <2> QED
    BY <2>1, <2>7, <2>8
<1> QED
  BY <1>8, <1>9

\* The pump goes on with a page's next event, unless it has been pruned or the page has
\* joined behind the batch.
LEMMA NextIsSent ==
  ASSUME StreamInv, PumpSendsBatch, NEW p \in Joined, Len(wire'[p]) > Len(wire[p])
  PROVE  \/ wire'[p][Len(wire[p]) + 1].kind = "END"
         \/ wire'[p][Len(wire[p]) + 1].id = cursors[p] + 1
         \/ cursors[p] + 1 < firstEvent
         \/ cursors[p] < pump.after
<1> DEFINE batch == EventsAfter(pump.after, EventBatch)
           unseen == Unseen(p, batch)
<1>1. \/ wire'[p][Len(wire[p]) + 1].kind = "END"
      \/ unseen # <<>> /\ wire'[p][Len(wire[p]) + 1].id = unseen[1]
  BY FirstSent
<1>2. CASE unseen # <<>> /\ wire'[p][Len(wire[p]) + 1].id = unseen[1]
  <2>1. unseen[1] = Max({batch[1], cursors[p] + 1}) /\ batch[1] = Max({pump.after + 1, firstEvent})
    BY <1>2, UnseenAhead
  <2>2. firstEvent \in Nat /\ pump.after \in Nat /\ cursors[p] \in Nat
    BY JoinedPages, StreamFacts DEF StreamInv, StreamShape
  <2> DEFINE first == batch[1]
  <2> HIDE DEF batch, unseen
  <2>3. first \in {pump.after + 1, firstEvent}
    <3>1. pump.after + 1 \in Int /\ firstEvent \in Int
      BY <2>2
    <3> QED
      BY <2>1, <3>1, OfTwo
  <2>4. first \in Nat
    BY <2>2, <2>3
  <2> HIDE DEF first
  <2>5. /\ Max({first, cursors[p] + 1}) \in {first, cursors[p] + 1}
        /\ Max({first, cursors[p] + 1}) >= first /\ Max({first, cursors[p] + 1}) >= cursors[p] + 1
    <3>1. first \in Int /\ cursors[p] + 1 \in Int
      BY <2>2, <2>4
    <3> QED
      BY <3>1, OfTwo
  <2>6. unseen[1] = Max({first, cursors[p] + 1})
    BY <2>1 DEF first
  <2>7. CASE unseen[1] = cursors[p] + 1
    BY <1>2, <2>7
  <2>8. CASE unseen[1] = first /\ first # cursors[p] + 1
    <3>1. cursors[p] + 1 < first
      BY <2>2, <2>4, <2>5, <2>6, <2>8
    <3> QED
      BY <2>2, <2>3, <3>1
  <2> QED
    BY <2>5, <2>6, <2>7, <2>8
<1> QED
  BY <1>1, <1>2

\* A page is sent no event that it has already seen, and the pump skips no event of a
\* page's but those that are pruned or lie before the batch being read as it joins
\* (#handleEventStream, #pumpEvents).
THEOREM EventsFollowHolds == StreamSpec => EventsFollow
<1> DEFINE Follows == \A p \in Page :
             /\ Receives(p, "EVENT") => Head(wire[p]).id > eventSource[p].lastId
             /\ PumpSendsBatch /\ p \in Joined /\ Len(wire'[p]) > Len(wire[p]) =>
                  \/ wire'[p][Len(wire[p]) + 1].kind = "END"
                  \/ wire'[p][Len(wire[p]) + 1].id = cursors[p] + 1
                  \/ cursors[p] + 1 < firstEvent
                  \/ cursors[p] < pump.after
<1>1. StreamInv => Follows
  <2> SUFFICES ASSUME StreamInv, NEW p \in Page
               PROVE  /\ Receives(p, "EVENT") => Head(wire[p]).id > eventSource[p].lastId
                      /\ PumpSendsBatch /\ p \in Joined /\ Len(wire'[p]) > Len(wire[p]) =>
                           \/ wire'[p][Len(wire[p]) + 1].kind = "END"
                           \/ wire'[p][Len(wire[p]) + 1].id = cursors[p] + 1
                           \/ cursors[p] + 1 < firstEvent
                           \/ cursors[p] < pump.after
    OBVIOUS
  <2>1. ASSUME Receives(p, "EVENT") PROVE Head(wire[p]).id > eventSource[p].lastId
    <3>1. /\ wire[p] \in Seq(EventFrame) /\ wire[p] # <<>> /\ Head(wire[p]).kind = "EVENT"
          /\ eventSource[p] \in Source /\ Leads(wire[p], eventSource[p].lastId, lastEvent)
      BY <2>1, StreamFacts DEF Receives, PageIsSound
    <3>2. /\ Head(wire[p]) \in EventFrame
          /\ Carries(Head(wire[p])) => IsNews(Head(wire[p]), eventSource[p].lastId)
      BY <3>1, LeadsTail
    <3>3. eventSource[p].lastId < Head(wire[p]).id
      BY <3>1, <3>2 DEF Carries, IsNews
    <3>4. eventSource[p].lastId \in Nat /\ Head(wire[p]).id \in Nat
      BY <3>1, <3>2 DEF Source, EventFrame
    <3> QED
      BY <3>3, <3>4
  <2>2. ASSUME PumpSendsBatch, p \in Joined, Len(wire'[p]) > Len(wire[p])
        PROVE  \/ wire'[p][Len(wire[p]) + 1].kind = "END"
               \/ wire'[p][Len(wire[p]) + 1].id = cursors[p] + 1
               \/ cursors[p] + 1 < firstEvent
               \/ cursors[p] < pump.after
    BY <2>2, NextIsSent
  <2> QED
    BY <2>1, <2>2
<1>2. StreamSpec => [][Follows]_streamVars
  BY <1>1, StreamInvariant, PTL
<1>3. [][Follows]_streamVars => EventsFollow
  BY DEF EventsFollow
<1> QED
  BY <1>2, <1>3

\* The pump reads from no cursor that lies ahead of the events there are.
LEMMA PumpStaysBehind ==
  ASSUME StreamInv, pump.after <= lastEvent, [StreamNext]_streamVars
  PROVE  (pump.after <= lastEvent)'
<1>1. lastEvent \in Nat /\ pump.after \in Nat /\ PumpIdle.after <= lastEvent
  <2>1. lastEvent \in Nat
    BY StreamFacts
  <2> QED
    BY <2>1 DEF StreamInv, StreamShape, PumpIdle
<1>2. CASE PumpReadsWindow
  BY <1>2, PumpReadsWindowKeeps DEF PumpReadsWindow, tableVars
<1>3. CASE UNCHANGED <<tableVars, pump>>
  BY <1>3 DEF tableVars
<1>4. CASE UNCHANGED tableVars /\ pump' = PumpIdle
  BY <1>1, <1>4 DEF tableVars
<1>5. CASE AppendEvent
  BY <1>1, <1>5 DEF AppendEvent
<1>6. CASE PruneEvents
  BY <1>6 DEF PruneEvents
<1>7. CASE PumpSendsBatch \/ PumpFails \/ ServerCloses \/ ServerEnds \/ ServerIsKilled \/ StartServer
  BY <1>3, <1>4, <1>7
     DEF PumpSendsBatch, PumpFails, ServerCloses, ServerEnds, ServerIsKilled, ServerIsGone, StartServer
<1>8. ASSUME NEW p \in Page, RequestArrives(p) \/ ReadWindow(p) \/ LoadReplay(p) \/ RequestFails(p)
      PROVE  UNCHANGED <<tableVars, pump>>
  BY <1>8 DEF RequestArrives, ReadWindow, LoadReplay, RequestFails
<1>9. ASSUME NEW p \in Page, Receive(p) \/ Reconnect(p) \/ ConnectionLost(p) \/ Hide(p) \/ Show(p)
      PROVE  UNCHANGED <<tableVars, pump>>
  BY <1>9 DEF Receive, Reconnect, ConnectionLost, Hide, Show
<1> QED
  BY <1>2, <1>3, <1>5, <1>6, <1>7, <1>8, <1>9 DEF StreamNext, streamVars

\* A page and what the server keeps for it have the numbers of events there are.
LEMMA PageTyped ==
  ASSUME NEW q \in StreamRequest, NEW c \in {NotJoined} \union Nat, NEW w \in Seq(EventFrame), NEW s \in Source,
         NEW last \in Nat, PageIsSound(q, c, w, s, last)
  PROVE  /\ {q.requested, q.cursor, q.high} \subseteq 0..last /\ Len(q.loaded) <= MaxReplay
         /\ c \in {NotJoined} \union 0..last
         /\ Len(w) <= MaxBuffer + 1
         /\ \A i \in 1..Len(w) : w[i].kind \in FrameKind /\ w[i].id \in 0..last
         /\ s.lastId \in 0..last
<1>1. s.lastId \in Nat /\ s.lastId <= last /\ Leads(w, s.lastId, last) /\ Len(w) <= MaxBuffer + 1
  BY DEF PageIsSound, Source
<1>2. c \in {NotJoined} \union 0..last
  BY DEF PageIsSound
<1>3. q.requested \in Nat /\ q.cursor \in Nat /\ q.high \in Nat
  BY DEF StreamRequest
<1>4. q.requested <= last /\ q.cursor <= last /\ q.high <= last /\ Len(q.loaded) <= MaxReplay
  <2>0. Len(<<>>) = 0 /\ MaxReplay \in Nat /\ 0 <= MaxReplay
    BY OneLeads, StreamBounds
  <2>1. CASE q = NoRequest
    BY <2>0, <2>1 DEF NoRequest
  <2>2. CASE q # NoRequest
    <3>1. RequestIsSound(q, s, last) /\ (q.at = "WINDOW" \/ q.at = "REPLAY")
      BY <2>2 DEF PageIsSound, RequestIsSound, StreamRequest
    <3> QED
      BY <1>1, <1>3, <2>0, <3>1 DEF RequestIsSound
  <2> QED
    BY <2>1, <2>2
<1>5. ASSUME NEW i \in 1..Len(w) PROVE w[i].kind \in FrameKind /\ w[i].id \in 0..last
  <2>1. w[i] \in EventFrame
    BY ElementOfSeq
  <2>2. Carries(w[i]) => w[i].id <= last
    BY <1>1 DEF Leads
  <2> HIDE DEF FrameKind
  <2> QED
    BY <2>1, <2>2 DEF EventFrame, Carries
<1> QED
  BY <1>1, <1>2, <1>3, <1>4, <1>5

\* What the server and the pages keep of the stream, and the frames between them,
\* have the shapes and bounds of StreamTypeOK.
THEOREM StreamTyped == StreamSpec => []StreamTypeOK
<1>1. StreamInit => pump.after <= lastEvent
  BY DEF StreamInit, PumpIdle
<1>2. StreamInv /\ pump.after <= lastEvent => StreamTypeOK
  <2> SUFFICES ASSUME StreamInv, pump.after <= lastEvent PROVE StreamTypeOK
    OBVIOUS
  <2>1. /\ firstEvent \in Nat \ {0} /\ lastEvent \in 0..LastEventNumber /\ firstEvent <= lastEvent + 1
        /\ server \in {"UP", "CLOSING", "DOWN"} /\ pump \in [at : {"IDLE", "LIST"}, after : Nat]
        /\ streamFaults \in 0..MaxStreamFaults
    BY DEF StreamInv, StreamShape
  <2>2. lastEvent \in Nat /\ LastEventNumber \in Nat /\ lastEvent <= LastEventNumber
    BY <2>1, StreamBounds
  <2>3. firstEvent \in 1..(LastEventNumber + 1) /\ 0..lastEvent \subseteq Cursor
    BY <2>1, <2>2 DEF Cursor
  <2>4. pump.at \in {"IDLE", "LIST"} /\ pump.after \in Cursor /\ lastEvent \in Cursor
    BY <2>1, <2>2 DEF Cursor
  <2>5. ASSUME NEW p \in Page
        PROVE  /\ eventRequest[p].at \in {"NONE", "WINDOW", "REPLAY"}
               /\ {eventRequest[p].requested, eventRequest[p].cursor, eventRequest[p].high} \subseteq Cursor
               /\ Len(eventRequest[p].loaded) <= MaxReplay
               /\ cursors[p] \in {NotJoined} \union Cursor
               /\ Len(wire[p]) <= MaxBuffer + 1
               /\ \A i \in 1..Len(wire[p]) : wire[p][i].kind \in FrameKind /\ wire[p][i].id \in Cursor
               /\ eventSource[p].state \in {"CLOSED", "CONNECTING", "OPEN", "WAITING", "FAILED"}
               /\ eventSource[p].lastId \in Cursor
    <3> DEFINE q == eventRequest[p]
               c == cursors[p]
               w == wire[p]
               s == eventSource[p]
    <3>1. /\ q \in StreamRequest /\ c \in {NotJoined} \union Nat /\ w \in Seq(EventFrame) /\ s \in Source
          /\ PageIsSound(q, c, w, s, lastEvent)
      BY StreamFacts
    <3> HIDE DEF q, c, w, s
    <3>2. /\ {q.requested, q.cursor, q.high} \subseteq 0..lastEvent /\ Len(q.loaded) <= MaxReplay
          /\ c \in {NotJoined} \union 0..lastEvent
          /\ Len(w) <= MaxBuffer + 1
          /\ \A i \in 1..Len(w) : w[i].kind \in FrameKind /\ w[i].id \in 0..lastEvent
          /\ s.lastId \in 0..lastEvent
      BY <2>2, <3>1, PageTyped
    <3>3. q.at \in {"NONE", "WINDOW", "REPLAY"} /\ s.state \in {"CLOSED", "CONNECTING", "OPEN", "WAITING", "FAILED"}
      BY <3>1 DEF StreamRequest, Source
    <3>4. /\ {q.requested, q.cursor, q.high} \subseteq Cursor /\ c \in {NotJoined} \union Cursor
          /\ \A i \in 1..Len(w) : w[i].kind \in FrameKind /\ w[i].id \in Cursor
          /\ s.lastId \in Cursor
      BY ONLY <2>3, <3>2
    <3> QED
      BY <3>2, <3>3, <3>4 DEF q, c, w, s
  <2> QED
    BY <2>1, <2>3, <2>4, <2>5 DEF StreamTypeOK
<1> QED
  BY <1>1, <1>2, StreamInvariant, PumpStaysBehind, PTL DEF StreamSpec

-----------------------------------------------------------------------------
(* The components together (MCCommands).                                     *)

\* A behaviour of the commands is one of each component: it takes that
\* component's steps, or leaves it alone.
LEMMA EachCommandPartBehaves ==
  CommandsSpec => /\ ContentSpec /\ CalendarSpec /\ LifecycleSpec /\ TelegramSpec
                  /\ RetentionSpec /\ StreamSpec
<1>1. CommandsInit => /\ ContentInit /\ CalendarInit /\ LifecycleInit /\ TelegramInit
                      /\ RetentionInit /\ StreamInit
  BY DEF CommandsInit
<1>2. ASSUME [CommandsNext]_commandsVars
      PROVE  /\ [ContentNext]_contentVars /\ [CalendarNext]_calendarVars /\ [LifecycleNext]_lifecycleVars
             /\ [TelegramNext]_telegramVars /\ [RetentionNext]_retentionVars /\ [StreamNext]_streamVars
  BY <1>2 DEF CommandsNext, commandsVars, othersOfCommands
<1> QED
  BY <1>1, <1>2, PTL
     DEF CommandsSpec, ContentSpec, CalendarSpec, LifecycleSpec, TelegramSpec, RetentionSpec, StreamSpec

\* The reviews and the reports share the command boundary, each in its own behaviours.
LEMMA EitherCrossesBoundary ==
  CommandsSpec => (part # "reports" => ReviewSpec) /\ (part # "reviews" => ReportsSpec)
<1>1. CommandsInit => ReviewInit /\ ReportsInit
  BY DEF CommandsInit
<1>2. part # "reports" /\ [CommandsNext]_commandsVars => (part # "reports")' /\ [ReviewNext]_reviewVars
  BY DEF CommandsNext, commandsVars, othersOfCommands, commandVars, reviewOnlyVars, reportOnlyVars, reviewVars,
         adapterVars
<1>3. part # "reviews" /\ [CommandsNext]_commandsVars => (part # "reviews")' /\ [ReportsNext]_reportVars
  BY DEF CommandsNext, commandsVars, othersOfCommands, commandVars, reviewOnlyVars, reportOnlyVars, reportVars
<1> QED
  BY <1>1, <1>2, <1>3, PTL DEF CommandsSpec, ReviewSpec, ReportsSpec

\* Whatever the components around the command boundary do, their records keep their
\* shapes, for any catalog, any numbers of events, pages, updates, backups and
\* workers (the runs' CommandsTypeOK).
THEOREM CommandsTyped == CommandsSpec => []CommandsTypeOK
<1>1. ContentTypeOK /\ CalendarTypeOK /\ TelegramTypeOK /\ RetentionTypeOK /\ StreamTypeOK => CommandsTypeOK
  BY DEF CommandsTypeOK
<1>2. RetentionInv => RetentionTypeOK
  BY DEF RetentionInv, RetentionShape, RetentionTypeOK
<1> QED
  BY <1>1, <1>2, EachCommandPartBehaves, ContentTyped, CalendarTyped, TelegramTyped, RetentionInvariant,
     StreamTyped, PTL

\* On every date, however the offset changes, each clock time has the promised instant
\* and each instant its business date, in the behaviours of the runs
\* (business-calendar.ts: resolveInstant, businessDateAt).
THEOREM DatesResolveHolds == CommandsSpec => []DatesResolve
<1>1. OccurrencesResolve /\ WindowsPartition => DatesResolve
  BY DEF DatesResolve
<1> QED
  BY <1>1, EachCommandPartBehaves, DatesResolveOnEveryDate, PTL

=============================================================================
