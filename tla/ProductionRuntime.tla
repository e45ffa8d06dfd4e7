--------------------------- MODULE ProductionRuntime ---------------------------
(***************************************************************************)
(* The queue of content to produce (production-runtime-service.ts) and the *)
(* command boundary its runs go through (execute of                        *)
(* local-workflow-command.ts).  A run gives back expired claims, claims    *)
(* one due job, and executes the command named after the job: it looks for *)
(* the receipt of the command, inserts the production, stores the receipt, *)
(* and completes the job.  Each of these is a transaction of its own, runs *)
(* of several workers interleave, and a worker may die between any two.    *)
(* Leases and backoffs end by themselves: nothing depends on their length. *)
(***************************************************************************)
EXTENDS Integers

CONSTANTS
  ContentJob,        \* jobs, each with a brief and a production of its own
  ContentWorker,     \* callers of runOnce
  MaxJobAttempts,    \* maxAttempts of a job, 3 in the code
  MaxWorkerCrashes   \* bound

ASSUME ContentAssumption == MaxJobAttempts \in Nat \ {0} /\ MaxWorkerCrashes \in Nat

VARIABLES
  contentJobs,      \* [ContentJob -> job or NoContentJob]
  produced,         \* jobs whose production is in the database
  contentReceipts,  \* jobs whose command has a receipt
  workers,          \* [ContentWorker -> run]
  workerCrashes

contentVars == <<contentJobs, produced, contentReceipts, workers, workerCrashes>>

NoContentJob == [status |-> "NONE", attempt |-> 0, version |-> 0, waiting |-> FALSE]
WorkerIdle == [at |-> "idle"]

ContentInit ==
  /\ contentJobs = [j \in ContentJob |-> NoContentJob]
  /\ produced = {} /\ contentReceipts = {}
  /\ workers = [w \in ContentWorker |-> WorkerIdle]
  /\ workerCrashes = 0

\* waiting: the lease of a running job, or the time of another, is not over.
Enqueue(j) ==
  /\ contentJobs[j] = NoContentJob
  /\ contentJobs' = [contentJobs EXCEPT
       ![j] = [status |-> "QUEUED", attempt |-> 0, version |-> 0, waiting |-> TRUE]]
  /\ UNCHANGED <<produced, contentReceipts, workers, workerCrashes>>

TimeIsOver(j) ==
  /\ contentJobs[j].waiting
  /\ contentJobs' = [contentJobs EXCEPT ![j].waiting = FALSE]
  /\ UNCHANGED <<produced, contentReceipts, workers, workerCrashes>>

-----------------------------------------------------------------------------
(* A run. *)

WorkerAt(w, place) == workers[w].at = place
WorkerGoes(w, run) == workers' = [workers EXCEPT ![w] = run]
Moves(w, place) == WorkerGoes(w, [workers[w] EXCEPT !.at = place])
Claimed(w) == workers[w].job

\* A write of a job names the version that was read.
Unchanged(j, version) == contentJobs[j].version = version

\* Mutant: the last attempt is followed by one more.
Exhausted1(job) == job.attempt > MaxJobAttempts

Exhausted(job) == job.attempt >= MaxJobAttempts

Failed(j) ==
  LET job == contentJobs[j] IN
  [job EXCEPT !.status = IF Exhausted(job) THEN "DEAD_LETTER" ELSE "RETRY_SCHEDULED",
              !.version = @ + 1, !.waiting = ~Exhausted(job)]

\* Mutant: claims are never given back.
NoClaims == {}

ExpiredClaims ==
  {<<j, contentJobs[j].version>> : j \in {k \in ContentJob :
     contentJobs[k].status = "RUNNING" /\ ~contentJobs[k].waiting}}

StartRun(w) ==
  /\ WorkerAt(w, "idle")
  /\ WorkerGoes(w, [at |-> "recovering", expired |-> ExpiredClaims])
  /\ UNCHANGED <<contentJobs, produced, contentReceipts, workerCrashes>>

\* One expired claim is given back; one that changed since it was listed ends the run.
GiveBack(w) ==
  /\ WorkerAt(w, "recovering")
  /\ \E claim \in workers[w].expired :
       IF Unchanged(claim[1], claim[2])
       THEN /\ contentJobs' = [contentJobs EXCEPT ![claim[1]] = Failed(claim[1])]
            /\ WorkerGoes(w, [workers[w] EXCEPT !.expired = @ \ {claim}])
       ELSE WorkerGoes(w, WorkerIdle) /\ UNCHANGED contentJobs
  /\ UNCHANGED <<produced, contentReceipts, workerCrashes>>

ClaimableJobs ==
  {j \in ContentJob : contentJobs[j].status \in {"QUEUED", "RETRY_SCHEDULED"} /\ ~contentJobs[j].waiting}

\* The job that is due longest, here any that is due.
ClaimNextContentJob(w) ==
  /\ WorkerAt(w, "recovering") /\ workers[w].expired = {}
  /\ IF ClaimableJobs = {} THEN WorkerGoes(w, WorkerIdle) /\ UNCHANGED contentJobs
     ELSE \E j \in ClaimableJobs :
       /\ contentJobs' = [contentJobs EXCEPT ![j].status = "RUNNING", ![j].attempt = @ + 1,
                                             ![j].version = @ + 1, ![j].waiting = TRUE]
       /\ WorkerGoes(w, [at |-> "looking", job |-> j, version |-> contentJobs[j].version + 1])
  /\ UNCHANGED <<produced, contentReceipts, workerCrashes>>

LookForReceipt(w) ==
  /\ WorkerAt(w, "looking")
  /\ Moves(w, IF Claimed(w) \in contentReceipts THEN "completing" ELSE "producing")
  /\ UNCHANGED <<contentJobs, produced, contentReceipts, workerCrashes>>

\* A production that exists is a conflict, and fails the run.
InsertProduction(w) ==
  /\ WorkerAt(w, "producing")
  /\ Moves(w, IF Claimed(w) \in produced THEN "failing" ELSE "storing")
  /\ produced' = produced \union {Claimed(w)}
  /\ UNCHANGED <<contentJobs, contentReceipts, workerCrashes>>

\* A receipt that another run of the command stored first is as good.
StoreReceipt(w) ==
  /\ WorkerAt(w, "storing")
  /\ contentReceipts' = contentReceipts \union {Claimed(w)}
  /\ Moves(w, "completing")
  /\ UNCHANGED <<contentJobs, produced, workerCrashes>>

\* A transaction of the command or the one that completes the job throws, or the
\* production cannot be made.
CommandFails(w) ==
  /\ workers[w].at \in {"looking", "producing", "storing", "completing"}
  /\ Moves(w, "failing")
  /\ UNCHANGED <<contentJobs, produced, contentReceipts, workerCrashes>>

\* Mutant: the job is completed whatever became of the claim.
CompleteAnyway(w) ==
  /\ WorkerAt(w, "completing")
  /\ contentJobs' = [contentJobs EXCEPT ![Claimed(w)].status = "COMPLETED",
                       ![Claimed(w)].version = @ + 1, ![Claimed(w)].waiting = FALSE]
  /\ WorkerGoes(w, WorkerIdle)
  /\ UNCHANGED <<produced, contentReceipts, workerCrashes>>

CompleteJob(w) ==
  /\ WorkerAt(w, "completing")
  /\ IF Unchanged(Claimed(w), workers[w].version)
     THEN /\ contentJobs' = [contentJobs EXCEPT ![Claimed(w)].status = "COMPLETED",
                               ![Claimed(w)].version = @ + 1, ![Claimed(w)].waiting = FALSE]
          /\ WorkerGoes(w, WorkerIdle)
     ELSE Moves(w, "failing") /\ UNCHANGED contentJobs
  /\ UNCHANGED <<produced, contentReceipts, workerCrashes>>

FailJob(w) ==
  /\ WorkerAt(w, "failing")
  /\ contentJobs' = IF Unchanged(Claimed(w), workers[w].version)
                    THEN [contentJobs EXCEPT ![Claimed(w)] = Failed(Claimed(w))]
                    ELSE contentJobs
  /\ WorkerGoes(w, WorkerIdle)
  /\ UNCHANGED <<produced, contentReceipts, workerCrashes>>

\* The process dies, or a transaction throws whose failure ends the run: one that
\* lists, gives back or claims jobs, or the one that records a failure.
WorkerCrash(w) ==
  /\ workerCrashes < MaxWorkerCrashes /\ ~WorkerAt(w, "idle")
  /\ workerCrashes' = workerCrashes + 1
  /\ WorkerGoes(w, WorkerIdle)
  /\ UNCHANGED <<contentJobs, produced, contentReceipts>>

RunStep(w) ==
  \/ StartRun(w) \/ GiveBack(w) \/ ClaimNextContentJob(w) \/ LookForReceipt(w)
  \/ InsertProduction(w) \/ StoreReceipt(w) \/ CompleteJob(w) \/ FailJob(w)

ContentNext ==
  \/ \E j \in ContentJob : Enqueue(j) \/ TimeIsOver(j)
  \/ \E w \in ContentWorker : RunStep(w) \/ CommandFails(w) \/ WorkerCrash(w)

ContentSpec == ContentInit /\ [][ContentNext]_contentVars

\* The recurring job of the operations runtime calls runOnce again and again,
\* and a run under way goes on; time passes.
ContentFairness ==
  /\ \A w \in ContentWorker : WF_contentVars(RunStep(w))
  /\ \A j \in ContentJob : WF_contentVars(TimeIsOver(j))

-----------------------------------------------------------------------------
(* Properties. *)

\* The shapes of the jobs and of the runs, and the attempts of a job: a lost
\* lease counts like a failure, and none is started after the last.
ContentTypeOK ==
  /\ \A j \in ContentJob :
       /\ contentJobs[j].status \in
            {"NONE", "QUEUED", "RUNNING", "RETRY_SCHEDULED", "COMPLETED", "DEAD_LETTER"}
       /\ contentJobs[j].attempt \in 0..MaxJobAttempts
       /\ contentJobs[j].version \in 0..(2 * MaxJobAttempts)
       /\ contentJobs[j].waiting \in BOOLEAN
  /\ produced \subseteq ContentJob /\ contentReceipts \subseteq ContentJob
  /\ \A w \in ContentWorker : workers[w].at \in
       {"idle", "recovering", "looking", "producing", "storing", "completing", "failing"}
  /\ workerCrashes \in 0..MaxWorkerCrashes

\* A completed job has its production and the receipt that answers for it, and a
\* receipt is only there with the production, whichever of several runs of the
\* same command died, lost its lease or came late (execute and #complete).
CompletedIsProduced ==
  /\ \A j \in ContentJob : contentJobs[j].status = "COMPLETED" => j \in contentReceipts
  /\ contentReceipts \subseteq produced

\* A run that lost its claim changes nothing any more: what becomes of a running
\* job is decided by the run that holds the claim or by the end of the lease.
OnlyTheClaimDecides ==
  [][\A j \in ContentJob :
       contentJobs[j].status # "NONE" /\ contentJobs'[j].version # contentJobs[j].version =>
         \/ contentJobs'[j].status = "RUNNING" /\ contentJobs[j].status \in {"QUEUED", "RETRY_SCHEDULED"}
         \/ contentJobs[j].status = "RUNNING" /\ ~contentJobs[j].waiting
         \/ \E w \in ContentWorker :
              /\ workers[w].at \in {"completing", "failing"}
              /\ Claimed(w) = j /\ workers[w].version = contentJobs[j].version
    ]_contentVars

\* Both, of every interleaving of the runs and of every death of one.
ProductionsAreSound == []CompletedIsProduced /\ OnlyTheClaimDecides

\* Every job in the queue is completed or set aside for the operator.
ContentJobsEnd ==
  \A j \in ContentJob :
    contentJobs[j].status = "QUEUED" ~> contentJobs[j].status \in {"COMPLETED", "DEAD_LETTER"}

=============================================================================
