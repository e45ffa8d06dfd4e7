# MV-AI-OS: a verification project

TLA+ models of the parts of MV-AI-OS whose correctness depends on the order in
which processes, transactions, timers and crashes happen, the TLC runs that
check them on small instances, and TLAPS proofs for every instance. Paths are
relative to the repository root, which the machine-readable inventory
(`PROJECT.json`) calls `src/`; a file named without its directory is under
`src/`, and `worker-service` is short for
`src/operations-runtime/operations-worker-service.ts`.

## 1. The system

MV-AI-OS is a TypeScript operating system for one founder's companies. Its
state lives in one SQLite database (WAL, `BEGIN IMMEDIATE` transactions) and a
few JSON documents that several long-lived local processes share: a scheduler, a
worker, a command center (HTTP), a Telegram adapter, a backup verifier, and the
operator's commands. launchd (or systemd) keeps them running. About 180 000
lines are TypeScript, two thirds of which are validators, specifications of
agents, tests and rendering. The rest is services that read rows, decide, and
write rows back in one transaction; those are what is modelled here.

| part | state | operations | what is hard | modules |
|---|---|---|---|---|
| operations worker (`operations-runtime/operations-worker-service.ts`) | jobs, attempts, process leases, events; per process its lease and the claim in hand | runOnce = acquire lease, recover, claim, execute (heartbeats, timeout, abort), finalize; requestCancellation; close | stalls, superseded processes, crashes between transactions, a clock read before the transaction, retries counted twice | `JobLifecycle`, `OperationsRuntime` |
| runtime control (`operations-runtime-control-service.ts`) | kill switch, maintenance, retention, usage rollups | update, enforceRetention | it deletes rows that others count | `OperationsRuntime`, `EventStream` |
| scheduler (`operations-scheduler-service.ts`, `contracts/business-calendar.ts`) | schedules, scheduler lease | registerSchedule, tick, heartbeat, close | missed occurrences, back pressure, two schedulers, daylight saving | `OperationsScheduler`, `BusinessCalendar` |
| role lock (`supervised-process-lock.ts`) | two files | acquire, close | stale locks, racing recoveries, lstat/unlink windows | `SupervisedProcessLock` |
| persistence (`persistence/sqlite/`) | connection, queue of transactions | transaction, close | branches that outlive a rollback, a failed COMMIT or ROLLBACK | `TransactionRunner`, `AtomicTransactions` |
| paid calls (`cost-control/`) | ledger of reservations, kill switch, activation | reserve, call, settle | a crash after the provider was paid, midnight, the lock of a dead writer | `PaidModelCalls`, `CostLedgerFile` |
| workflow runtime (`workflows/`) | instance, steps, checkpoints, receipts | invoke, resume, accept, fail, control | a decision read in one transaction and used in a later one, late answers | `WorkflowExecution` |
| content and publication (`runtime/local-workflow-command.ts`, `operational-planes/`) | content record, production control, plans | review, schedule, authorize, record, archive | a plan that outlives the control it was bound to | `ContentPublication` |
| operations control (`operations-control/`) | proposals, receipts, successors | propose, renew, confirm | one-use confirmation, expiry, a state that has moved on | `OperationsControl` |
| command boundary (`runtime/local-workflow-command.ts`) | command receipts | execute | a crash between dispatch and receipt | `CommandBoundary`, `ContentReview`, `WorkflowReports` |
| content queue (`production-runtime/`) | jobs, claims | enqueue, runOnce | a worker that dies after the production exists | `ProductionRuntime` |
| admin security (`admin-security/`) | one document: tokens, challenges, sessions, receipts | bootstrap, sign in, step up, log out | requests that authenticated before a logout | `AdminSecurity` |
| Telegram (`telegram/`) | polling offset, receipts, deliveries, session | poll, handle, deliver, reconcile | redelivered updates, deliveries of unknown fate | `TelegramOperator` |
| backups (`operations-backup-retention.ts`, CLI) | bundles of files | verify, retain | a crash in a deletion of several files, two passes in one directory | `BackupRetention` |
| events (`operational-event*.ts`, `command-center/`) | event window, connections | append, replay, pump, prune | cursors out of the window, a pump that serves joining readers | `EventStream`, `LivePage` |

How they interact. Everything durable in SQLite goes through
`repositories.transaction(...)`: what `AtomicTransactions` promises of it is
what an action of the other modules assumes when it models a transaction's body
as one step, and `TransactionRunner` is shown to keep that promise. The
scheduler inserts the jobs that the worker claims. The operator's commands and
the command center write control rows, cancellations and proposals that the
worker reads at its next transaction. Command center, Telegram and command line
reach content and workflows through the one command boundary. Two processes of
the same role are kept apart twice: by the role's lock file, and by a lease with
a fencing token in the database.

Correctness of each part, in a line:

* worker: an attempt ends once, in one record, by its holder or after its lease
  has expired; retries are bounded; a cancellation is never lost; nor is usage;
* scheduler: an occurrence becomes at most one job; nothing is enqueued beyond
  the queue's depth; a missed occurrence is skipped or caught up as configured;
* role lock and ledger lock: one holder, and a crash locks nobody out for ever;
* paid calls: one call for a reservation, one settlement, within the budgets;
* workflow: one accepted result for a step, under the controls then in force;
* commands, proposals, ceremonies, deliveries: applied once, to what was shown,
  within their validity, whatever the order of confirm, expiry and crash;
* backups and events: nothing is deleted that a recovery or a reader needs.

## 2. The modules

Each component has one module with its state as VARIABLES, one action per
transaction, system call or event, and its properties at the end. A transaction
is one action and either happens or not; what a process reads in one
transaction and uses in a later one is part of its state. Where several
components are checked in one run, an `MC...` module composes them: a variable
`part`, chosen at the start, says which of them a behaviour is about, and the
others rest in an initial state. This changes nothing about a component, whose
specification stands on its own in its module.

### JobLifecycle

What the runtime promises about a job, with no processes, leases or clocks:
attempts are begun one at a time and at most `MaxAttempts` of them, each ends
once, a job has one verdict, a request to cancel is decided in its attempt. Its
steps are the arrows of `isOperationsJobTransitionAllowed`
(`operations-runtime.ts:327`) together with what they do to attempts. Several
jobs may step at once, as they do in a recovery or a retention pass.

### OperationsRuntime

The rows (`job`, `attempts`, `rollup`, `event`, `lease`, `control`) and the
memory of each `OperationsWorkerService` object (`worker[i]`): where `runOnce`
stands, the fencing token it was given, the claim in hand, the handler's result
or failure, whether a heartbeat is in flight, whether `close()` was called.

* One action per transaction body (`AcquireProcessLease`,
  `RecoverExpiredClaims`, `ClaimNextDue`, `HeartbeatClaim`, `FinalizeClaim`,
  `RequestCancellation`, `ReleaseProcessLease`, `UpdateControl`,
  `EnforceRetention`, `InsertJob`) and one per event between transactions (the
  handler returns, throws or settles, the timer fires, a heartbeat is refused,
  the process is closed or dies, a transaction fails).
* Time is relative: a deadline is kept as the distance to now and `Tick`
  decrements it, so no clock grows. The code reads the clock *before* it waits
  for the database, hence a transaction sees an instant up to `MaxLag` ticks
  old, a parameter of each of these actions. Distances stop sinking at
  `-MaxLag`: from there on no reading tells them apart.
* A transaction either happens or not; a failed one (`TransactionFails`) ends
  the loop of the CLI, which closes the service and lets the process end.
* Abstracted: payloads, budgets with one dimension instead of three, handler
  types; the queue's order is priority, then an arbitrary choice, where the code
  goes on to `runAfter`, `createdAt` and the ID.

### SupervisedProcessLock

Two files, each known by the process whose record it holds, and each process's
position in `acquire` or `close`. One action per system call: `link`, the read
of a record, the probe of a process, `lstat`, `unlink`. A process that has ended
is not started again under the same identity while a file or another process
remembers it, which is what `verifiable-process-identity.ts` provides on Linux
(boot, PID namespace, start time). Where only a PID can be read the probe errs
on the side of "alive", which is not modelled. I/O errors of the calls,
directory syncs and the private candidate files are left out.

### OperationsScheduler

The schedules' rows (`schedule`), the scheduler lease, each scheduler process
(`scheduler[i]`) and, of the queue, what the scheduler can see: for each
schedule the jobs of its last `Window` occurrences (`jobOf`), and the number of
all other active jobs (`others`): those of other producers, and those of older
occurrences, so that the depth a tick counts misses none. `at` names the
occurrence `nextRunAt` stands for, so that `jobOf[s][at]` is the job with that
operation identity.

* A tick is two transactions: `AcquireLease` and `Materialize`, which compares
  the lease again, looks at the control row and the depth, takes the schedules
  that are due longest and, for each, inserts the job or skips it *and* moves
  the schedule on. A `LEASE_HELD` tick changes nothing and is no action. A tick
  with the lease that finds the runtime stopped or the queue full ends as it is.
* `RegisterSchedule` is a transaction for each schedule of the catalog, on
  every start of a process; `CloseScheduler` deletes the lease row and
  `SchedulerCrash` leaves it.
* Environment: the operator's control (`SetStopped`), other producers and the
  end of what they and older occurrences queued (`OtherJobs`), workers and retention (`JobEnds`, `JobIsDeleted`).
* Time is relative as above. A delay is measured up to `MaxLate`; from there on
  it stands for any longer one, and the next occurrence may lie anywhere in the
  next gap. `CALENDAR_DAILY` is a schedule whose gaps have several lengths
  (a day has 23, 24 or 25 hours, and the first gap is shorter or longer);
  `ONCE` has no gap.
  What the two rules of `Ahead` assume of a calendar is what `BusinessCalendar`
  checks: an occurrence is missed exactly if it is not the following one the
  schedule moves to, and the one it moves to is the first behind the reading.
* `heartbeat()` is `AcquireLease` alone, and nothing in the repository calls it.
* Abstracted: payloads, fingerprints and the conflicts that a changed catalog
  raises (the process ends, as in `Ends`).

### BusinessCalendar

`contracts/business-calendar.ts` in slots of time: the local clock is UTC plus
an offset that changes once within the instants looked at (what
`Intl.DateTimeFormat` answers, hence external), `CalendarDailyOccurrenceAt`
searches the instants around the naive one for the exact clock time or the first
one after a gap, `NextCalendarDailyOccurrence` is built on it as in the code, and
`Materialize` moves a `CALENDAR_DAILY` schedule as `nextOccurrence` does, from a
first occurrence at any clock time. The reference is `FirstInstant`: the first
instant of a date that is not before the clock time. Dates are numbers; their
formatting and validation are left out. A slot stands for the instants up to
the next one, which is exact because an occurrence is at a slot's start. The
model stops where the next occurrence lies beyond `CalendarHorizon`, so its run does not
look for deadlocks.

### TransactionRunner and AtomicTransactions

`SqliteRepositoryTransactionRunner`: one connection and one `#tail` of queued
transactions for each process, of which the database lets one write at a time.
An operation writes in branches that run in parallel; when one fails, the
others go on after the ROLLBACK, and only `assertActiveTransaction` keeps them
out of the database and out of the next transaction. BEGIN, COMMIT and ROLLBACK
may fail, processes may close and die. A failed ROLLBACK leaves the connection
within its transaction, and every later BEGIN fails until it is closed; an
operation that waited for a second transaction of its own runner would wait for
ever, and none does. `AtomicTransactions` is the promise: all writes or none,
and a caller who was told the truth. The runners of the ventures and of the
vault have the same form.

### PaidModelCalls and CostLedgerFile

`PaidModelCalls`: one paid request is reserve, call, settle; the two ledger
steps are transactions that may fail, the process may die between any two, and
midnight opens another day's budget. The provider answers, times out, fails, or
answers something that the gateway rejects. `LIVE_PAID` demands one provider
call for a request, so there is no retry. The clock moves in ticks up to
`Horizon`; a day's end is told from its middle.

`CostLedgerFile` is what makes those transactions atomic: a lock directory
with an owner file in it, a read, a rename. A waiting process inspects the
directory and removes one whose owner is dead, or one without a readable owner
for half a minute. `stolen` records the one exception to its exclusion, a
removal of a directory that is not the one inspected.

### WorkflowExecution

One instance of a workflow: its steps, the checkpoints of its controls, the
receipts of invocations and outcomes, and the callers of the agent invoker.
The invoker reads the instance in one transaction, evaluates the controls,
reserves the step in another, runs the agent, and stores the answer in a third;
the lifecycle service and the operator act in between. The agent returns, times
out, or answers late. `wf.version` guards each write, as in the code. Evidence
counts for one version, so that of older versions is forgotten.

### ContentPublication and OperationsControl

`ContentPublication`: the production's record from its review to the receipt
of its publication, its control (paused, resumed, cancelled, sent back), the
publication plans bound to both, and the kill switch. An operation names the
version it read, so it acts on the present one or is refused without effect.
`OperationsControl` extends it with the operator's proposals: proposed under an
idempotency key for a version and a fingerprint, renewed or expired after five
minutes, and applied once when confirmed with the one-time token; on the
production, on a failed job (which gets a successor), or on an incident.

### CommandBoundary, ContentReview, WorkflowReports

`CommandBoundary` is `LocalWorkflowCommandBoundary.execute`: look up the
receipt, dispatch, insert the receipt, in three transactions. Two modules say
what is dispatched. `ContentReview`: the Command Center's proposals, kept in its
memory, Telegram's one-use approval and the command line all review one
production, through the Visual Gate, which compares the manifest on disk with
the one shown. `WorkflowReports`: controls of a workflow, which its own
lifecycle records keep too, while Telegram's `/report` reads it.

### ProductionRuntime

The queue of content to produce: a run gives back expired claims, claims a due
job, and executes the command named after the job (look up its receipt, insert
the production, insert the receipt), and completes or fails it. Workers
interleave and die between any two transactions. A transaction that throws fails
the job when it belongs to the command or completes the job, and ends the run as
a death does anywhere else. Leases and backoffs end by themselves, since nothing
depends on their length.

### AdminSecurity

Bootstrap, passkey ceremonies, sessions and step-up receipts as requests that
interleave on one document; a mutation is computed again when the document has
changed, so it is one step, and between two mutations of a request everything
may change. That step rests on the file's own `SupervisedProcessLock`
(`file-admin-security-repository.ts`), for as long as that lock excludes: the run
`SupervisedProcessLockExclusive` shows that it may not after a crash in a
recovery, and what two writers at once would do to the document is not modelled.
A moment of the clock is read before the write, up to `MaxLag`
earlier. What the code prunes stays, and is refused like what is missing. The
consumption of a receipt does not look at the session again; the kill switch
and the global logout do, because they authenticate again, a confirmation does
not.

### TelegramOperator

One operator process: purge, poll with retries, claim an update, handle it,
open a delivery, send, and settle the delivery together with the offset. The
chat keeps what it was sent, and the module counts it. A crash may happen
anywhere, an answer may be lost, and the receipts are purged by age. Modelled
commands: `/stop` with its confirmation, `/status` for all that change nothing,
one whose handling fails, and updates of strangers.

### BackupRetention

A pass makes a backup, proves it, adds the snapshot and the manifest, and then
removes old bundles: it lists, inspects, protects the newest signed ones, moves
the parts of a doomed one out of the way one by one and unlinks them. Each file
operation is a step that may fail or be the last before a crash, and two passes
may share the directory. What a pass only reads is coarser: of a bundle's parts
the database, the unsigned sidecars and the signature are looked at in a step
each, and all are compared with what was seen in one more before the removal; the
moves, the rollback and the unlinks, which decide what is left, are a step for
each file. Backups are numbered in the order of their names.

### EventStream and LivePage

`EventStream`: the outbox of events with its retention, requests of pages
answered by a replay or a reset, and one pump that serves all joined pages from
the slowest cursor on. Every read of events is a transaction of its own.
`LivePage` is the page: one fetch in flight, one queued behind it, a debounce
timer, and an interval while the stream is down; what it shows is abstracted to
whether the latest change is in it.

## 3. Runs

| run | components | question | bounds |
|---|---|---|---|
| `Operations` | worker, operator's control | do the rows stay right and is the lifecycle kept when two workers fight for a job; is a confirmation applied once and to what was shown | one job, two instances of one identity (not excluded from each other), one retry, leases of two ticks, lag one, tokens to 2, one stop or crash, a usage of 1 for each attempt against a budget of 1; two keys, one plan, two control versions, two switches, one renewal, and none once the kill switch was set twice (`OperatorBound`) |
| `Processes` | scheduler, role lock, paid calls, ledger file, transactions | what processes that share a table, a file or a connection may do to each other | three schedules (every 2 ticks with SKIP, a calendar of 2 or 3 with CATCH_UP_ONE, once), delays to 3, queue depth two; four lock processes with two crashes, none in a recovery; three requests of two missions, limits 2/2/3, two days of one tick, an approval that lasts its tick, one fault; three ledger writers, two deaths; three transactions of two branches in two processes, two faults |
| `ProcessesLiveness` | worker, scheduler, role lock, ledger file, content queue, page | what must happen in the end | one job, two instances; two schedulers, delays to 2, one stop; three lock processes, one crash anywhere; two ledger writers, one death; one content job, two workers, two attempts; one page, two events, one fault |
| `Commands` | reviews, reports, content queue, worker, calendar, lifecycle, Telegram, backups, events | are commands, updates, dates, backups and events handled once and kept | seven callers, one proposal, one new manifest, one crash; two content jobs, two workers, two attempts, two crashes; half-hour slots, three days around a change of the clocks, five clock times; one worker with two jobs; two lifecycle jobs with two attempts; two updates, polls of two, one crash, retention 1; three backups (one of them there before), one protected, two passes, two faults; two pages, four events, replays of two, one fault |
| `Workflow` | workflow, admin security | are steps and ceremonies used once, under the controls then in force | two steps, one with an approval and one with a guardian (independent with one attempt each, or one after the other with two), two invocations, two callers, version 5, two checkpoints; two requests, four settings, two challenges, one receipt |
| `OperationsRuntimeFencing` | worker | violation: are tokens monotonic | two instances, two stops |
| `OperationsRuntimeSuperseded` | worker | violation: can a superseded worker commit | two instances, a job lease longer than the process lease |
| `SupervisedProcessLockExclusive` | role lock | violation: does it exclude after a crash in the recovery | three processes, one crash anywhere |
| `WorkflowResumed` | workflow | violation: is an interrupted reservation resumed at its version only | as `Workflow` |
| `VisualGate` | reviews | violation: is what is approved what was shown | one proposal, two new manifests |
| `CommandReplay` | reviews | violation: is an applied command answered when it is sent again | one crash |
| `TelegramRedelivery` | Telegram | violation: is an update answered once | one update, one crash, a short retention |

Why the bounds suffice. Two instances are the fewest that can be superseded and
supersede; the second retry of a job is like its first, because a retry leaves
only the attempt's number behind; the lag needs one tick to differ from zero; a
lease of two ticks has a state that is neither fresh nor expired. Three
processes are needed for the lock's race (a dead one and two recoverers), the
fourth and the second crash let a recovered lock go stale again. `Window` of
two keeps the current occurrence and the one before it: a tick touches no
other job, and counts the older ones among `others`. The largest delay stands for any of three ticks or longer, which no gap
of the instance exceeds; one other job can fill the depth together with the
schedule's own. The limits of the paid calls let two requests pass and refuse
the third by the mission's, the day's or the total budget in turn. Two keys let
an older proposal be confirmed after a newer one. Two callers and two
invocations let a call find the other's reservation, its timeout and its late
answer; version 5 is behind a reservation, a pause, a resume, an outcome and
one more reservation. Three backups with one protected and a limit of one
deletion let a pass delete while another lists. Four events with two retained
let a cursor leave the window. A usage that exceeds the budget in one attempt
is what `Commands` has for its two jobs of one mission. A second attempt matters to a workflow where another step waits for
the first one's, and is left out where the steps are independent. Symmetry is
used over instances, over the keys of proposals, over invocations and over
callers, which differ in nothing but their names, and never in a run with
liveness properties. `CHECK_DEADLOCK FALSE` is said where a
part may come to its end, as when all jobs are completed or all names are used
up (`Commands`, `Workflow`); in the other runs `Rest` says so for the parts
that do, and the rest is checked.

The clock bounds, `MaxToken`, `MaxStops`, `MaxCrashes`, `MaxFaults`, `MaxVersion`
and their like only stop behaviours that would otherwise go on for ever; each is
commented as a bound where it is declared.

### Properties, and where they would break

* `JobsAreSound`, `OneClaimHolder`, `ClaimEndsByHolderOrExpiry`,
  `ImplementsLifecycle`: a worker that stalls past its lease and comes back after
  the job was recovered, retried and claimed again. Worker identity and fencing
  token may be equal by then; the `leaseId` of the claim is what keeps the two
  apart. Finalization and recovery decide the same questions in two places.
* `UsageIsAccounted`: usage over attempts and over deleted jobs.
* `LifecycleSound`: the promise itself, of two jobs at once; that the worker keeps
  it is `ImplementsLifecycle`.
* `OccurrencesAreExact`, `CatchesUp`, `QueueBounded`: a crash between queueing and
  moving on, a scheduler that comes back after a takeover, a restart that
  registers the catalog again, an operation identity that retention has deleted;
  the boundaries of `missed` and `elapsed`, with a clock reading that is older
  than the transaction. They hold because the move is in the transaction of the
  insertion; the look-up of the operation identity alone would not do.
* `DatesResolve`, `OccurrencesFollow`: the short and the long day, a reading on
  the very occurrence, downtime over several days.
* `HolderIsPublished`, `LocksComeBack`: the role lock, and the ledger's.
* `TransactionsAreAtomic`: a branch that goes on behind the rollback, into the
  next transaction of the same connection.
* `BudgetsHold`, `ReservationsAreSound`, `LedgerIsKept`: a death after the provider
  was paid; two requests that each fit and together do not; midnight between
  reservation and settlement; a rename over a newer ledger.
* `OpenPlansFollowControl`, `PublicationIsControlled`, `ConfirmationsAreSound`: a
  plan made under one control and published under another; a control made after
  the plan; a confirmation of something that was changed in between.
* `StepsAreSound`, `ReservedUnderControls`, `LateAnswersChangeNothing`: two callers
  of one step, evidence read at one version and used at another, an answer after
  its timeout, a retry after a reservation that nobody finished.
* `AnswersAreSound`, `ControlsAreReplayed`, `ProductionsAreSound`: the three
  transactions of the boundary, cut anywhere.
* `CeremoniesAreOneUse`, `SessionsEndForGood`: two requests with one challenge or
  receipt; a touch after a logout.
* `UpdatesAreSettled`: polling past an update that was not answered.
* `BackupsAreKept`: a crash in the deletion of a bundle; two passes that each
  count the other's backups.
* `EventsFollow`, `PagesCatchUp`: a cursor pruned between two reads, a page that
  joins the pump, a fetch that was in flight when the change came.
* `ClaimsEnd`, `CancellationTakesEffect`, `DueIsHandled`, `ContentJobsEnd`:
  liveness, after crashes and takeovers, also with the kill switch on.

### Fairness

Stated by each component and repeated in `MCProcessesLiveness` for the part a
behaviour is about.

* Worker: the clock runs; a process that ended is started again, after a failure
  by launchd (`KeepAlive` with `SuccessfulExit` false, in `ops/launchd`), after a
  clean end by the operator, who wants the service up; every awaited call of a
  run settles. A handler is *not* assumed to return, its timeout timer fires; a
  handler that ignores its abort is left behind and its claim recovered. Nothing
  is assumed of the operator, of crashes or of `close`.
* Scheduler: as for the worker; jobs end; and a tick may stall past its lease any
  number of times but not every time (strong fairness: the lease is 30 seconds
  and the second transaction follows the first at once). `DueIsHandled` assumes
  that the operator in the end leaves the runtime running and that other
  producers leave room in the queue.
* Locks: a process that is alive goes on with its next call, somebody starts a
  process when none is alive, and a caller that found the ledger busy asks again.
* Content queue: a run goes on, and a lease or a backoff ends by time.
* Pages: the pump, the server's restart, a page's requests and its timers go on.
  Neither `fetch` nor `EventSource` has a timeout of its own: that a request is
  answered or fails is an assumption on the browser.

## 4. What the violations show

1. `MonotonicFencing`. `docs/SUPERVISED_H24_RUNTIME_V1.md:30` promises expiring
   leases and *monotonic* fencing tokens. A graceful close deletes the lease row
   and the next acquisition inserts token 1, beside a stalled instance that
   holds the same token or a larger one. Claims stay safe (`OneClaimHolder` is
   proved) because of the `leaseId`, not of the token.
2. `SupersededNeverCommits`. The comment at `worker-service:29` says the process
   token keeps a superseded worker from committing. `#finalizeClaim` does not
   look at the process lease: a worker whose lease was taken over commits as
   long as its *job* lease was not recovered.
3. `Exclusive`. After a crash that leaves a stale lock *and* an orphan recovery
   claim, two processes can both `lstat` the orphan; the slower `unlink` removes
   the claim the faster one has published in between. Both recover the stale
   lock, and the slower one unlinks the lock the faster one holds. The same
   lock is exclusive, provably, as long as no process dies with a recovery claim
   in hand.
4. `ResumedAtReservedVersion`. `docs/project-state/05_DECISIONS.md:1695` says an
   interrupted reservation needs its original exact version. The reservation's
   transaction takes a receipt that is already there for its own, whatever has
   become of the instance since; only `#resume` asks for the reserved version.
5. `ApprovedAsProposed`. `docs/SUPERVISED_H24_RUNTIME_V1.md:153`: a changed manifest
   approves nothing. `confirmContentReview` compares the binding and then sends a
   command that carries none; the review's transaction verifies whatever manifest
   is in place by then.
6. `AppliedIsReplayed`. `docs/CORE_V1_OPERATOR_GUIDE.md:130`: stable IDs replay. The
   receipt is inserted after the dispatch, in a transaction of its own; a crash in
   between leaves an applied command that is refused when it is sent again.
7. `AnsweredOnce`. `docs/TELEGRAM_OPERATOR_GUIDE.md:114`: a restart does not
   redeliver. Receipts are purged by age alone, before the poll from the stored
   offset, so an operator that was down long enough answers a second time.

### Other observations

Met while modelling; no run is about them.

* Worker: a job's budget over earlier attempts is redundant, because an attempt
  that is retried records no usage; a heartbeat that finds the kill switch on or
  the lease superseded marks the job cancelled for good, not for retry; it looks
  neither at maintenance mode nor at the expiry of the job's own lease.
* Calendar: `nextCalendarDailyOccurrence` never returns an occurrence on the date
  of the current one, so a schedule registered at 06:00 for 07:00 runs at 06:01
  and then on the next day.
* Publication: metrics, archive, pause or the kill switch leave an AUTHORIZED plan
  that can no longer record its receipt.
* Content queue: a worker that dies between production and receipt leaves a job
  whose further attempts all end in a conflict (`local-workflow-command.ts:312`);
  only the Evidence-Pack variant can recover (lines 339 and 594).
* Paid calls: a paid but rejected answer is settled with 0 calls and 0 cents, although
  `docs/production/PAYMENT_ACTIVATION.md:47` wants every paid call settled in the ledger. Two processes
  that recover the ledger's lock at once may remove each other's (`stolen`).
* Telegram: the inspection command of `/report` is named after the mission alone,
  so the boundary replays the first report for ever
  (`telegram-workflow-operator-console.ts:97`); a session that `/stop` left without
  a mission draft makes every poll fail once it has expired
  (`telegram-sqlite-state-store.ts:192`); one `/stop` confirms itself after a crash
  between the session's transition and `beginDelivery`; after a confirmed stop, or
  its expiry, `/stop` no longer stops the operator.
* Backups: a failing retention deletes the backup just verified, and can make a
  concurrent pass fail; a rollback that fails leaves a signed bundle that is not
  whole and fails every later scan (`torn`); a crash leaks `.retention-*` files;
  `scripts/production/backup.sh` publishes `*.sqlite.gpg` bundles whose names
  retention does not match, although `docs/production/BACKUP_AND_RESTORE.md` has
  retention count the bundles that script signs.
* Events: the connection limit is checked before the awaits and may be exceeded; a
  reader may silently skip events pruned between the read of the window and
  `listAfter`, or those before the batch in hand when it joins; a request still
  being read when the server closes joins afterwards and keeps `close()` waiting;
  after a restored database a page ignores events until they pass its old cursor;
  after a failed refresh with an open stream nothing retries until the next event.
* Media: the quality ledger's `activate()` writes EXPIRED and then throws, so the
  write is rolled back (`media-quality-session-ledger.ts:128`).

## 5. Proofs

Eight modules hold the theorems; every obligation is checked by TLAPS with SMT,
Zenon and LS4. `PROJECT.json` lists the results a reader should know of; the rest
are lemmas. Each component has one inductive invariant: its types and the few
facts its properties rest on. The proof has a lemma for each action (or for a
group of actions that change the same things), and each property follows from
the invariant alone. An action property follows from the invariant in the state
before the step.

* `CommandsProofs` is about the components of the run `Commands`.
  * `JobLifecycle`: `Inv` counts attempts, so that one ends once and a request to
    cancel is decided in the attempt that saw it. `LifecycleSoundHolds`.
  * `ProductionRuntime`: `ContentInv`. A job's version counts its claims and their
    ends (`VersionCounts`), hence a run that compares the version it claimed
    (`RunIsSound`) is the only one that completes the job, and what is completed
    is produced (`CompletedIsProduced`). `ProductionsAreSoundHolds`.
  * `TelegramOperator`: `TelegramInv`. `AtUpdate` says for each step of the loop
    which update it handles and what is stored of it, `UpdateSound` what each
    stored update has behind it; the offset never passes one that is not settled.
    `UpdatesAreSettledHolds`.
  * `ContentReview` and `WorkflowReports` rest on `BoundaryInv`, about the command
    boundary itself: a dispatched command is `Underway` in one caller,
    `ReceiptsAreUnique`, and an identifier has `OneAnswer`. `ReviewInv` adds that
    an answered or unstored review was decided; `ReportsInv` that operators have
    commands of their own and that a control with a receipt is in the lifecycle
    records. `AnswersAreSoundHolds`, `ControlsAreReplayedHolds`.
  * `EventStream`: `StreamInv`. What is on its way to a page `Leads` it from the
    last identifier it has seen, and never back: an event is newer than every
    frame before it that moves the page, a reset is not older. A joined page is
    led to the cursor the server keeps for it, a replay `Ascends` from the
    requested cursor to where its next read starts, and a page that is read for
    has nothing on its way. `SendKeeps` says once what the pump's two steps do to
    every page. `EventsFollowHolds`, for any pages, limits, faults and pruning.
  * The theorems of `BusinessCalendarProofs` carry over to the run's behaviours
    (`DatesResolveHolds`).
* `OperationsRuntimeProofs`: `TypeCorrect` (types are inductive together with
  `HasResult`: a finalizing worker without a failure has a result), then
  `InvariantHolds`: types, attempt accounting, bounded retries, cancellations,
  events and the freshness of lease IDs are inductive together. Lease IDs are
  the crux of `OneClaimHolder`: an instance that holds a claim holds an ID that
  no other instance was ever given. `JobsAreSoundHolds` is the conjunction a run
  checks; `ClaimEndsByHolderOrExpiryHolds` is an action property, and
  `LifecycleImplemented` the refinement: initial states map to initial states
  and each action to a step or a stutter of every job. `UsageIsAccountedHolds`
  rests on `UsageInvariant`: a job's records are finitely many, so that what they
  cost has a sum, and a job that has used more than its budget has failed or was
  cancelled. A record that is added adds its cost (`RecordAdds`), records are
  deleted by retention alone (`OnlyRetentionForgets`), and what they cost is
  added to the rollup in the same step (`RetentionMoves`).
* `ProcessesProofs` is about the components of the run `Processes`.
  * `SupervisedProcessLock`: assuming `~CrashesInRecovery`, the invariant
    `Good(p)`: the recovery claim is where its owner thinks it is, the records a
    recovering process has seen are of processes that are gone, and the lock is
    where its owner thinks it is. A step is `Harmless` to the others if it takes
    down no lock but its own or, with the claim in hand, a dead process's, and no
    claim but its own: `HarmlessStep` proves once that such a step keeps the
    others `Good`, so each action is looked at for its own process only. The
    orphan-claim calls are unreachable under the assumption; the run
    `SupervisedProcessLockExclusive` shows that it cannot be dropped.
    `HolderIsPublishedHolds`, `ExclusiveHolds`.
  * `OperationsScheduler`: the invariant `Unqueued`: the occurrence a
    schedule points at has no job, so that what is queued is always new.
    `MaterializeTakesOne` reduces a batch to what it does to one schedule,
    `TakenIsTyped` says that this schedule moves to a free slot ahead of the clock
    reading, and `EachStep` that no other step queues or moves anything.
    `OccurrencesAreExactHold` and `CatchesUpHolds` follow for any gaps, any delay
    and any lag. `QueueBoundedHolds` counts: a schedule of the batch gets one job
    at most (`OneMoreJob`), the batch is no larger than the room its transaction
    saw (`BatchFits`), and the depth is a sum of what each schedule has; a schedule
    that loses sight of an old active job gives it to `others` and has no more of
    its own than before (`OutlivingJob`).
  * `CostLedgerFile`: `LedgerInv`: a process that works in the
    directory is its owner, what was reported is in the file, and who is about to
    remove a directory has `JudgedStale` what it saw — unless one was `stolen`.
    `LedgerIsKeptHolds`.
  * `PaidModelCalls`: `PaidInv`: a call reached the provider only under a
    reservation that was open, and once. `ReservationsAreSoundHolds`. For
    `BudgetsHoldAlways` the invariant is `BudgetInv`: no reservation has a date to
    come (`DatesHavePassed`), so the sum of a day that begins is the request's own,
    and the sums of every day, mission and of all are within their limits, unless
    an anomaly has stopped everything. A reservation adds its estimate to the sums
    it was checked against (`LimitsOnReserve`), a settlement charges no more than
    was estimated or stops everything (`BudgetsOnSettle`), and no other step
    charges anybody more (`LimitsKept`).
  * `TransactionRunner`: `RunnerInv`: `Sound(t)` ties a transaction's
    state to its scope, its branches and what its process's connection holds;
    `Clean(r)` says that a connection outside a transaction has written nothing.
    Both survive a failed BEGIN, COMMIT or ROLLBACK, the close and the death of a
    process. `RunnerIsAtomic` is the refinement: every step is one of
    `AtomicTransactions` or a stutter, for any number of processes, transactions,
    branches and faults.
* `BackupRetentionProofs`: `RetentionInv`: what a scan has seen of an
  old bundle is not less than what is signed now, and what it took for a whole one
  is one or has enough newer ones (`ViewIsTrue`); what is doomed and signed has
  enough newer bundles now (`DoomIsDeserved`); a candidate loses its database
  first, and no two passes take the same one apart (`MovedIsKept`, `Apart`). That
  what another pass removes meanwhile never takes a bundle below its floor is
  `CalmStep`: whatever is removed leaves as many newer ones as it needed itself.
  `BackupsAreKeptHolds`, an invariant and an action property.
* `BusinessCalendarProofs`, for every length of the day, both offsets and any
  change of the clocks. The quotients are confined to a few lemmas (`Products`,
  `Quotient`). The rest rests on one closed form, `InstantIs`: the first instant at which
  the local clock shows a reading or a later one. `OccurrenceIs` says that the search of
  `calendarDailyOccurrenceAt` finds it, in the gap of the spring and in the hour
  that comes twice; `Reached` that an instant has reached the start of a date
  exactly when its local clock has, although the clock is put back. Hence
  `DatesResolveOnEveryDate`: each clock time has its instant on every date and the
  windows of the dates partition the instants; and `OccurrencesFollowHolds`: a
  schedule moves to the first occurrence after its tick, and what it passes over
  is over. No instant is bounded but the clock readings of the ticks, by `CalendarHorizon`.
* `OperationsControlProofs`: `PublicationInv` (an open plan is bound to the control
  and the content in force) and `ControlInv` (a proposal has one fate, and what its
  receipt says has been applied). `OpenPlansFollowControlHolds`,
  `ConfirmationsAreSoundHolds`, and the action property
  `PublicationIsControlledHolds`.
* `WorkflowAdminProofs`: for the workflow, `WorkflowInv`: the receipts of a step count its
  attempts (`CountsAttempts`), one of them is accepted (`AcceptedOnce`), what a
  caller holds is stored (`Stored`), what it has prepared is of the version it
  read (`Prepared`), and a step ends with its last attempt. `StepsAreSoundHolds`
  and the action properties `ReservedUnderControlsHolds` and
  `LateAnswersChangeNothingHolds`.
  For the admin security document, `AdminInv`: `SoundRequest` says what a request
  in progress may rely on while others change the document (`RequestStaysSound`
  proves once that it may), `OneHolder` that a used challenge, or a consumed
  receipt, is in the hands of one request, and `SoundSession`, `SoundReceipt` and
  `SoundFounder` that what a challenge has made is one and that nobody holds the
  challenge any more. `CeremoniesAreOneUseHolds`, and the action property
  `SessionsEndForGoodHolds`. `AdminBounds` adds what the types of the document
  need: a challenge for a step-up names a session that is there (`BoundTo`), and
  sessions are never taken away (`SessionsStayThere`).
* `SumTheorems` is about the sums that budgets, usage and the queue's depth are: a
  sum over a finite set does not depend on the order in which it is taken, an
  element added or removed changes it by its own value, and it is monotone. The
  library's induction theorems cannot be used here; the lemmas take a smallest
  subset for which the claim would fail (`SmallestSubset`, from the well-founded
  order of the subsets of a finite set) and show that there is none.

The runs check compositions. `EachPartOperates`, `EachProcessBehaves`,
`EachCommandPartBehaves` and `EitherBehaves` prove that every behaviour of an `MC`
module is one of each of its components, which takes that component's steps or
leaves it alone (`EitherCrossesBoundary` says it of the reviews and the reports,
which share the boundary, each in the behaviours that are about it).
`OperationsTyped`, `ProcessesTyped`, `CommandsTyped` and `WorkflowAdminTyped`
are the type invariants of the compositions, and every other theorem carries over
in the same way.

Assumptions. The proofs assume what the modules' named `ASSUME`s say of their
constants: the bounds are naturals, the values that stand for "none" are no
members of the sets, and jobs, schedules and paid requests are finitely many
where they are summed. Where one says more, the code is the reason: a workflow has
a step and its steps have one to five attempts
(`workflows/workflow-runtime-validator.ts`), a job and a content job have at least
one attempt, the clocks change within a date and not at its midnight
(`CalendarAssumption`, as in `Europe/Rome`), Telegram and the command line call the boundary for themselves. One
assumption is *not* enforced by the code: `IdentifiersAreApart` in
`WorkflowReports` says that no operator names a command as Telegram names its
reports. The names end in a digest of the mission's reference, so that this takes
intent; without it an operator's command is answered with the receipt of a report.
The theorems about the role lock, and `ProcessesTyped`, assume `~CrashesInRecovery`,
as said.

Only model-checked:

* Liveness (`ClaimsEnd`, `CancellationTakesEffect`, `DueIsHandled`,
  `LocksComeBack`, `ContentJobsEnd`, `PagesCatchUp`): the prover has no rules for
  fairness and ENABLED. Every other property of a passing run is proved.
* The runs that expect a violation, and what happens with `CrashesInRecovery`.

## 6. What is not modelled

`PROJECT.json` lists each component with the reason. In short:

* Pure data: the validators and specifications of assistants and agents, the
  composition of briefs and creative plans, knowledge and research documents,
  parsing, wiring and rendering. Nothing in them depends on an order of events.
* Stateful, with a state machine of their own that no module covers yet: the
  ledger of social publications, the media factory's pilot sessions, the
  lifecycles of missions and tasks (carried through in memory by one call), the
  agent company's workday, and the records of ventures and businesses, which are
  versioned updates behind transactions as `TransactionRunner` has them.
* What operations job handlers do inside: to the worker a handler is any outcome
  in any order with the aborts.
* Within the modelled components: rate limits and the caps on stored records, the
  online copy of SQLite and the restore probe, schema migrations, provider and
  browser internals, and what cryptographic libraries verify. Each row of
  `PROJECT.json` that says `partly` names what it leaves out.
