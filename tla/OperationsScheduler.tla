------------------------- MODULE OperationsScheduler -------------------------
(***************************************************************************)
(* The scheduler: schedules, each of which points at its next occurrence,  *)
(* and the OperationsSchedulerService instances that turn the occurrences  *)
(* that are due into jobs.  A tick is two transactions, the scheduler      *)
(* lease and the materialization, and the clock is read before each.       *)
(*                                                                         *)
(* Time is relative, as in OperationsRuntime: due is nextRunAt minus now,  *)
(* and a transaction whose clock reading is lag ticks old sees due + lag.  *)
(* The queue is seen from here: a job is active, terminal or deleted, and  *)
(* those who insert, end and delete jobs are one environment.              *)
(***************************************************************************)
EXTENDS Integers, FiniteSetsExt

CONSTANTS
  Schedule,       \* the schedules of the catalog
  Scheduler,       \* scheduler processes (OperationsSchedulerService objects)
  Gap,            \* per schedule, the ticks from one occurrence to the next: one
                  \* for FIXED_INTERVAL, a day's lengths for CALENDAR_DAILY, none for ONCE
  CatchUp,        \* per schedule, whether catchUpPolicy is CATCH_UP_ONE
  FirstRun,       \* ticks from the registration to the first occurrence
  BatchLimit,
  MaxQueueDepth,
  SchedulerLease, \* schedulerLeaseMs, in ticks
  Window,         \* bound: occurrences of a schedule that are told apart
  MaxOthers,      \* bound: what other producers insert is seen up to so many active jobs
  MaxLate,        \* bound: from here on a delay is not measured
  MaxReadLag,         \* bound: ticks between reading the clock and committing
  MaxSchedulerToken,       \* bound: fencing tokens that are told apart
  MaxSchedulerStops        \* bound: shutdowns, crashes and failed transactions

ASSUME SchedulerAssumption ==
  /\ IsFiniteSet(Schedule)
  /\ Gap \in [Schedule -> SUBSET (Nat \ {0})]
  /\ CatchUp \in [Schedule -> BOOLEAN]
  /\ {MaxOthers, MaxLate, MaxReadLag, MaxSchedulerStops} \subseteq Nat
  /\ {FirstRun, BatchLimit, MaxQueueDepth, SchedulerLease, MaxSchedulerToken} \subseteq Nat \ {0}
  /\ Window \in Nat \ {0, 1}
  /\ MaxReadLag <= MaxLate
  /\ "none" \notin Scheduler

VARIABLES
  schedule,  \* operations_schedules
  jobOf,       \* operations_jobs with a scheduleId, per schedule and occurrence
  others,    \* the number of active jobs that no schedule made, or an occurrence
             \* that is older than the Window
  leaseRow,     \* the row "scheduler" of operations_process_leases
  stopped,   \* operations_runtime_controls: kill switch, maintenance or no row
  scheduler, \* each instance's own memory
  schedulerStops

schedulerVars == <<schedule, jobOf, others, leaseRow, stopped, scheduler, schedulerStops>>

----------------------------------------------------------------------------
(* Data *)

Occurrence == 0 .. Window - 1
JobState == {"NONE", "ACTIVE", "TERMINAL", "DELETED"}

\* at: the occurrence nextRunAt names, due: how far away it is.
ScheduleRow == [status : {"ABSENT", "ENABLED", "DISABLED"}, due : Int, at : Occurrence]
Absent == [status |-> "ABSENT", due |-> 0, at |-> 0]

NoLeaseRow == [holder |-> "none", token |-> 0, ttl |-> 0]
LeaseRows == [holder : Scheduler \cup {"none"}, token : 0 .. MaxSchedulerToken, ttl : Int]

\* Where the scheduler's loop stands, and the fencing token a tick was given.
Memory == [pc : {"DOWN", "STARTING", "IDLE", "LEASED", "CLOSING"}, token : 0 .. MaxSchedulerToken]
Down == [pc |-> "DOWN", token |-> 0]

ReadLag == 0 .. MaxReadLag
IsPast(distance, lag) == distance + lag <= 0
CountDown(distance, floor) == IF distance > -floor THEN distance - 1 ELSE distance
Enabled(s) == schedule[s].status = "ENABLED"

SchedulerInit ==
  /\ schedule = [s \in Schedule |-> Absent]
  /\ jobOf = [s \in Schedule |-> [n \in Occurrence |-> "NONE"]]
  /\ others = 0
  /\ leaseRow = NoLeaseRow
  /\ stopped = TRUE
  /\ scheduler = [i \in Scheduler |-> Down]
  /\ schedulerStops = 0

schedulerTables == <<schedule, jobOf, others, leaseRow, stopped>>

----------------------------------------------------------------------------
(* The clock, the operator, the workers and the other producers *)

SchedulerTick ==
  /\ schedule' = [s \in Schedule |->
       IF Enabled(s) THEN [schedule[s] EXCEPT !.due = CountDown(@, MaxLate)] ELSE schedule[s]]
  /\ leaseRow' = IF leaseRow.holder = "none" THEN leaseRow ELSE [leaseRow EXCEPT !.ttl = CountDown(@, MaxReadLag)]
  /\ UNCHANGED <<jobOf, others, stopped, scheduler, schedulerStops>>

SetStopped ==
  /\ stopped' \in BOOLEAN
  /\ UNCHANGED <<schedule, jobOf, others, leaseRow, scheduler, schedulerStops>>

OtherJobs ==
  /\ \/ others > 0 /\ others' = others - 1
     \/ others < MaxOthers /\ others' = others + 1
  /\ UNCHANGED <<schedule, jobOf, leaseRow, stopped, scheduler, schedulerStops>>

JobEnds(s, n) ==
  /\ jobOf[s][n] = "ACTIVE"
  /\ jobOf' = [jobOf EXCEPT ![s][n] = "TERMINAL"]
  /\ UNCHANGED <<schedule, others, leaseRow, stopped, scheduler, schedulerStops>>

\* enforceRetention deletes the row and with it the operation identity.
JobIsDeleted(s, n) ==
  /\ jobOf[s][n] = "TERMINAL"
  /\ jobOf' = [jobOf EXCEPT ![s][n] = "DELETED"]
  /\ UNCHANGED <<schedule, others, leaseRow, stopped, scheduler, schedulerStops>>

----------------------------------------------------------------------------
(* The life of a scheduler process *)

\* The instanceId is random: a slot is reused when no row names it any more.
StartScheduler(i) ==
  /\ scheduler[i].pc = "DOWN" /\ leaseRow.holder # i
  /\ scheduler' = [scheduler EXCEPT ![i].pc = "STARTING"]
  /\ UNCHANGED <<schedulerTables, schedulerStops>>

\* registerSchedule, one transaction for each schedule of the catalog; a row
\* that is there already stays as it is.
RegisterSchedule(i, s, lag) ==
  /\ scheduler[i].pc = "STARTING"
  /\ schedule[s].status = "ABSENT"
  /\ schedule' = [schedule EXCEPT ![s] = [status |-> "ENABLED", due |-> FirstRun - lag, at |-> 0]]
  /\ UNCHANGED <<jobOf, others, leaseRow, stopped, scheduler, schedulerStops>>

Registered(i) ==
  /\ scheduler[i].pc = "STARTING"
  /\ \A s \in Schedule : schedule[s].status # "ABSENT"
  /\ scheduler' = [scheduler EXCEPT ![i].pc = "IDLE"]
  /\ UNCHANGED <<schedulerTables, schedulerStops>>

CountStop == schedulerStops < MaxSchedulerStops /\ schedulerStops' = schedulerStops + 1

SchedulerCrash(i) ==
  /\ scheduler[i].pc # "DOWN"
  /\ CountStop
  /\ scheduler' = [scheduler EXCEPT ![i] = Down]
  /\ UNCHANGED schedulerTables

\* The shutdown signal between two ticks, or a transaction that throws: the
\* process ends through close().
Ends(i) ==
  /\ scheduler[i].pc \in {"STARTING", "IDLE", "LEASED"}
  /\ CountStop
  /\ scheduler' = [scheduler EXCEPT ![i] = [Down EXCEPT !.pc = "CLOSING"]]
  /\ UNCHANGED schedulerTables

CloseScheduler(i) ==
  /\ scheduler[i].pc = "CLOSING"
  /\ leaseRow' = IF leaseRow.holder = i THEN NoLeaseRow ELSE leaseRow
  /\ scheduler' = [scheduler EXCEPT ![i] = Down]
  /\ UNCHANGED <<schedule, jobOf, others, stopped, schedulerStops>>

----------------------------------------------------------------------------
(* tick *)

\* While another instance's lease lasts a tick is over after its first
\* transaction, LEASE_HELD, and nothing has changed.  heartbeat() is that first
\* transaction alone; no process of the repository calls it.

\* A tick compares its token with the row's and never with an older one, so
\* that telling MaxToken of them apart is enough.
NextToken(token) == (token % MaxSchedulerToken) + 1

AcquireLease(i, lag) ==
  LET owned == leaseRow.holder = i
      token == IF owned THEN leaseRow.token ELSE NextToken(leaseRow.token)
  IN /\ scheduler[i].pc = "IDLE"
     /\ leaseRow.holder = "none" \/ owned \/ IsPast(leaseRow.ttl, lag)
     /\ leaseRow' = [holder |-> i, token |-> token, ttl |-> SchedulerLease - lag]
     /\ scheduler' = [scheduler EXCEPT ![i] = [pc |-> "LEASED", token |-> token]]
     /\ UNCHANGED <<schedule, jobOf, others, stopped, schedulerStops>>

LeaseValid(i, lag) ==
  leaseRow.holder = i /\ leaseRow.token = scheduler[i].token /\ ~IsPast(leaseRow.ttl, lag)

\* A depth that counts the terminal jobs until retention deletes them.
ActiveOrTerminal(s) == {n \in Occurrence : jobOf[s][n] \in {"ACTIVE", "TERMINAL"}}

Active(s) == {n \in Occurrence : jobOf[s][n] = "ACTIVE"}
ActiveDepth == others + SumFunction([s \in Schedule |-> Cardinality(Active(s))])
Available == IF ActiveDepth < MaxQueueDepth THEN MaxQueueDepth - ActiveDepth ELSE 0

DueSchedules(lag) == {s \in Schedule : Enabled(s) /\ IsPast(schedule[s].due, lag)}

\* A batch as long as the limit, whatever the queue holds.
DueBatchWithoutDepth(S, lag) ==
  /\ S \subseteq DueSchedules(lag)
  /\ Cardinality(S) = Min({BatchLimit, Cardinality(DueSchedules(lag))})
  /\ \A s \in S, other \in DueSchedules(lag) \ S : schedule[s].due <= schedule[other].due

\* listDueSchedules: those that are due longest, no more than there is room for.
DueBatch(S, lag) ==
  /\ S \subseteq DueSchedules(lag)
  /\ Cardinality(S) = Min({BatchLimit, Available, Cardinality(DueSchedules(lag))})
  /\ \A s \in S, other \in DueSchedules(lag) \ S : schedule[s].due <= schedule[other].due

\* The boundary one tick off.
MissedAfterNext(gap, late) == late > gap

\* An occurrence is missed when the following one is due too.
Missed(gap, late) == late >= gap

\* How far ahead of the clock the next occurrence is: one gap after this one or,
\* when that is past too, the first one to come.  A delay of MaxLate may be any
\* longer one, and a calendar's later gaps are unknown.
Ahead(s, gap, late) ==
  IF late < gap THEN {gap - late}
  ELSE IF late < MaxLate /\ Gap[s] = {gap} THEN {gap - (late % gap)}
  ELSE 1 .. Max(Gap[s])

Finished(s) == [schedule[s] EXCEPT !.status = "DISABLED"]

\* A schedule whose nextRunAt is not moved on.
LeftInPlace(s, due) == schedule[s]

Moved(s, due) == [schedule[s] EXCEPT !.due = due, !.at = (@ + 1) % Window]

\* nextOccurrence: whether a due occurrence is queued, and the row it leaves.
NextOccurrence(s, lag) ==
  LET late == -(schedule[s].due + lag)
  IN IF Gap[s] = {} THEN [queued : {TRUE}, row : {Finished(s)}]
     ELSE UNION {[queued : {CatchUp[s] \/ ~Missed(gap, late)},
                  row : {Moved(s, ahead - lag) : ahead \in Ahead(s, gap, late)}] : gap \in Gap[s]}

\* An occurrence that has a job gets no second one.  The slot of the occurrence
\* that comes next is taken over from one that is Window occurrences old.
JobsAfter(s, next) ==
  [n \in Occurrence |->
     IF n = schedule[s].at
       THEN IF next.queued /\ jobOf[s][n] \in {"NONE", "DELETED"} THEN "ACTIVE" ELSE jobOf[s][n]
     ELSE IF n = next.row.at THEN "NONE" ELSE jobOf[s][n]]

\* A job of that old occurrence that is active yet counts among the others now.
Outlives(s, next) == next.row.at # schedule[s].at /\ jobOf[s][next.row.at] = "ACTIVE"

Materialize(i, lag) ==
  /\ scheduler[i].pc = "LEASED"
  /\ scheduler' = [scheduler EXCEPT ![i].pc = "IDLE"]
  /\ IF LeaseValid(i, lag) /\ ~stopped /\ Available > 0
       THEN \E S \in SUBSET Schedule :
              /\ DueBatch(S, lag)
              /\ \E next \in [S -> UNION {NextOccurrence(s, lag) : s \in S}] :
                   /\ \A s \in S : next[s] \in NextOccurrence(s, lag)
                   /\ schedule' = [s \in Schedule |-> IF s \in S THEN next[s].row ELSE schedule[s]]
                   /\ jobOf' = [s \in Schedule |-> IF s \in S THEN JobsAfter(s, next[s]) ELSE jobOf[s]]
                   /\ others' = others + Cardinality({s \in S : Outlives(s, next[s])})
       ELSE UNCHANGED <<schedule, jobOf, others>>
  /\ UNCHANGED <<leaseRow, stopped, schedulerStops>>

SchedulerRun(i, lag) ==
  \/ \E s \in Schedule : RegisterSchedule(i, s, lag)
  \/ Registered(i) \/ CloseScheduler(i)
  \/ AcquireLease(i, lag) \/ Materialize(i, lag)

SchedulerNext ==
  \/ SchedulerTick \/ SetStopped \/ OtherJobs
  \/ \E s \in Schedule, n \in Occurrence : JobEnds(s, n) \/ JobIsDeleted(s, n)
  \/ \E i \in Scheduler : StartScheduler(i) \/ SchedulerCrash(i) \/ Ends(i)
  \/ \E i \in Scheduler, lag \in ReadLag : SchedulerRun(i, lag)

SchedulerSpec == SchedulerInit /\ [][SchedulerNext]_schedulerVars

\* The clock runs, processes are started again, the loop goes on, and the
\* workers end their jobs.  A tick may stall past its lease, but not each time.
SchedulerFairness ==
  /\ WF_schedulerVars(SchedulerTick)
  /\ \A s \in Schedule, n \in Occurrence : WF_schedulerVars(JobEnds(s, n))
  /\ \A i \in Scheduler :
       /\ WF_schedulerVars(StartScheduler(i))
       /\ WF_schedulerVars(Registered(i) \/ \E s \in Schedule, lag \in ReadLag : RegisterSchedule(i, s, lag))
       /\ WF_schedulerVars(CloseScheduler(i))
       /\ WF_schedulerVars(\E lag \in ReadLag : AcquireLease(i, lag))
       /\ WF_schedulerVars(\E lag \in ReadLag : Materialize(i, lag))
       /\ SF_schedulerVars(\E lag \in ReadLag : LeaseValid(i, lag) /\ Materialize(i, lag))

SchedulerFairSpec == SchedulerSpec /\ SchedulerFairness

----------------------------------------------------------------------------
(* Properties *)

\* Rows and memories have their shape; the lease row is there or it is not.
SchedulerTypeOK ==
  /\ schedule \in [Schedule -> ScheduleRow]
  /\ jobOf \in [Schedule -> [Occurrence -> JobState]]
  /\ others \in Nat
  /\ leaseRow \in LeaseRows
  /\ leaseRow.holder = "none" <=> leaseRow.token = 0
  /\ stopped \in BOOLEAN
  /\ scheduler \in [Scheduler -> Memory]
  /\ schedulerStops \in 0 .. MaxSchedulerStops

Queues(s, n) == jobOf[s][n] # "ACTIVE" /\ jobOf'[s][n] = "ACTIVE"
Advances(s) == schedule'[s].at # schedule[s].at

\* An occurrence becomes one job at most: after its job has ended, and after
\* retention has deleted the job and its operation identity with it, no tick of
\* any scheduler queues the occurrence again.
OccurrenceOnce ==
  [][\A s \in Schedule, n \in Occurrence :
       jobOf[s][n] \in {"TERMINAL", "DELETED"} => ~Queues(s, n)]_schedulerVars

\* An occurrence that is due is not lost, to a restart, a second scheduler or
\* anything else: a schedule leaves it behind with a job, or skips it because
\* catchUpPolicy is SKIP and the next one is past already.
OccurrenceKept ==
  [][\A s \in Schedule :
       LET before == schedule[s] IN
         /\ before.status = "ENABLED" /\ before.due <= 0
         /\ Advances(s) \/ schedule'[s].status # "ENABLED" \/ schedule'[s].due > 0
         => \/ jobOf'[s][before.at] # "NONE"
            \/ ~CatchUp[s] /\ \E gap \in Gap[s] : -before.due >= gap]_schedulerVars

\* An occurrence that is due is queued or, by its policy, skipped, and never twice.
OccurrencesAreExact == OccurrenceOnce /\ OccurrenceKept

\* With SKIP nothing is queued later than one gap, but for the time the
\* transaction waited with its clock reading.
SkipNeverLate ==
  [][\A s \in Schedule, n \in Occurrence :
       ~CatchUp[s] /\ Gap[s] # {} /\ Queues(s, n) =>
         \E gap \in Gap[s] : -schedule[s].due < gap + MaxReadLag]_schedulerVars

\* However long the scheduler was down, one tick brings a schedule up to date:
\* the next occurrence lies ahead of the clock reading, so that no flood of jobs
\* for the past follows.
NoBacklog == [][\A s \in Schedule : Advances(s) => schedule'[s].due > -MaxReadLag]_schedulerVars

\* After any downtime a schedule catches up in one tick, and by its policy.
CatchesUp == SkipNeverLate /\ NoBacklog

\* Back pressure: a tick never fills the queue beyond maxQueueDepth, whatever
\* others have put there since.
QueueBounded ==
  [][(\E s \in Schedule, n \in Occurrence : Queues(s, n)) => ActiveDepth' <= MaxQueueDepth]_schedulerVars

\* Once the operator lets the runtime run and leaves room in the queue, every
\* occurrence that is due is dealt with, after crashes, takeovers of the lease
\* and back pressure from the schedule's own jobs.
DueIsHandled ==
  <>[](~stopped /\ others = 0) =>
    \A s \in Schedule, n \in Occurrence :
      (Enabled(s) /\ schedule[s].at = n /\ schedule[s].due <= 0)
        ~> ~(Enabled(s) /\ schedule[s].at = n)

=============================================================================
