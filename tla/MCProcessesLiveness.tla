-------------------------- MODULE MCProcessesLiveness --------------------------
(***************************************************************************)
(* MCProcesses with the worker of the operations runtime, the queue of     *)
(* content to produce and the pages of the Command Center, under the       *)
(* fairness that each component states for itself: Fairness,               *)
(* SchedulerFairness, LockFairness, LedgerFairness, ContentFairness and    *)
(* PagesFairness.  They are written out because each conjunct binds only   *)
(* the behaviours about its component.                                     *)
(***************************************************************************)
EXTENDS MCProcesses, MCOperationsRuntime, ProductionRuntime, LivePage

CONSTANTS d1, d2, w1, w2, g1

LivenessInit == ProcessesInit /\ Init /\ ContentInit /\ PagesInit

LivenessNext ==
  \/ (ProcessesNext \/ Rest) /\ UNCHANGED <<vars, contentVars, pageVars>>
  \/ part = "worker" /\ Next /\ UNCHANGED <<processesVars, contentVars, pageVars>>
  \/ part = "content" /\ ContentNext /\ UNCHANGED <<processesVars, vars, pageVars>>
  \/ part = "pages" /\ PagesNext /\ UNCHANGED <<processesVars, vars, contentVars>>

everything == <<processesVars, vars, contentVars, pageVars>>

\* All content jobs may be done, and a page may wait for the next event.
MayRest == part \in {"content", "pages"} /\ UNCHANGED everything

LivenessSpec ==
  /\ LivenessInit
  /\ [][LivenessNext \/ MayRest]_everything

Worker == part = "worker"
Scheduling == part = "scheduler"

FairWorker ==
  /\ WF_vars(Worker /\ Tick)
  /\ \A i \in Instance :
       /\ WF_vars(Worker /\ Start(i))
       /\ WF_vars(Worker /\ (ReleaseProcessLease(i) \/ CloseTimesOut(i)))
       /\ WF_vars(Worker /\ \E lag \in Lag : AcquireProcessLease(i, lag))
       /\ WF_vars(Worker /\ \E lag \in Lag : RecoverExpiredClaims(i, lag))
       /\ WF_vars(Worker /\ \E lag \in Lag : ClaimNextDue(i, lag) \/ ClaimNothing(i, lag))
       /\ WF_vars(Worker /\ Timeout(i))
       /\ WF_vars(Worker /\ (HandlerQuiesces(i) \/ HandlerDoesNotQuiesce(i)))
       /\ WF_vars(Worker /\ (HeartbeatRefused(i) \/ \E lag \in Lag : HeartbeatClaim(i, lag)))
       /\ WF_vars(Worker /\ \E lag \in Lag : FinalizeClaim(i, lag))

FairScheduler ==
  /\ WF_schedulerVars(Scheduling /\ SchedulerTick)
  /\ \A s \in Schedule, n \in Occurrence : WF_schedulerVars(Scheduling /\ JobEnds(s, n))
  /\ \A i \in Scheduler :
       /\ WF_schedulerVars(Scheduling /\ StartScheduler(i))
       /\ WF_schedulerVars(/\ Scheduling
                           /\ \/ Registered(i)
                              \/ \E s \in Schedule, lag \in ReadLag : RegisterSchedule(i, s, lag))
       /\ WF_schedulerVars(Scheduling /\ CloseScheduler(i))
       /\ WF_schedulerVars(Scheduling /\ \E lag \in ReadLag : AcquireLease(i, lag))
       /\ WF_schedulerVars(Scheduling /\ \E lag \in ReadLag : Materialize(i, lag))
       /\ SF_schedulerVars(Scheduling /\ \E lag \in ReadLag : LeaseValid(i, lag) /\ Materialize(i, lag))

FairPages ==
  /\ WF_pageVars(part = "pages" /\ (PumpReadsWindow \/ PumpSendsBatch) /\ UNCHANGED view)
  /\ WF_pageVars(part = "pages" /\ (ServerEnds \/ StartServer) /\ UNCHANGED view)
  /\ \A p \in Page :
       /\ WF_pageVars(part = "pages" /\ PageStep(p))
       /\ WF_pageVars(part = "pages" /\ PageReceives(p))
       /\ WF_pageVars(part = "pages" /\ RefreshTimer(p))
       /\ WF_pageVars(part = "pages" /\ FallbackInterval(p))
       /\ WF_pageVars(part = "pages" /\ (ReadOverview(p) \/ RenderOverview(p) \/ FetchFails(p)))

LivenessFairSpec ==
  /\ LivenessSpec /\ FairWorker /\ FairScheduler
  /\ \A p \in Process : WF_lockVars(part = "lock" /\ ProcessStep(p))
  /\ WF_lockVars(/\ part = "lock" /\ \A p \in Process : ~IsActive(p)
                 /\ \E p \in Process : Acquire(p))
  /\ \A q \in Pid : WF_ledgerVars(part = "ledger file" /\ LedgerStep(q))
  /\ \A w \in ContentWorker : WF_contentVars(part = "content" /\ RunStep(w))
  /\ \A j \in ContentJob : WF_contentVars(part = "content" /\ TimeIsOver(j))
  /\ FairPages

\* The two kinds of process lock come back in the behaviours that use them: a role
\* whose processes all died is held again, and the ledger's lock left by a dead
\* process is removed (SupervisedProcessLock, and the lock of the cost ledger).
LocksComeBack == (part = "lock" => Recoverable) /\ DeadLockIsRemoved

=============================================================================
