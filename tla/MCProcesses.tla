----------------------------- MODULE MCProcesses -----------------------------
(***************************************************************************)
(* Small instances, for TLC, of the components in which several processes  *)
(* share a table or a file: the scheduler's lease, the role lock, the      *)
(* ledger of paid calls and its file, the database's transactions.  A      *)
(* behaviour is about one of them, chosen at the start among Parts; the    *)
(* others rest in their initial states.                                    *)
(***************************************************************************)
EXTENDS MCSupervisedProcessLock, OperationsScheduler, PaidModelCalls, CostLedgerFile,
        TransactionRunner

CONSTANTS
  Parts,  \* the components the behaviours are about
  s1, s2, skip, catch, once, r1, r2, r3, q1, q2, q3,
  t1, t2, t3, m1, m2

VARIABLE part  \* the component a behaviour is about

\* As in the catalog, SKIP goes with a fixed interval and a calendar, whose days
\* are two or three ticks long, with CATCH_UP_ONE; once runs once.
Gaps == [s \in Schedule |-> CASE s = skip -> {2} [] s = catch -> {2, 3} [] s = once -> {}]
Catching == [s \in Schedule |-> s # skip]

\* Two missions, one of them with a request that takes its budget alone.
Missions == [r \in ModelRequest |-> IF r = r2 THEN "two" ELSE "one"]
Estimates == [r \in ModelRequest |-> IF r = r3 THEN 2 ELSE 1]
Limits == [day |-> 2, mission |-> 2, all |-> 3]

\* Two transactions of one process, and one of another.
Runners == [t \in Txn |-> IF t = t3 THEN q2 ELSE q1]

sharedVars == <<schedulerVars, lockVars, paidVars, ledgerVars, runnerVars>>
processesVars == <<part, sharedVars>>

ProcessesInit ==
  /\ part \in Parts /\ SchedulerInit /\ LockInit /\ PaidInit /\ LedgerInit
  /\ RunnerInit

ProcessesNext ==
  \/ part = "scheduler" /\ SchedulerNext /\ UNCHANGED <<part, lockVars, paidVars, ledgerVars, runnerVars>>
  \/ part = "lock" /\ LockNext /\ UNCHANGED <<part, schedulerVars, paidVars, ledgerVars, runnerVars>>
  \/ part = "paid calls" /\ PaidNext /\ UNCHANGED <<part, schedulerVars, lockVars, ledgerVars, runnerVars>>
  \/ part = "ledger file" /\ LedgerNext /\ UNCHANGED <<part, schedulerVars, lockVars, paidVars, runnerVars>>
  \/ part = "transactions" /\ RunnerNext /\ UNCHANGED <<part, schedulerVars, lockVars, paidVars, ledgerVars>>

\* The bounds of these two let them run out of work.
Rest == part \in {"paid calls", "ledger file"} /\ UNCHANGED processesVars

ProcessesSpec == ProcessesInit /\ [][ProcessesNext \/ Rest]_processesVars

\* The records of the component that moves keep their shapes.
ProcessesTypeOK ==
  /\ part = "scheduler" => SchedulerTypeOK
  /\ part = "lock" => LockTypeOK
  /\ part = "paid calls" => PaidTypeOK
  /\ part = "ledger file" => LedgerTypeOK
  /\ part = "transactions" => RunnerTypeOK

=============================================================================
