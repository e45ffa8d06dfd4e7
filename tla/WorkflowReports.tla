---------------------------- MODULE WorkflowReports ----------------------------
(***************************************************************************)
(* A workflow that the operator controls with commands of the command      *)
(* boundary, while Telegram's /report reads it through the same boundary   *)
(* (telegram-workflow-operator-console.ts).  A control is kept in the      *)
(* workflow's own lifecycle records too, in the transaction that applies   *)
(* it (RepositoryBackedWorkflowLifecycleService.controlWorkflow).          *)
(***************************************************************************)
EXTENDS CommandBoundary

CONSTANTS
  Operator,       \* requests of the command line that may run at once
  Reporter,       \* the Telegram process
  ControlId,      \* identifiers of the operator's commands
  MaxVersion,     \* bound: versions of the workflow
  MaxReportStops  \* bound: crashes

ASSUME ReportsAssumption ==
  /\ Operator \subseteq Caller /\ Reporter \in Caller \ Operator
  /\ MaxVersion \in Nat

\* Telegram's identifiers begin with "tg-wf-" and end in a digest of the mission's
\* reference (commandId); the operator's are given with the command.
ASSUME IdentifiersAreApart ==
  ControlId \intersect ({<<"inspect">>} \union {<<"report", version>> : version \in 0..MaxVersion}) = {}

VARIABLES
  workflow,         \* the instance: status and version
  lifecycleRecords, \* controls that were applied: a set of [id, input, version]
  reportStops

reportVars == <<boundaryVars, workflow, lifecycleRecords, reportStops>>

ReportsInit ==
  /\ BoundaryInit
  /\ workflow = [status |-> "ACTIVE", version |-> 0]
  /\ lifecycleRecords = {}
  /\ reportStops = 0

\* An agent's step, an acceptance, a failure: the workflow goes on.
WorkflowAdvances ==
  /\ workflow.status = "ACTIVE" /\ workflow.version < MaxVersion
  /\ workflow' = [workflow EXCEPT !.version = @ + 1]
  /\ UNCHANGED <<boundaryVars, lifecycleRecords, reportStops>>

-----------------------------------------------------------------------------
(* What the commands do. *)

Control(action, version) == [operation |-> action, version |-> version]
InspectWorkflow == [operation |-> "INSPECT"]
GetReport(version) == [operation |-> "REPORT", version |-> version]

ControlStatus ==
  [PAUSE |-> [from |-> {"ACTIVE"}, to |-> "PAUSED"], RESUME |-> [from |-> {"PAUSED"}, to |-> "ACTIVE"],
   CANCEL |-> [from |-> {"ACTIVE", "PAUSED"}, to |-> "CANCELLED"]]

Recorded(id) == {r \in lifecycleRecords : r.id = id}
ControlResponse(record, replayed) ==
  [status |-> "OK", version |-> record.version, replayed |-> replayed]

\* Mutant: the lifecycle's own records are not consulted.
ControlAfresh(c, id, input) ==
  IF /\ workflow.version = input.version /\ workflow.version < MaxVersion
     /\ workflow.status \in ControlStatus[input.operation].from
    THEN LET record == [id |-> id, input |-> input, version |-> workflow.version + 1] IN
         /\ workflow' = [status |-> ControlStatus[input.operation].to, version |-> record.version]
         /\ lifecycleRecords' = lifecycleRecords \union {record}
         /\ Dispatched(c, ControlResponse(record, FALSE))
    ELSE DispatchFails(c) /\ UNCHANGED <<workflow, lifecycleRecords>>

\* controlWorkflow
ControlWorkflow(c, id, input) ==
  IF Recorded(id) # {}
    THEN /\ \E record \in Recorded(id) :
              IF record.input = input THEN Dispatched(c, ControlResponse(record, TRUE))
                                      ELSE DispatchFails(c)
         /\ UNCHANGED <<workflow, lifecycleRecords>>
  ELSE IF /\ workflow.version = input.version /\ workflow.version < MaxVersion
          /\ workflow.status \in ControlStatus[input.operation].from
    THEN LET record == [id |-> id, input |-> input, version |-> workflow.version + 1] IN
         /\ workflow' = [status |-> ControlStatus[input.operation].to, version |-> record.version]
         /\ lifecycleRecords' = lifecycleRecords \union {record}
         /\ Dispatched(c, ControlResponse(record, FALSE))
    ELSE DispatchFails(c) /\ UNCHANGED <<workflow, lifecycleRecords>>

\* A report is made of the version that was asked for, while it is the current one.
DispatchRead(c, input) ==
  /\ IF input = InspectWorkflow \/ input = GetReport(workflow.version)
       THEN Dispatched(c, [status |-> "OK", version |-> workflow.version])
       ELSE DispatchFails(c)
  /\ UNCHANGED <<workflow, lifecycleRecords>>

DispatchToWorkflow(c) ==
  /\ execution[c].step = "DISPATCH"
  /\ LET command == execution[c].command IN
       IF command.input.operation \in {"INSPECT", "REPORT"}
         THEN DispatchRead(c, command.input)
         ELSE ControlWorkflow(c, command.id, command.input)
  /\ UNCHANGED reportStops

-----------------------------------------------------------------------------
(* The callers. *)

OperatorSends(c) ==
  /\ IsIdle(c)
  /\ \E id \in ControlId, action \in DOMAIN ControlStatus, version \in 0..MaxVersion - 1 :
       Execute(c, [id |-> id, input |-> Control(action, version)])
  /\ UNCHANGED <<commandReceipts, workflow, lifecycleRecords, reportStops>>

OperatorIsAnswered(c) ==
  /\ IsOver(c)
  /\ execution' = [execution EXCEPT ![c] = NoExecution]
  /\ UNCHANGED <<commandReceipts, workflow, lifecycleRecords, reportStops>>

\* /report <reference>: the commands are named after the mission, and the second
\* one after the version that the first one answered, too.
SendReport ==
  /\ IsIdle(Reporter)
  /\ Execute(Reporter, [id |-> <<"inspect">>, input |-> InspectWorkflow])
  /\ UNCHANGED <<commandReceipts, workflow, lifecycleRecords, reportStops>>

ReportContinues ==
  /\ IsOver(Reporter)
  /\ LET done == execution[Reporter] IN
       IF done.step = "ANSWERED" /\ done.command.input = InspectWorkflow
         THEN Execute(Reporter, [id |-> <<"report", done.response.version>>,
                                 input |-> GetReport(done.response.version)])
         ELSE execution' = [execution EXCEPT ![Reporter] = NoExecution]
  /\ UNCHANGED <<commandReceipts, workflow, lifecycleRecords, reportStops>>

CallerCrashes(c) ==
  /\ reportStops < MaxReportStops /\ ~IsIdle(c)
  /\ reportStops' = reportStops + 1
  /\ execution' = [execution EXCEPT ![c] = NoExecution]
  /\ UNCHANGED <<commandReceipts, workflow, lifecycleRecords>>

ReportsNext ==
  \/ WorkflowAdvances
  \/ \E c \in Operator : OperatorSends(c) \/ OperatorIsAnswered(c)
  \/ SendReport \/ ReportContinues
  \/ \E c \in Operator \union {Reporter} :
       \/ DispatchToWorkflow(c) \/ CallerCrashes(c)
       \/ BoundaryStep(c) /\ UNCHANGED <<workflow, lifecycleRecords, reportStops>>

ReportsSpec == ReportsInit /\ [][ReportsNext]_reportVars

-----------------------------------------------------------------------------
(* Properties. *)

\* A control that was applied is never refused to one who sends the same command
\* again, whether the first sender died before the receipt was there, is about
\* to insert it, or was answered long ago (replay in controlWorkflow).
ControlsAreReplayed ==
  [][\A c \in Operator : execution[c].step # "REFUSED" /\ execution'[c].step = "REFUSED" =>
       \A r \in Recorded(execution[c].command.id) : r.input # execution[c].command.input]_reportVars

=============================================================================
