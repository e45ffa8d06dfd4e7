-------------------------- MODULE ContentPublication --------------------------
(***************************************************************************)
(* One content production from its review to the receipt of its            *)
(* publication: the record the operator reviews, schedules, measures and   *)
(* archives (local-workflow-command.ts), the control that pauses, resumes, *)
(* cancels it or sends it back (operations-control-service.ts), the        *)
(* publication plans bound to both and the workspace's kill switch         *)
(* (operational-plane-service.ts).  Every operation is one transaction of  *)
(* the database and is refused, without effect, unless it names the        *)
(* version it read: here an operation acts on the current version.  The    *)
(* fingerprint of a record is the record.                                  *)
(***************************************************************************)
EXTENDS Integers, FiniteSets

CONSTANTS
  Plan,              \* publication plans of this production
  MaxControlVersion, \* bound: changes of the production control
  MaxSwitches        \* bound: settings of the kill switch

ASSUME PublicationAssumption == MaxControlVersion \in Nat /\ MaxSwitches \in Nat

VARIABLES
  content,    \* the content production
  productionControl,  \* its production control, or NoControl
  plans,      \* [Plan -> plan or NoPlan]
  killSwitch  \* the workspace's publication kill switch

publicationVars == <<content, productionControl, plans, killSwitch>>

ControlAction == {"PAUSE", "RESUME", "CANCEL", "REQUEST_REVISION"}
PublicationOutcome == {"FAILED", "SUCCEEDED", "UNCERTAIN"}
NoControl == [state |-> "NONE", version |-> 0]
NoPlan == [status |-> "NONE"]

\* What stands for the production when a control action or a plan refers to it:
\* the control, once there is one, and until then the content.
Reference ==
  IF productionControl = NoControl THEN [kind |-> "CONTENT", version |-> content.version, print |-> content]
                         ELSE [kind |-> "CONTROL", version |-> productionControl.version, print |-> productionControl]

Unblocked == productionControl.state \in {"NONE", "ACTIVE"}
Open(p) == plans[p].status \in {"DRY_RUN", "AUTHORIZED"}
\* Mutant: a switch that was never set counts as off.
OffUnlessSet == ~killSwitch.enabled

SwitchedOff == killSwitch.enabled = FALSE /\ killSwitch.version > 0

PublicationInit ==
  /\ content = [status |-> "PENDING_FABIO_APPROVAL", version |-> 0, metrics |-> FALSE]
  /\ productionControl = NoControl
  /\ plans = [p \in Plan |-> NoPlan]
  /\ killSwitch = [enabled |-> FALSE, version |-> 0]  \* version 0: never set

-----------------------------------------------------------------------------
(* The content. *)

ContentMoves(status, metrics) ==
  /\ content' = [status |-> status, version |-> content.version + 1, metrics |-> metrics]
  /\ UNCHANGED <<productionControl, plans, killSwitch>>

ReviewContent ==
  /\ content.status = "PENDING_FABIO_APPROVAL" /\ Unblocked
  /\ \E status \in {"APPROVED_FOR_SCHEDULING", "ARCHIVED"} : ContentMoves(status, FALSE)

ScheduleContent ==
  content.status = "APPROVED_FOR_SCHEDULING" /\ Unblocked /\ ContentMoves("SCHEDULED", FALSE)

RecordMetrics ==
  content.status = "SCHEDULED" /\ ~content.metrics /\ ContentMoves("SCHEDULED", TRUE)

ArchiveContent ==
  /\ content.status \in {"PENDING_FABIO_APPROVAL", "APPROVED_FOR_SCHEDULING", "SCHEDULED"}
  /\ ContentMoves("ARCHIVED", content.metrics)

-----------------------------------------------------------------------------
(* The production control.  Its first action makes it, ACTIVE at version 0, *)
(* and changes it in the same transaction.                                  *)

ControlTransition(state) ==
  (CASE state \in {"NONE", "ACTIVE"} -> {<<"PAUSE", "PAUSED">>, <<"CANCEL", "CANCELLED">>,
                                         <<"REQUEST_REVISION", "REVISION_REQUIRED">>}
     [] state = "PAUSED" -> {<<"RESUME", "ACTIVE">>, <<"CANCEL", "CANCELLED">>,
                             <<"REQUEST_REVISION", "REVISION_REQUIRED">>}
     [] OTHER -> {})

\* Mutant: only what was authorized is cancelled.
CancelAuthorizedPlans ==
  [p \in Plan |-> IF plans[p].status = "AUTHORIZED"
                  THEN [plans[p] EXCEPT !.status = "CANCELLED", !.version = @ + 1]
                  ELSE plans[p]]

CancelOpenPlans ==
  [p \in Plan |-> IF Open(p) THEN [plans[p] EXCEPT !.status = "CANCELLED", !.version = @ + 1]
                             ELSE plans[p]]

ControlProduction(action) ==
  /\ productionControl.version < MaxControlVersion
  /\ \E state \in {"ACTIVE", "PAUSED", "CANCELLED", "REVISION_REQUIRED"} :
       /\ <<action, state>> \in ControlTransition(productionControl.state)
       /\ productionControl' = [state |-> state, version |-> productionControl.version + 1]
  /\ plans' = CancelOpenPlans
  /\ UNCHANGED <<content, killSwitch>>

-----------------------------------------------------------------------------
(* The publication plans. *)

PlanPublication(p) ==
  /\ plans[p] = NoPlan
  /\ content.status = "SCHEDULED" /\ Unblocked
  /\ plans' = [plans EXCEPT ![p] = [status |-> "DRY_RUN", version |-> 0,
                                    contentVersion |-> content.version, binding |-> Reference]]
  /\ UNCHANGED <<content, productionControl, killSwitch>>

\* The plan still speaks of the content and of the control that it was made for.
BindingIsCurrent(p) ==
  /\ content.status = "SCHEDULED" /\ content.version = plans[p].contentVersion
  /\ Unblocked /\ plans[p].binding = Reference

AuthorizePublication(p) ==
  /\ SwitchedOff
  /\ plans[p].status = "DRY_RUN" /\ BindingIsCurrent(p)
  /\ plans' = [plans EXCEPT ![p].status = "AUTHORIZED", ![p].version = @ + 1]
  /\ UNCHANGED <<content, productionControl, killSwitch>>

RecordPublicationReceipt(p) ==
  /\ SwitchedOff
  /\ plans[p].status = "AUTHORIZED" /\ BindingIsCurrent(p)
  /\ \E outcome \in PublicationOutcome :
       plans' = [plans EXCEPT ![p].status = outcome, ![p].version = @ + 1]
  /\ UNCHANGED <<content, productionControl, killSwitch>>

SetPublicationKillSwitch ==
  /\ killSwitch.version < MaxSwitches
  /\ \E enabled \in BOOLEAN :
       killSwitch' = [enabled |-> enabled, version |-> killSwitch.version + 1]
  /\ UNCHANGED <<content, productionControl, plans>>

\* Everything but the control actions, which OperationsControl decides.
PublicationStep ==
  \/ ReviewContent \/ ScheduleContent \/ RecordMetrics \/ ArchiveContent
  \/ SetPublicationKillSwitch
  \/ \E p \in Plan : PlanPublication(p) \/ AuthorizePublication(p) \/ RecordPublicationReceipt(p)

-----------------------------------------------------------------------------
(* Properties. *)

\* An open plan is bound to the state the production is in: to the control at
\* its present version, which is then ACTIVE, or to the content where no control
\* was ever made.  A control action may not leave a plan of an earlier control
\* open, nor one made before there was a control (the loop over
\* listOpenPublicationsByProductionId in applyProductionAction).
OpenPlansFollowControl ==
  \A p \in Plan : Open(p) =>
    IF productionControl = NoControl THEN plans[p].binding.kind = "CONTENT"
    ELSE productionControl.state = "ACTIVE" /\ plans[p].binding = Reference

Advances(p) ==
  /\ plans'[p].status # plans[p].status
  /\ plans'[p].status \in PublicationOutcome \union {"AUTHORIZED"}

\* Whatever was decided in between, a plan is authorized, and its outcome
\* recorded, only while the switch has been set and is off, the production is
\* not held by its control, and the content is the scheduled one the plan was
\* made for (authorizePublication, recordPublicationReceipt).
PublishedAsPlanned ==
  [][\A p \in Plan : Advances(p) =>
       /\ killSwitch.version > 0 /\ ~killSwitch.enabled
       /\ productionControl.state \notin {"PAUSED", "CANCELLED", "REVISION_REQUIRED"}
       /\ content.status = "SCHEDULED" /\ content.version = plans[p].contentVersion
    ]_publicationVars

\* What the operator cancels or sends back goes no further: the content is
\* neither approved nor scheduled, and no plan of it is authorized or carried
\* out, by whatever sequence of later commands (productionTransition, and the
\* checks of the control in the review, the schedule and the plans).
StoppedGoesNoFurther ==
  [][productionControl.state \in {"CANCELLED", "REVISION_REQUIRED"} =>
       /\ content'.status \in {content.status, "ARCHIVED"}
       /\ \A p \in Plan : ~Advances(p) /\ (plans[p] = NoPlan => plans'[p] = NoPlan)
       /\ productionControl' = productionControl
    ]_publicationVars

\* No sequence of commands carries a publication past its plan or its control.
PublicationIsControlled == PublishedAsPlanned /\ StoppedGoesNoFurther

=============================================================================
