------------------------ MODULE OperationsControlProofs ------------------------
(***************************************************************************)
(* What holds of the operator's control actions and of the publications    *)
(* they govern for any plans, proposals, versions and renewals.            *)
(***************************************************************************)
EXTENDS MCOperations, OperationsRuntimeProofs

----------------------------------------------------------------------------
(* The records.                                                            *)

Content ==
  [status : {"PENDING_FABIO_APPROVAL", "APPROVED_FOR_SCHEDULING", "SCHEDULED", "ARCHIVED"},
   version : 0 .. 4, metrics : BOOLEAN]

\* A content's version tells how far it is, which bounds it.
VersionTellsStage(c) ==
  /\ c.status = "PENDING_FABIO_APPROVAL" => c.version = 0
  /\ c.status = "APPROVED_FOR_SCHEDULING" => c.version = 1
  /\ c.status = "SCHEDULED" => c.version = IF c.metrics THEN 3 ELSE 2

Control == [state : {"ACTIVE", "PAUSED", "CANCELLED", "REVISION_REQUIRED"},
            version : 1 .. MaxControlVersion]
OperationControls == {NoControl} \union Control

Switch == [enabled : BOOLEAN, version : 0 .. MaxSwitches]

Binding == [kind : {"CONTENT", "CONTROL"}, version : Nat, print : Content \union OperationControls]

PlanStatus == PublicationOutcome \union {"DRY_RUN", "AUTHORIZED", "CANCELLED"}
PlanRecord == [status : PlanStatus, version : Nat, contentVersion : Nat, binding : Binding]
Plans == {NoPlan} \union PlanRecord

PublicationTypes ==
  /\ content \in Content /\ VersionTellsStage(content)
  /\ productionControl \in OperationControls
  /\ plans \in [Plan -> Plans] /\ killSwitch \in Switch

\* What stands for the production is the content until it has a control.
LEMMA ReferenceTyped ==
  ASSUME PublicationTypes
  PROVE  /\ Reference \in Binding
         /\ Reference.kind = IF productionControl = NoControl THEN "CONTENT" ELSE "CONTROL"
<1>1. content.version \in Nat /\ content \in Content
  BY DEF PublicationTypes, Content
<1>2. productionControl.version \in Nat /\ productionControl \in OperationControls
  BY PublicationAssumption DEF PublicationTypes, OperationControls, Control, NoControl
<1>3. \A c \in {"CONTENT", "CONTROL"}, v \in Nat, r \in Content \union OperationControls :
        [kind |-> c, version |-> v, print |-> r] \in Binding
  BY DEF Binding
<1> QED
  BY <1>1, <1>2, <1>3 DEF Reference

\* A plan's record moves to another status and its next version.
LEMMA PlanRecordMoves ==
  ASSUME NEW plan \in PlanRecord, NEW status \in PlanStatus
  PROVE  LET record == [plan EXCEPT !.status = status, !.version = @ + 1]
         IN  /\ record \in PlanRecord
             /\ record.status = status /\ record.binding = plan.binding
             /\ record.contentVersion = plan.contentVersion
<1> DEFINE record == [plan EXCEPT !.status = status, !.version = @ + 1]
<1>1. plan.version + 1 \in Nat
  BY DEF PlanRecord
<1>2. record \in PlanRecord
  BY <1>1, Zenon DEF PlanRecord
<1>3. /\ record.status = status /\ record.binding = plan.binding
      /\ record.contentVersion = plan.contentVersion
  BY DEF PlanRecord
<1> QED
  BY <1>2, <1>3

\* An advance of a plan's status leaves the rest of the plan as it is.
LEMMA PlanMoves ==
  ASSUME PublicationTypes, NEW p \in Plan, plans[p].status # "NONE", NEW status \in PlanStatus,
         plans' = [plans EXCEPT ![p].status = status, ![p].version = @ + 1]
  PROVE  /\ plans' \in [Plan -> Plans]
         /\ plans'[p].status = status /\ plans'[p].binding = plans[p].binding
         /\ plans'[p].contentVersion = plans[p].contentVersion
         /\ \A q \in Plan \ {p} : plans'[q] = plans[q]
<1> DEFINE record == [plans[p] EXCEPT !.status = status, !.version = @ + 1]
<1>1. plans[p] \in PlanRecord /\ plans \in [Plan -> Plans]
  BY DEF PublicationTypes, Plans, NoPlan
<1>2. /\ record \in PlanRecord
      /\ record.status = status /\ record.binding = plans[p].binding
      /\ record.contentVersion = plans[p].contentVersion
  BY <1>1, PlanRecordMoves
<1>3. plans' = [plans EXCEPT ![p] = record]
  OBVIOUS
<1> HIDE DEF record
<1> QED
  BY <1>1, <1>2, <1>3 DEF Plans

\* A control action cancels every open plan and touches no other.
LEMMA OpenPlansCancelled ==
  ASSUME PublicationTypes, plans' = CancelOpenPlans
  PROVE  /\ plans' \in [Plan -> Plans]
         /\ \A p \in Plan : IF Open(p) THEN plans'[p].status = "CANCELLED"
                                       ELSE plans'[p] = plans[p]
<1>1. ASSUME NEW p \in Plan, Open(p)
      PROVE  /\ plans'[p] \in Plans /\ plans'[p].status = "CANCELLED"
  <2>1. plans[p] \in PlanRecord
    BY <1>1 DEF PublicationTypes, Plans, NoPlan, Open
  <2>2. plans'[p] = [plans[p] EXCEPT !.status = "CANCELLED", !.version = @ + 1]
    BY <1>1 DEF CancelOpenPlans
  <2> DEFINE record == [plans[p] EXCEPT !.status = "CANCELLED", !.version = @ + 1]
  <2>3. "CANCELLED" \in PlanStatus
    BY DEF PlanStatus
  <2>4. record \in PlanRecord /\ record.status = "CANCELLED"
    BY <2>1, <2>3, PlanRecordMoves
  <2>5. plans'[p] = record
    BY <2>2
  <2> HIDE DEF record
  <2> QED
    BY <2>4, <2>5 DEF Plans
<1>2. ASSUME NEW p \in Plan, ~Open(p) PROVE plans'[p] = plans[p] /\ plans'[p] \in Plans
  BY <1>2 DEF CancelOpenPlans, PublicationTypes
<1>3. plans' = [p \in Plan |-> plans'[p]]
  BY DEF CancelOpenPlans
<1> QED
  BY <1>1, <1>2, <1>3

----------------------------------------------------------------------------
(* The publication's steps, and a control action of it.                    *)

PublicationInv == PublicationTypes /\ OpenPlansFollowControl

\* The first state satisfies the invariant.
LEMMA PublicationInitInv == PublicationInit => PublicationInv
<1> SUFFICES ASSUME PublicationInit PROVE PublicationInv
  OBVIOUS
<1>1. PublicationTypes
  BY PublicationAssumption
     DEF PublicationInit, PublicationTypes, Content, VersionTellsStage, OperationControls, Plans, Switch
<1>2. OpenPlansFollowControl
  BY DEF PublicationInit, OpenPlansFollowControl, Open, NoPlan
<1> QED
  BY <1>1, <1>2 DEF PublicationInv

ContentStep == ReviewContent \/ ScheduleContent \/ RecordMetrics \/ ArchiveContent

\* The content moves along its versions; nothing else does with it.
LEMMA ContentStepKeeps ==
  ASSUME PublicationTypes, ContentStep
  PROVE  /\ content' \in Content /\ VersionTellsStage(content')
         /\ UNCHANGED <<productionControl, plans, killSwitch>>
         /\ Unblocked \/ content'.status \in {content.status, "ARCHIVED"}
<1> DEFINE next(status, metrics) ==
             [status |-> status, version |-> content.version + 1, metrics |-> metrics]
<1>1. /\ content.version \in 0 .. 4 /\ content.metrics \in BOOLEAN
      /\ VersionTellsStage(content)
  BY DEF PublicationTypes, Content
<1>2. CASE ReviewContent
  <2>1. content.version = 0
    BY <1>1, <1>2 DEF ReviewContent, VersionTellsStage
  <2>2. Unblocked /\ UNCHANGED <<productionControl, plans, killSwitch>>
    BY <1>2 DEF ReviewContent, ContentMoves
  <2>3. content' \in {next("APPROVED_FOR_SCHEDULING", FALSE), next("ARCHIVED", FALSE)}
    BY <1>2 DEF ReviewContent, ContentMoves
  <2>4. ASSUME NEW status \in {"APPROVED_FOR_SCHEDULING", "ARCHIVED"},
               content' = next(status, FALSE)
        PROVE  content' \in Content /\ VersionTellsStage(content')
    BY <2>1, <2>4 DEF Content, VersionTellsStage
  <2> QED
    BY <2>2, <2>3, <2>4
<1>3. CASE ScheduleContent
  <2>1. content.version = 1
    BY <1>1, <1>3 DEF ScheduleContent, VersionTellsStage
  <2>2. Unblocked /\ UNCHANGED <<productionControl, plans, killSwitch>>
    BY <1>3 DEF ScheduleContent, ContentMoves
  <2>3. content' = next("SCHEDULED", FALSE)
    BY <1>3 DEF ScheduleContent, ContentMoves
  <2> QED
    BY <2>1, <2>2, <2>3 DEF Content, VersionTellsStage
<1>4. CASE RecordMetrics
  <2>1. content.version = 2 /\ content.status = "SCHEDULED"
    BY <1>1, <1>4 DEF RecordMetrics, VersionTellsStage
  <2>2. UNCHANGED <<productionControl, plans, killSwitch>>
    BY <1>4 DEF RecordMetrics, ContentMoves
  <2>3. content' = next("SCHEDULED", TRUE)
    BY <1>4 DEF RecordMetrics, ContentMoves
  <2> QED
    BY <2>1, <2>2, <2>3 DEF Content, VersionTellsStage
<1>5. CASE ArchiveContent
  <2>1. content.version \in 0 .. 3
    BY <1>1, <1>5 DEF ArchiveContent, VersionTellsStage
  <2>2. UNCHANGED <<productionControl, plans, killSwitch>>
    BY <1>5 DEF ArchiveContent, ContentMoves
  <2>3. content' = next("ARCHIVED", content.metrics)
    BY <1>5 DEF ArchiveContent, ContentMoves
  <2> QED
    BY <1>1, <2>1, <2>2, <2>3 DEF Content, VersionTellsStage
<1> QED
  BY <1>2, <1>3, <1>4, <1>5 DEF ContentStep

\* What each step on one plan does, and when.
LEMMA PlanStepKeeps ==
  ASSUME PublicationTypes, NEW p \in Plan,
         PlanPublication(p) \/ AuthorizePublication(p) \/ RecordPublicationReceipt(p)
  PROVE  /\ UNCHANGED <<content, productionControl, killSwitch>>
         /\ plans' \in [Plan -> Plans]
         /\ \A q \in Plan \ {p} : plans'[q] = plans[q]
         /\ Unblocked
         /\ \/ plans'[p].status = "DRY_RUN" /\ plans'[p].binding = Reference
            \/ /\ SwitchedOff /\ Open(p) /\ BindingIsCurrent(p) /\ plans[p] # NoPlan
               /\ plans'[p].binding = plans[p].binding
<1>1. CASE PlanPublication(p)
  <2> DEFINE record == [status |-> "DRY_RUN", version |-> 0,
                        contentVersion |-> content.version, binding |-> Reference]
  <2>1. content.version \in Nat
    BY DEF PublicationTypes, Content
  <2>2. record \in PlanRecord /\ record.status = "DRY_RUN" /\ record.binding = Reference
    BY <2>1, ReferenceTyped DEF PlanRecord, PlanStatus
  <2>3. plans' = [plans EXCEPT ![p] = record] /\ plans \in [Plan -> Plans]
    BY <1>1 DEF PlanPublication, PublicationTypes
  <2> HIDE DEF record
  <2>4. /\ plans' \in [Plan -> Plans] /\ plans'[p] = record
        /\ \A q \in Plan \ {p} : plans'[q] = plans[q]
    BY <2>2, <2>3 DEF Plans
  <2> QED
    BY <1>1, <2>2, <2>4 DEF PlanPublication
<1>2. ASSUME NEW status \in PlanStatus, SwitchedOff, Open(p), BindingIsCurrent(p),
             plans' = [plans EXCEPT ![p].status = status, ![p].version = @ + 1]
      PROVE  /\ plans' \in [Plan -> Plans]
             /\ \A q \in Plan \ {p} : plans'[q] = plans[q]
             /\ plans[p] # NoPlan /\ plans'[p].binding = plans[p].binding
  <2>1. plans[p].status # "NONE" /\ plans[p] # NoPlan
    BY <1>2 DEF Open, NoPlan
  <2> QED
    BY <1>2, <2>1, PlanMoves
<1>3. CASE AuthorizePublication(p)
  <2>1. "AUTHORIZED" \in PlanStatus /\ Open(p)
    BY <1>3 DEF PlanStatus, AuthorizePublication, Open
  <2> QED
    BY <1>2, <1>3, <2>1 DEF AuthorizePublication, BindingIsCurrent
<1>4. CASE RecordPublicationReceipt(p)
  <2>1. PICK outcome \in PublicationOutcome :
          plans' = [plans EXCEPT ![p].status = outcome, ![p].version = @ + 1]
    BY <1>4 DEF RecordPublicationReceipt
  <2>2. outcome \in PlanStatus /\ Open(p)
    BY <1>4 DEF PlanStatus, RecordPublicationReceipt, Open
  <2> QED
    BY <1>2, <1>4, <2>1, <2>2 DEF RecordPublicationReceipt, BindingIsCurrent
<1> QED
  BY <1>1, <1>3, <1>4

\* A control action makes the next version of the control, unless the production
\* is cancelled or sent back, and leaves no plan open.
LEMMA ControlKeeps ==
  ASSUME PublicationTypes, NEW action, ControlProduction(action)
  PROVE  /\ productionControl' \in Control
         /\ productionControl'.version = productionControl.version + 1
         /\ productionControl.state \notin {"CANCELLED", "REVISION_REQUIRED"}
         /\ UNCHANGED <<content, killSwitch>> /\ plans' = CancelOpenPlans
<1>1. productionControl.version \in Nat /\ MaxControlVersion \in Nat
  BY PublicationAssumption DEF PublicationTypes, OperationControls, Control, NoControl
<1>2. PICK state \in {"ACTIVE", "PAUSED", "CANCELLED", "REVISION_REQUIRED"} :
        /\ <<action, state>> \in ControlTransition(productionControl.state)
        /\ productionControl' = [state |-> state, version |-> productionControl.version + 1]
  BY DEF ControlProduction
<1>3. productionControl.version + 1 \in 1 .. MaxControlVersion
  BY <1>1 DEF ControlProduction
<1>4. ControlTransition(productionControl.state) # {}
  BY <1>2
<1>5. productionControl.state \notin {"CANCELLED", "REVISION_REQUIRED"}
  BY <1>4 DEF ControlTransition
<1> QED
  BY <1>2, <1>3, <1>5 DEF ControlProduction, Control

\* The switch is set to its next version.
LEMMA SwitchKeeps ==
  ASSUME PublicationTypes, SetPublicationKillSwitch
  PROVE  killSwitch' \in Switch /\ UNCHANGED <<content, productionControl, plans>>
<1>1. killSwitch.version \in 0 .. MaxSwitches /\ MaxSwitches \in Nat
  BY PublicationAssumption DEF PublicationTypes, Switch
<1> QED
  BY <1>1 DEF SetPublicationKillSwitch, Switch

----------------------------------------------------------------------------
(* Proposals, receipts and what they refer to.                             *)

JobStatus == {NotMade, "QUEUED", "SUCCEEDED", "FAILED", "DEAD_LETTER"}
Incident == {"OPEN", "ACKNOWLEDGED"}
Entity == JobId \union {"production", "incident"}
FingerprintType == Content \union OperationControls \union [job : JobId, status : JobStatus]
           \union [incident : Incident]
Targets == [version : Nat, print : FingerprintType]

ProposalRecord ==
  [state : {"PENDING", "EXPIRED", "CONSUMED"}, action : Action, entity : Entity,
   target : Targets, renewals : 0 .. MaxRenewals]
ReceiptRecord == [action : Action, target : Targets, appliedTo : Targets]

ControlTypes ==
  /\ jobs \in [JobId -> JobStatus] /\ successor \in [JobId -> {NotMade} \union Key]
  /\ incident \in Incident
  /\ proposals \in [Key -> {NoProposal} \union ProposalRecord]
  /\ receipts \in [Key -> {NoReceipt} \union ReceiptRecord]

\* A proposal for a job is bound to that job.
NamesItsJob(k) ==
  proposals[k] # NoProposal /\ proposals[k].action \in JobAction =>
    proposals[k].entity \in JobId /\ proposals[k].target.print.job = proposals[k].entity

\* A receipt is that of the consumed proposal of its key.
OfItsProposal(k) ==
  /\ receipts[k] # NoReceipt <=> proposals[k].state = "CONSUMED"
  /\ receipts[k] # NoReceipt =>
       /\ receipts[k].action = proposals[k].action
       /\ receipts[k].target = proposals[k].target
       /\ receipts[k].appliedTo = receipts[k].target

\* A job retried by hand has the successor that the receipt's proposal made.
MadeItsSuccessor(k) ==
  receipts[k].action \in JobAction => successor[proposals[k].entity] = k

Controlled == {k \in Key : receipts[k].action \in ControlAction}

\* The control has a version for each of its receipts.
VersionsCounted ==
  IsFiniteSet(Controlled) /\ productionControl.version = Cardinality(Controlled)

IncidentTold == incident = "ACKNOWLEDGED" <=> \E k \in Key : receipts[k].action = "ACKNOWLEDGE"

ControlInv ==
  /\ ControlTypes
  /\ \A k \in Key : NamesItsJob(k) /\ OfItsProposal(k) /\ MadeItsSuccessor(k)
  /\ VersionsCounted /\ IncidentTold

OperatorInv == PublicationInv /\ ControlInv

\* The actions differ from each other.
LEMMA ActionsDiffer ==
  /\ ControlAction \cap JobAction = {} /\ "ACKNOWLEDGE" \notin ControlAction \union JobAction
  /\ "NONE" \notin Action /\ Action = ControlAction \union JobAction \union {"ACKNOWLEDGE"}
BY DEF ControlAction, JobAction, Action

\* What an operator sees of each kind of target.
LEMMA TargetTyped ==
  ASSUME PublicationTypes, ControlTypes, NEW action \in Action, NEW entity \in Entities(action)
  PROVE  /\ entity \in Entity /\ Target(action, entity) \in Targets
         /\ action \in JobAction =>
              entity \in JobId /\ Target(action, entity).print.job = entity
<1>1. CASE action \in ControlAction
  <2>1. entity = "production"
    BY <1>1, ActionsDiffer DEF Entities
  <2>2. Target(action, entity) = [version |-> Reference.version, print |-> Reference.print]
    BY <1>1, ActionsDiffer DEF Target
  <2>3. Reference.version \in Nat /\ Reference.print \in FingerprintType
    BY ReferenceTyped DEF Binding, FingerprintType
  <2> QED
    BY <1>1, <2>1, <2>2, <2>3, ActionsDiffer DEF Entity, Targets
<1>2. CASE action \in JobAction
  <2>1. entity \in JobId
    BY <1>2, ActionsDiffer DEF Entities
  <2> DEFINE print == [job |-> entity, status |-> jobs[entity]]
  <2>2. Target(action, entity) = [version |-> 0, print |-> print]
    BY <1>2, ActionsDiffer DEF Target
  <2>3. print \in FingerprintType /\ print.job = entity
    BY <2>1 DEF FingerprintType, ControlTypes
  <2> HIDE DEF print
  <2>4. Target(action, entity) \in Targets /\ Target(action, entity).print = print
    BY <2>2, <2>3 DEF Targets
  <2> QED
    BY <2>1, <2>3, <2>4 DEF Entity
<1>3. CASE action = "ACKNOWLEDGE"
  <2>1. entity = "incident"
    BY <1>3, ActionsDiffer DEF Entities
  <2> DEFINE version == IF incident = "OPEN" THEN 0 ELSE 1
             print == [incident |-> incident]
  <2>2. Target(action, entity) = [version |-> version, print |-> print]
    BY <1>3, ActionsDiffer DEF Target
  <2>3. version \in Nat /\ print \in FingerprintType
    BY DEF FingerprintType, ControlTypes
  <2> HIDE DEF version, print
  <2> QED
    BY <1>3, <2>1, <2>2, <2>3, ActionsDiffer DEF Entity, Targets
<1> QED
  BY <1>1, <1>2, <1>3, ActionsDiffer

\* The first state satisfies the invariant.
LEMMA OperatorInitInv == OperatorInit => OperatorInv
<1> SUFFICES ASSUME OperatorInit PROVE OperatorInv
  OBVIOUS
<1> USE DEF OperatorInit, ControlInit
<1>1. PublicationInv
  BY PublicationInitInv
<1>2. ControlTypes
  <2>1. jobs \in [JobId -> JobStatus] /\ incident \in Incident
    BY DEF JobStatus, Incident
  <2>2. successor \in [JobId -> {NotMade} \union Key]
    OBVIOUS
  <2> QED
    BY <2>1, <2>2 DEF ControlTypes
<1>3. \A k \in Key : proposals[k] = NoProposal /\ receipts[k] = NoReceipt
  OBVIOUS
<1>4. \A k \in Key : NamesItsJob(k) /\ OfItsProposal(k) /\ MadeItsSuccessor(k)
  BY <1>3 DEF NamesItsJob, OfItsProposal, MadeItsSuccessor, NoProposal, NoReceipt, JobAction
<1>5. VersionsCounted
  <2>1. Controlled = {}
    BY <1>3 DEF Controlled, NoReceipt, ControlAction
  <2>2. productionControl.version = 0
    BY DEF PublicationInit, NoControl
  <2> QED
    BY <2>1, <2>2, FS_EmptySet DEF VersionsCounted
<1>6. IncidentTold
  BY <1>3 DEF IncidentTold, NoReceipt
<1> QED
  BY <1>1, <1>2, <1>4, <1>5, <1>6 DEF OperatorInv, ControlInv

\* A proposal that changes its state, or is renewed, stays the proposal it was.
LEMMA ProposalMoves ==
  ASSUME ControlTypes, NEW k \in Key, proposals[k] \in ProposalRecord,
         NEW state \in {"PENDING", "EXPIRED", "CONSUMED"},
         NEW renewals \in 0 .. MaxRenewals,
         NEW record,
         \/ record = [proposals[k] EXCEPT !.state = state]
         \/ record = [proposals[k] EXCEPT !.state = state, !.renewals = renewals],
         proposals' = [proposals EXCEPT ![k] = record]
  PROVE  /\ proposals' \in [Key -> {NoProposal} \union ProposalRecord]
         /\ proposals'[k] \in ProposalRecord
         /\ proposals'[k].state = state /\ proposals'[k].action = proposals[k].action
         /\ proposals'[k].entity = proposals[k].entity
         /\ proposals'[k].target = proposals[k].target
         /\ \A j \in Key \ {k} : proposals'[j] = proposals[j]
<1>1. record \in ProposalRecord
  BY Zenon DEF ProposalRecord
<1>2. /\ record.state = state /\ record.action = proposals[k].action
      /\ record.entity = proposals[k].entity /\ record.target = proposals[k].target
  BY DEF ProposalRecord
<1>3. /\ proposals'[k] = record /\ \A j \in Key \ {k} : proposals'[j] = proposals[j]
      /\ proposals' \in [Key -> {NoProposal} \union ProposalRecord]
  BY <1>1 DEF ControlTypes
<1> QED
  BY <1>1, <1>2, <1>3

\* A proposal that was made has a record.
LEMMA ProposalMade ==
  ASSUME ControlTypes, NEW k \in Key, proposals[k].state # "NONE"
  PROVE  proposals[k] \in ProposalRecord /\ proposals[k] # NoProposal
BY DEF ControlTypes, NoProposal

\* A receipt's action is one of the actions.
LEMMA ReceiptActs ==
  ASSUME ControlTypes, NEW k \in Key, receipts[k].action # "NONE"
  PROVE  receipts[k] # NoReceipt /\ receipts[k] \in ReceiptRecord
BY DEF ControlTypes, NoReceipt

\* Proposing, renewing and expiring write no receipt.
LEMMA ProposalsMoveOn ==
  ASSUME ControlInv, ControlTypes', UNCHANGED <<receipts, incident, successor>>,
         productionControl'.version = productionControl.version,
         \A k \in Key :
           \/ proposals'[k] = proposals[k]
           \/ /\ proposals'[k].state # "CONSUMED" /\ proposals[k].state # "CONSUMED"
              /\ NamesItsJob(k)'
  PROVE  ControlInv'
<1>1. ASSUME NEW k \in Key
      PROVE  NamesItsJob(k)' /\ OfItsProposal(k)' /\ MadeItsSuccessor(k)'
  <2>1. NamesItsJob(k) /\ OfItsProposal(k) /\ MadeItsSuccessor(k)
    BY DEF ControlInv
  <2>2. CASE proposals'[k] = proposals[k]
    BY <2>1, <2>2 DEF NamesItsJob, OfItsProposal, MadeItsSuccessor
  <2>3. CASE /\ proposals'[k].state # "CONSUMED" /\ proposals[k].state # "CONSUMED"
             /\ NamesItsJob(k)'
    <3>1. receipts[k] = NoReceipt
      BY <2>1, <2>3 DEF OfItsProposal
    <3> QED
      BY <2>3, <3>1 DEF OfItsProposal, MadeItsSuccessor, NoReceipt, JobAction
  <2> QED
    BY <2>2, <2>3
<1>2. VersionsCounted' /\ IncidentTold'
  BY DEF ControlInv, VersionsCounted, IncidentTold, Controlled
<1> QED
  BY <1>1, <1>2 DEF ControlInv

LEMMA ProposeKeeps ==
  ASSUME OperatorInv, NEW k \in Key, NEW action \in Action, NEW entity \in Entities(action),
         Propose(k, action, entity)
  PROVE  ControlInv'
<1> DEFINE record == [state |-> "PENDING", action |-> action, entity |-> entity,
                      target |-> Target(action, entity), renewals |-> 0]
<1>0. PublicationTypes /\ ControlTypes /\ ControlInv
  BY DEF OperatorInv, PublicationInv, ControlInv
<1>1. /\ entity \in Entity /\ Target(action, entity) \in Targets
      /\ action \in JobAction =>
           entity \in JobId /\ Target(action, entity).print.job = entity
  BY <1>0, TargetTyped
<1>2. record \in ProposalRecord
  BY <1>1, ControlAssumption DEF ProposalRecord
<1>3. /\ record.state = "PENDING" /\ record.action = action /\ record.entity = entity
      /\ record.target = Target(action, entity)
  OBVIOUS
<1>4. proposals' = [proposals EXCEPT ![k] = record]
  BY DEF Propose
<1>5. UNCHANGED <<publicationVars, jobs, successor, incident, receipts>>
  BY DEF Propose
<1>6. proposals[k].state # "CONSUMED"
  BY DEF Propose, NoProposal
<1> HIDE DEF record
<1>7. /\ proposals' \in [Key -> {NoProposal} \union ProposalRecord]
      /\ proposals'[k] = record /\ \A j \in Key \ {k} : proposals'[j] = proposals[j]
  BY <1>0, <1>2, <1>4 DEF ControlTypes
<1>8. ControlTypes'
  BY <1>0, <1>5, <1>7 DEF ControlTypes
<1>9. NamesItsJob(k)' /\ proposals'[k].state # "CONSUMED"
  BY <1>1, <1>3, <1>7 DEF NamesItsJob
<1>10. productionControl' = productionControl
  BY <1>5 DEF publicationVars
<1> QED
  BY <1>0, <1>5, <1>6, <1>7, <1>8, <1>9, <1>10, ProposalsMoveOn

LEMMA RenewOrExpireKeeps ==
  ASSUME OperatorInv, NEW k \in Key, Renew(k) \/ ExpireProposal(k)
  PROVE  ControlInv'
<1>0. ControlTypes /\ ControlInv /\ NamesItsJob(k)
  BY DEF OperatorInv, ControlInv
<1>1. /\ proposals[k].state \in {"PENDING", "EXPIRED"}
      /\ UNCHANGED <<publicationVars, jobs, successor, incident, receipts>>
  BY DEF Renew, Renewable, ExpireProposal
<1>2. proposals[k] \in ProposalRecord /\ proposals[k] # NoProposal
  BY <1>0, <1>1, ProposalMade
<1>3. PICK state \in {"PENDING", "EXPIRED"}, renewals \in 0 .. MaxRenewals :
        proposals' = [proposals EXCEPT ![k] =
                        [proposals[k] EXCEPT !.state = state, !.renewals = renewals]]
  <2>1. CASE Renew(k)
    <3>1. proposals[k].renewals + 1 \in 0 .. MaxRenewals
      BY <1>2, <2>1, ControlAssumption DEF Renew, ProposalRecord
    <3>2. proposals' = [proposals EXCEPT ![k] =
             [proposals[k] EXCEPT !.state = "PENDING", !.renewals = proposals[k].renewals + 1]]
      BY <2>1 DEF Renew
    <3> QED
      BY <3>1, <3>2
  <2>2. CASE ExpireProposal(k)
    <3>1. proposals' = [proposals EXCEPT ![k] = [proposals[k] EXCEPT !.state = "EXPIRED"]]
      BY <2>2 DEF ExpireProposal
    <3>2. proposals[k].renewals \in 0 .. MaxRenewals
      BY <1>2 DEF ProposalRecord
    <3>3. [proposals[k] EXCEPT !.state = "EXPIRED"]
            = [proposals[k] EXCEPT !.state = "EXPIRED", !.renewals = proposals[k].renewals]
      BY <1>2 DEF ProposalRecord
    <3> QED
      BY <3>1, <3>2, <3>3
  <2> QED
    BY <2>1, <2>2
<1>4. /\ proposals' \in [Key -> {NoProposal} \union ProposalRecord]
      /\ proposals'[k].state = state /\ proposals'[k].action = proposals[k].action
      /\ proposals'[k].entity = proposals[k].entity
      /\ proposals'[k].target = proposals[k].target
      /\ \A j \in Key \ {k} : proposals'[j] = proposals[j]
  BY <1>0, <1>2, <1>3, ProposalMoves
<1>5. ControlTypes'
  BY <1>0, <1>1, <1>4 DEF ControlTypes
<1>6. NamesItsJob(k)' /\ proposals'[k].state # "CONSUMED" /\ proposals[k].state # "CONSUMED"
  BY <1>0, <1>1, <1>2, <1>3, <1>4 DEF NamesItsJob
<1>7. productionControl' = productionControl
  BY <1>1 DEF publicationVars
<1> QED
  BY <1>0, <1>1, <1>4, <1>5, <1>6, <1>7, ProposalsMoveOn

\* A confirmation consumes its proposal and writes the receipt of what was seen.
LEMMA ConfirmWrites ==
  ASSUME OperatorInv, NEW k \in Key, Confirm(k)
  PROVE  /\ proposals[k] \in ProposalRecord /\ receipts[k] = NoReceipt
         /\ proposals' \in [Key -> {NoProposal} \union ProposalRecord]
         /\ receipts' \in [Key -> {NoReceipt} \union ReceiptRecord]
         /\ proposals'[k] \in ProposalRecord /\ proposals'[k].state = "CONSUMED"
         /\ proposals'[k].action = proposals[k].action
         /\ proposals'[k].entity = proposals[k].entity
         /\ proposals'[k].target = proposals[k].target
         /\ receipts'[k].action = proposals[k].action
         /\ receipts'[k].target = proposals[k].target
         /\ receipts'[k].appliedTo = proposals[k].target
         /\ receipts'[k] # NoReceipt
         /\ \A j \in Key \ {k} : proposals'[j] = proposals[j] /\ receipts'[j] = receipts[j]
<1> DEFINE receipt == [action |-> proposals[k].action, target |-> proposals[k].target,
                       appliedTo |-> proposals[k].target]
<1>0. ControlTypes /\ OfItsProposal(k)
  BY DEF OperatorInv, ControlInv
<1>1. proposals[k].state = "PENDING"
  BY DEF Confirm
<1>2. proposals[k] \in ProposalRecord /\ receipts[k] = NoReceipt
  BY <1>0, <1>1, ProposalMade DEF OfItsProposal
<1>3. Target(proposals[k].action, proposals[k].entity) = proposals[k].target
  BY DEF Confirm, StillAsSeen
<1>4. receipts' = [receipts EXCEPT ![k] = receipt]
  BY <1>3 DEF Confirm
<1>5. /\ receipt \in ReceiptRecord /\ receipt.action = proposals[k].action
      /\ receipt.target = proposals[k].target /\ receipt.appliedTo = proposals[k].target
  BY <1>2 DEF ProposalRecord, ReceiptRecord
<1>6. receipt # NoReceipt
  BY <1>2, <1>5, ActionsDiffer DEF ProposalRecord, NoReceipt
<1> HIDE DEF receipt
<1>7. /\ receipts' \in [Key -> {NoReceipt} \union ReceiptRecord] /\ receipts'[k] = receipt
      /\ \A j \in Key \ {k} : receipts'[j] = receipts[j]
  BY <1>0, <1>4, <1>5 DEF ControlTypes
<1>8. proposals' = [proposals EXCEPT ![k] = [proposals[k] EXCEPT !.state = "CONSUMED"]]
  BY DEF Confirm
<1>9. 0 \in 0 .. MaxRenewals /\ "CONSUMED" \in {"PENDING", "EXPIRED", "CONSUMED"}
  BY ControlAssumption
<1>10. /\ proposals' \in [Key -> {NoProposal} \union ProposalRecord]
       /\ proposals'[k] \in ProposalRecord
       /\ proposals'[k].state = "CONSUMED" /\ proposals'[k].action = proposals[k].action
       /\ proposals'[k].entity = proposals[k].entity
       /\ proposals'[k].target = proposals[k].target
       /\ \A j \in Key \ {k} : proposals'[j] = proposals[j]
  BY <1>0, <1>2, <1>8, <1>9, ProposalMoves
<1> QED
  BY <1>2, <1>5, <1>6, <1>7, <1>10

\* What a confirmation adds to the receipts of control actions.
LEMMA ConfirmCounts ==
  ASSUME OperatorInv, NEW k \in Key, Confirm(k)
  PROVE  /\ Controlled' = IF proposals[k].action \in ControlAction
                            THEN Controlled \union {k} ELSE Controlled
         /\ k \notin Controlled
<1>1. receipts[k].action \notin ControlAction
  BY ConfirmWrites DEF NoReceipt, ControlAction
<1>2. /\ receipts'[k].action = proposals[k].action
      /\ \A j \in Key \ {k} : receipts'[j] = receipts[j]
  BY ConfirmWrites
<1> QED
  BY <1>1, <1>2 DEF Controlled

LEMMA ConfirmKeeps ==
  ASSUME OperatorInv, NEW k \in Key, Confirm(k)
  PROVE  ControlInv'
<1> DEFINE p == proposals[k]
<1>0. /\ PublicationTypes /\ ControlTypes /\ VersionsCounted /\ IncidentTold
      /\ \A j \in Key : NamesItsJob(j) /\ OfItsProposal(j) /\ MadeItsSuccessor(j)
  BY DEF OperatorInv, PublicationInv, ControlInv
<1>1. p \in ProposalRecord /\ p # NoProposal /\ p.action \in Action
  BY <1>0, ConfirmWrites, ProposalMade DEF ProposalRecord, Confirm
<1>2. ASSUME NEW j \in Key PROVE NamesItsJob(j)' /\ OfItsProposal(j)'
  <2>1. CASE j = k
    BY <1>0, <1>1, <2>1, ConfirmWrites DEF NamesItsJob, OfItsProposal
  <2>2. CASE j # k
    BY <1>0, <2>2, ConfirmWrites DEF NamesItsJob, OfItsProposal
  <2> QED
    BY <2>1, <2>2
<1>3. CASE p.action \in ControlAction
  <2>1. ControlProduction(p.action) /\ UNCHANGED <<jobs, successor, incident>>
    BY <1>3, ActionsDiffer DEF Confirm, ApplyAction, ApplyToProduction
  <2>2. ControlTypes'
    BY <1>0, <2>1, ConfirmWrites DEF ControlTypes
  <2>3. VersionsCounted'
    <3>1. productionControl'.version = productionControl.version + 1
      BY <1>0, <2>1, ControlKeeps
    <3>2. Controlled' = Controlled \union {k} /\ k \notin Controlled
      BY <1>3, ConfirmCounts
    <3>3. /\ IsFiniteSet(Controlled \union {k})
          /\ Cardinality(Controlled \union {k}) = Cardinality(Controlled) + 1
      BY <1>0, <3>2, FS_AddElement DEF VersionsCounted
    <3> QED
      BY <1>0, <3>1, <3>2, <3>3 DEF VersionsCounted
  <2>4. ASSUME NEW j \in Key PROVE MadeItsSuccessor(j)'
    <3>1. CASE j = k
      BY <1>3, <3>1, ConfirmWrites, ActionsDiffer DEF MadeItsSuccessor
    <3>2. CASE j # k
      BY <1>0, <2>1, <3>2, ConfirmWrites DEF MadeItsSuccessor
    <3> QED
      BY <3>1, <3>2
  <2>5. IncidentTold'
    <3>1. receipts'[k].action # "ACKNOWLEDGE" /\ receipts[k].action # "ACKNOWLEDGE"
      BY <1>3, ConfirmWrites, ActionsDiffer DEF NoReceipt
    <3> QED
      BY <1>0, <2>1, <3>1, ConfirmWrites DEF IncidentTold
  <2> QED
    BY <1>2, <2>2, <2>3, <2>4, <2>5 DEF ControlInv
<1>4. CASE p.action \in JobAction
  <2> DEFINE old == p.entity
  <2>1. /\ NoSuccessor(old, k) /\ jobs' = [jobs EXCEPT ![k] = "QUEUED"]
        /\ successor' = [successor EXCEPT ![old] = k]
        /\ UNCHANGED <<publicationVars, incident>>
    BY <1>4, ActionsDiffer DEF Confirm, ApplyAction, ApplyToJob
  <2>2. old \in JobId
    BY <1>0, <1>1, <1>4 DEF NamesItsJob
  <2>3. ControlTypes'
    <3>1. jobs' \in [JobId -> JobStatus] /\ successor' \in [JobId -> {NotMade} \union Key]
      BY <1>0, <2>1 DEF ControlTypes, JobStatus
    <3> QED
      BY <1>0, <2>1, <3>1, ConfirmWrites DEF ControlTypes
  <2>4. VersionsCounted'
    <3>1. Controlled' = Controlled
      BY <1>4, ConfirmCounts, ActionsDiffer
    <3> QED
      BY <1>0, <2>1, <3>1 DEF VersionsCounted, publicationVars
  <2>5. ASSUME NEW j \in Key PROVE MadeItsSuccessor(j)'
    <3>1. CASE j = k
      <4>1. successor'[old] = k
        BY <1>0, <2>1, <2>2 DEF ControlTypes
      <4> QED
        BY <3>1, <4>1, ConfirmWrites DEF MadeItsSuccessor
    <3>2. CASE j # k /\ receipts[j].action \in JobAction
      <4>1. receipts[j] # NoReceipt
        BY <3>2 DEF NoReceipt, JobAction
      <4>2. proposals[j].entity \in JobId
        BY <1>0, <3>2, <4>1 DEF OfItsProposal, NamesItsJob, NoProposal
      <4>3. successor[proposals[j].entity] = j /\ successor[old] = "NONE" /\ j # "NONE"
        BY <1>0, <2>1, <3>2, ControlAssumption DEF MadeItsSuccessor, NoSuccessor, NotMade
      <4>4. successor'[proposals[j].entity] = j
        BY <1>0, <2>1, <4>2, <4>3 DEF ControlTypes
      <4> QED
        BY <3>2, <4>4, ConfirmWrites DEF MadeItsSuccessor
    <3>3. CASE j # k /\ receipts[j].action \notin JobAction
      BY <3>3, ConfirmWrites DEF MadeItsSuccessor
    <3> QED
      BY <3>1, <3>2, <3>3
  <2>6. IncidentTold'
    <3>1. receipts'[k].action # "ACKNOWLEDGE" /\ receipts[k].action # "ACKNOWLEDGE"
      BY <1>4, ConfirmWrites, ActionsDiffer DEF NoReceipt
    <3> QED
      BY <1>0, <2>1, <3>1, ConfirmWrites DEF IncidentTold
  <2> QED
    BY <1>2, <2>3, <2>4, <2>5, <2>6 DEF ControlInv
<1>5. CASE p.action = "ACKNOWLEDGE"
  <2>1. incident' = "ACKNOWLEDGED" /\ UNCHANGED <<publicationVars, jobs, successor>>
    BY <1>5, ActionsDiffer DEF Confirm, ApplyAction, ApplyToIncident
  <2>2. ControlTypes'
    BY <1>0, <2>1, ConfirmWrites DEF ControlTypes, Incident
  <2>3. VersionsCounted'
    <3>1. Controlled' = Controlled
      BY <1>5, ConfirmCounts, ActionsDiffer
    <3> QED
      BY <1>0, <2>1, <3>1 DEF VersionsCounted, publicationVars
  <2>4. ASSUME NEW j \in Key PROVE MadeItsSuccessor(j)'
    <3>1. CASE j = k
      BY <1>5, <3>1, ConfirmWrites, ActionsDiffer DEF MadeItsSuccessor
    <3>2. CASE j # k
      BY <1>0, <2>1, <3>2, ConfirmWrites DEF MadeItsSuccessor
    <3> QED
      BY <3>1, <3>2
  <2>5. IncidentTold'
    BY <1>5, <2>1, ConfirmWrites DEF IncidentTold
  <2> QED
    BY <1>2, <2>2, <2>3, <2>4, <2>5 DEF ControlInv
<1> QED
  BY <1>1, <1>3, <1>4, <1>5, ActionsDiffer

----------------------------------------------------------------------------
(* The invariant of the whole, and what follows from it.                   *)

\* A plan that stays as it was follows a control that stays as it was, although
\* the content moves.
LEMMA PlanFollowsOn ==
  ASSUME OpenPlansFollowControl, UNCHANGED productionControl, NEW p \in Plan, Open(p),
         plans'[p].binding = plans[p].binding
  PROVE  IF productionControl' = NoControl THEN plans'[p].binding.kind = "CONTENT"
         ELSE productionControl'.state = "ACTIVE" /\ plans'[p].binding = Reference'
BY DEF OpenPlansFollowControl, Reference

\* Every step of the publication keeps its invariant and what the control says.
LEMMA PublicationStepKeeps ==
  ASSUME PublicationInv, PublicationStep
  PROVE  PublicationInv' /\ UNCHANGED productionControl
<1>0. PublicationTypes /\ OpenPlansFollowControl
  BY DEF PublicationInv
<1>1. CASE ContentStep
  <2>1. /\ content' \in Content /\ VersionTellsStage(content')
        /\ UNCHANGED <<productionControl, plans, killSwitch>>
    BY <1>0, <1>1, ContentStepKeeps
  <2>2. PublicationTypes'
    BY <1>0, <2>1 DEF PublicationTypes
  <2>3. OpenPlansFollowControl'
    BY <1>0, <2>1, PlanFollowsOn DEF OpenPlansFollowControl, Open
  <2> QED
    BY <2>1, <2>2, <2>3 DEF PublicationInv
<1>2. CASE SetPublicationKillSwitch
  <2>1. killSwitch' \in Switch /\ UNCHANGED <<content, productionControl, plans>>
    BY <1>0, <1>2, SwitchKeeps
  <2>2. PublicationTypes'
    BY <1>0, <2>1 DEF PublicationTypes
  <2>3. OpenPlansFollowControl'
    BY <1>0, <2>1, PlanFollowsOn DEF OpenPlansFollowControl, Open
  <2> QED
    BY <2>1, <2>2, <2>3 DEF PublicationInv
<1>3. ASSUME NEW p \in Plan,
             PlanPublication(p) \/ AuthorizePublication(p) \/ RecordPublicationReceipt(p)
      PROVE  PublicationInv' /\ UNCHANGED productionControl
  <2>1. /\ UNCHANGED <<content, productionControl, killSwitch>>
        /\ plans' \in [Plan -> Plans]
        /\ \A q \in Plan \ {p} : plans'[q] = plans[q]
        /\ Unblocked
        /\ \/ plans'[p].binding = Reference
           \/ Open(p) /\ plans'[p].binding = plans[p].binding
    BY <1>0, <1>3, PlanStepKeeps
  <2>2. PublicationTypes'
    BY <1>0, <2>1 DEF PublicationTypes
  <2>3. ASSUME NEW q \in Plan, Open(q)'
        PROVE  IF productionControl' = NoControl THEN plans'[q].binding.kind = "CONTENT"
               ELSE productionControl'.state = "ACTIVE" /\ plans'[q].binding = Reference'
    <3>1. CASE q # p
      <4>1. Open(q) /\ plans'[q] = plans[q]
        BY <2>1, <2>3, <3>1 DEF Open
      <4> QED
        BY <1>0, <2>1, <4>1, PlanFollowsOn
    <3>2. CASE q = p /\ Open(p) /\ plans'[p].binding = plans[p].binding
      BY <1>0, <2>1, <3>2, PlanFollowsOn
    <3>3. CASE q = p /\ plans'[p].binding = Reference
      <4>1. Reference' = Reference
        BY <2>1 DEF Reference
      <4>2. productionControl = NoControl \/ productionControl.state = "ACTIVE"
        BY <1>0, <2>1 DEF Unblocked, PublicationTypes, OperationControls, Control
      <4> QED
        BY <1>0, <2>1, <3>3, <4>1, <4>2, ReferenceTyped
    <3> QED
      BY <2>1, <3>1, <3>2, <3>3
  <2> QED
    BY <2>1, <2>2, <2>3 DEF PublicationInv, OpenPlansFollowControl
<1> QED
  BY <1>1, <1>2, <1>3 DEF PublicationStep, ContentStep

\* A control action keeps it by closing every plan.
LEMMA ControlProductionKeeps ==
  ASSUME PublicationInv, NEW action, ControlProduction(action)
  PROVE  PublicationInv'
<1>0. PublicationTypes
  BY DEF PublicationInv
<1>1. /\ productionControl' \in Control /\ UNCHANGED <<content, killSwitch>>
      /\ plans' = CancelOpenPlans
  BY <1>0, ControlKeeps
<1>2. /\ plans' \in [Plan -> Plans]
      /\ \A p \in Plan : IF Open(p) THEN plans'[p].status = "CANCELLED"
                                    ELSE plans'[p] = plans[p]
  BY <1>0, <1>1, OpenPlansCancelled
<1>3. PublicationTypes'
  BY <1>0, <1>1, <1>2 DEF PublicationTypes, OperationControls
<1>4. \A p \in Plan : ~Open(p)'
  BY <1>2 DEF Open
<1> QED
  BY <1>3, <1>4 DEF PublicationInv, OpenPlansFollowControl

\* Each step of the operator and of the commands keeps the invariant.
LEMMA OperatorStepKeeps == OperatorInv /\ [OperatorNext]_operatorVars => OperatorInv'
<1> SUFFICES ASSUME OperatorInv, [OperatorNext]_operatorVars PROVE OperatorInv'
  OBVIOUS
<1>0. PublicationInv /\ ControlInv /\ ControlTypes
  BY DEF OperatorInv, ControlInv
<1>1. ASSUME UNCHANGED controlVars, UNCHANGED productionControl PROVE ControlInv'
  <2>1. ControlTypes'
    BY <1>0, <1>1 DEF ControlTypes, controlVars
  <2> QED
    BY <1>0, <1>1, <2>1, ProposalsMoveOn DEF controlVars
<1>2. ASSUME UNCHANGED publicationVars PROVE PublicationInv'
  <2>1. PublicationTypes'
    BY <1>0, <1>2 DEF PublicationInv, PublicationTypes, publicationVars
  <2>2. OpenPlansFollowControl'
    BY <1>0, <1>2 DEF PublicationInv, OpenPlansFollowControl, Open, Reference, publicationVars
  <2> QED
    BY <2>1, <2>2 DEF PublicationInv
<1>3. CASE UNCHANGED operatorVars
  <2>1. UNCHANGED publicationVars /\ UNCHANGED controlVars /\ UNCHANGED productionControl
    BY <1>3 DEF operatorVars, publicationVars
  <2> QED
    BY <1>1, <1>2, <2>1 DEF OperatorInv
<1>4. CASE PublicationStep /\ UNCHANGED controlVars
  <2>1. PublicationInv' /\ UNCHANGED productionControl
    BY <1>0, <1>4, PublicationStepKeeps
  <2> QED
    BY <1>1, <1>4, <2>1 DEF OperatorInv
<1>5. ASSUME NEW k \in Key, NEW action \in Action, NEW entity \in Entities(action),
             Propose(k, action, entity)
      PROVE  OperatorInv'
  <2>1. UNCHANGED publicationVars
    BY <1>5 DEF Propose, publicationVars
  <2> QED
    BY <1>2, <1>5, <2>1, ProposeKeeps DEF OperatorInv
<1>6. ASSUME NEW k \in Key, Renew(k) \/ ExpireProposal(k) PROVE OperatorInv'
  <2>1. UNCHANGED publicationVars
    BY <1>6 DEF Renew, ExpireProposal, publicationVars
  <2> QED
    BY <1>2, <1>6, <2>1, RenewOrExpireKeeps DEF OperatorInv
<1>7. ASSUME NEW k \in Key, Confirm(k) PROVE OperatorInv'
  <2>1. ControlProduction(proposals[k].action) \/ UNCHANGED publicationVars
    BY <1>7 DEF Confirm, ApplyAction, ApplyToProduction, ApplyToJob, ApplyToIncident,
                publicationVars
  <2>2. PublicationInv'
    BY <1>0, <1>2, <2>1, ControlProductionKeeps
  <2> QED
    BY <1>7, <2>2, ConfirmKeeps DEF OperatorInv
<1>8. ASSUME NEW j \in JobId, SuccessorEnds(j) PROVE OperatorInv'
  <2>1. UNCHANGED <<publicationVars, successor, incident, proposals, receipts>>
    BY <1>8 DEF SuccessorEnds
  <2>2. UNCHANGED publicationVars /\ UNCHANGED productionControl
    BY <2>1 DEF publicationVars
  <2>3. jobs' \in [JobId -> JobStatus]
    BY <1>0, <1>8 DEF SuccessorEnds, ControlTypes, JobStatus
  <2>4. ControlTypes'
    BY <1>0, <2>1, <2>3 DEF ControlTypes
  <2>5. ControlInv'
    BY <1>0, <2>1, <2>2, <2>4, ProposalsMoveOn
  <2> QED
    BY <1>2, <2>2, <2>5 DEF OperatorInv
<1> QED
  BY <1>3, <1>4, <1>5, <1>6, <1>7, <1>8 DEF OperatorNext

\* The invariant holds of every reachable state.
THEOREM OperatorInvariant == OperatorSpec => []OperatorInv
  BY OperatorInitInv, OperatorStepKeeps, PTL DEF OperatorSpec

\* The records keep their shapes: a content's version ends at 4, whatever the
\* commands, and those of the control and of the switch within their bounds.
THEOREM OperatorTyped == OperatorSpec => []OperatorTypeOK
<1>1. OperatorInv => OperatorTypeOK
  <2> SUFFICES ASSUME OperatorInv PROVE OperatorTypeOK
    OBVIOUS
  <2>0. PublicationTypes /\ ControlTypes
    BY DEF OperatorInv, PublicationInv, ControlInv
  <2>1. /\ content.status \in {"PENDING_FABIO_APPROVAL", "APPROVED_FOR_SCHEDULING",
                              "SCHEDULED", "ARCHIVED"}
        /\ content.version \in 0..4 /\ content.metrics \in BOOLEAN
    BY <2>0 DEF PublicationTypes, Content
  <2>2. /\ productionControl.state \in
             {"NONE", "ACTIVE", "PAUSED", "CANCELLED", "REVISION_REQUIRED"}
        /\ productionControl.version \in 0..MaxControlVersion
    BY <2>0, PublicationAssumption DEF PublicationTypes, OperationControls, Control, NoControl
  <2>3. killSwitch.version \in 0..MaxSwitches /\ killSwitch.enabled \in BOOLEAN
    BY <2>0 DEF PublicationTypes, Switch
  <2>4. \A p \in Plan : plans[p].status \in
          PublicationOutcome \union {"NONE", "DRY_RUN", "AUTHORIZED", "CANCELLED"}
    BY <2>0 DEF PublicationTypes, Plans, PlanRecord, PlanStatus, NoPlan
  <2>5. /\ jobs \in [JobId -> {NotMade, "QUEUED", "SUCCEEDED", "FAILED", "DEAD_LETTER"}]
        /\ successor \in [JobId -> {NotMade} \union Key]
    BY <2>0 DEF ControlTypes, JobStatus
  <2>6. \A k \in Key : /\ proposals[k].state \in {"NONE", "PENDING", "EXPIRED", "CONSUMED"}
                      /\ receipts[k].action \in Action \union {"NONE"}
    BY <2>0 DEF ControlTypes, ProposalRecord, ReceiptRecord, NoProposal, NoReceipt
  <2> QED
    BY <2>1, <2>2, <2>3, <2>4, <2>5, <2>6 DEF OperatorTypeOK
<1> QED
  BY <1>1, OperatorInvariant, PTL

\* No open plan outlives the control or the content it was made for.
THEOREM OpenPlansFollowControlHolds == OperatorSpec => []OpenPlansFollowControl
<1>1. OperatorInv => OpenPlansFollowControl
  BY DEF OperatorInv, PublicationInv
<1> QED
  BY <1>1, OperatorInvariant, PTL

\* What is confirmed is applied once, to what its proposer saw, and leaves one
\* receipt; a failed job is retried by hand once.
THEOREM ConfirmationsAreSoundHolds == OperatorSpec => []ConfirmationsAreSound
<1>1. OperatorInv => ConfirmationsAreSound
  <2> SUFFICES ASSUME OperatorInv PROVE ConfirmationsAreSound
    OBVIOUS
  <2>0. /\ ControlTypes /\ VersionsCounted /\ IncidentTold
        /\ \A k \in Key : NamesItsJob(k) /\ OfItsProposal(k) /\ MadeItsSuccessor(k)
    BY DEF OperatorInv, ControlInv
  <2>1. AppliedToWhatWasSeen
    BY <2>0 DEF AppliedToWhatWasSeen, OfItsProposal
  <2>2. ReceiptsAreComplete
    <3>1. productionControl.version = Cardinality({k \in Key : receipts[k].action \in ControlAction})
      BY <2>0 DEF VersionsCounted, Controlled
    <3> QED
      BY <2>0, <3>1 DEF ReceiptsAreComplete, OfItsProposal, IncidentTold
  <2>3. ASSUME NEW j \in JobId
        PROVE  Cardinality({k \in Key : /\ receipts[k].action \in JobAction
                                        /\ receipts[k].target.print.job = j}) <= 1
    <3> DEFINE retried == {k \in Key : /\ receipts[k].action \in JobAction
                                       /\ receipts[k].target.print.job = j}
    <3>1. ASSUME NEW k \in retried PROVE k = successor[j]
      <4>1. receipts[k] # NoReceipt /\ proposals[k] # NoProposal
        BY <2>0, <3>1 DEF NoReceipt, NoProposal, JobAction, OfItsProposal
      <4>2. proposals[k].action \in JobAction /\ proposals[k].entity = j
        BY <2>0, <3>1, <4>1 DEF OfItsProposal, NamesItsJob
      <4> QED
        BY <2>0, <3>1, <4>2 DEF MadeItsSuccessor
    <3>2. retried \subseteq {successor[j]}
      BY <3>1
    <3> HIDE DEF retried
    <3>3. IsFiniteSet({successor[j]}) /\ Cardinality({successor[j]}) = 1
      BY FS_Singleton
    <3>4. Cardinality(retried) <= 1
      BY <3>2, <3>3, FS_Subset
    <3> QED
      BY <3>4 DEF retried
  <2> QED
    BY <2>1, <2>2, <2>3 DEF ConfirmationsAreSound, OneSuccessorByHand
<1> QED
  BY <1>1, OperatorInvariant, PTL

----------------------------------------------------------------------------
(* What no step of the publication may do.                                 *)

\* A step of the operator is one of the publication, a control action of the
\* production, or leaves the publication alone.
LEMMA OperatorMoves ==
  ASSUME [OperatorNext]_operatorVars
  PROVE  PublicationStep \/ (\E action \in Action : ControlProduction(action))
           \/ UNCHANGED publicationVars
<1>1. ASSUME NEW k \in Key, Confirm(k)
      PROVE  (\E action \in Action : ControlProduction(action)) \/ UNCHANGED publicationVars
  <2>1. CASE proposals[k].action \in ControlAction /\ ApplyToProduction(k)
    BY <2>1 DEF ApplyToProduction, Action
  <2>2. CASE ApplyToJob(k) \/ ApplyToIncident
    BY <2>2 DEF ApplyToJob, ApplyToIncident, publicationVars
  <2> QED
    BY <1>1, <2>1, <2>2 DEF Confirm, ApplyAction
<1> QED
  BY <1>1 DEF OperatorNext, operatorVars, publicationVars, Propose, Renew, ExpireProposal,
              SuccessorEnds

\* A plan advances under the switch, its binding and an unheld production only.
LEMMA AdvanceGuarded ==
  ASSUME PublicationTypes, NEW p \in Plan, Advances(p),
         PublicationStep \/ (\E action \in Action : ControlProduction(action))
  PROVE  SwitchedOff /\ BindingIsCurrent(p)
<1>1. CASE ContentStep
  BY <1>1, ContentStepKeeps DEF Advances
<1>2. CASE SetPublicationKillSwitch
  BY <1>2, SwitchKeeps DEF Advances
<1>3. ASSUME NEW q \in Plan,
             PlanPublication(q) \/ AuthorizePublication(q) \/ RecordPublicationReceipt(q)
      PROVE  SwitchedOff /\ BindingIsCurrent(p)
  BY <1>3, PlanStepKeeps DEF Advances, PublicationOutcome
<1>4. ASSUME NEW action \in Action, ControlProduction(action)
      PROVE  SwitchedOff /\ BindingIsCurrent(p)
  BY <1>4, ControlKeeps, OpenPlansCancelled DEF Advances, PublicationOutcome
<1> QED
  BY <1>1, <1>2, <1>3, <1>4 DEF PublicationStep, ContentStep

\* A plan is authorized, and its outcome recorded, only while the switch is off
\* and the production is the scheduled one that it was made for; and nothing of
\* what the operator cancelled or sent back goes further.
THEOREM PublicationIsControlledHolds == OperatorSpec => PublicationIsControlled
<1> DEFINE Planned ==
             \A p \in Plan : Advances(p) =>
               /\ killSwitch.version > 0 /\ ~killSwitch.enabled
               /\ productionControl.state \notin {"PAUSED", "CANCELLED", "REVISION_REQUIRED"}
               /\ content.status = "SCHEDULED" /\ content.version = plans[p].contentVersion
           GoesNoFurther ==
             productionControl.state \in {"CANCELLED", "REVISION_REQUIRED"} =>
               /\ content'.status \in {content.status, "ARCHIVED"}
               /\ \A p \in Plan : ~Advances(p) /\ (plans[p] = NoPlan => plans'[p] = NoPlan)
               /\ productionControl' = productionControl
<1>1. OperatorInv /\ [OperatorNext]_operatorVars => [Planned]_publicationVars
  <2> SUFFICES ASSUME OperatorInv, [OperatorNext]_operatorVars,
                      ~UNCHANGED publicationVars, NEW p \in Plan, Advances(p)
               PROVE  /\ killSwitch.version > 0 /\ ~killSwitch.enabled
                      /\ productionControl.state \notin
                           {"PAUSED", "CANCELLED", "REVISION_REQUIRED"}
                      /\ content.status = "SCHEDULED"
                      /\ content.version = plans[p].contentVersion
    OBVIOUS
  <2>1. SwitchedOff /\ BindingIsCurrent(p)
    BY OperatorMoves, AdvanceGuarded DEF OperatorInv, PublicationInv
  <2> QED
    BY <2>1 DEF SwitchedOff, BindingIsCurrent, Unblocked
<1>2. OperatorInv /\ [OperatorNext]_operatorVars => [GoesNoFurther]_publicationVars
  <2> SUFFICES ASSUME OperatorInv, [OperatorNext]_operatorVars, ~UNCHANGED publicationVars,
                      productionControl.state \in {"CANCELLED", "REVISION_REQUIRED"}
               PROVE  /\ content'.status \in {content.status, "ARCHIVED"}
                      /\ \A p \in Plan : ~Advances(p) /\ (plans[p] = NoPlan => plans'[p] = NoPlan)
                      /\ productionControl' = productionControl
    OBVIOUS
  <2>0. PublicationTypes /\ ~Unblocked /\ PublicationInv
    BY DEF OperatorInv, PublicationInv, Unblocked
  <2>1. PublicationStep
    BY <2>0, OperatorMoves, ControlKeeps
  <2>2. productionControl' = productionControl
    BY <2>0, <2>1, PublicationStepKeeps
  <2>3. \A p \in Plan : ~Advances(p)
    BY <2>0, <2>1, AdvanceGuarded DEF BindingIsCurrent
  <2>4. \A p \in Plan :
          ~PlanPublication(p) /\ ~AuthorizePublication(p) /\ ~RecordPublicationReceipt(p)
    BY <2>0, PlanStepKeeps
  <2>5. CASE ContentStep
    BY <2>0, <2>2, <2>3, <2>5, ContentStepKeeps
  <2>6. CASE SetPublicationKillSwitch
    BY <2>0, <2>2, <2>3, <2>6, SwitchKeeps
  <2> QED
    BY <2>1, <2>4, <2>5, <2>6 DEF PublicationStep, ContentStep
<1> QED
  BY <1>1, <1>2, OperatorInvariant, PTL
     DEF OperatorSpec, PublicationIsControlled, PublishedAsPlanned, StoppedGoesNoFurther

-----------------------------------------------------------------------------
(* The operations together (MCOperations).                                   *)

\* A behaviour of the operations is one of the runtime and one of the operator: it
\* takes that component's steps, or leaves it alone.
LEMMA EachPartOperates == OperationsSpec => Spec /\ OperatorSpec
<1>1. OperationsInit => Init /\ OperatorInit
  BY DEF OperationsInit
<1>2. [OperationsNext \/ Rest]_<<part, vars, operatorVars>> => [Next]_vars /\ [OperatorNext]_operatorVars
  BY DEF OperationsNext, Rest
<1> QED
  BY <1>1, <1>2, PTL DEF OperationsSpec, Spec, OperatorSpec

\* Whatever the instances of the runtime, their handlers and the operator do, the
\* records of both keep their shapes, for any jobs, instances, plans and proposals
\* (the runs' OperationsTypeOK).
THEOREM OperationsTyped == OperationsSpec => []OperationsTypeOK
<1>1. TypeOK /\ OperatorTypeOK => OperationsTypeOK
  BY DEF OperationsTypeOK
<1> QED
  BY <1>1, EachPartOperates, TypeCorrect, OperatorTyped, PTL

=============================================================================
