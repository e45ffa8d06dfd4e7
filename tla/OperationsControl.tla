--------------------------- MODULE OperationsControl ---------------------------
(***************************************************************************)
(* The operator's control actions (operations-control-service.ts): an      *)
(* action is proposed under an idempotency key for the version and the     *)
(* fingerprint the operator saw, and applied when the operator confirms it *)
(* with the proposal's one-time token, within five minutes.  It acts on    *)
(* the production of ContentPublication, on a failed operations job, of    *)
(* which it makes a successor, or on an incident.  A proposal and a        *)
(* confirmation are one transaction each.                                  *)
(***************************************************************************)
EXTENDS ContentPublication

CONSTANTS
  Key,         \* idempotency keys of proposals
  MaxRenewals  \* bound: renewals of a proposal

ASSUME ControlAssumption == MaxRenewals \in Nat /\ {"NONE", "job"} \cap Key = {}

VARIABLES
  jobs,       \* [JobId -> status], the operations jobs
  successor,  \* [JobId -> JobId or NoJob], jobs retried by hand
  incident,   \* "OPEN" or "ACKNOWLEDGED"
  proposals,  \* [Key -> proposal or NoProposal]
  receipts    \* [Key -> receipt or NoReceipt]

controlVars == <<jobs, successor, incident, proposals, receipts>>
operatorVars == <<publicationVars, controlVars>>

\* The first job, and the successor that the proposal of a key makes.
FirstJob == "job"
JobId == {FirstJob} \union Key
NotMade == "NONE"
NoProposal == [state |-> "NONE"]
NoReceipt == [action |-> "NONE"]

Action == ControlAction \union {"RETRY_FAILED", "RETRY_DEAD_LETTER", "ACKNOWLEDGE"}
JobAction == {"RETRY_FAILED", "RETRY_DEAD_LETTER"}

\* What an operator sees of the target of an action, and binds the proposal to:
\* version and fingerprint (loadTarget).  A job keeps its version when it is
\* given a successor, and an incident moves from version 0 to 1.
Target(action, entity) ==
  CASE action \in ControlAction -> [version |-> Reference.version, print |-> Reference.print]
    [] action \in JobAction -> [version |-> 0, print |-> [job |-> entity, status |-> jobs[entity]]]
    [] action = "ACKNOWLEDGE" ->
         [version |-> IF incident = "OPEN" THEN 0 ELSE 1, print |-> [incident |-> incident]]

Entities(action) ==
  CASE action \in ControlAction -> {"production"}
    [] action \in JobAction -> {j \in JobId : jobs[j] # NotMade}
    [] action = "ACKNOWLEDGE" -> {"incident"}

ControlInit ==
  /\ jobs \in [JobId -> {"FAILED", "DEAD_LETTER", NotMade}]
  /\ \A j \in JobId : jobs[j] = NotMade <=> j # FirstJob
  /\ successor = [j \in JobId |-> NotMade]
  /\ incident = "OPEN"
  /\ proposals = [k \in Key |-> NoProposal]
  /\ receipts = [k \in Key |-> NoReceipt]

OperatorInit == PublicationInit /\ ControlInit

-----------------------------------------------------------------------------
(* Proposing. *)

Propose(k, action, entity) ==
  /\ proposals[k] = NoProposal
  /\ entity \in Entities(action)
  /\ proposals' = [proposals EXCEPT ![k] =
       [state |-> "PENDING", action |-> action, entity |-> entity,
        target |-> Target(action, entity), renewals |-> 0]]
  /\ UNCHANGED <<publicationVars, jobs, successor, incident, receipts>>

\* The same request again: it answers a consumed proposal with its receipt, and
\* gives any other, pending or expired, a new token and five new minutes.
Renewable(k) == proposals[k].state \in {"PENDING", "EXPIRED"}

Renew(k) ==
  /\ Renewable(k)
  /\ proposals[k].renewals < MaxRenewals
  /\ Target(proposals[k].action, proposals[k].entity) = proposals[k].target
  /\ proposals' = [proposals EXCEPT ![k].state = "PENDING", ![k].renewals = @ + 1]
  /\ UNCHANGED <<publicationVars, jobs, successor, incident, receipts>>

-----------------------------------------------------------------------------
(* Confirming.  A token other than the last one issued, and a proposal that *)
(* is not pending, are refused; a consumed one answers with its receipt.    *)

\* The five minutes of the proposal are over when it is confirmed.
ExpireProposal(k) ==
  /\ proposals[k].state = "PENDING"
  /\ proposals' = [proposals EXCEPT ![k].state = "EXPIRED"]
  /\ UNCHANGED <<publicationVars, jobs, successor, incident, receipts>>

StillAsSeen(k) ==
  LET p == proposals[k] IN Target(p.action, p.entity) = p.target

\* Mutant: a job is asked for a successor made by the same proposal.
NoSuccessorByKey(j, k) == jobs[k] = NotMade

NoSuccessor(j, k) == successor[j] = NotMade

ApplyToJob(k) ==
  LET j == proposals[k].entity IN
  /\ jobs[j] = IF proposals[k].action = "RETRY_FAILED" THEN "FAILED" ELSE "DEAD_LETTER"
  /\ NoSuccessor(j, k)
  /\ jobs' = [jobs EXCEPT ![k] = "QUEUED"]
  /\ successor' = [successor EXCEPT ![j] = k]
  /\ UNCHANGED <<publicationVars, incident>>

ApplyToIncident ==
  /\ incident = "OPEN"
  /\ incident' = "ACKNOWLEDGED"
  /\ UNCHANGED <<publicationVars, jobs, successor>>

ApplyToProduction(k) ==
  ControlProduction(proposals[k].action) /\ UNCHANGED <<jobs, successor, incident>>

ApplyAction(k) ==
  \/ proposals[k].action \in ControlAction /\ ApplyToProduction(k)
  \/ proposals[k].action \in JobAction /\ ApplyToJob(k)
  \/ proposals[k].action = "ACKNOWLEDGE" /\ ApplyToIncident

\* The receipt records, besides the code's fields, what the action was applied to.
Confirm(k) ==
  /\ proposals[k].state = "PENDING"
  /\ StillAsSeen(k)
  /\ ApplyAction(k)
  /\ proposals' = [proposals EXCEPT ![k].state = "CONSUMED"]
  /\ receipts' = [receipts EXCEPT ![k] =
       [action |-> proposals[k].action, target |-> proposals[k].target,
        appliedTo |-> Target(proposals[k].action, proposals[k].entity)]]

\* A worker runs a queued job to its end (operations-worker-service.ts).
SuccessorEnds(j) ==
  /\ jobs[j] = "QUEUED"
  /\ \E status \in {"SUCCEEDED", "FAILED", "DEAD_LETTER"} : jobs' = [jobs EXCEPT ![j] = status]
  /\ UNCHANGED <<publicationVars, successor, incident, proposals, receipts>>

OperatorNext ==
  \/ PublicationStep /\ UNCHANGED controlVars
  \/ \E k \in Key, action \in Action : \E entity \in Entities(action) : Propose(k, action, entity)
  \/ \E k \in Key : Renew(k) \/ ExpireProposal(k) \/ Confirm(k)
  \/ \E j \in JobId : SuccessorEnds(j)

OperatorSpec == OperatorInit /\ [][OperatorNext]_operatorVars

-----------------------------------------------------------------------------
(* Properties. *)

\* The shapes of the records.
OperatorTypeOK ==
  /\ content.status \in {"PENDING_FABIO_APPROVAL", "APPROVED_FOR_SCHEDULING", "SCHEDULED", "ARCHIVED"}
  /\ content.version \in 0..4 /\ content.metrics \in BOOLEAN
  /\ productionControl.state \in {"NONE", "ACTIVE", "PAUSED", "CANCELLED", "REVISION_REQUIRED"}
  /\ productionControl.version \in 0..MaxControlVersion
  /\ killSwitch.version \in 0..MaxSwitches /\ killSwitch.enabled \in BOOLEAN
  /\ \A p \in Plan : plans[p].status \in PublicationOutcome \union {"NONE", "DRY_RUN", "AUTHORIZED", "CANCELLED"}
  /\ jobs \in [JobId -> {NotMade, "QUEUED", "SUCCEEDED", "FAILED", "DEAD_LETTER"}]
  /\ successor \in [JobId -> {NotMade} \union Key]
  /\ \A k \in Key : proposals[k].state \in {"NONE", "PENDING", "EXPIRED", "CONSUMED"}
  /\ \A k \in Key : receipts[k].action \in Action \union {"NONE"}

\* An action is applied to exactly the record its proposer saw, whatever other
\* commands and confirmations came in between: not to another version, and not
\* to a control that has by chance the version the content had (the fingerprint
\* comparisons of applyProductionAction).
AppliedToWhatWasSeen ==
  \A k \in Key : receipts[k] # NoReceipt => receipts[k].appliedTo = receipts[k].target

\* A proposal is consumed exactly when its action was applied and its receipt
\* written: every version of the control is the work of one receipt, and a
\* request repeated after its confirmation cannot be applied a second time.
ReceiptsAreComplete ==
  /\ \A k \in Key : receipts[k] # NoReceipt <=> proposals[k].state = "CONSUMED"
  /\ productionControl.version = Cardinality({k \in Key : receipts[k].action \in ControlAction})
  /\ incident = "ACKNOWLEDGED" <=> \E k \in Key : receipts[k].action = "ACKNOWLEDGE"

\* A failed job has at most one successor made by hand, although it looks the
\* same to a second proposal after the first was applied (getSuccessorByPredecessor).
OneSuccessorByHand ==
  \A j \in JobId :
    Cardinality({k \in Key : /\ receipts[k].action \in JobAction
                             /\ receipts[k].target.print.job = j}) <= 1

\* What is confirmed is applied once, and to what was proposed.
ConfirmationsAreSound == AppliedToWhatWasSeen /\ ReceiptsAreComplete /\ OneSuccessorByHand

=============================================================================
