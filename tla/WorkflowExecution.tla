--------------------------- MODULE WorkflowExecution ---------------------------
(***************************************************************************)
(* One instance of a workflow and the services that move it: the agent     *)
(* invoker with its execution boundary, the step outcomes, the lifecycle   *)
(* service and the control checkpoints.  Every transaction of the SQLite   *)
(* runner is one step that a changed version refuses; what the invoker     *)
(* reads in one transaction and uses in a later one is kept by its caller. *)
(* A step's evidence counts for one version, so an older one is forgotten. *)
(***************************************************************************)
EXTENDS Integers, FiniteSets, Functions

CONSTANTS
  Step,              \* the steps of the workflow
  Definition,        \* definitions: for each step, those that it depends on
  ApprovalRequired,  \* steps that need an approval
  GuardianRequired,  \* steps that need a guardian's clearance
  Invocation,        \* invocation ids, one of them for each request
  Caller,            \* concurrent calls of the invoker
  MaxAttempts,       \* maxAttempts that the lifecycle service may be configured with
  MaxVersion,        \* bound: the highest version of the instance
  MaxEvidence        \* bound: checkpoints recorded for one version


VARIABLES
  wf,       \* the instance: definition, status, version and its steps, and the
            \* configured maxAttempts
  records,  \* approval and guardian checkpoints of the current version
  inv,      \* invocation receipts
  outcome,  \* step outcome receipts: the decision on each invocation
  failure,  \* lifecycle records of each step: its failures and the retry decision
  call      \* where each call of the invoker stands

workflowVars == <<wf, records, inv, outcome, failure, call>>

Control == {"approval", "guardian"}
NoRecord == [number |-> 0, positive |-> FALSE]
NoRecords == [c \in Control |-> [s \in Step |-> NoRecord]]
NoStep == "no step"

\* A workflow has steps (the validator refuses one without), and the service
\* takes up to five attempts.
ASSUME WorkflowAssumption ==
  /\ Step # {} /\ NoStep \notin Step /\ NoStep \notin Invocation
  /\ MaxAttempts \subseteq 1 .. 5 /\ MaxVersion \in Nat /\ MaxEvidence \in Nat

NoReceipt == [status |-> "none", step |-> NoStep, version |-> 0, code |-> "none",
              acceptable |-> FALSE]
NoCall == [at |-> "idle", id |-> NoStep, step |-> NoStep, version |-> 0,
           evidence |-> [c \in Control |-> 0]]

WorkflowInit ==
  /\ \E d \in Definition, n \in MaxAttempts :
       wf = [definition |-> d, maxAttempts |-> n, status |-> "ACTIVE", version |-> 0,
             steps |-> [s \in Step |-> "PENDING"]]
  /\ records = NoRecords
  /\ inv = [i \in Invocation |-> NoReceipt]
  /\ outcome = [i \in Invocation |-> "none"]
  /\ failure = [s \in Step |-> [attempts |-> 0, retryable |-> FALSE, decision |-> "none"]]
  /\ call = [c \in Caller |-> NoCall]

\* The deterministic state machine and the repository's update: a command
\* changes a version that is still the expected one, once.
Commit(status, steps, version) ==
  /\ version <= MaxVersion
  /\ wf' = [wf EXCEPT !.status = status, !.steps = steps, !.version = version]
  /\ records' = NoRecords

Tracked(i) == wf.steps[inv[i].step]

----------------------------------------------------------------------------
Recorded == FoldFunction(+, 0, [c \in Control |-> FoldFunction(+, 0, [s \in Step |-> records[c][s].number])])

\* recordApproval and recordGuardian: the latest record of the version counts,
\* and none is read of a step that cannot be reserved.
RecordCheckpoint(control, s, positive) ==
  /\ Recorded < MaxEvidence /\ wf.steps[s] \in {"PENDING", "READY"}
  /\ records' = [records EXCEPT ![control][s] = [number |-> @.number + 1, positive |-> positive]]
  /\ UNCHANGED <<wf, inv, outcome, failure, call>>

Required(control) == IF control = "approval" THEN ApprovalRequired ELSE GuardianRequired

\* evaluateApprovalEvidence and evaluateGuardianEvidence: a refusal blocks even
\* a step that needs none, and so does a clearance that no one asked for.
ControlHolds(control, s) ==
  LET r == records[control][s] IN
    IF s \in Required(control) THEN r.number > 0 /\ r.positive
    ELSE r.number = 0 \/ (control = "approval" /\ r.positive)

Candidate(s) ==
  /\ wf.status = "ACTIVE"
  /\ wf.steps[s] \in {"PENDING", "READY"}
  /\ \A d \in wf.definition[s] : wf.steps[d] = "SUCCEEDED"
  /\ \A control \in Control : ControlHolds(control, s)

PositiveEvidence(s) ==
  [control \in Control |->
     IF records[control][s].positive THEN records[control][s].number ELSE 0]

Leave(c) == call' = [call EXCEPT ![c] = NoCall]
Run(c) == call' = [call EXCEPT ![c] = [NoCall EXCEPT !.at = "execute", !.id = call[c].id]]

\* invoke up to its first transaction; a terminal receipt is returned as it is,
\* and the id of another request is a conflict.
Invoke(c, i, s) ==
  /\ call[c].at = "idle"
  /\ \/ /\ inv[i].status = "none"
        /\ call' = [call EXCEPT ![c].at = "prepare", ![c].id = i, ![c].step = s,
                                ![c].version = wf.version]
     \/ /\ inv[i].status = "RESERVED" /\ inv[i].step = s
        /\ call' = [call EXCEPT ![c].at = "resume", ![c].id = i, ![c].step = s]
  /\ UNCHANGED <<wf, records, inv, outcome, failure>>

\* The execution boundary's transaction.
Prepare(c) ==
  /\ call[c].at = "prepare"
  /\ IF wf.version = call[c].version /\ Candidate(call[c].step)
       THEN call' = [call EXCEPT ![c].at = "reserve",
                                 ![c].evidence = PositiveEvidence(call[c].step)]
       ELSE Leave(c)
  /\ UNCHANGED <<wf, records, inv, outcome, failure>>

\* A reservation that trusts the candidate's evidence.
TrustedControls(c) == call[c].version = wf.version

\* The version and the latest evidence are those of the candidate.
UnchangedControls(c) ==
  /\ call[c].version = wf.version
  /\ call[c].evidence = PositiveEvidence(call[c].step)

ReservedVersion(s) == wf.version + IF wf.steps[s] = "PENDING" THEN 2 ELSE 1

\* The reservation's transaction: a receipt that another call has stored for
\* the request by now is used as if it were its own.
Reserve(c) ==
  /\ call[c].at = "reserve"
  /\ LET i == call[c].id
         s == call[c].step IN
       \/ /\ inv[i].status = "none" /\ UnchangedControls(c)
          /\ wf.steps[s] \in {"PENDING", "READY"}
          /\ Commit(wf.status, [wf.steps EXCEPT ![s] = "AWAITING_RESULT"], ReservedVersion(s))
          /\ inv' = [inv EXCEPT ![i].status = "RESERVED", ![i].step = s,
                                ![i].version = ReservedVersion(s)]
          /\ Run(c)
       \/ /\ inv[i].status = "none" /\ ~UnchangedControls(c)
          /\ Leave(c) /\ UNCHANGED <<wf, records, inv>>
       \/ /\ inv[i].status # "none"
          /\ IF inv[i].status = "RESERVED" /\ inv[i].step = s THEN Run(c) ELSE Leave(c)
          /\ UNCHANGED <<wf, records, inv>>
  /\ UNCHANGED <<outcome, failure>>

Resumable(i) ==
  wf.status = "ACTIVE" /\ wf.version = inv[i].version /\ Tracked(i) = "AWAITING_RESULT"

\* The second transaction of a resumed call.
Resume(c) ==
  /\ call[c].at = "resume"
  /\ IF Resumable(call[c].id) THEN Run(c) ELSE Leave(c)
  /\ UNCHANGED <<wf, records, inv, outcome, failure>>

\* The receipt an execution of the agent ends with.
Answer(i, answer) ==
  CASE answer = "error" ->
         [inv[i] EXCEPT !.status = "FAILED", !.code = "AGENT_EXECUTION_FAILED"]
    [] answer = "invalid" ->
         [inv[i] EXCEPT !.status = "FAILED", !.code = "AGENT_RESULT_INVALID"]
    [] OTHER -> [inv[i] EXCEPT !.status = "COMPLETED", !.acceptable = (answer = "good")]

\* The agent's outcome, stored over whatever is there.
StoreLast(c, answer) ==
  /\ call[c].at = "execute"
  /\ inv' = [inv EXCEPT ![call[c].id] = Answer(call[c].id, answer)]
  /\ Leave(c)
  /\ UNCHANGED <<wf, records, outcome, failure>>

\* The agent has run outside any transaction; its outcome is stored unless the
\* invocation has one.
Store(c, answer) ==
  /\ call[c].at = "execute"
  /\ inv' = IF inv[call[c].id].status = "RESERVED"
              THEN [inv EXCEPT ![call[c].id] = Answer(call[c].id, answer)] ELSE inv
  /\ Leave(c)
  /\ UNCHANGED <<wf, records, outcome, failure>>

\* The process of the call dies, or its transaction fails.
LoseCall(c) ==
  /\ call[c].at # "idle" /\ Leave(c)
  /\ UNCHANGED <<wf, records, inv, outcome, failure>>

----------------------------------------------------------------------------
AllSucceeded(steps) == \A s \in Step : steps[s] = "SUCCEEDED"

\* review: a failed invocation is decided as it is; a completed one at its
\* reserved version only, where the decision is the assessment of the result.
\* A blocked review stores nothing.
Review(i) ==
  /\ outcome[i] = "none"
  /\ \/ /\ inv[i].status = "FAILED"
        /\ outcome' = [outcome EXCEPT ![i] = "FAILED"]
        /\ UNCHANGED <<wf, records>>
     \/ /\ inv[i].status = "COMPLETED"
        /\ wf.version = inv[i].version /\ Tracked(i) = "AWAITING_RESULT"
        /\ IF inv[i].acceptable
             THEN /\ wf.status \in {"ACTIVE", "PAUSED"}
                  /\ LET steps == [wf.steps EXCEPT ![inv[i].step] = "SUCCEEDED"] IN
                       /\ AllSucceeded(steps) => wf.status = "ACTIVE"
                       /\ Commit(IF AllSucceeded(steps) THEN "COMPLETED" ELSE wf.status,
                                 steps, wf.version + 1)
                  /\ outcome' = [outcome EXCEPT ![i] = "ACCEPTED_FOR_COMPLETION"]
             ELSE /\ outcome' = [outcome EXCEPT ![i] = "NEEDS_REVISION"]
                  /\ UNCHANGED <<wf, records>>
  /\ UNCHANGED <<inv, failure, call>>

\* A rejection that is stored as the review of an invalid result.
RejectAsInvalid(i) ==
  /\ outcome[i] = "none" /\ inv[i].status = "COMPLETED"
  /\ Tracked(i) = "AWAITING_RESULT"
  /\ outcome' = [outcome EXCEPT ![i] = "INVALID"]
  /\ UNCHANGED <<wf, records, inv, failure, call>>

\* reject asks for the current version, whichever the result was reserved at.
Reject(i) ==
  /\ outcome[i] = "none" /\ inv[i].status = "COMPLETED"
  /\ Tracked(i) = "AWAITING_RESULT"
  /\ outcome' = [outcome EXCEPT ![i] = "REJECTED"]
  /\ UNCHANGED <<wf, records, inv, failure, call>>

Retryable(i) ==
  inv[i].status = "FAILED" /\ inv[i].code \in {"AGENT_EXECUTION_FAILED", "INVOCATION_TIMED_OUT"}

\* FAIL_STEP and its failure record.
FailStep(s, retryable) ==
  /\ wf.status = "ACTIVE" /\ wf.steps[s] = "AWAITING_RESULT"
  /\ failure[s].attempts < wf.maxAttempts
  /\ Commit("FAILED", [wf.steps EXCEPT ![s] = "FAILED"], wf.version + 1)
  /\ failure' = [failure EXCEPT ![s] = [attempts |-> @.attempts + 1, retryable |-> retryable,
                                        decision |-> "none"]]

\* recordFailure: any invocation of the step with failure evidence will do.
RecordFailure(i) ==
  /\ inv[i].status = "FAILED" \/ outcome[i] \in {"NEEDS_REVISION", "REJECTED"}
  /\ FailStep(inv[i].step, Retryable(i))
  /\ UNCHANGED <<inv, outcome, call>>

\* evaluateTimeout after the deadline; before it, only the evaluation is recorded.
EvaluateTimeout(i) ==
  /\ inv[i].status = "RESERVED" /\ inv[i].version = wf.version
  /\ FailStep(inv[i].step, TRUE)
  /\ inv' = [inv EXCEPT ![i].status = "FAILED", ![i].code = "INVOCATION_TIMED_OUT"]
  /\ UNCHANGED <<outcome, call>>

RetryDecision(s) ==
  IF ~failure[s].retryable THEN "DENIED_NON_RETRYABLE"
  ELSE IF failure[s].attempts >= wf.maxAttempts THEN "DENIED_EXHAUSTED"
  ELSE "AUTHORIZED"

AuthorizeRetry(s) ==
  /\ wf.status = "FAILED" /\ wf.steps[s] = "FAILED"
  /\ failure' = [failure EXCEPT ![s].decision = RetryDecision(s)]
  /\ UNCHANGED <<wf, records, inv, outcome, call>>

\* executeRetry consumes the latest authorization of the latest failure.
ExecuteRetry(s) ==
  /\ wf.status = "FAILED" /\ wf.steps[s] = "FAILED"
  /\ failure[s].decision = "AUTHORIZED"
  /\ Commit("ACTIVE", [wf.steps EXCEPT ![s] = "READY"], wf.version + 1)
  /\ failure' = [failure EXCEPT ![s].decision = "CONSUMED"]
  /\ UNCHANGED <<inv, outcome, call>>

Pause ==
  /\ wf.status = "ACTIVE" /\ Commit("PAUSED", wf.steps, wf.version + 1)
  /\ UNCHANGED <<inv, outcome, failure, call>>

ResumeWorkflow ==
  /\ wf.status = "PAUSED" /\ Commit("ACTIVE", wf.steps, wf.version + 1)
  /\ UNCHANGED <<inv, outcome, failure, call>>

\* A cancellation of every step.
CancelAll ==
  /\ wf.status \in {"ACTIVE", "PAUSED"}
  /\ Commit("CANCELLED", [s \in Step |-> "CANCELLED"], wf.version + 1)
  /\ UNCHANGED <<inv, outcome, failure, call>>

Cancel ==
  /\ wf.status \in {"ACTIVE", "PAUSED"}
  /\ Commit("CANCELLED",
            [s \in Step |-> IF wf.steps[s] \in {"SUCCEEDED", "FAILED"} THEN wf.steps[s]
                            ELSE "CANCELLED"],
            wf.version + 1)
  /\ UNCHANGED <<inv, outcome, failure, call>>

WorkflowNext ==
  \/ \E s \in Step :
       \/ \E control \in Control, positive \in BOOLEAN : RecordCheckpoint(control, s, positive)
       \/ AuthorizeRetry(s) \/ ExecuteRetry(s)
  \/ \E c \in Caller :
       \/ \E i \in Invocation, s \in Step : Invoke(c, i, s)
       \/ Prepare(c) \/ Reserve(c) \/ Resume(c) \/ LoseCall(c)
       \/ \E answer \in {"good", "poor", "invalid", "error"} : Store(c, answer)
  \/ \E i \in {j \in Invocation : inv[j].status # "none"} :
       Review(i) \/ Reject(i) \/ RecordFailure(i) \/ EvaluateTimeout(i)
  \/ Pause \/ ResumeWorkflow \/ Cancel

WorkflowSpec == WorkflowInit /\ [][WorkflowNext]_workflowVars

----------------------------------------------------------------------------
WorkflowTypeOK ==
  /\ wf.definition \in Definition /\ wf.maxAttempts \in MaxAttempts
  /\ wf.version \in 0 .. MaxVersion
  /\ wf.status \in {"ACTIVE", "PAUSED", "COMPLETED", "FAILED", "CANCELLED"}
  /\ wf.steps \in [Step -> {"PENDING", "READY", "AWAITING_RESULT", "SUCCEEDED", "FAILED",
                            "CANCELLED"}]
  /\ records \in [Control -> [Step -> [number : Nat, positive : BOOLEAN]]]
  /\ inv \in [Invocation ->
       [status : {"none", "RESERVED", "COMPLETED", "FAILED"}, step : Step \cup {NoStep},
        version : 0 .. MaxVersion, acceptable : BOOLEAN,
        code : {"none", "AGENT_EXECUTION_FAILED", "AGENT_RESULT_INVALID",
                "INVOCATION_TIMED_OUT"}]]
  /\ outcome \in [Invocation -> {"none", "ACCEPTED_FOR_COMPLETION", "NEEDS_REVISION",
                                 "REJECTED", "FAILED"}]
  /\ failure \in [Step -> [attempts : 0 .. wf.maxAttempts, retryable : BOOLEAN,
                           decision : {"none", "AUTHORIZED", "CONSUMED",
                                       "DENIED_NON_RETRYABLE", "DENIED_EXHAUSTED"}]]
  /\ call \in [Caller ->
       [at : {"idle", "prepare", "reserve", "resume", "execute"},
        id : Invocation \cup {NoStep}, step : Step \cup {NoStep}, version : 0 .. MaxVersion,
        evidence : [Control -> Nat]]]

Accepted(s) == {i \in Invocation : outcome[i] = "ACCEPTED_FOR_COMPLETION" /\ inv[i].step = s}

\* A step has succeeded when exactly one result was accepted for it, a stored
\* one; an accepted result is never left behind by a step that went another
\* way, and the workflow is complete with the last of them.
ResultsAreAccepted ==
  /\ \A s \in Step :
       IF wf.steps[s] = "SUCCEEDED" THEN Cardinality(Accepted(s)) = 1 ELSE Accepted(s) = {}
  /\ \A i \in Invocation :
       outcome[i] = "ACCEPTED_FOR_COMPLETION" => inv[i].status = "COMPLETED" /\ inv[i].acceptable
  /\ wf.status = "COMPLETED" <=> AllSucceeded(wf.steps)

\* However calls race, die and are repeated, a step's agent is given no more
\* than maxAttempts reservations.
AttemptsAreBounded ==
  \A s \in Step : Cardinality({i \in Invocation : inv[i].step = s}) <= wf.maxAttempts

\* At most one invocation can be resumed or accepted at any time: no two were
\* reserved at one version.
OneLiveReservation ==
  \A i, j \in Invocation :
    inv[i].status # "none" /\ inv[j].status # "none" /\ inv[i].version = inv[j].version => i = j

\* A step ends with one accepted result or none, within its attempts, each of
\* them reserved at a version of its own.
StepsAreSound == ResultsAreAccepted /\ AttemptsAreBounded /\ OneLiveReservation

\* A step is reserved in an active workflow only, after the steps that it needs
\* and under the required controls in force at that moment, although they were
\* evaluated in an earlier transaction.
ReservedUnderControls ==
  [][\A i \in Invocation :
       inv[i].status = "none" /\ inv'[i].status = "RESERVED" =>
         /\ wf.status = "ACTIVE"
         /\ \E s \in Step :
              /\ inv'[i].step = s
              /\ \A d \in wf.definition[s] : wf.steps[d] = "SUCCEEDED"
              /\ \A control \in Control :
                   s \in Required(control) => records[control][s].positive]_workflowVars

\* What was stored of an invocation stays: a late answer changes neither a
\* timeout nor an earlier answer, nor anything of a workflow that is over.
LateAnswersChangeNothing ==
  [][/\ \A i \in Invocation :
          /\ inv[i].status \in {"COMPLETED", "FAILED"} => inv'[i] = inv[i]
          /\ outcome[i] # "none" => outcome'[i] = outcome[i]
     /\ wf.status \in {"COMPLETED", "CANCELLED"} => wf' = wf]_workflowVars

\* What ADR-063 says of interrupted reservations: a call that did not make the
\* reservation executes it at its original exact version only.
ResumedAtReservedVersion ==
  [][\A c \in Caller :
       LET i == call[c].id IN
         call'[c].at = "execute" /\ call[c].at # "execute" /\ inv[i].status = "RESERVED" =>
           Resumable(i)]_workflowVars

=============================================================================
