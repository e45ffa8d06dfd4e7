-------------------------- MODULE WorkflowAdminProofs --------------------------
(***************************************************************************)
(* What holds of a workflow and its invocations for any steps, callers,    *)
(* invocations, attempts and versions; and of the founder's bootstrap,     *)
(* passkey ceremonies, sessions and step-up receipts, for any requests,    *)
(* settings and lifetimes.                                                 *)
(***************************************************************************)
EXTENDS MCWorkflowAdmin, FiniteSetTheorems, SequenceTheorems, TLAPS

----------------------------------------------------------------------------
(* The records.                                                            *)

WorkflowStatus == {"ACTIVE", "PAUSED", "COMPLETED", "FAILED", "CANCELLED"}
StepStatus == {"PENDING", "READY", "AWAITING_RESULT", "SUCCEEDED", "FAILED", "CANCELLED"}
Instance == [definition : Definition, maxAttempts : MaxAttempts, status : WorkflowStatus,
             version : 0 .. MaxVersion, steps : [Step -> StepStatus]]
Evidence == [number : Nat, positive : BOOLEAN]
Receipt == [status : {"none", "RESERVED", "COMPLETED", "FAILED"}, step : Step \cup {NoStep},
            version : 0 .. MaxVersion, acceptable : BOOLEAN,
            code : {"none", "AGENT_EXECUTION_FAILED", "AGENT_RESULT_INVALID",
                    "INVOCATION_TIMED_OUT"}]
Decision == {"none", "ACCEPTED_FOR_COMPLETION", "NEEDS_REVISION", "REJECTED", "FAILED"}
Failure == [attempts : Nat, retryable : BOOLEAN,
            decision : {"none", "AUTHORIZED", "CONSUMED", "DENIED_NON_RETRYABLE",
                        "DENIED_EXHAUSTED"}]
CallRecord == [at : {"idle", "prepare", "reserve", "resume", "execute"},
               id : Invocation \cup {NoStep}, step : Step \cup {NoStep},
               version : 0 .. MaxVersion, evidence : [Control -> Nat]]

WorkflowTypes ==
  /\ wf \in Instance
  /\ records \in [Control -> [Step -> Evidence]]
  /\ inv \in [Invocation -> Receipt]
  /\ outcome \in [Invocation -> Decision]
  /\ failure \in [Step -> Failure]
  /\ call \in [Caller -> CallRecord]

----------------------------------------------------------------------------
(* The invariant.                                                          *)

Attempts(s) == {i \in Invocation : inv[i].step = s}

\* How many reservations a step has had, by its status: those that failed, and
\* the one whose result is awaited or was accepted.
CountsAttempts(s) ==
  LET n == failure[s].attempts
      m == Cardinality(Attempts(s)) IN
    /\ IsFiniteSet(Attempts(s))
    /\ wf.steps[s] = "PENDING" => m = 0 /\ n = 0
    /\ wf.steps[s] = "READY" => m = n /\ n < wf.maxAttempts
    /\ wf.steps[s] \in {"AWAITING_RESULT", "SUCCEEDED"} => m = n + 1 /\ n < wf.maxAttempts
    /\ wf.steps[s] = "FAILED" => m = n /\ n <= wf.maxAttempts
    /\ wf.steps[s] = "CANCELLED" => m <= wf.maxAttempts /\ n <= wf.maxAttempts
    /\ failure[s].decision = "AUTHORIZED" => n < wf.maxAttempts

\* What is stored of an invocation: it has a step exactly when it was reserved, at a
\* version that is past or present, and is decided on only then.
Stored(i) ==
  /\ inv[i].status = "none" => inv[i].step = NoStep /\ outcome[i] = "none"
  /\ inv[i].status # "none" => inv[i].step \in Step /\ inv[i].version <= wf.version
  /\ outcome[i] = "ACCEPTED_FOR_COMPLETION" => inv[i].status = "COMPLETED" /\ inv[i].acceptable

\* The accepted results of a step: one when it succeeded, none otherwise.
AcceptedOnce(s) ==
  IF wf.steps[s] = "SUCCEEDED" THEN \E i \in Invocation : Accepted(s) = {i} ELSE Accepted(s) = {}

EndsWithLast == wf.status = "COMPLETED" <=> AllSucceeded(wf.steps)

\* A call that is about to reserve at the version it was prepared for has seen
\* the controls of an active workflow, as they are at that version.
Prepared(c) ==
  /\ call[c].version <= wf.version
  /\ call[c].at # "idle" => call[c].id \in Invocation
  /\ call[c].at \in {"prepare", "reserve", "resume"} => call[c].step \in Step
  /\ call[c].at = "reserve" /\ call[c].version = wf.version =>
       /\ wf.status = "ACTIVE"
       /\ \A d \in wf.definition[call[c].step] : wf.steps[d] = "SUCCEEDED"
       /\ \A control \in Control :
            call[c].step \in Required(control) => call[c].evidence[control] > 0

WorkflowInv ==
  /\ WorkflowTypes
  /\ \A s \in Step : CountsAttempts(s) /\ AcceptedOnce(s)
  /\ \A i \in Invocation : Stored(i)
  /\ OneLiveReservation /\ EndsWithLast
  /\ \A c \in Caller : Prepared(c)

\* The first state satisfies the invariant.
LEMMA WorkflowInitInv == WorkflowInit => WorkflowInv
<1> SUFFICES ASSUME WorkflowInit PROVE WorkflowInv
  OBVIOUS
<1>1. PICK d \in Definition, n \in MaxAttempts :
        wf = [definition |-> d, maxAttempts |-> n, status |-> "ACTIVE", version |-> 0,
              steps |-> [s \in Step |-> "PENDING"]]
  BY DEF WorkflowInit
<1>2. n \in 1 .. 5 /\ 0 \in 0 .. MaxVersion 
  BY WorkflowAssumption
<1>3. wf \in Instance
  BY <1>1, <1>2 DEF Instance, WorkflowStatus, StepStatus
<1>4. /\ \A i \in Invocation : inv[i] = NoReceipt /\ outcome[i] = "none"
      /\ inv = [i \in Invocation |-> NoReceipt] /\ outcome = [i \in Invocation |-> "none"]
      /\ failure = [s \in Step |-> [attempts |-> 0, retryable |-> FALSE, decision |-> "none"]]
      /\ call = [c \in Caller |-> NoCall] /\ records = NoRecords
  BY DEF WorkflowInit
<1>5. NoReceipt \in Receipt /\ NoReceipt.status = "none" /\ NoReceipt.step = NoStep
  BY <1>2 DEF NoReceipt, Receipt
<1>6. /\ NoCall \in CallRecord /\ NoCall.at = "idle" /\ NoCall.version = 0
  BY <1>2 DEF NoCall, CallRecord
<1>7. records \in [Control -> [Step -> Evidence]]
  BY <1>2, <1>4 DEF NoRecords, NoRecord, Evidence
<1>8. failure \in [Step -> Failure]
  BY <1>4 DEF Failure
<1>9. WorkflowTypes
  <2>1. inv \in [Invocation -> Receipt]
    BY <1>4, <1>5
  <2>2. call \in [Caller -> CallRecord]
    BY <1>4, <1>6
  <2>3. outcome \in [Invocation -> Decision]
    BY <1>4 DEF Decision
  <2> QED
    BY <1>3, <1>7, <1>8, <2>1, <2>2, <2>3 DEF WorkflowTypes
<1>10. ASSUME NEW s \in Step PROVE CountsAttempts(s) /\ AcceptedOnce(s)
  <2>1. wf.steps[s] = "PENDING" /\ failure[s].attempts = 0 /\ failure[s].decision = "none"
    BY <1>1, <1>4
  <2>2. Attempts(s) = {}
    BY <1>4, <1>5, WorkflowAssumption DEF Attempts
  <2>3. IsFiniteSet({}) /\ Cardinality({}) = 0
    BY FS_EmptySet
  <2>4. Accepted(s) = {}
    BY <1>4 DEF Accepted
  <2> QED
    BY <2>1, <2>2, <2>3, <2>4 DEF CountsAttempts, AcceptedOnce
<1>11. ASSUME NEW i \in Invocation PROVE Stored(i)
  BY <1>4, <1>5 DEF Stored
<1>12. OneLiveReservation
  BY <1>4, <1>5 DEF OneLiveReservation
<1>13. EndsWithLast
  BY <1>1, WorkflowAssumption DEF EndsWithLast, AllSucceeded
<1>14. ASSUME NEW c \in Caller PROVE Prepared(c)
  BY <1>1, <1>4, <1>6 DEF Prepared
<1> QED
  BY <1>9, <1>10, <1>11, <1>12, <1>13, <1>14 DEF WorkflowInv

----------------------------------------------------------------------------
(* What the actions write.                                                 *)

\* A commit writes a whole instance, with the status, steps and version given.
LEMMA CommitWrites ==
  ASSUME WorkflowTypes, NEW status \in WorkflowStatus, NEW steps \in [Step -> StepStatus],
         NEW version \in Nat, Commit(status, steps, version)
  PROVE  /\ wf' \in Instance /\ wf'.status = status /\ wf'.steps = steps
         /\ wf'.version = version
         /\ wf'.definition = wf.definition /\ wf'.maxAttempts = wf.maxAttempts
         /\ records' \in [Control -> [Step -> Evidence]]
<1>1. wf \in Instance
  BY DEF WorkflowTypes
<1>2. version \in 0 .. MaxVersion
  BY WorkflowAssumption DEF Commit
<1>3. wf' = [wf EXCEPT !.status = status, !.steps = steps, !.version = version]
  BY DEF Commit
<1>4. wf' \in Instance
  BY <1>1, <1>2, <1>3 DEF Instance
<1>5. NoRecords \in [Control -> [Step -> Evidence]]
  BY DEF NoRecords, NoRecord, Evidence
<1>6. records' \in [Control -> [Step -> Evidence]]
  BY <1>5 DEF Commit
<1> QED
  BY <1>1, <1>3, <1>4, <1>6 DEF Instance

\* The fields of an instance.
LEMMA InstanceFields ==
  ASSUME WorkflowInv
  PROVE  /\ wf.status \in WorkflowStatus /\ wf.version \in Nat
         /\ wf.steps \in [Step -> StepStatus]
         /\ wf.maxAttempts \in 1 .. 5
         /\ \A i \in Invocation : inv[i].version \in Nat /\ inv[i] \in Receipt
         /\ \A s \in Step : failure[s] \in Failure /\ failure[s].attempts \in Nat
         /\ \A c \in Caller : call[c] \in CallRecord /\ call[c].version \in Nat
<1>1. /\ wf \in Instance /\ inv \in [Invocation -> Receipt]
      /\ failure \in [Step -> Failure] /\ call \in [Caller -> CallRecord]
  BY DEF WorkflowInv, WorkflowTypes
<1>2. 0 .. MaxVersion \subseteq Nat
  BY WorkflowAssumption
<1>3. /\ wf.status \in WorkflowStatus /\ wf.version \in Nat
      /\ wf.steps \in [Step -> StepStatus] /\ wf.maxAttempts \in MaxAttempts
  BY <1>1, <1>2 DEF Instance
<1>4. wf.maxAttempts \in 1 .. 5
  BY <1>3, WorkflowAssumption
<1>5. \A i \in Invocation : inv[i].version \in Nat /\ inv[i] \in Receipt
  BY <1>1, <1>2 DEF Receipt
<1>6. \A s \in Step : failure[s] \in Failure /\ failure[s].attempts \in Nat
  BY <1>1 DEF Failure
<1>7. \A c \in Caller : call[c] \in CallRecord /\ call[c].version \in Nat
  BY <1>1, <1>2 DEF CallRecord
<1> QED
  BY <1>3, <1>4, <1>5, <1>6, <1>7

----------------------------------------------------------------------------
(* What keeps each part of the invariant.                                  *)

\* A step whose status, failures and reservations stay keeps its count.
LEMMA CountsKept ==
  ASSUME NEW s \in Step, CountsAttempts(s),
         wf'.steps[s] = wf.steps[s], wf'.maxAttempts = wf.maxAttempts,
         failure'[s] = failure[s], \A i \in Invocation : inv'[i].step = inv[i].step
  PROVE  CountsAttempts(s)'
<1>1. Attempts(s)' = Attempts(s)
  BY DEF Attempts
<1> QED
  BY <1>1 DEF CountsAttempts

\* Only an accepted result counts as one.
LEMMA AcceptedKept ==
  ASSUME NEW s \in Step,
         \A i \in Invocation : inv'[i].step = inv[i].step,
         \A i \in Invocation :
           outcome'[i] = "ACCEPTED_FOR_COMPLETION" <=> outcome[i] = "ACCEPTED_FOR_COMPLETION"
  PROVE  Accepted(s)' = Accepted(s)
  BY DEF Accepted

\* A commit that is of no call leaves every call behind, or where it is.
LEMMA PreparedKept ==
  ASSUME WorkflowInv, NEW c \in Caller, call'[c] = call[c], wf'.version \in Nat,
         wf' = wf \/ wf'.version > wf.version
  PROVE  Prepared(c)'
<1>1. Prepared(c) /\ wf.version \in Nat /\ call[c].version \in Nat
  BY InstanceFields DEF WorkflowInv
<1>2. CASE wf' = wf
  BY <1>1, <1>2 DEF Prepared
<1>3. CASE wf'.version > wf.version
  <2>1. call[c].version <= wf'.version /\ call[c].version # wf'.version
    BY <1>1, <1>3 DEF Prepared
  <2> QED
    BY <1>1, <2>1 DEF Prepared
<1> QED
  BY <1>2, <1>3

\* A call that is over, or that runs its agent, is prepared for nothing.
LEMMA PreparedOver ==
  ASSUME WorkflowInv, NEW c \in Caller, wf'.version \in Nat, call'[c].version = 0,
         \/ call'[c].at = "idle"
         \/ call'[c].at = "execute" /\ call'[c].id \in Invocation
  PROVE  Prepared(c)'
  BY DEF Prepared

\* What is stored of an invocation stays sound as the version grows.
LEMMA StoredKept ==
  ASSUME WorkflowInv, NEW i \in Invocation, wf'.version \in Nat, wf'.version >= wf.version,
         inv'[i] = inv[i], outcome'[i] = outcome[i]
  PROVE  Stored(i)'
<1>1. Stored(i) /\ wf.version \in Nat /\ inv[i].version \in Nat
  BY InstanceFields DEF WorkflowInv
<1> QED
  BY <1>1 DEF Stored

\* Leaving the service is a call of the same type.
LEMMA LeaveTyped ==
  ASSUME WorkflowInv, NEW c \in Caller, Leave(c)
  PROVE  /\ call' \in [Caller -> CallRecord] /\ call'[c].version = 0 /\ call'[c].at = "idle"
         /\ \A d \in Caller : d # c => call'[d] = call[d]
<1>1. NoCall \in CallRecord /\ NoCall.at = "idle" /\ NoCall.version = 0
  BY WorkflowAssumption DEF NoCall, CallRecord
<1> QED
  BY <1>1 DEF Leave, WorkflowInv, WorkflowTypes

\* So is running the agent.
LEMMA RunTyped ==
  ASSUME WorkflowInv, NEW c \in Caller, call[c].at # "idle", Run(c)
  PROVE  /\ call' \in [Caller -> CallRecord] /\ call'[c].version = 0
         /\ call'[c].at = "execute" /\ call'[c].id \in Invocation
         /\ \A d \in Caller : d # c => call'[d] = call[d]
<1>1. call[c].id \in Invocation
  BY DEF WorkflowInv, Prepared
<1> DEFINE r == [NoCall EXCEPT !.at = "execute", !.id = call[c].id]
<1>2. NoCall \in CallRecord
  BY WorkflowAssumption DEF NoCall, CallRecord
<1>3. r \in CallRecord
  BY <1>1, <1>2 DEF CallRecord
<1>4. r.version = 0 /\ r.at = "execute" /\ r.id = call[c].id
  BY DEF NoCall
<1>5. call' = [call EXCEPT ![c] = r]
  BY DEF Run
<1> HIDE DEF r
<1> QED
  BY <1>1, <1>3, <1>4, <1>5 DEF WorkflowInv, WorkflowTypes

----------------------------------------------------------------------------
(* The steps.                                                              *)

\* Recording a checkpoint.
LEMMA RecordStep ==
  ASSUME WorkflowInv, NEW control \in Control, NEW s \in Step, NEW positive \in BOOLEAN,
         RecordCheckpoint(control, s, positive)
  PROVE  WorkflowInv'
<1>1. wf' = wf /\ inv' = inv /\ outcome' = outcome /\ failure' = failure /\ call' = call
  BY DEF RecordCheckpoint
<1>2. records' \in [Control -> [Step -> Evidence]]
  <2> DEFINE r == [number |-> records[control][s].number + 1, positive |-> positive]
  <2>1. records \in [Control -> [Step -> Evidence]]
    BY DEF WorkflowInv, WorkflowTypes
  <2>2. r \in Evidence
    BY <2>1 DEF Evidence
  <2>3. records' = [records EXCEPT ![control][s] = r]
    BY DEF RecordCheckpoint
  <2> HIDE DEF r
  <2> QED
    BY <2>1, <2>2, <2>3
<1>3. WorkflowTypes'
  BY <1>1, <1>2 DEF WorkflowInv, WorkflowTypes
<1>4. \A t \in Step : CountsAttempts(t)' /\ AcceptedOnce(t)'
  BY <1>1 DEF WorkflowInv, CountsAttempts, Attempts, AcceptedOnce, Accepted
<1>5. (\A i \in Invocation : Stored(i)') /\ OneLiveReservation' /\ EndsWithLast'
  BY <1>1 DEF WorkflowInv, Stored, OneLiveReservation, EndsWithLast, AllSucceeded
<1>6. \A c \in Caller : Prepared(c)'
  BY <1>1 DEF WorkflowInv, Prepared
<1> QED
  BY <1>3, <1>4, <1>5, <1>6 DEF WorkflowInv

\* Whatever leaves all but the calls as it is, and moves one call, keeps the rest.
LEMMA CallStep ==
  ASSUME WorkflowInv, UNCHANGED <<wf, records, inv, outcome, failure>>, NEW c \in Caller,
         call' \in [Caller -> CallRecord], \A d \in Caller : d # c => call'[d] = call[d],
         Prepared(c)'
  PROVE  WorkflowInv'
<1>1. WorkflowTypes'
  BY DEF WorkflowInv, WorkflowTypes
<1>2. \A t \in Step : CountsAttempts(t)' /\ AcceptedOnce(t)'
  BY DEF WorkflowInv, CountsAttempts, Attempts, AcceptedOnce, Accepted
<1>3. (\A i \in Invocation : Stored(i)') /\ OneLiveReservation' /\ EndsWithLast'
  BY DEF WorkflowInv, Stored, OneLiveReservation, EndsWithLast, AllSucceeded
<1>4. ASSUME NEW d \in Caller PROVE Prepared(d)'
  <2>1. CASE d = c
    BY <2>1
  <2>2. CASE d # c
    <3>1. call'[d] = call[d] /\ Prepared(d)
      BY <2>2 DEF WorkflowInv
    <3> QED
      BY <3>1 DEF Prepared
  <2> QED
    BY <2>1, <2>2
<1> QED
  BY <1>1, <1>2, <1>3, <1>4 DEF WorkflowInv

LEMMA InvokeStep ==
  ASSUME WorkflowInv, NEW c \in Caller, NEW i \in Invocation, NEW s \in Step, Invoke(c, i, s)
  PROVE  WorkflowInv'
<1>1. UNCHANGED <<wf, records, inv, outcome, failure>>
  BY DEF Invoke
<1>2. call \in [Caller -> CallRecord] /\ wf.version \in 0 .. MaxVersion /\ Prepared(c)
  BY DEF WorkflowInv, WorkflowTypes, Instance
<1>3. CASE call' = [call EXCEPT ![c].at = "prepare", ![c].id = i, ![c].step = s,
                                ![c].version = wf.version]
  <2> DEFINE r == [call[c] EXCEPT !.at = "prepare", !.id = i, !.step = s, !.version = wf.version]
  <2>1. r \in CallRecord /\ r.at = "prepare" /\ r.id = i /\ r.step = s /\ r.version = wf.version
    BY <1>2 DEF CallRecord
  <2>2. call' = [call EXCEPT ![c] = r]
    BY <1>2, <1>3 DEF CallRecord
  <2> HIDE DEF r
  <2>3. call'[c] = r /\ call' \in [Caller -> CallRecord] /\ \A d \in Caller : d # c => call'[d] = call[d]
    BY <1>2, <2>1, <2>2
  <2>4. wf.version <= wf.version
    BY InstanceFields
  <2>5. Prepared(c)'
    BY <1>1, <2>1, <2>3, <2>4 DEF Prepared
  <2> QED
    BY <1>1, <2>3, <2>5, CallStep
<1>4. CASE call' = [call EXCEPT ![c].at = "resume", ![c].id = i, ![c].step = s]
  <2> DEFINE r == [call[c] EXCEPT !.at = "resume", !.id = i, !.step = s]
  <2>1. r \in CallRecord /\ r.at = "resume" /\ r.id = i /\ r.step = s /\ r.version = call[c].version
    BY <1>2 DEF CallRecord
  <2>2. call' = [call EXCEPT ![c] = r]
    BY <1>2, <1>4 DEF CallRecord
  <2> HIDE DEF r
  <2>3. call'[c] = r /\ call' \in [Caller -> CallRecord] /\ \A d \in Caller : d # c => call'[d] = call[d]
    BY <1>2, <2>1, <2>2
  <2>5. Prepared(c)'
    BY <1>1, <1>2, <2>1, <2>3 DEF Prepared
  <2> QED
    BY <1>1, <2>3, <2>5, CallStep
<1> QED
  BY <1>3, <1>4 DEF Invoke

\* A call that its caller gives up, or that is over.
LEMMA LeaveStep ==
  ASSUME WorkflowInv, UNCHANGED <<wf, records, inv, outcome, failure>>, NEW c \in Caller, Leave(c)
  PROVE  WorkflowInv'
  BY LeaveTyped, PreparedOver, CallStep, InstanceFields

LEMMA RunStep ==
  ASSUME WorkflowInv, UNCHANGED <<wf, records, inv, outcome, failure>>, NEW c \in Caller,
         call[c].at # "idle", Run(c)
  PROVE  WorkflowInv'
  BY RunTyped, PreparedOver, CallStep, InstanceFields

\* The evidence that a candidate's step is prepared with.
LEMMA EvidenceIsPositive ==
  ASSUME WorkflowInv, NEW s \in Step
  PROVE  /\ PositiveEvidence(s) \in [Control -> Nat]
         /\ \A control \in Control :
              /\ ControlHolds(control, s) /\ s \in Required(control) =>
                   PositiveEvidence(s)[control] > 0
              /\ PositiveEvidence(s)[control] > 0 => records[control][s].positive
<1>1. records \in [Control -> [Step -> Evidence]]
  BY DEF WorkflowInv, WorkflowTypes
<1>2. \A control \in Control : records[control][s].number \in Nat
  BY <1>1 DEF Evidence
<1> QED
  BY <1>2 DEF PositiveEvidence, ControlHolds

LEMMA PrepareStep ==
  ASSUME WorkflowInv, NEW c \in Caller, Prepare(c)
  PROVE  WorkflowInv'
<1>1. UNCHANGED <<wf, records, inv, outcome, failure>>
  BY DEF Prepare
<1>2. CASE Leave(c)
  BY <1>1, <1>2, LeaveStep
<1>3. CASE /\ wf.version = call[c].version /\ Candidate(call[c].step)
           /\ call' = [call EXCEPT ![c].at = "reserve",
                                   ![c].evidence = PositiveEvidence(call[c].step)]
  <2> DEFINE s == call[c].step
             e == PositiveEvidence(s)
             r == [call[c] EXCEPT !.at = "reserve", !.evidence = e]
  <2>1. Prepared(c) /\ call \in [Caller -> CallRecord] /\ call[c].at = "prepare"
    BY DEF WorkflowInv, WorkflowTypes, Prepare
  <2>2. s \in Step
    BY <2>1 DEF Prepared
  <2>3. /\ e \in [Control -> Nat]
        /\ \A control \in Control : ControlHolds(control, s) /\ s \in Required(control) => e[control] > 0
    BY <2>2, EvidenceIsPositive
  <2>4. /\ wf.status = "ACTIVE" /\ \A d \in wf.definition[s] : wf.steps[d] = "SUCCEEDED"
        /\ \A control \in Control : ControlHolds(control, s)
    BY <1>3 DEF Candidate
  <2>5. call' = [call EXCEPT ![c] = r]
    BY <1>3, <2>1 DEF CallRecord
  <2> HIDE DEF e
  <2>6. /\ r \in CallRecord /\ r.at = "reserve" /\ r.evidence = e
        /\ r.step = s /\ r.id = call[c].id /\ r.version = call[c].version
    BY <2>1, <2>3 DEF CallRecord
  <2> HIDE DEF r, s
  <2>7. call'[c] = r /\ call' \in [Caller -> CallRecord] /\ \A d \in Caller : d # c => call'[d] = call[d]
    BY <2>1, <2>5, <2>6
  <2>8. Prepared(c)'
    BY <1>1, <2>1, <2>2, <2>3, <2>4, <2>6, <2>7 DEF Prepared, Required
  <2> QED
    BY <1>1, <2>7, <2>8, CallStep
<1> QED
  BY <1>2, <1>3 DEF Prepare

LEMMA ResumeStep ==
  ASSUME WorkflowInv, NEW c \in Caller, Resume(c)
  PROVE  WorkflowInv'
<1>1. UNCHANGED <<wf, records, inv, outcome, failure>> /\ call[c].at # "idle"
  BY DEF Resume
<1> QED
  BY <1>1, LeaveStep, RunStep DEF Resume

LEMMA LoseStep ==
  ASSUME WorkflowInv, NEW c \in Caller, LoseCall(c)
  PROVE  WorkflowInv'
  BY LeaveStep DEF LoseCall

\* Versions tell the reservations apart as long as they stay what they are.
LEMMA OneLiveKept ==
  ASSUME WorkflowInv,
         \A i \in Invocation : /\ inv'[i].version = inv[i].version
                               /\ inv'[i].status # "none" => inv[i].status # "none"
  PROVE  OneLiveReservation'
  BY Zenon DEF WorkflowInv, OneLiveReservation

\* An outcome of the agent, as it is stored.
LEMMA AnswerTyped ==
  ASSUME WorkflowInv, NEW i \in Invocation, inv[i].status = "RESERVED",
         NEW answer \in {"good", "poor", "invalid", "error"}
  PROVE  /\ Answer(i, answer) \in Receipt /\ Answer(i, answer).step = inv[i].step
         /\ Answer(i, answer).version = inv[i].version /\ Answer(i, answer).status # "none"
<1>1. inv[i] \in Receipt
  BY DEF WorkflowInv, WorkflowTypes
<1>2. CASE answer = "error"
  <2>1. Answer(i, answer) = [inv[i] EXCEPT !.status = "FAILED", !.code = "AGENT_EXECUTION_FAILED"]
    BY <1>2 DEF Answer
  <2> QED
    BY <1>1, <2>1 DEF Receipt
<1>3. CASE answer = "invalid"
  <2>1. Answer(i, answer) = [inv[i] EXCEPT !.status = "FAILED", !.code = "AGENT_RESULT_INVALID"]
    BY <1>3 DEF Answer
  <2> QED
    BY <1>1, <2>1 DEF Receipt
<1>4. CASE answer \in {"good", "poor"}
  <2>1. Answer(i, answer) = [inv[i] EXCEPT !.status = "COMPLETED", !.acceptable = (answer = "good")]
    BY <1>4 DEF Answer
  <2> QED
    BY <1>1, <2>1 DEF Receipt
<1> QED
  BY <1>2, <1>3, <1>4

\* What changes an unaccepted invocation, in its status alone, keeps the counts
\* and what was accepted.
LEMMA InvocationKept ==
  ASSUME WorkflowInv, wf' = wf, failure' = failure,
         \A i \in Invocation : inv'[i].step = inv[i].step,
         \A i \in Invocation :
           outcome'[i] = "ACCEPTED_FOR_COMPLETION" <=> outcome[i] = "ACCEPTED_FOR_COMPLETION"
  PROVE  (\A s \in Step : CountsAttempts(s)' /\ AcceptedOnce(s)') /\ EndsWithLast'
<1>1. ASSUME NEW s \in Step PROVE CountsAttempts(s)' /\ AcceptedOnce(s)'
  <2>1. CountsAttempts(s)'
    BY CountsKept DEF WorkflowInv
  <2>2. Accepted(s)' = Accepted(s) /\ AcceptedOnce(s)
    BY AcceptedKept DEF WorkflowInv
  <2> QED
    BY <2>1, <2>2 DEF AcceptedOnce
<1>2. EndsWithLast'
  BY DEF WorkflowInv, EndsWithLast, AllSucceeded
<1> QED
  BY <1>1, <1>2

LEMMA StoreStep ==
  ASSUME WorkflowInv, NEW c \in Caller, NEW answer \in {"good", "poor", "invalid", "error"},
         Store(c, answer)
  PROVE  WorkflowInv'
<1> DEFINE i == call[c].id
<1>1. /\ i \in Invocation /\ Leave(c) /\ wf' = wf /\ records' = records
      /\ outcome' = outcome /\ failure' = failure
  BY DEF Store, WorkflowInv, Prepared
<1>2. CASE inv[i].status # "RESERVED"
  <2>1. inv' = inv
    BY <1>2 DEF Store
  <2> QED
    BY <1>1, <2>1, LeaveStep
<1>3. CASE inv[i].status = "RESERVED"
  <2> DEFINE r == Answer(i, answer)
  <2>1. inv' = [inv EXCEPT ![i] = r]
    BY <1>3 DEF Store
  <2>2. r \in Receipt /\ r.step = inv[i].step /\ r.version = inv[i].version /\ r.status # "none"
    BY <1>1, <1>3, AnswerTyped
  <2>3. inv \in [Invocation -> Receipt] /\ wf \in Instance /\ outcome \in [Invocation -> Decision]
        /\ failure \in [Step -> Failure] /\ records \in [Control -> [Step -> Evidence]]
    BY DEF WorkflowInv, WorkflowTypes
  <2> HIDE DEF r, i
  <2>4. /\ inv' \in [Invocation -> Receipt] /\ inv'[i] = r
        /\ \A j \in Invocation : j # i => inv'[j] = inv[j]
    BY <1>1, <2>1, <2>2, <2>3
  <2>5. \A j \in Invocation : inv'[j].step = inv[j].step /\ inv'[j].version = inv[j].version
    BY <2>2, <2>4
  <2>6. \A j \in Invocation : inv'[j].status # "none" => inv[j].status # "none"
    BY <1>3, <2>4
  <2>7. WorkflowTypes'
    BY <1>1, <2>3, <2>4, LeaveTyped DEF WorkflowTypes
  <2>8. (\A s \in Step : CountsAttempts(s)' /\ AcceptedOnce(s)') /\ EndsWithLast'
    BY <1>1, <2>5, InvocationKept
  <2>9. ASSUME NEW j \in Invocation PROVE Stored(j)'
    <3>1. CASE j # i
      BY <1>1, <2>4, <3>1, StoredKept, InstanceFields
    <3>2. CASE j = i
      <4>1. Stored(i)
        BY <1>1 DEF WorkflowInv
      <4> QED
        BY <1>1, <1>3, <2>2, <2>4, <3>2, <4>1 DEF Stored
    <3> QED
      BY <3>1, <3>2
  <2>10. OneLiveReservation'
    BY <2>5, <2>6, OneLiveKept
  <2>11. ASSUME NEW d \in Caller PROVE Prepared(d)'
    <3>1. CASE d # c
      BY <1>1, <3>1, LeaveTyped, PreparedKept, InstanceFields
    <3>2. CASE d = c
      BY <1>1, <3>2, LeaveTyped, PreparedOver, InstanceFields
    <3> QED
      BY <3>1, <3>2
  <2> QED
    BY <2>7, <2>8, <2>9, <2>10, <2>11 DEF WorkflowInv
<1> QED
  BY <1>2, <1>3

\* A decision that accepts nothing.
LEMMA DecideStep ==
  ASSUME WorkflowInv, NEW i \in Invocation, outcome[i] = "none",
         inv[i].status \in {"COMPLETED", "FAILED"},
         NEW d \in Decision, d # "ACCEPTED_FOR_COMPLETION",
         outcome' = [outcome EXCEPT ![i] = d], UNCHANGED <<wf, records, inv, failure, call>>
  PROVE  WorkflowInv'
<1>1. outcome \in [Invocation -> Decision]
  BY DEF WorkflowInv, WorkflowTypes
<1>2. /\ outcome' \in [Invocation -> Decision] /\ outcome'[i] = d
      /\ \A j \in Invocation : j # i => outcome'[j] = outcome[j]
  BY <1>1
<1>3. WorkflowTypes'
  BY <1>2 DEF WorkflowInv, WorkflowTypes
<1>4. (\A s \in Step : CountsAttempts(s)' /\ AcceptedOnce(s)') /\ EndsWithLast'
  BY <1>2, InvocationKept
<1>5. \A j \in Invocation : Stored(j)'
  BY <1>2 DEF WorkflowInv, Stored
<1>6. OneLiveReservation'
  BY OneLiveKept
<1>7. \A c \in Caller : Prepared(c)'
  BY DEF WorkflowInv, Prepared
<1> QED
  BY <1>3, <1>4, <1>5, <1>6, <1>7 DEF WorkflowInv

----------------------------------------------------------------------------
(* The commits.                                                            *)

\* What every commit of the review, of the lifecycle service and of control
\* keeps, whatever it does with the steps: it moves no call.
LEMMA CommitStep ==
  ASSUME WorkflowInv, NEW status \in WorkflowStatus, NEW steps \in [Step -> StepStatus],
         Commit(status, steps, wf.version + 1), call' = call,
         inv' \in [Invocation -> Receipt], outcome' \in [Invocation -> Decision],
         failure' \in [Step -> Failure],
         \A i \in Invocation : /\ inv'[i].version = inv[i].version /\ inv'[i].step = inv[i].step
                               /\ inv'[i].status # "none" <=> inv[i].status # "none"
  PROVE  /\ WorkflowTypes' /\ OneLiveReservation' /\ \A c \in Caller : Prepared(c)'
         /\ wf'.status = status /\ wf'.steps = steps /\ wf'.version \in Nat
         /\ wf'.version > wf.version /\ wf'.version >= wf.version
         /\ wf'.maxAttempts = wf.maxAttempts
<1>1. wf.version + 1 \in Nat /\ wf.version + 1 > wf.version /\ wf.version + 1 >= wf.version
  BY InstanceFields
<1>2. WorkflowTypes
  BY DEF WorkflowInv
<1>3. /\ wf' \in Instance /\ wf'.status = status /\ wf'.steps = steps
      /\ wf'.version = wf.version + 1 /\ wf'.maxAttempts = wf.maxAttempts
      /\ records' \in [Control -> [Step -> Evidence]]
  BY <1>1, <1>2, CommitWrites
<1>4. WorkflowTypes'
  BY <1>2, <1>3 DEF WorkflowTypes
<1>5. OneLiveReservation'
  BY OneLiveKept
<1>6. \A c \in Caller : Prepared(c)'
  BY <1>1, <1>3, PreparedKept
<1> QED
  BY <1>1, <1>3, <1>4, <1>5, <1>6

\* Pausing, resuming and cancelling change no invocation, decision or failure:
\* a step stays, or is cancelled when nothing was accepted for it.
LEMMA ControlStep ==
  ASSUME WorkflowInv, NEW status \in WorkflowStatus, NEW steps \in [Step -> StepStatus],
         Commit(status, steps, wf.version + 1), UNCHANGED <<inv, outcome, failure, call>>,
         wf.status # "COMPLETED", status # "COMPLETED",
         \A s \in Step :
           \/ steps[s] = wf.steps[s]
           \/ steps[s] = "CANCELLED" /\ wf.steps[s] # "SUCCEEDED"
  PROVE  WorkflowInv'
<1>1. /\ inv' \in [Invocation -> Receipt] /\ outcome' \in [Invocation -> Decision]
      /\ failure' \in [Step -> Failure]
  BY DEF WorkflowInv, WorkflowTypes
<1>2. /\ WorkflowTypes' /\ OneLiveReservation' /\ \A c \in Caller : Prepared(c)'
      /\ wf'.status = status /\ wf'.steps = steps /\ wf'.version \in Nat
      /\ wf'.version >= wf.version /\ wf'.maxAttempts = wf.maxAttempts
  BY <1>1, CommitStep
<1>3. \A i \in Invocation : Stored(i)'
  BY <1>2, StoredKept
<1>4. ASSUME NEW s \in Step PROVE CountsAttempts(s)' /\ AcceptedOnce(s)'
  <2>1. CountsAttempts(s) /\ AcceptedOnce(s) /\ Accepted(s)' = Accepted(s) /\ Attempts(s)' = Attempts(s)
    BY AcceptedKept DEF WorkflowInv, Attempts
  <2>2. CASE steps[s] = wf.steps[s]
    BY <1>2, <2>1, <2>2 DEF CountsAttempts, AcceptedOnce
  <2>3. CASE steps[s] = "CANCELLED" /\ wf.steps[s] # "SUCCEEDED"
    <3> DEFINE n == failure[s].attempts
               m == Cardinality(Attempts(s))
               k == wf.maxAttempts
    <3>1. n \in Nat /\ k \in 1 .. 5 /\ wf.steps[s] \in StepStatus
      BY InstanceFields
    <3>2. IsFiniteSet(Attempts(s)) /\ m \in Nat
      BY <2>1, FS_CardinalityType DEF CountsAttempts
    <3>3. \/ m = 0 /\ n = 0
          \/ m = n /\ n < k
          \/ m = n + 1 /\ n < k
          \/ m = n /\ n <= k
          \/ m <= k /\ n <= k
      BY <2>1, <3>1 DEF CountsAttempts, StepStatus
    <3>4. failure[s].decision = "AUTHORIZED" => n < k
      BY <2>1 DEF CountsAttempts
    <3>5. m <= k /\ n <= k
      <4> HIDE DEF m, n, k
      <4> QED
        BY <3>1, <3>2, <3>3
    <3>6. CountsAttempts(s)'
      BY <1>2, <2>1, <2>3, <3>2, <3>4, <3>5 DEF CountsAttempts
    <3>7. AcceptedOnce(s)'
      BY <1>2, <2>1, <2>3 DEF AcceptedOnce
    <3> QED
      BY <3>6, <3>7
  <2> QED
    BY <2>2, <2>3
<1>5. EndsWithLast'
  <2>1. PICK s \in Step : wf.steps[s] # "SUCCEEDED"
    BY DEF WorkflowInv, EndsWithLast, AllSucceeded
  <2>2. steps[s] # "SUCCEEDED"
    BY <2>1
  <2> QED
    BY <1>2, <2>2 DEF EndsWithLast, AllSucceeded
<1> QED
  BY <1>2, <1>3, <1>4, <1>5 DEF WorkflowInv

LEMMA PauseStep ==
  ASSUME WorkflowInv, Pause \/ ResumeWorkflow \/ Cancel
  PROVE  WorkflowInv'
<1>1. wf.steps \in [Step -> StepStatus]
  BY InstanceFields
<1>2. CASE Pause
  BY <1>1, <1>2, ControlStep DEF Pause, WorkflowStatus
<1>3. CASE ResumeWorkflow
  BY <1>1, <1>3, ControlStep DEF ResumeWorkflow, WorkflowStatus
<1>4. CASE Cancel
  <2> DEFINE steps == [s \in Step |-> IF wf.steps[s] \in {"SUCCEEDED", "FAILED"} THEN wf.steps[s]
                                      ELSE "CANCELLED"]
  <2>1. steps \in [Step -> StepStatus]
    BY <1>1 DEF StepStatus
  <2>2. \A s \in Step : \/ steps[s] = wf.steps[s]
                        \/ steps[s] = "CANCELLED" /\ wf.steps[s] # "SUCCEEDED"
    OBVIOUS
  <2>3. /\ Commit("CANCELLED", steps, wf.version + 1) /\ UNCHANGED <<inv, outcome, failure, call>>
        /\ wf.status # "COMPLETED"
    BY <1>4 DEF Cancel
  <2> HIDE DEF steps
  <2> QED
    BY <2>1, <2>2, <2>3, ControlStep DEF WorkflowStatus
<1> QED
  BY <1>2, <1>3, <1>4

\* An accepted review: the step succeeds with this result and no other.
LEMMA AcceptStep ==
  ASSUME WorkflowInv, NEW i \in Invocation, inv[i].status = "COMPLETED", inv[i].acceptable,
         Tracked(i) = "AWAITING_RESULT", wf.status \in {"ACTIVE", "PAUSED"},
         NEW steps, steps = [wf.steps EXCEPT ![inv[i].step] = "SUCCEEDED"],
         Commit(IF AllSucceeded(steps) THEN "COMPLETED" ELSE wf.status, steps, wf.version + 1),
         outcome' = [outcome EXCEPT ![i] = "ACCEPTED_FOR_COMPLETION"],
         UNCHANGED <<inv, failure, call>>
  PROVE  WorkflowInv'
<1> DEFINE s == inv[i].step
           status == IF AllSucceeded(steps) THEN "COMPLETED" ELSE wf.status
<1>1. s \in Step /\ Stored(i)
  BY DEF WorkflowInv, Stored
<1>2. /\ steps \in [Step -> StepStatus] /\ steps[s] = "SUCCEEDED"
      /\ \A t \in Step : t # s => steps[t] = wf.steps[t]
  BY <1>1, InstanceFields DEF StepStatus
<1>3. status \in WorkflowStatus
  BY DEF WorkflowStatus
<1>4. /\ inv' \in [Invocation -> Receipt] /\ failure' \in [Step -> Failure]
      /\ outcome' \in [Invocation -> Decision] /\ outcome \in [Invocation -> Decision]
  BY DEF WorkflowInv, WorkflowTypes, Decision
<1>5. /\ WorkflowTypes' /\ OneLiveReservation' /\ \A c \in Caller : Prepared(c)'
      /\ wf'.status = status /\ wf'.steps = steps /\ wf'.version \in Nat
      /\ wf'.version >= wf.version /\ wf'.maxAttempts = wf.maxAttempts
  BY <1>2, <1>3, <1>4, CommitStep
<1>6. /\ outcome'[i] = "ACCEPTED_FOR_COMPLETION"
      /\ \A j \in Invocation : j # i => outcome'[j] = outcome[j]
  BY <1>4
<1>7. ASSUME NEW j \in Invocation PROVE Stored(j)'
  <2>1. CASE j # i
    BY <1>5, <1>6, <2>1, StoredKept
  <2>2. CASE j = i
    <3>1. inv[i].version \in Nat /\ wf.version \in Nat /\ inv[i].version <= wf.version
      BY <1>1, InstanceFields DEF Stored
    <3>2. inv[i].version <= wf'.version
      BY <1>5, <3>1
    <3> QED
      BY <1>1, <2>2, <3>2 DEF Stored
  <2> QED
    BY <2>1, <2>2
<1>8. ASSUME NEW t \in Step PROVE CountsAttempts(t)' /\ AcceptedOnce(t)'
  <2>1. CountsAttempts(t) /\ AcceptedOnce(t) /\ Attempts(t)' = Attempts(t)
    BY DEF WorkflowInv, Attempts
  <2>2. CASE t # s
    <3>1. Accepted(t)' = Accepted(t)
      BY <1>6, <2>2 DEF Accepted
    <3>2. steps[t] = wf.steps[t]
      BY <1>2, <2>2
    <3> QED
      BY <1>5, <2>1, <3>1, <3>2 DEF CountsAttempts, AcceptedOnce
  <2>3. CASE t = s
    <3>1. wf.steps[t] = "AWAITING_RESULT"
      BY <2>3 DEF Tracked
    <3>2. Accepted(t) = {}
      BY <2>1, <3>1 DEF AcceptedOnce
    <3>3. Accepted(t)' = {i}
      BY <1>6, <2>3, <3>2 DEF Accepted
    <3> QED
      BY <1>2, <1>5, <2>1, <2>3, <3>1, <3>3 DEF CountsAttempts, AcceptedOnce
  <2> QED
    BY <2>2, <2>3
<1>9. EndsWithLast'
  BY <1>5 DEF EndsWithLast, AllSucceeded
<1> QED
  BY <1>5, <1>7, <1>8, <1>9 DEF WorkflowInv

LEMMA ReviewStep ==
  ASSUME WorkflowInv, NEW i \in Invocation, Review(i)
  PROVE  WorkflowInv'
<1>1. outcome[i] = "none" /\ UNCHANGED <<inv, failure, call>>
  BY DEF Review
<1>2. CASE inv[i].status = "FAILED"
  BY <1>1, <1>2, DecideStep DEF Review, Decision
<1>3. CASE inv[i].status = "COMPLETED" /\ inv[i].acceptable
  BY <1>1, <1>3, AcceptStep DEF Review
<1>4. CASE inv[i].status = "COMPLETED" /\ ~inv[i].acceptable
  BY <1>1, <1>4, DecideStep DEF Review, Decision
<1> QED
  BY <1>2, <1>3, <1>4 DEF Review

LEMMA RejectStep ==
  ASSUME WorkflowInv, NEW i \in Invocation, Reject(i)
  PROVE  WorkflowInv'
  BY DecideStep DEF Reject, Decision

\* A step that fails gives its reservation up to the count of its failures.
LEMMA FailureStep ==
  ASSUME WorkflowInv, NEW s \in Step, NEW retryable \in BOOLEAN, FailStep(s, retryable),
         inv' \in [Invocation -> Receipt], UNCHANGED <<outcome, call>>,
         \A i \in Invocation : /\ inv'[i].version = inv[i].version /\ inv'[i].step = inv[i].step
                               /\ inv'[i].status # "none" <=> inv[i].status # "none"
                               /\ inv'[i] = inv[i] \/ outcome[i] # "ACCEPTED_FOR_COMPLETION"
  PROVE  WorkflowInv'
<1> DEFINE steps == [wf.steps EXCEPT ![s] = "FAILED"]
           r == [attempts |-> failure[s].attempts + 1, retryable |-> retryable, decision |-> "none"]
<1>1. failure \in [Step -> Failure] /\ outcome \in [Invocation -> Decision]
  BY DEF WorkflowInv, WorkflowTypes
<1>2. r \in Failure /\ r.attempts = failure[s].attempts + 1 /\ r.decision = "none"
  BY <1>1 DEF Failure
<1>3. failure' = [failure EXCEPT ![s] = r]
  BY DEF FailStep
<1>4. wf.status = "ACTIVE" /\ wf.steps[s] = "AWAITING_RESULT" /\ failure[s].attempts < wf.maxAttempts
  BY DEF FailStep
<1>5. /\ steps \in [Step -> StepStatus] /\ steps[s] = "FAILED"
      /\ \A t \in Step : t # s => steps[t] = wf.steps[t]
  BY InstanceFields DEF StepStatus
<1>6. Commit("FAILED", steps, wf.version + 1)
  BY DEF FailStep
<1> HIDE DEF r, steps
<1>7. /\ failure' \in [Step -> Failure] /\ failure'[s] = r
      /\ \A t \in Step : t # s => failure'[t] = failure[t]
  BY <1>1, <1>2, <1>3
<1>8. /\ WorkflowTypes' /\ OneLiveReservation' /\ \A c \in Caller : Prepared(c)'
      /\ wf'.status = "FAILED" /\ wf'.steps = steps /\ wf'.version \in Nat
      /\ wf'.version >= wf.version /\ wf'.maxAttempts = wf.maxAttempts
  BY <1>1, <1>5, <1>6, <1>7, CommitStep DEF WorkflowStatus
<1>9. ASSUME NEW j \in Invocation PROVE Stored(j)'
  <2>1. Stored(j) /\ inv[j].version \in Nat /\ wf.version \in Nat /\ outcome'[j] = outcome[j]
    BY InstanceFields DEF WorkflowInv
  <2>2. inv'[j].status # "none" => inv'[j].version <= wf'.version
    <3>1. inv'[j].status # "none" => inv'[j].version <= wf.version
      BY <2>1 DEF Stored
    <3> QED
      BY <1>8, <2>1, <3>1
  <2>3. inv'[j].status = "none" => inv'[j].step = NoStep /\ outcome'[j] = "none"
    BY <2>1 DEF Stored
  <2>4. inv'[j].status # "none" => inv'[j].step \in Step
    BY <2>1 DEF Stored
  <2>5. outcome'[j] = "ACCEPTED_FOR_COMPLETION" => inv'[j].status = "COMPLETED" /\ inv'[j].acceptable
    BY <2>1 DEF Stored
  <2> QED
    BY <2>2, <2>3, <2>4, <2>5 DEF Stored
<1>10. ASSUME NEW t \in Step PROVE CountsAttempts(t)' /\ AcceptedOnce(t)'
  <2>1. /\ CountsAttempts(t) /\ AcceptedOnce(t) /\ Attempts(t)' = Attempts(t)
        /\ Accepted(t)' = Accepted(t)
    BY AcceptedKept DEF WorkflowInv, Attempts
  <2>2. CASE t # s
    BY <1>5, <1>7, <1>8, <2>1, <2>2 DEF CountsAttempts, AcceptedOnce
  <2>3. CASE t = s
    <3>1. Accepted(t) = {}
      BY <1>4, <2>1, <2>3 DEF AcceptedOnce
    <3>2. /\ IsFiniteSet(Attempts(s)) /\ Cardinality(Attempts(s)) = failure[s].attempts + 1
      BY <1>4, <2>1, <2>3 DEF CountsAttempts
    <3>3. failure[s].attempts \in Nat /\ wf.maxAttempts \in 1 .. 5
      BY InstanceFields
    <3>4. failure[s].attempts + 1 <= wf.maxAttempts
      BY <1>4, <3>3
    <3>5. CountsAttempts(t)'
      BY <1>2, <1>5, <1>7, <1>8, <2>1, <2>3, <3>2, <3>4 DEF CountsAttempts
    <3> QED
      BY <1>5, <1>8, <2>1, <2>3, <3>1, <3>5 DEF AcceptedOnce
  <2> QED
    BY <2>2, <2>3
<1>11. EndsWithLast'
  BY <1>5, <1>8 DEF EndsWithLast, AllSucceeded
<1> QED
  BY <1>8, <1>9, <1>10, <1>11 DEF WorkflowInv

LEMMA RecordFailureStep ==
  ASSUME WorkflowInv, NEW i \in Invocation, inv[i].status # "none", RecordFailure(i)
  PROVE  WorkflowInv'
<1>1. inv[i].step \in Step /\ inv \in [Invocation -> Receipt]
  BY DEF WorkflowInv, WorkflowTypes, Stored
<1>2. Retryable(i) \in BOOLEAN
  BY DEF Retryable
<1> QED
  BY <1>1, <1>2, FailureStep DEF RecordFailure

LEMMA TimeoutStep ==
  ASSUME WorkflowInv, NEW i \in Invocation, EvaluateTimeout(i)
  PROVE  WorkflowInv'
<1> DEFINE r == [inv[i] EXCEPT !.status = "FAILED", !.code = "INVOCATION_TIMED_OUT"]
<1>1. /\ inv \in [Invocation -> Receipt] /\ inv[i].status = "RESERVED" /\ Stored(i)
      /\ FailStep(inv[i].step, TRUE) /\ UNCHANGED <<outcome, call>>
  BY DEF WorkflowInv, WorkflowTypes, EvaluateTimeout
<1>2. r \in Receipt /\ r.version = inv[i].version /\ r.step = inv[i].step /\ r.status # "none"
  BY <1>1 DEF Receipt
<1>3. inv' = [inv EXCEPT ![i] = r]
  BY <1>1 DEF EvaluateTimeout, Receipt
<1> HIDE DEF r
<1>4. inv' \in [Invocation -> Receipt] /\ inv'[i] = r /\ \A j \in Invocation : j # i => inv'[j] = inv[j]
  BY <1>1, <1>2, <1>3
<1>5. inv[i].step \in Step /\ outcome[i] # "ACCEPTED_FOR_COMPLETION"
  BY <1>1 DEF Stored
<1>6. \A j \in Invocation : /\ inv'[j].version = inv[j].version /\ inv'[j].step = inv[j].step
                            /\ inv'[j].status # "none" <=> inv[j].status # "none"
                            /\ inv'[j] = inv[j] \/ outcome[j] # "ACCEPTED_FOR_COMPLETION"
  BY <1>1, <1>2, <1>4, <1>5
<1> QED
  BY <1>1, <1>4, <1>5, <1>6, FailureStep

\* A retry is authorized while attempts are left.
LEMMA AuthorizeStep ==
  ASSUME WorkflowInv, NEW s \in Step, AuthorizeRetry(s)
  PROVE  WorkflowInv'
<1> DEFINE d == RetryDecision(s)
           r == [failure[s] EXCEPT !.decision = d]
<1>1. /\ failure \in [Step -> Failure] /\ UNCHANGED <<wf, records, inv, outcome, call>>
      /\ failure' = [failure EXCEPT ![s].decision = d]
  BY DEF WorkflowInv, WorkflowTypes, AuthorizeRetry
<1>2. /\ d \in {"AUTHORIZED", "DENIED_NON_RETRYABLE", "DENIED_EXHAUSTED"}
      /\ d = "AUTHORIZED" => ~(failure[s].attempts >= wf.maxAttempts)
  BY DEF RetryDecision
<1> HIDE DEF d
<1>3. r \in Failure /\ r.attempts = failure[s].attempts /\ r.decision = d
  BY <1>1, <1>2 DEF Failure
<1>4. failure' = [failure EXCEPT ![s] = r]
  BY <1>1 DEF Failure
<1> HIDE DEF r
<1>5. failure' \in [Step -> Failure] /\ failure'[s] = r /\ \A t \in Step : t # s => failure'[t] = failure[t]
  BY <1>1, <1>3, <1>4
<1>6. WorkflowTypes'
  BY <1>1, <1>5 DEF WorkflowInv, WorkflowTypes
<1>7. ASSUME NEW t \in Step PROVE CountsAttempts(t)' /\ AcceptedOnce(t)'
  <2>1. /\ CountsAttempts(t) /\ AcceptedOnce(t) /\ Attempts(t)' = Attempts(t)
        /\ Accepted(t)' = Accepted(t)
    BY <1>1, AcceptedKept DEF WorkflowInv, Attempts
  <2>2. failure'[t].attempts = failure[t].attempts
    BY <1>3, <1>5
  <2>3. failure'[t].decision = "AUTHORIZED" => failure[t].attempts < wf.maxAttempts
    <3>1. CASE t # s
      BY <1>5, <2>1, <3>1 DEF CountsAttempts
    <3>2. CASE t = s
      <4>1. failure[s].attempts \in Nat /\ wf.maxAttempts \in 1 .. 5
        BY InstanceFields
      <4>2. d = "AUTHORIZED" => failure[s].attempts < wf.maxAttempts
        BY <1>2, <4>1
      <4> QED
        BY <1>3, <1>5, <3>2, <4>2
    <3> QED
      BY <3>1, <3>2
  <2>4. CountsAttempts(t)'
    BY <1>1, <2>1, <2>2, <2>3 DEF CountsAttempts
  <2> QED
    BY <1>1, <2>1, <2>4 DEF AcceptedOnce
<1>8. (\A i \in Invocation : Stored(i)') /\ OneLiveReservation' /\ EndsWithLast'
  BY <1>1 DEF WorkflowInv, Stored, OneLiveReservation, EndsWithLast, AllSucceeded
<1>9. \A c \in Caller : Prepared(c)'
  BY <1>1 DEF WorkflowInv, Prepared
<1> QED
  BY <1>6, <1>7, <1>8, <1>9 DEF WorkflowInv

\* An authorized retry makes the step ready once more.
LEMMA RetryStep ==
  ASSUME WorkflowInv, NEW s \in Step, ExecuteRetry(s)
  PROVE  WorkflowInv'
<1> DEFINE steps == [wf.steps EXCEPT ![s] = "READY"]
           r == [failure[s] EXCEPT !.decision = "CONSUMED"]
<1>1. /\ failure \in [Step -> Failure] /\ UNCHANGED <<inv, outcome, call>>
      /\ failure' = [failure EXCEPT ![s].decision = "CONSUMED"]
      /\ wf.status = "FAILED" /\ wf.steps[s] = "FAILED" /\ failure[s].decision = "AUTHORIZED"
      /\ inv' \in [Invocation -> Receipt] /\ outcome' \in [Invocation -> Decision]
      /\ Commit("ACTIVE", steps, wf.version + 1)
  BY DEF WorkflowInv, WorkflowTypes, ExecuteRetry
<1>2. r \in Failure /\ r.attempts = failure[s].attempts /\ r.decision = "CONSUMED"
  BY <1>1 DEF Failure
<1>3. failure' = [failure EXCEPT ![s] = r]
  BY <1>1 DEF Failure
<1>4. /\ steps \in [Step -> StepStatus] /\ steps[s] = "READY"
      /\ \A t \in Step : t # s => steps[t] = wf.steps[t]
  BY InstanceFields DEF StepStatus
<1> HIDE DEF r, steps
<1>5. failure' \in [Step -> Failure] /\ failure'[s] = r /\ \A t \in Step : t # s => failure'[t] = failure[t]
  BY <1>1, <1>2, <1>3
<1>6. /\ WorkflowTypes' /\ OneLiveReservation' /\ \A c \in Caller : Prepared(c)'
      /\ wf'.status = "ACTIVE" /\ wf'.steps = steps /\ wf'.version \in Nat
      /\ wf'.version >= wf.version /\ wf'.maxAttempts = wf.maxAttempts
  BY <1>1, <1>4, <1>5, CommitStep DEF WorkflowStatus
<1>7. \A i \in Invocation : Stored(i)'
  BY <1>1, <1>6, StoredKept
<1>8. ASSUME NEW t \in Step PROVE CountsAttempts(t)' /\ AcceptedOnce(t)'
  <2>1. /\ CountsAttempts(t) /\ AcceptedOnce(t) /\ Attempts(t)' = Attempts(t)
        /\ Accepted(t)' = Accepted(t)
    BY <1>1, AcceptedKept DEF WorkflowInv, Attempts
  <2>2. CASE t # s
    BY <1>4, <1>5, <1>6, <2>1, <2>2 DEF CountsAttempts, AcceptedOnce
  <2>3. CASE t = s
    BY <1>1, <1>2, <1>4, <1>5, <1>6, <2>1, <2>3 DEF CountsAttempts, AcceptedOnce
  <2> QED
    BY <2>2, <2>3
<1>9. EndsWithLast'
  BY <1>4, <1>6 DEF EndsWithLast, AllSucceeded
<1> QED
  BY <1>6, <1>7, <1>8, <1>9 DEF WorkflowInv

\* What a reservation writes: the version that the step is reserved at is a new one.
LEMMA ReservationWrites ==
  ASSUME WorkflowInv, NEW c \in Caller, NEW i, NEW s, i = call[c].id, s = call[c].step,
         call[c].at = "reserve", inv[i].status = "none", UnchangedControls(c),
         wf.steps[s] \in {"PENDING", "READY"},
         Commit(wf.status, [wf.steps EXCEPT ![s] = "AWAITING_RESULT"], ReservedVersion(s)),
         inv' = [inv EXCEPT ![i].status = "RESERVED", ![i].step = s,
                            ![i].version = ReservedVersion(s)],
         UNCHANGED <<outcome, failure>>
  PROVE  /\ i \in Invocation /\ s \in Step /\ wf.status = "ACTIVE"
         /\ inv' \in [Invocation -> Receipt]
         /\ inv'[i].status = "RESERVED" /\ inv'[i].step = s /\ inv'[i].version = wf'.version
         /\ \A j \in Invocation : j # i => inv'[j] = inv[j]
         /\ wf' \in Instance /\ records' \in [Control -> [Step -> Evidence]]
         /\ wf'.status = "ACTIVE" /\ wf'.version \in Nat /\ wf'.version > wf.version
         /\ wf'.version >= wf.version
         /\ wf'.maxAttempts = wf.maxAttempts /\ wf'.steps[s] = "AWAITING_RESULT"
         /\ \A t \in Step : t # s => wf'.steps[t] = wf.steps[t]
<1>1. /\ Prepared(c) /\ WorkflowTypes /\ inv \in [Invocation -> Receipt]
      /\ wf.status \in WorkflowStatus /\ wf.steps \in [Step -> StepStatus]
  BY InstanceFields DEF WorkflowInv, WorkflowTypes
<1>2. i \in Invocation /\ s \in Step /\ wf.status = "ACTIVE"
  BY <1>1 DEF Prepared, UnchangedControls
<1> DEFINE steps == [wf.steps EXCEPT ![s] = "AWAITING_RESULT"]
           v == ReservedVersion(s)
           r == [inv[i] EXCEPT !.status = "RESERVED", !.step = s, !.version = v]
<1>3. wf.version \in Nat
  BY InstanceFields
<1>4. v \in Nat /\ v > wf.version /\ v >= wf.version
  BY <1>3 DEF ReservedVersion
<1>5. /\ steps \in [Step -> StepStatus] /\ steps[s] = "AWAITING_RESULT"
      /\ \A t \in Step : t # s => steps[t] = wf.steps[t]
  BY <1>1, <1>2 DEF StepStatus
<1>6. Commit(wf.status, steps, v)
  OBVIOUS
<1> HIDE DEF steps, v
<1>7. /\ wf' \in Instance /\ wf'.status = wf.status /\ wf'.steps = steps /\ wf'.version = v
      /\ wf'.maxAttempts = wf.maxAttempts /\ records' \in [Control -> [Step -> Evidence]]
  BY <1>1, <1>4, <1>5, <1>6, CommitWrites
<1>8. v \in 0 .. MaxVersion
  BY <1>7 DEF Instance
<1>9. r \in Receipt /\ r.status = "RESERVED" /\ r.step = s /\ r.version = v
  BY <1>1, <1>2, <1>8 DEF Receipt
<1>10. inv' = [inv EXCEPT ![i] = r]
  BY <1>1, <1>2 DEF Receipt, v
<1> HIDE DEF r
<1>11. inv'[i] = r /\ \A j \in Invocation : j # i => inv'[j] = inv[j]
  BY Zenon, <1>1, <1>2, <1>10
<1>12. inv' \in [Invocation -> Receipt]
  BY Zenon, <1>1, <1>2, <1>9, <1>10
<1> QED
  BY <1>2, <1>4, <1>5, <1>7, <1>9, <1>11, <1>12

LEMMA ReserveStep ==
  ASSUME WorkflowInv, NEW c \in Caller, Reserve(c)
  PROVE  WorkflowInv'
<1> DEFINE i == call[c].id
           s == call[c].step
<1>1. call[c].at = "reserve" /\ UNCHANGED <<outcome, failure>>
  BY DEF Reserve
<1>2. CASE UNCHANGED <<wf, records, inv>> /\ (Leave(c) \/ Run(c))
  BY <1>1, <1>2, LeaveStep, RunStep
<1>3. CASE /\ inv[i].status = "none" /\ UnchangedControls(c)
           /\ wf.steps[s] \in {"PENDING", "READY"}
           /\ Commit(wf.status, [wf.steps EXCEPT ![s] = "AWAITING_RESULT"], ReservedVersion(s))
           /\ inv' = [inv EXCEPT ![i].status = "RESERVED", ![i].step = s,
                                 ![i].version = ReservedVersion(s)]
           /\ Run(c)
  <2>1. /\ i \in Invocation /\ s \in Step /\ wf.status = "ACTIVE"
        /\ inv' \in [Invocation -> Receipt]
        /\ inv'[i].status = "RESERVED" /\ inv'[i].step = s /\ inv'[i].version = wf'.version
        /\ \A j \in Invocation : j # i => inv'[j] = inv[j]
        /\ wf' \in Instance /\ records' \in [Control -> [Step -> Evidence]]
        /\ wf'.status = "ACTIVE" /\ wf'.version \in Nat /\ wf'.version > wf.version
        /\ wf'.version >= wf.version
        /\ wf'.maxAttempts = wf.maxAttempts /\ wf'.steps[s] = "AWAITING_RESULT"
        /\ \A t \in Step : t # s => wf'.steps[t] = wf.steps[t]
    BY <1>1, <1>3, ReservationWrites
  <2>2. wf.steps[s] \in {"PENDING", "READY"} /\ inv[i].status = "none" /\ Stored(i)
    BY <1>3, <2>1 DEF WorkflowInv
  <2>3. inv[i].step = NoStep /\ outcome[i] = "none" /\ inv[i].step \notin Step
    BY <2>2, WorkflowAssumption DEF Stored
  <2>4. /\ call' \in [Caller -> CallRecord] /\ call'[c].version = 0
        /\ call'[c].at = "execute" /\ call'[c].id \in Invocation
        /\ \A d \in Caller : d # c => call'[d] = call[d]
    BY <1>1, <1>3, RunTyped
  <2> HIDE DEF i, s
  <2>5. WorkflowTypes'
    BY <1>1, <2>1, <2>4 DEF WorkflowInv, WorkflowTypes
  <2>6. ASSUME NEW j \in Invocation PROVE Stored(j)'
    <3>1. CASE j # i
      BY <1>1, <2>1, <3>1, StoredKept
    <3>2. CASE j = i
      <4>1. wf'.version <= wf'.version
        BY <2>1
      <4> QED
        BY <1>1, <2>1, <2>3, <3>2, <4>1 DEF Stored
    <3> QED
      BY <3>1, <3>2
  <2>7. ASSUME NEW t \in Step PROVE CountsAttempts(t)' /\ AcceptedOnce(t)'
    <3>1. CountsAttempts(t) /\ AcceptedOnce(t)
      BY DEF WorkflowInv
    <3>2. Accepted(t)' = Accepted(t)
      BY <1>1, <2>1, <2>3 DEF Accepted
    <3>3. CASE t # s
      <4>1. Attempts(t)' = Attempts(t)
        BY <2>1, <2>3, <3>3 DEF Attempts
      <4> QED
        BY <1>1, <2>1, <3>1, <3>2, <3>3, <4>1 DEF CountsAttempts, AcceptedOnce
    <3>4. CASE t = s
      <4>1. Attempts(t)' = Attempts(t) \cup {i} /\ i \notin Attempts(t)
        BY <2>1, <2>3, <3>4 DEF Attempts
      <4>2. IsFiniteSet(Attempts(t))
        BY <3>1, <3>4 DEF CountsAttempts
      <4>3. /\ IsFiniteSet(Attempts(t)') /\ Cardinality(Attempts(t)) \in Nat
            /\ Cardinality(Attempts(t)') = Cardinality(Attempts(t)) + 1
        BY <4>1, <4>2, FS_AddElement, FS_CardinalityType
      <4>4. wf.maxAttempts \in 1 .. 5 /\ failure[t].attempts \in Nat
        BY <2>1, InstanceFields
      <4>5. Cardinality(Attempts(t)) = failure[t].attempts /\ failure[t].attempts < wf.maxAttempts
        <5>1. CASE wf.steps[t] = "PENDING"
          <6>1. Cardinality(Attempts(t)) = 0 /\ failure[t].attempts = 0
            BY <3>1, <3>4, <5>1 DEF CountsAttempts
          <6> QED
            BY <4>4, <6>1
        <5>2. CASE wf.steps[t] = "READY"
          BY <3>1, <3>4, <5>2 DEF CountsAttempts
        <5> QED
          BY <2>2, <3>4, <5>1, <5>2
      <4>6. CountsAttempts(t)'
        BY <1>1, <2>1, <3>4, <4>3, <4>5 DEF CountsAttempts
      <4>7. Accepted(t) = {}
        BY <2>2, <3>1, <3>4 DEF AcceptedOnce
      <4> QED
        BY <2>1, <3>2, <3>4, <4>6, <4>7 DEF AcceptedOnce
    <3> QED
      BY <3>3, <3>4
  <2>8. OneLiveReservation'
    <3>1. ASSUME NEW j \in Invocation, j # i, inv[j].status # "none" PROVE inv'[j].version # wf'.version
      <4>1. inv[j].version \in Nat /\ inv[j].version <= wf.version /\ wf.version \in Nat
        BY <3>1, InstanceFields DEF WorkflowInv, Stored
      <4> QED
        BY <2>1, <3>1, <4>1
    <3>2. OneLiveReservation
      BY DEF WorkflowInv
    <3> QED
      BY <2>1, <3>1, <3>2 DEF OneLiveReservation
  <2>9. EndsWithLast'
    BY <2>1 DEF EndsWithLast, AllSucceeded
  <2>10. ASSUME NEW d \in Caller PROVE Prepared(d)'
    <3>1. CASE d # c
      BY <2>1, <2>4, <3>1, PreparedKept
    <3>2. CASE d = c
      BY <2>1, <2>4, <3>2, PreparedOver
    <3> QED
      BY <3>1, <3>2
  <2> QED
    BY <2>5, <2>6, <2>7, <2>8, <2>9, <2>10 DEF WorkflowInv
<1> QED
  BY <1>2, <1>3 DEF Reserve

----------------------------------------------------------------------------
(* The theorems.                                                           *)

LEMMA WorkflowStep ==
  ASSUME WorkflowInv, [WorkflowNext]_workflowVars
  PROVE  WorkflowInv'
<1>1. CASE UNCHANGED workflowVars
  <2>1. WorkflowTypes' /\ OneLiveReservation' /\ EndsWithLast'
    BY <1>1 DEF workflowVars, WorkflowInv, WorkflowTypes, OneLiveReservation, EndsWithLast,
       AllSucceeded
  <2>2. \A s \in Step : CountsAttempts(s)' /\ AcceptedOnce(s)'
    BY <1>1 DEF workflowVars, WorkflowInv, CountsAttempts, Attempts, AcceptedOnce, Accepted
  <2>3. (\A i \in Invocation : Stored(i)') /\ \A c \in Caller : Prepared(c)'
    BY <1>1 DEF workflowVars, WorkflowInv, Stored, Prepared
  <2> QED
    BY <2>1, <2>2, <2>3 DEF WorkflowInv
<1>2. ASSUME NEW s \in Step, NEW control \in Control, NEW positive \in BOOLEAN,
             RecordCheckpoint(control, s, positive)
      PROVE  WorkflowInv'
  BY <1>2, RecordStep
<1>3. ASSUME NEW s \in Step, AuthorizeRetry(s) \/ ExecuteRetry(s) PROVE WorkflowInv'
  BY <1>3, AuthorizeStep, RetryStep
<1>4. ASSUME NEW c \in Caller, NEW i \in Invocation, NEW s \in Step, Invoke(c, i, s)
      PROVE  WorkflowInv'
  BY <1>4, InvokeStep
<1>5. ASSUME NEW c \in Caller, Prepare(c) \/ Reserve(c) \/ Resume(c) \/ LoseCall(c)
      PROVE  WorkflowInv'
  BY <1>5, PrepareStep, ReserveStep, ResumeStep, LoseStep
<1>6. ASSUME NEW c \in Caller, NEW answer \in {"good", "poor", "invalid", "error"}, Store(c, answer)
      PROVE  WorkflowInv'
  BY <1>6, StoreStep
<1>7. ASSUME NEW i \in Invocation, inv[i].status # "none",
             Review(i) \/ Reject(i) \/ RecordFailure(i) \/ EvaluateTimeout(i)
      PROVE  WorkflowInv'
  BY <1>7, ReviewStep, RejectStep, RecordFailureStep, TimeoutStep
<1>8. CASE Pause \/ ResumeWorkflow \/ Cancel
  BY <1>8, PauseStep
<1> QED
  BY <1>1, <1>2, <1>3, <1>4, <1>5, <1>6, <1>7, <1>8 DEF WorkflowNext

\* The invariant holds of every state.
THEOREM WorkflowInvariant == WorkflowSpec => []WorkflowInv
<1>1. WorkflowInv /\ [WorkflowNext]_workflowVars => WorkflowInv'
  BY WorkflowStep
<1> QED
  BY <1>1, WorkflowInitInv, PTL DEF WorkflowSpec

\* Every record of the workflow has its type, and no step has failed more often
\* than the service's maxAttempts.
THEOREM WorkflowTyped == WorkflowSpec => []WorkflowTypeOK
<1>1. WorkflowInv => WorkflowTypeOK
  <2> SUFFICES ASSUME WorkflowInv PROVE WorkflowTypeOK
    OBVIOUS
  <2>1. WorkflowTypes
    BY DEF WorkflowInv
  <2>2. /\ wf.definition \in Definition /\ wf.maxAttempts \in MaxAttempts
        /\ wf.version \in 0 .. MaxVersion
        /\ wf.status \in WorkflowStatus /\ wf.steps \in [Step -> StepStatus]
    BY <2>1 DEF WorkflowTypes, Instance
  <2>3. ASSUME NEW s \in Step PROVE failure[s].attempts \in 0 .. wf.maxAttempts
    <3> DEFINE n == failure[s].attempts
               k == wf.maxAttempts
    <3>1. n \in Nat /\ k \in 1 .. 5 /\ wf.steps[s] \in StepStatus /\ CountsAttempts(s)
      BY InstanceFields DEF WorkflowInv
    <3>2. n = 0 \/ n < k \/ n <= k
      BY <3>1 DEF CountsAttempts, StepStatus
    <3> HIDE DEF n, k
    <3>3. n \in 0 .. k
      BY <3>1, <3>2
    <3> QED
      BY <3>3 DEF n, k
  <2>4. failure \in [Step -> [attempts : 0 .. wf.maxAttempts, retryable : BOOLEAN,
                              decision : {"none", "AUTHORIZED", "CONSUMED",
                                          "DENIED_NON_RETRYABLE", "DENIED_EXHAUSTED"}]]
    BY <2>1, <2>3 DEF WorkflowTypes, Failure
  <2> QED
    BY <2>1, <2>2, <2>4 DEF WorkflowTypes, WorkflowTypeOK, WorkflowStatus, StepStatus, Evidence,
       Receipt, Decision, CallRecord
<1> QED
  BY <1>1, WorkflowInvariant, PTL

\* A step ends with one accepted result or none, within its attempts, each of
\* them reserved at a version of its own: however the calls of the invoker race,
\* die and are repeated around the reviews, time-outs, retries and controls.
THEOREM StepsAreSoundHolds == WorkflowSpec => []StepsAreSound
<1>1. WorkflowInv => StepsAreSound
  <2> SUFFICES ASSUME WorkflowInv PROVE StepsAreSound
    OBVIOUS
  <2>1. ASSUME NEW s \in Step
        PROVE  IF wf.steps[s] = "SUCCEEDED" THEN Cardinality(Accepted(s)) = 1 ELSE Accepted(s) = {}
    <3>1. AcceptedOnce(s)
      BY DEF WorkflowInv
    <3>2. \A i \in Invocation : Cardinality({i}) = 1
      BY FS_Singleton
    <3> QED
      BY <3>1, <3>2 DEF AcceptedOnce
  <2>2. ResultsAreAccepted
    BY <2>1 DEF WorkflowInv, Stored, EndsWithLast, ResultsAreAccepted
  <2>3. ASSUME NEW s \in Step PROVE Cardinality({i \in Invocation : inv[i].step = s}) <= wf.maxAttempts
    <3> DEFINE n == failure[s].attempts
               m == Cardinality(Attempts(s))
               k == wf.maxAttempts
    <3>1. /\ n \in Nat /\ k \in 1 .. 5 /\ wf.steps[s] \in StepStatus /\ CountsAttempts(s)
      BY InstanceFields DEF WorkflowInv
    <3>2. m \in Nat
      BY <3>1, FS_CardinalityType DEF CountsAttempts
    <3>3. m = 0 \/ (m = n /\ n < k) \/ (m = n + 1 /\ n < k) \/ (m = n /\ n <= k) \/ m <= k
      BY <3>1 DEF CountsAttempts, StepStatus
    <3> HIDE DEF m, n, k
    <3>4. m <= k
      BY <3>1, <3>2, <3>3
    <3> QED
      BY <3>4 DEF m, k, Attempts
  <2>4. AttemptsAreBounded
    BY <2>3 DEF AttemptsAreBounded
  <2> QED
    BY <2>2, <2>4 DEF WorkflowInv, StepsAreSound
<1> QED
  BY <1>1, WorkflowInvariant, PTL

\* A step is reserved in an active workflow only, after the steps that it needs
\* and under the required controls in force at that moment, although the
\* execution boundary evaluated them in an earlier transaction.
THEOREM ReservedUnderControlsHolds == WorkflowSpec => ReservedUnderControls
<1> DEFINE Reserved(i) ==
      /\ wf.status = "ACTIVE"
      /\ \E s \in Step :
           /\ inv'[i].step = s
           /\ \A d \in wf.definition[s] : wf.steps[d] = "SUCCEEDED"
           /\ \A control \in Control : s \in Required(control) => records[control][s].positive
<1>1. ASSUME WorkflowInv, WorkflowNext, NEW i \in Invocation,
             inv[i].status = "none", inv'[i].status = "RESERVED"
      PROVE  Reserved(i)
  <2>1. inv' # inv /\ inv \in [Invocation -> Receipt]
    BY <1>1 DEF WorkflowInv, WorkflowTypes
  <2>2. ASSUME NEW c \in Caller, NEW answer \in {"good", "poor", "invalid", "error"},
               Store(c, answer)
        PROVE  FALSE
    BY <1>1, <2>1, <2>2 DEF Store
  <2>3. ASSUME NEW j \in Invocation, EvaluateTimeout(j) PROVE FALSE
    BY <1>1, <2>1, <2>3 DEF EvaluateTimeout
  <2>4. PICK c \in Caller : Reserve(c)
    BY <1>1, <2>1, <2>2, <2>3 DEF WorkflowNext, RecordCheckpoint, AuthorizeRetry, ExecuteRetry,
       Invoke, Prepare, Resume, LoseCall, Review, Reject, RecordFailure, Pause, ResumeWorkflow,
       Cancel
  <2>5. /\ call[c].at = "reserve" /\ UnchangedControls(c) /\ Prepared(c) /\ inv[call[c].id].status = "none"
        /\ inv' = [inv EXCEPT ![call[c].id].status = "RESERVED", ![call[c].id].step = call[c].step,
                              ![call[c].id].version = ReservedVersion(call[c].step)]
    BY <1>1, <2>1, <2>4 DEF Reserve, WorkflowInv
  <2>6. call[c].id \in Invocation /\ call[c].step \in Step
    BY <2>5 DEF Prepared
  <2>7. i = call[c].id
    BY <1>1, <2>1, <2>5, <2>6
  <2>8. inv'[i].step = call[c].step
    BY <2>1, <2>5, <2>6, <2>7 DEF Receipt
  <2>9. /\ wf.status = "ACTIVE"
        /\ \A d \in wf.definition[call[c].step] : wf.steps[d] = "SUCCEEDED"
        /\ \A control \in Control :
             call[c].step \in Required(control) => call[c].evidence[control] > 0
    BY <2>5 DEF Prepared, UnchangedControls
  <2>10. \A control \in Control :
           call[c].evidence[control] > 0 => records[control][call[c].step].positive
    BY <1>1, <2>5, <2>6, EvidenceIsPositive DEF UnchangedControls
  <2> QED
    BY <2>6, <2>8, <2>9, <2>10
<1>2. WorkflowInv /\ [WorkflowNext]_workflowVars =>
        [\A i \in Invocation :
           inv[i].status = "none" /\ inv'[i].status = "RESERVED" => Reserved(i)]_workflowVars
  BY <1>1
<1> QED
  BY <1>2, WorkflowInvariant, PTL DEF WorkflowSpec, ReservedUnderControls

\* What was stored of an invocation stays: a late answer changes neither a
\* time-out nor an earlier answer, nor anything of a workflow that is over.
THEOREM LateAnswersChangeNothingHolds == WorkflowSpec => LateAnswersChangeNothing
<1> DEFINE Stays ==
      /\ \A i \in Invocation :
           /\ inv[i].status \in {"COMPLETED", "FAILED"} => inv'[i] = inv[i]
           /\ outcome[i] # "none" => outcome'[i] = outcome[i]
      /\ wf.status \in {"COMPLETED", "CANCELLED"} => wf' = wf
<1>1. ASSUME WorkflowInv, WorkflowNext PROVE Stays
  <2>1. inv \in [Invocation -> Receipt] /\ outcome \in [Invocation -> Decision]
    BY <1>1 DEF WorkflowInv, WorkflowTypes
  <2>2. CASE UNCHANGED <<wf, inv, outcome>>
    BY <2>2
  <2>3. ASSUME NEW s \in Step, ExecuteRetry(s) PROVE Stays
    BY <2>3 DEF ExecuteRetry
  <2>4. ASSUME NEW c \in Caller, Reserve(c) PROVE Stays
    <3>1. CASE UNCHANGED <<wf, inv>>
      BY <2>4, <3>1 DEF Reserve
    <3>2. CASE ~UNCHANGED <<wf, inv>>
      <4>1. /\ call[c].at = "reserve" /\ UnchangedControls(c) /\ Prepared(c)
            /\ inv[call[c].id].status = "none" /\ outcome' = outcome
            /\ inv' = [inv EXCEPT ![call[c].id].status = "RESERVED",
                                  ![call[c].id].step = call[c].step,
                                  ![call[c].id].version = ReservedVersion(call[c].step)]
        BY <1>1, <2>4, <3>2 DEF Reserve, WorkflowInv
      <4>2. wf.status = "ACTIVE"
        BY <4>1 DEF Prepared, UnchangedControls
      <4> QED
        BY <2>1, <4>1, <4>2
    <3> QED
      BY <3>1, <3>2
  <2>5. ASSUME NEW c \in Caller, NEW answer \in {"good", "poor", "invalid", "error"},
               Store(c, answer)
        PROVE  Stays
    BY <2>1, <2>5 DEF Store
  <2>6. ASSUME NEW i \in Invocation, Review(i) PROVE Stays
    BY <2>1, <2>6 DEF Review
  <2>7. ASSUME NEW i \in Invocation, Reject(i) PROVE Stays
    BY <2>1, <2>7 DEF Reject
  <2>8. ASSUME NEW i \in Invocation, RecordFailure(i) PROVE Stays
    BY <2>8 DEF RecordFailure, FailStep
  <2>9. ASSUME NEW i \in Invocation, EvaluateTimeout(i) PROVE Stays
    BY <2>1, <2>9 DEF EvaluateTimeout, FailStep
  <2>10. CASE Pause \/ ResumeWorkflow \/ Cancel
    BY <2>10 DEF Pause, ResumeWorkflow, Cancel
  <2> HIDE DEF Stays
  <2> QED
    BY <1>1, <2>2, <2>3, <2>4, <2>5, <2>6, <2>7, <2>8, <2>9, <2>10
       DEF WorkflowNext, RecordCheckpoint, AuthorizeRetry, Invoke, Prepare, Resume, LoseCall
<1>2. WorkflowInv /\ [WorkflowNext]_workflowVars => [Stays]_workflowVars
  BY <1>1
<1> QED
  BY <1>2, WorkflowInvariant, PTL DEF WorkflowSpec, LateAnswersChangeNothing

----------------------------------------------------------------------------
(* The records of the admin security document and of its requests.         *)

Kind == {"registration", "authentication", "stepUp"}
AdminCommand == {"confirm", "killSwitch", "revokeAll", NoCommand}

ChallengeRecord ==
  [kind : Kind, token : Nat, session : Nat, command : AdminCommand, expires : Nat, used : BOOLEAN]
SessionRecord == [flow : Nat, absolute : Nat, idle : Nat, seen : Nat, revoked : BOOLEAN]
ReceiptRecord ==
  [flow : Nat, session : Nat, command : AdminCommand, expires : Nat, consumed : BOOLEAN, acted : Nat]

RequestRecord ==
  [op : Kind \union {"none", "revokeSession", "beginStepUp", "command", "consumed"},
   at : {"end", "register", "read", "verify", "authenticate", "touch", "authenticated"},
   now : Nat, flow : Nat, session : Nat, receipt : Nat, target : Nat, command : AdminCommand,
   counter : Nat, revoked : BOOLEAN]

DocumentTypes ==
  /\ setting \in Setting /\ time \in Nat
  /\ bootstrap \in [token : Nat, expires : Nat, consumed : BOOLEAN]
  /\ founder \in [registered : BOOLEAN, flow : Nat, counter : Nat]
  /\ challenges \in Seq(ChallengeRecord)
  /\ sessions \in Seq(SessionRecord)
  /\ receipts \in Seq(ReceiptRecord)

AdminTypes == DocumentTypes /\ request \in [Request -> RequestRecord]

(* What a request r may rely on, among challenges cs, sessions ss and       *)
(* receipts rs, while others go on.                                        *)
SoundRequest(r, cs, ss, rs) ==
  /\ r.op \in Kind <=> r.flow # 0
  /\ r.flow # 0 => r.flow \in DOMAIN cs /\ cs[r.flow].used /\ cs[r.flow].kind = r.op
  /\ r.op \in {"stepUp", "revokeSession", "beginStepUp", "command", "consumed"} \/ r.at = "touch" =>
       r.session \in DOMAIN ss
  /\ r.at = "register" => r.op = "registration"
  /\ r.at = "read" => r.op = "authentication"
  /\ r.at = "authenticate" => r.op \in {"stepUp", "consumed"}
  /\ r.op = "stepUp" /\ r.at = "verify" => cs[r.flow].session = r.session
  /\ r.op \in {"command", "consumed"} => r.receipt \in DOMAIN rs
  /\ r.op = "consumed" =>
       /\ rs[r.receipt].consumed /\ rs[r.receipt].acted = 0
       /\ r.revoked => ss[r.session].revoked
       /\ r.at # "authenticate" /\ r.command # "confirm" => ~r.revoked

(* A challenge, and a receipt, is in the hands of one request of those in  *)
(* progress, requests, and what a challenge has made nobody holds.         *)
OneHolder(requests) ==
  \A q, p \in Request : q # p =>
    /\ requests[q].flow # 0 => requests[p].flow # requests[q].flow
    /\ requests[q].op = "consumed" /\ requests[p].op = "consumed" =>
         requests[q].receipt # requests[p].receipt

Unheld(flow, requests) == \A q \in Request : requests[q].flow # flow

SoundSession(s, ss, cs, requests) ==
  /\ ss[s].idle <= ss[s].absolute
  /\ ss[s].flow # 0 =>
       /\ ss[s].flow \in DOMAIN cs
       /\ cs[ss[s].flow].used /\ cs[ss[s].flow].kind = "authentication"
       /\ Unheld(ss[s].flow, requests)
       /\ \A t \in DOMAIN ss : ss[t].flow = ss[s].flow => t = s

SoundReceipt(r, rs, ss, cs, requests) ==
  /\ rs[r].session \in DOMAIN ss
  /\ rs[r].flow # 0 /\ rs[r].flow \in DOMAIN cs
  /\ cs[rs[r].flow].used /\ cs[rs[r].flow].kind = "stepUp"
  /\ rs[r].session = cs[rs[r].flow].session /\ rs[r].command = cs[rs[r].flow].command
  /\ Unheld(rs[r].flow, requests)
  /\ \A t \in DOMAIN rs : rs[t].flow = rs[r].flow => t = r
  /\ rs[r].acted <= 1 /\ (rs[r].acted = 1 => rs[r].consumed)

SoundFounder(f, boot, cs, requests) ==
  f.flow # 0 =>
    /\ f.registered /\ boot.consumed
    /\ f.flow \in DOMAIN cs
    /\ cs[f.flow].used /\ cs[f.flow].kind = "registration" /\ cs[f.flow].token = boot.token
    /\ Unheld(f.flow, requests)

AdminInv ==
  /\ AdminTypes
  /\ \A q \in Request : SoundRequest(request[q], challenges, sessions, receipts)
  /\ OneHolder(request)
  /\ \A s \in DOMAIN sessions : SoundSession(s, sessions, challenges, request)
  /\ \A r \in DOMAIN receipts : SoundReceipt(r, receipts, sessions, challenges, request)
  /\ SoundFounder(founder, bootstrap, challenges, request)

----------------------------------------------------------------------------
(* The records.                                                            *)

LEMMA IdleTyped ==
  /\ Idle \in RequestRecord /\ Idle.op = "none" /\ Idle.at = "end" /\ Idle.flow = 0
  /\ Idle.session = 0 /\ Idle.receipt = 0 /\ Idle.command = NoCommand /\ ~Idle.revoked
BY DEF Idle, RequestRecord, AdminCommand

LEMMA IdleIsSound == \A cs, ss, rs : SoundRequest(Idle, cs, ss, rs)
BY IdleTyped DEF SoundRequest, Kind

LEMMA LesserOf ==
  ASSUME NEW m \in Nat, NEW n \in Nat
  PROVE  Min({m, n}) \in Nat /\ Min({m, n}) <= m
<1>1. CASE m <= n
  BY <1>1 DEF Min
<1>2. CASE n < m
  BY <1>2 DEF Min
<1> QED
  BY <1>1, <1>2

LEMMA NewSession ==
  ASSUME NEW flow \in Nat, NEW now \in Nat
  PROVE  /\ SessionFrom(flow, now) \in SessionRecord
         /\ SessionFrom(flow, now).flow = flow /\ ~SessionFrom(flow, now).revoked
         /\ SessionFrom(flow, now).idle <= SessionFrom(flow, now).absolute
<1>1. now + Ttl.absolute \in Nat /\ now + Ttl.idle \in Nat
  BY AdminAssumption
<1> DEFINE idle == Min({now + Ttl.absolute, now + Ttl.idle})
<1>2. idle \in Nat /\ idle <= now + Ttl.absolute
  BY <1>1, LesserOf
<1>3. SessionFrom(flow, now) =
        [flow |-> flow, absolute |-> now + Ttl.absolute, idle |-> idle, seen |-> now, revoked |-> FALSE]
  BY DEF SessionFrom
<1> HIDE DEF idle
<1> QED
  BY <1>1, <1>2, <1>3 DEF SessionRecord

LEMMA RecentIsNatural ==
  ASSUME AdminTypes, NEW now \in Recent
  PROVE  now \in Nat
BY DEF Recent, AdminTypes, DocumentTypes

LEMMA SequenceTyped ==
  ASSUME NEW S, NEW s \in Seq(S)
  PROVE  /\ Len(s) \in Nat /\ DOMAIN s = 1..Len(s)
         /\ \A i \in DOMAIN s : s[i] \in S
BY LenProperties, ElementOfSeq

\* One more at the end.
LEMMA SequenceGrows ==
  ASSUME NEW S, NEW s \in Seq(S), NEW e \in S
  PROVE  /\ Append(s, e) \in Seq(S)
         /\ DOMAIN Append(s, e) = DOMAIN s \union {Len(s) + 1}
         /\ Len(s) + 1 \notin DOMAIN s
         /\ Append(s, e)[Len(s) + 1] = e
         /\ \A i \in DOMAIN s : Append(s, e)[i] = s[i]
<1>1. /\ Append(s, e) \in Seq(S) /\ Len(Append(s, e)) = Len(s) + 1
      /\ \A i \in 1..Len(s) : Append(s, e)[i] = s[i]
      /\ Append(s, e)[Len(s) + 1] = e
  BY AppendProperties
<1>2. Len(s) \in Nat /\ DOMAIN s = 1..Len(s)
  BY SequenceTyped
<1>3. DOMAIN Append(s, e) = 1..(Len(s) + 1)
  BY <1>1, SequenceTyped
<1> QED
  BY <1>1, <1>2, <1>3

\* The members of a sequence are replaced.
LEMMA SequenceMapped ==
  ASSUME NEW S, NEW s \in Seq(S), NEW t, t = [i \in DOMAIN s |-> t[i]],
         \A i \in DOMAIN s : t[i] \in S
  PROVE  t \in Seq(S) /\ DOMAIN t = DOMAIN s
<1>1. Len(s) \in Nat /\ DOMAIN s = 1..Len(s)
  BY SequenceTyped
<1>2. t \in [1..Len(s) -> S]
  BY <1>1
<1> QED
  BY <1>1, <1>2, SeqDef

LEMMA AdminInitInv == AdminInit => AdminInv
<1> SUFFICES ASSUME AdminInit PROVE AdminInv
  OBVIOUS
<1>1. setting \in Setting /\ setting.registered \in BOOLEAN
  BY AdminAssumption DEF AdminInit
<1>2. /\ SessionFrom(0, 0) \in SessionRecord /\ SessionFrom(0, 0).flow = 0
      /\ SessionFrom(0, 0).idle <= SessionFrom(0, 0).absolute
  BY NewSession
<1> DEFINE ss == IF setting.registered THEN <<SessionFrom(0, 0)>> ELSE <<>>
<1>3. ss \in Seq(SessionRecord) /\ \A s \in DOMAIN ss : ss[s] = SessionFrom(0, 0)
  BY <1>2
<1>4. /\ sessions = ss /\ challenges = <<>> /\ receipts = <<>> /\ time = 0
      /\ founder = [registered |-> setting.registered, flow |-> 0, counter |-> 0]
      /\ bootstrap = [token |-> 0, expires |-> 0, consumed |-> setting.registered]
      /\ request = [q \in Request |-> Idle]
  BY DEF AdminInit
<1> HIDE DEF ss
<1>5. AdminTypes
  BY <1>1, <1>3, <1>4, IdleTyped DEF AdminTypes, DocumentTypes
<1>6. \A q \in Request : request[q] = Idle
  BY <1>4
<1>7. \A q \in Request : SoundRequest(request[q], challenges, sessions, receipts)
  BY <1>6, IdleIsSound
<1>8. OneHolder(request)
  BY <1>6, IdleTyped DEF OneHolder
<1>9. \A s \in DOMAIN sessions : SoundSession(s, sessions, challenges, request)
  BY <1>2, <1>3, <1>4 DEF SoundSession
<1>10. \A r \in DOMAIN receipts : SoundReceipt(r, receipts, sessions, challenges, request)
  BY <1>4
<1>11. SoundFounder(founder, bootstrap, challenges, request)
  BY <1>4 DEF SoundFounder
<1> QED
  BY <1>5, <1>7, <1>8, <1>9, <1>10, <1>11 DEF AdminInv

----------------------------------------------------------------------------
(* What stays when a document changes as documents may.                    *)

ChallengesStay(cs, next) ==
  \A f \in DOMAIN cs : /\ f \in DOMAIN next
                       /\ next[f].kind = cs[f].kind /\ next[f].token = cs[f].token
                       /\ next[f].session = cs[f].session /\ next[f].command = cs[f].command
                       /\ cs[f].used => next[f].used

SessionsStay(ss, next) ==
  \A s \in DOMAIN ss : s \in DOMAIN next /\ (ss[s].revoked => next[s].revoked)

ReceiptsStay(rs, next) ==
  \A r \in DOMAIN rs : /\ r \in DOMAIN next
                       /\ rs[r].consumed => next[r].consumed
                       /\ rs[r].acted = 0 => next[r].acted = 0

LEMMA NothingMoves ==
  ASSUME NEW x
  PROVE  ChallengesStay(x, x) /\ SessionsStay(x, x) /\ ReceiptsStay(x, x)
BY DEF ChallengesStay, SessionsStay, ReceiptsStay

LEMMA RequestStaysSound ==
  ASSUME NEW r, NEW cs, NEW ss, NEW rs, SoundRequest(r, cs, ss, rs),
         NEW cs2, ChallengesStay(cs, cs2), NEW ss2, SessionsStay(ss, ss2), NEW rs2,
         r.op \in {"command", "consumed"} => r.receipt \in DOMAIN rs2,
         r.op = "consumed" => /\ rs[r.receipt].consumed => rs2[r.receipt].consumed
                              /\ rs[r.receipt].acted = 0 => rs2[r.receipt].acted = 0
  PROVE  SoundRequest(r, cs2, ss2, rs2)
<1>1. /\ r.op \in Kind <=> r.flow # 0
      /\ r.flow # 0 => r.flow \in DOMAIN cs2 /\ cs2[r.flow].used /\ cs2[r.flow].kind = r.op
  BY DEF SoundRequest, ChallengesStay
<1>2. r.op \in {"stepUp", "revokeSession", "beginStepUp", "command", "consumed"} \/ r.at = "touch" =>
        r.session \in DOMAIN ss2
  BY DEF SoundRequest, SessionsStay
<1>3. /\ r.at = "register" => r.op = "registration"
      /\ r.at = "read" => r.op = "authentication"
      /\ r.at = "authenticate" => r.op \in {"stepUp", "consumed"}
      /\ r.op \in {"command", "consumed"} => r.receipt \in DOMAIN rs2
  BY DEF SoundRequest
<1>4. r.op = "stepUp" /\ r.at = "verify" => cs2[r.flow].session = r.session
  <2> SUFFICES ASSUME r.op = "stepUp", r.at = "verify" PROVE cs2[r.flow].session = r.session
    OBVIOUS
  <2>1. r.flow \in DOMAIN cs /\ cs[r.flow].session = r.session
    BY DEF SoundRequest, Kind
  <2> QED
    BY <2>1 DEF ChallengesStay
<1>5. r.op = "consumed" =>
       /\ rs2[r.receipt].consumed /\ rs2[r.receipt].acted = 0
       /\ r.revoked => ss2[r.session].revoked
       /\ r.at # "authenticate" /\ r.command # "confirm" => ~r.revoked
  <2> SUFFICES ASSUME r.op = "consumed"
               PROVE  /\ rs2[r.receipt].consumed /\ rs2[r.receipt].acted = 0
                      /\ r.revoked => ss2[r.session].revoked
                      /\ r.at # "authenticate" /\ r.command # "confirm" => ~r.revoked
    OBVIOUS
  <2>1. /\ rs[r.receipt].consumed /\ rs[r.receipt].acted = 0 /\ r.session \in DOMAIN ss
        /\ r.revoked => ss[r.session].revoked
        /\ r.at # "authenticate" /\ r.command # "confirm" => ~r.revoked
    BY DEF SoundRequest
  <2> QED
    BY <2>1 DEF SessionsStay
<1> QED
  BY <1>1, <1>2, <1>3, <1>4, <1>5 DEF SoundRequest

\* A session keeps its flow, and a flow what it is, whoever holds it.
LEMMA SessionStaysSound ==
  ASSUME NEW ss, NEW cs, NEW requests, NEW s \in DOMAIN ss, SoundSession(s, ss, cs, requests),
         NEW ss2, DOMAIN ss2 = DOMAIN ss, \A t \in DOMAIN ss : ss2[t].flow = ss[t].flow,
         ss2[s].idle <= ss2[s].absolute,
         NEW cs2, ChallengesStay(cs, cs2), NEW requests2,
         ss[s].flow # 0 => Unheld(ss[s].flow, requests2)
  PROVE  SoundSession(s, ss2, cs2, requests2)
BY DEF SoundSession, ChallengesStay

LEMMA ReceiptStaysSound ==
  ASSUME NEW rs, NEW ss, NEW cs, NEW requests, NEW r \in DOMAIN rs,
         SoundReceipt(r, rs, ss, cs, requests),
         NEW rs2, DOMAIN rs2 = DOMAIN rs,
         \A t \in DOMAIN rs : rs2[t].flow = rs[t].flow,
         rs2[r].session = rs[r].session, rs2[r].command = rs[r].command,
         rs2[r].acted <= 1 /\ (rs2[r].acted = 1 => rs2[r].consumed),
         NEW ss2, SessionsStay(ss, ss2), NEW cs2, ChallengesStay(cs, cs2),
         NEW requests2, Unheld(rs[r].flow, requests2)
  PROVE  SoundReceipt(r, rs2, ss2, cs2, requests2)
BY DEF SoundReceipt, ChallengesStay, SessionsStay

LEMMA FounderStaysSound ==
  ASSUME NEW f, NEW boot, NEW cs, NEW requests, SoundFounder(f, boot, cs, requests),
         NEW cs2, ChallengesStay(cs, cs2), NEW requests2, f.flow # 0 => Unheld(f.flow, requests2)
  PROVE  SoundFounder(f, boot, cs2, requests2)
BY DEF SoundFounder, ChallengesStay

\* The flow of a request that gives up, goes on or takes a challenge that was not
\* used: nothing that was made becomes held.
LEMMA StaysUnheld ==
  ASSUME NEW requests, NEW requests2, NEW flow, Unheld(flow, requests),
         \A q \in Request : requests2[q].flow = requests[q].flow \/ requests2[q].flow # flow
  PROVE  Unheld(flow, requests2)
BY DEF Unheld

----------------------------------------------------------------------------
(* Steps that append nothing to the sessions or receipts and register      *)
(* nobody.                                                                 *)

LEMMA FlowsAreKnown ==
  ASSUME AdminInv
  PROVE  /\ \A s \in DOMAIN sessions : sessions[s].flow # 0 =>
              /\ sessions[s].flow \in DOMAIN challenges
              /\ challenges[sessions[s].flow].used /\ Unheld(sessions[s].flow, request)
         /\ \A r \in DOMAIN receipts :
              /\ receipts[r].flow \in DOMAIN challenges
              /\ challenges[receipts[r].flow].used /\ Unheld(receipts[r].flow, request)
         /\ founder.flow # 0 =>
              /\ founder.flow \in DOMAIN challenges
              /\ challenges[founder.flow].used /\ Unheld(founder.flow, request)
BY DEF AdminInv, SoundSession, SoundReceipt, SoundFounder

\* requests2 holds no used challenge that requests does not hold.
TakesNoUsed(requests, requests2, cs) ==
  \A f \in DOMAIN cs : cs[f].used /\ Unheld(f, requests) => Unheld(f, requests2)

LEMMA GentleStep ==
  ASSUME AdminInv, AdminTypes', OneHolder(request'),
         \A q \in Request : SoundRequest(request'[q], challenges', sessions', receipts'),
         TakesNoUsed(request, request', challenges),
         ChallengesStay(challenges, challenges'), SessionsStay(sessions, sessions'),
         DOMAIN sessions' = DOMAIN sessions, DOMAIN receipts' = DOMAIN receipts,
         \A s \in DOMAIN sessions : /\ sessions'[s].flow = sessions[s].flow
                                    /\ sessions'[s].idle <= sessions'[s].absolute,
         \A r \in DOMAIN receipts :
           /\ receipts'[r].flow = receipts[r].flow
           /\ receipts'[r].session = receipts[r].session
           /\ receipts'[r].command = receipts[r].command
           /\ receipts'[r].acted <= 1 /\ (receipts'[r].acted = 1 => receipts'[r].consumed),
         founder' = founder, bootstrap' = bootstrap
  PROVE  AdminInv'
<1>1. \A s \in DOMAIN sessions' : SoundSession(s, sessions', challenges', request')
  <2> TAKE s \in DOMAIN sessions'
  <2>1. s \in DOMAIN sessions /\ SoundSession(s, sessions, challenges, request)
    BY DEF AdminInv
  <2>2. sessions[s].flow # 0 => Unheld(sessions[s].flow, request')
    BY <2>1, FlowsAreKnown DEF TakesNoUsed
  <2> QED
    BY <2>1, <2>2, SessionStaysSound
<1>2. \A r \in DOMAIN receipts' : SoundReceipt(r, receipts', sessions', challenges', request')
  <2> TAKE r \in DOMAIN receipts'
  <2>1. r \in DOMAIN receipts /\ SoundReceipt(r, receipts, sessions, challenges, request)
    BY DEF AdminInv
  <2>2. Unheld(receipts[r].flow, request')
    BY <2>1, FlowsAreKnown DEF TakesNoUsed
  <2> QED
    BY <2>1, <2>2, ReceiptStaysSound
<1>3. SoundFounder(founder, bootstrap, challenges', request')
  <2>1. SoundFounder(founder, bootstrap, challenges, request)
    BY DEF AdminInv
  <2>2. founder.flow # 0 => Unheld(founder.flow, request')
    BY FlowsAreKnown DEF TakesNoUsed
  <2> QED
    BY <2>1, <2>2, FounderStaysSound
<1> QED
  BY <1>1, <1>2, <1>3 DEF AdminInv

\* Requests may give up what they hold.
Released(requests, requests2) ==
  \A q \in Request :
    /\ requests2[q].flow = 0 \/ requests2[q].flow = requests[q].flow
    /\ requests2[q].op = "consumed" =>
         requests[q].op = "consumed" /\ requests2[q].receipt = requests[q].receipt

LEMMA ReleasedIsHeldByOne ==
  ASSUME NEW requests, NEW requests2, Released(requests, requests2), OneHolder(requests)
  PROVE  OneHolder(requests2)
<1> SUFFICES ASSUME NEW q \in Request, NEW p \in Request, q # p
             PROVE  /\ requests2[q].flow # 0 => requests2[p].flow # requests2[q].flow
                    /\ requests2[q].op = "consumed" /\ requests2[p].op = "consumed" =>
                         requests2[q].receipt # requests2[p].receipt
  BY DEF OneHolder
<1>1. /\ requests[q].flow # 0 => requests[p].flow # requests[q].flow
      /\ requests[q].op = "consumed" /\ requests[p].op = "consumed" =>
           requests[q].receipt # requests[p].receipt
  BY DEF OneHolder
<1>2. /\ requests2[q].flow = 0 \/ requests2[q].flow = requests[q].flow
      /\ requests2[p].flow = 0 \/ requests2[p].flow = requests[p].flow
      /\ requests2[q].op = "consumed" =>
           requests[q].op = "consumed" /\ requests2[q].receipt = requests[q].receipt
      /\ requests2[p].op = "consumed" =>
           requests[p].op = "consumed" /\ requests2[p].receipt = requests[p].receipt
  BY DEF Released
<1> QED
  BY <1>1, <1>2

LEMMA ReleasedTakesNothing ==
  ASSUME NEW requests, NEW requests2, Released(requests, requests2),
         NEW cs, 0 \notin DOMAIN cs
  PROVE  TakesNoUsed(requests, requests2, cs)
BY DEF Released, TakesNoUsed, Unheld

\* One request goes on to what n says.
LEMMA RequestGoesOn ==
  ASSUME AdminInv, NEW q \in Request, NEW n \in RequestRecord,
         request' = [request EXCEPT ![q] = n],
         n.flow = 0 \/ n.flow = request[q].flow,
         n.op = "consumed" => request[q].op = "consumed" /\ n.receipt = request[q].receipt
  PROVE  /\ request' \in [Request -> RequestRecord]
         /\ request'[q] = n /\ \A p \in Request : p # q => request'[p] = request[p]
         /\ Released(request, request') /\ OneHolder(request')
         /\ TakesNoUsed(request, request', challenges)
<1>1. request \in [Request -> RequestRecord] /\ OneHolder(request)
  BY DEF AdminInv, AdminTypes
<1>2. /\ request' \in [Request -> RequestRecord]
      /\ request'[q] = n /\ \A p \in Request : p # q => request'[p] = request[p]
  BY <1>1
<1>3. Released(request, request')
  BY <1>2 DEF Released
<1>4. 0 \notin DOMAIN challenges
  BY SequenceTyped DEF AdminInv, AdminTypes, DocumentTypes
<1> QED
  BY <1>1, <1>2, <1>3, <1>4, ReleasedIsHeldByOne, ReleasedTakesNothing

\* A request of which the others are told nothing.
LEMMA OnlyRequest ==
  ASSUME AdminInv, NEW q \in Request, NEW n \in RequestRecord,
         request' = [request EXCEPT ![q] = n],
         n.flow = 0 \/ n.flow = request[q].flow,
         n.op = "consumed" => request[q].op = "consumed" /\ n.receipt = request[q].receipt,
         SoundRequest(n, challenges, sessions, receipts),
         UNCHANGED <<setting, time, bootstrap, founder, challenges, sessions, receipts>>
  PROVE  AdminInv'
<1>1. /\ request' \in [Request -> RequestRecord]
      /\ request'[q] = n /\ \A p \in Request : p # q => request'[p] = request[p]
      /\ OneHolder(request') /\ TakesNoUsed(request, request', challenges)
  BY RequestGoesOn
<1>2. AdminTypes'
  BY <1>1 DEF AdminInv, AdminTypes, DocumentTypes
<1>3. \A p \in Request : SoundRequest(request'[p], challenges', sessions', receipts')
  BY <1>1 DEF AdminInv
<1>4. /\ ChallengesStay(challenges, challenges') /\ SessionsStay(sessions, sessions')
  BY NothingMoves
<1>5. /\ \A s \in DOMAIN sessions : sessions[s].idle <= sessions[s].absolute
      /\ \A r \in DOMAIN receipts :
           receipts[r].acted <= 1 /\ (receipts[r].acted = 1 => receipts[r].consumed)
  BY DEF AdminInv, SoundSession, SoundReceipt
<1> QED
  BY <1>1, <1>2, <1>3, <1>4, <1>5, GentleStep

LEMMA AbandonKeeps ==
  ASSUME AdminInv, NEW q \in Request, Abandon(q)
  PROVE  AdminInv'
BY IdleTyped, IdleIsSound, OnlyRequest DEF Abandon

LEMMA ReadCredentialKeeps ==
  ASSUME AdminInv, NEW q \in Request, ReadCredential(q)
  PROVE  AdminInv'
<1> DEFINE r == request[q]
           n == [r EXCEPT !.at = "verify", !.counter = founder.counter]
<1>1. r \in RequestRecord /\ SoundRequest(r, challenges, sessions, receipts)
  BY DEF AdminInv, AdminTypes
<1>2. founder.counter \in Nat
  BY DEF AdminInv, AdminTypes, DocumentTypes
<1>3. /\ n \in RequestRecord /\ n.at = "verify"
      /\ n.op = r.op /\ n.flow = r.flow /\ n.session = r.session /\ n.receipt = r.receipt
      /\ n.command = r.command /\ n.revoked = r.revoked
  BY <1>1, <1>2 DEF RequestRecord
<1>4. /\ r.at = "read" \/ (r.op = "stepUp" /\ challenges[r.flow].session = r.session)
      /\ request' = [request EXCEPT ![q].at = "verify", ![q].counter = founder.counter]
      /\ UNCHANGED <<setting, time, bootstrap, founder, challenges, sessions, receipts>>
  BY DEF ReadCredential
<1>5. request' = [request EXCEPT ![q] = n]
  BY <1>1, <1>4 DEF AdminInv, AdminTypes
<1> HIDE DEF r, n
<1>6. SoundRequest(n, challenges, sessions, receipts)
  BY <1>1, <1>3, <1>4 DEF SoundRequest, Kind
<1> QED
  BY <1>3, <1>4, <1>5, <1>6, OnlyRequest DEF r

\* A request that authenticated, or has to touch its session first.
LEMMA AuthenticatedIs ==
  ASSUME AdminInv, NEW q \in Request, NEW asked \in RequestRecord, Authenticated(q, asked)
  PROVE  /\ ~sessions[asked.session].revoked
         /\ \E n \in RequestRecord :
              /\ request' = [request EXCEPT ![q] = n] /\ n.at \in {"authenticated", "touch"}
              /\ n.op = asked.op /\ n.flow = asked.flow /\ n.session = asked.session
              /\ n.receipt = asked.receipt /\ n.command = asked.command
              /\ n.revoked = asked.revoked
<1>1. PICK now \in Recent :
        /\ Active(asked.session, now)
        /\ request' = [request EXCEPT ![q] =
             IF now - sessions[asked.session].seen < setting.touch
               THEN [asked EXCEPT !.at = "authenticated"]
               ELSE [asked EXCEPT !.at = "touch", !.now = now]]
  BY DEF Authenticated
<1>2. now \in Nat
  BY RecentIsNatural DEF AdminInv
<1>3. [asked EXCEPT !.at = "authenticated"] \in RequestRecord
  BY DEF RequestRecord
<1>4. [asked EXCEPT !.at = "touch", !.now = now] \in RequestRecord
  BY <1>2 DEF RequestRecord
<1> DEFINE n == IF now - sessions[asked.session].seen < setting.touch
                  THEN [asked EXCEPT !.at = "authenticated"]
                  ELSE [asked EXCEPT !.at = "touch", !.now = now]
<1>5. n \in RequestRecord
  BY <1>3, <1>4
<1>6. /\ n.at \in {"authenticated", "touch"}
      /\ n.op = asked.op /\ n.flow = asked.flow /\ n.session = asked.session
      /\ n.receipt = asked.receipt /\ n.command = asked.command
      /\ n.revoked = asked.revoked
  BY DEF RequestRecord
<1>7. request' = [request EXCEPT ![q] = n]
  BY <1>1
<1>8. ~sessions[asked.session].revoked
  BY <1>1 DEF Active
<1> HIDE DEF n
<1> QED
  BY <1>5, <1>6, <1>7, <1>8

LEMMA AuthenticateSessionKeeps ==
  ASSUME AdminInv, NEW q \in Request, AuthenticateSession(q)
  PROVE  AdminInv'
<1> DEFINE r == request[q]
<1>1. r \in RequestRecord /\ SoundRequest(r, challenges, sessions, receipts)
  BY DEF AdminInv, AdminTypes
<1>2. /\ r.at = "authenticate" /\ Authenticated(q, r)
      /\ UNCHANGED <<setting, time, bootstrap, founder, challenges, sessions, receipts>>
  BY DEF AuthenticateSession
<1>3. ~sessions[r.session].revoked
  BY <1>1, <1>2, AuthenticatedIs
<1>4. PICK n \in RequestRecord :
        /\ request' = [request EXCEPT ![q] = n] /\ n.at \in {"authenticated", "touch"}
        /\ n.op = r.op /\ n.flow = r.flow /\ n.session = r.session
        /\ n.receipt = r.receipt /\ n.command = r.command /\ n.revoked = r.revoked
  BY <1>1, <1>2, AuthenticatedIs
<1> HIDE DEF r
<1>5. SoundRequest(n, challenges, sessions, receipts)
  BY <1>1, <1>2, <1>3, <1>4 DEF SoundRequest
<1> QED
  BY <1>2, <1>4, <1>5, OnlyRequest DEF r

\* An idle request that is made for a session, and what else it names.
LEMMA AskedKeeps ==
  ASSUME AdminInv, NEW q \in Request, request[q] = Idle,
         NEW asked \in RequestRecord, Authenticated(q, asked),
         asked.op \in {"revokeSession", "beginStepUp", "command"},
         asked.flow = 0, asked.session \in DOMAIN sessions,
         asked.op = "command" => asked.receipt \in DOMAIN receipts,
         UNCHANGED <<setting, time, bootstrap, founder, challenges, sessions, receipts>>
  PROVE  AdminInv'
<1>1. PICK n \in RequestRecord :
        /\ request' = [request EXCEPT ![q] = n] /\ n.at \in {"authenticated", "touch"}
        /\ n.op = asked.op /\ n.flow = asked.flow /\ n.session = asked.session
        /\ n.receipt = asked.receipt /\ n.command = asked.command /\ n.revoked = asked.revoked
  BY AuthenticatedIs
<1>2. SoundRequest(n, challenges, sessions, receipts)
  BY <1>1 DEF SoundRequest, Kind
<1> QED
  BY <1>1, <1>2, OnlyRequest

LEMMA AskForSessionKeeps ==
  ASSUME AdminInv, NEW q \in Request, AskForSession(q)
  PROVE  AdminInv'
<1>1. PICK s \in DOMAIN sessions, target \in DOMAIN sessions :
        Authenticated(q, [Idle EXCEPT !.op = "revokeSession", !.session = s, !.target = target])
  BY DEF AskForSession
<1> DEFINE n == [Idle EXCEPT !.op = "revokeSession", !.session = s, !.target = target]
<1>2. s \in Nat /\ target \in Nat
  BY SequenceTyped DEF AdminInv, AdminTypes, DocumentTypes
<1>3. /\ n \in RequestRecord /\ n.op = "revokeSession" /\ n.flow = 0 /\ n.session = s
  BY <1>2, IdleTyped DEF RequestRecord
<1>4. /\ request[q] = Idle
      /\ UNCHANGED <<setting, time, bootstrap, founder, challenges, sessions, receipts>>
  BY DEF AskForSession
<1>5. Authenticated(q, n)
  BY <1>1
<1> HIDE DEF n
<1> QED
  BY <1>3, <1>4, <1>5, AskedKeeps

LEMMA CommandsAreTyped ==
  ASSUME AdminInv
  PROVE  setting.commands \subseteq AdminCommand
BY AdminAssumption DEF AdminInv, AdminTypes, DocumentTypes, AdminCommand

LEMMA AskForStepUpKeeps ==
  ASSUME AdminInv, NEW q \in Request, AskForStepUp(q)
  PROVE  AdminInv'
<1>1. PICK s \in DOMAIN sessions, c \in setting.commands :
        Authenticated(q, [Idle EXCEPT !.op = "beginStepUp", !.session = s, !.command = c])
  BY DEF AskForStepUp
<1> DEFINE n == [Idle EXCEPT !.op = "beginStepUp", !.session = s, !.command = c]
<1>2. s \in Nat /\ c \in AdminCommand
  BY SequenceTyped, CommandsAreTyped DEF AdminInv, AdminTypes, DocumentTypes
<1>3. /\ n \in RequestRecord /\ n.op = "beginStepUp" /\ n.flow = 0 /\ n.session = s
  BY <1>2, IdleTyped DEF RequestRecord
<1>4. /\ request[q] = Idle
      /\ UNCHANGED <<setting, time, bootstrap, founder, challenges, sessions, receipts>>
  BY DEF AskForStepUp
<1>5. Authenticated(q, n)
  BY <1>1
<1> HIDE DEF n
<1> QED
  BY <1>3, <1>4, <1>5, AskedKeeps

LEMMA AskForCommandKeeps ==
  ASSUME AdminInv, NEW q \in Request, AskForCommand(q)
  PROVE  AdminInv'
<1>1. PICK r \in DOMAIN receipts, s \in DOMAIN sessions, c \in setting.commands :
        Authenticated(q, [Idle EXCEPT !.op = "command", !.session = s, !.receipt = r,
                                      !.command = c])
  BY DEF AskForCommand
<1> DEFINE n == [Idle EXCEPT !.op = "command", !.session = s, !.receipt = r, !.command = c]
<1>2. r \in Nat /\ s \in Nat /\ c \in AdminCommand
  BY SequenceTyped, CommandsAreTyped DEF AdminInv, AdminTypes, DocumentTypes
<1>3. /\ n \in RequestRecord /\ n.op = "command" /\ n.flow = 0 /\ n.session = s /\ n.receipt = r
  BY <1>2, IdleTyped DEF RequestRecord
<1>4. /\ request[q] = Idle
      /\ UNCHANGED <<setting, time, bootstrap, founder, challenges, sessions, receipts>>
  BY DEF AskForCommand
<1>5. Authenticated(q, n)
  BY <1>1
<1> HIDE DEF n
<1> QED
  BY <1>3, <1>4, <1>5, AskedKeeps

\* A challenge more.
LEMMA ChallengeAdded ==
  ASSUME AdminInv, NEW kind \in Kind, NEW token \in Nat, NEW session \in Nat,
         NEW command \in AdminCommand, NewChallenge(kind, token, session, command)
  PROVE  challenges' \in Seq(ChallengeRecord) /\ ChallengesStay(challenges, challenges')
<1>1. PICK now \in Recent :
        challenges' = Append(challenges,
          [kind |-> kind, token |-> token, session |-> session, command |-> command,
           expires |-> now + Ttl.challenge, used |-> FALSE])
  BY DEF NewChallenge
<1>2. now + Ttl.challenge \in Nat /\ challenges \in Seq(ChallengeRecord)
  <2>1. now \in Nat
    BY RecentIsNatural DEF AdminInv
  <2>2. Ttl.challenge \in Nat
    BY AdminAssumption
  <2> QED
    BY <2>1, <2>2 DEF AdminInv, AdminTypes, DocumentTypes
<1> DEFINE c == [kind |-> kind, token |-> token, session |-> session, command |-> command,
                 expires |-> now + Ttl.challenge, used |-> FALSE]
<1>3. c \in ChallengeRecord
  BY <1>2 DEF ChallengeRecord
<1>4. challenges' = Append(challenges, c)
  BY <1>1
<1> HIDE DEF c
<1>5. /\ Append(challenges, c) \in Seq(ChallengeRecord)
      /\ DOMAIN Append(challenges, c) = DOMAIN challenges \union {Len(challenges) + 1}
      /\ \A i \in DOMAIN challenges : Append(challenges, c)[i] = challenges[i]
  BY <1>2, <1>3, SequenceGrows
<1> QED
  BY <1>4, <1>5 DEF ChallengesStay

LEMMA ChallengeKeeps ==
  ASSUME AdminInv, challenges' \in Seq(ChallengeRecord), ChallengesStay(challenges, challenges'),
         request' \in [Request -> RequestRecord], Released(request, request'),
         \A q \in Request : SoundRequest(request'[q], challenges, sessions, receipts),
         UNCHANGED <<setting, time, bootstrap, founder, sessions, receipts>>
  PROVE  AdminInv'
<1>1. AdminTypes'
  BY DEF AdminInv, AdminTypes, DocumentTypes
<1>2. 0 \notin DOMAIN challenges
  BY SequenceTyped DEF AdminInv, AdminTypes, DocumentTypes
<1>3. OneHolder(request') /\ TakesNoUsed(request, request', challenges)
  BY <1>2, ReleasedIsHeldByOne, ReleasedTakesNothing DEF AdminInv
<1>4. SessionsStay(sessions, sessions')
  BY NothingMoves
<1>5. \A q \in Request : SoundRequest(request'[q], challenges', sessions', receipts')
  <2> TAKE q \in Request
  <2> DEFINE r == request'[q]
  <2>1. SoundRequest(r, challenges, sessions, receipts)
    OBVIOUS
  <2>2. r.op \in {"command", "consumed"} => r.receipt \in DOMAIN receipts'
    BY <2>1 DEF SoundRequest
  <2> HIDE DEF r
  <2>3. SoundRequest(r, challenges', sessions', receipts')
    BY <1>4, <2>1, <2>2, RequestStaysSound
  <2> QED
    BY <2>3 DEF r
<1>6. /\ \A s \in DOMAIN sessions : sessions[s].idle <= sessions[s].absolute
      /\ \A r \in DOMAIN receipts :
           receipts[r].acted <= 1 /\ (receipts[r].acted = 1 => receipts[r].consumed)
  BY DEF AdminInv, SoundSession, SoundReceipt
<1> QED
  BY <1>1, <1>3, <1>4, <1>5, <1>6, GentleStep

LEMMA NobodyMoves ==
  ASSUME AdminInv, request' = request
  PROVE  /\ request' \in [Request -> RequestRecord] /\ Released(request, request')
         /\ \A q \in Request : SoundRequest(request'[q], challenges, sessions, receipts)
BY DEF AdminInv, AdminTypes, Released

LEMMA BeginFounderRegistrationKeeps ==
  ASSUME AdminInv, BeginFounderRegistration
  PROVE  AdminInv'
<1>1. PICK token \in 1 .. bootstrap.token : NewChallenge("registration", token, 0, NoCommand)
  BY DEF BeginFounderRegistration
<1>2. challenges' \in Seq(ChallengeRecord) /\ ChallengesStay(challenges, challenges')
  BY <1>1, ChallengeAdded DEF Kind, AdminCommand
<1> QED
  BY <1>2, NobodyMoves, ChallengeKeeps DEF BeginFounderRegistration

LEMMA BeginAuthenticationKeeps ==
  ASSUME AdminInv, BeginAuthentication
  PROVE  AdminInv'
<1>1. NewChallenge("authentication", 0, 0, NoCommand)
  BY DEF BeginAuthentication
<1>2. challenges' \in Seq(ChallengeRecord) /\ ChallengesStay(challenges, challenges')
  BY <1>1, ChallengeAdded DEF Kind, AdminCommand
<1> QED
  BY <1>2, NobodyMoves, ChallengeKeeps DEF BeginAuthentication

\* A request that ends, and the others.
LEMMA RequestEnds ==
  ASSUME AdminInv, NEW q \in Request, request' = [request EXCEPT ![q] = Idle]
  PROVE  /\ request' \in [Request -> RequestRecord] /\ request'[q] = Idle
         /\ \A p \in Request : p # q => request'[p] = request[p]
         /\ Released(request, request') /\ OneHolder(request')
         /\ TakesNoUsed(request, request', challenges)
         /\ \A p \in Request : SoundRequest(request'[p], challenges, sessions, receipts)
<1>1. /\ request' \in [Request -> RequestRecord] /\ request'[q] = Idle
      /\ \A p \in Request : p # q => request'[p] = request[p]
      /\ Released(request, request') /\ OneHolder(request')
      /\ TakesNoUsed(request, request', challenges)
  BY IdleTyped, RequestGoesOn
<1>2. \A p \in Request : SoundRequest(request'[p], challenges, sessions, receipts)
  BY <1>1, IdleIsSound DEF AdminInv
<1> QED
  BY <1>1, <1>2

LEMMA BeginStepUpKeeps ==
  ASSUME AdminInv, NEW q \in Request, BeginStepUp(q)
  PROVE  AdminInv'
<1>1. NewChallenge("stepUp", 0, request[q].session, request[q].command)
  BY DEF BeginStepUp
<1>2. request[q].session \in Nat /\ request[q].command \in AdminCommand
  BY DEF AdminInv, AdminTypes, RequestRecord
<1>3. challenges' \in Seq(ChallengeRecord) /\ ChallengesStay(challenges, challenges')
  BY <1>1, <1>2, ChallengeAdded DEF Kind
<1> QED
  BY <1>3, RequestEnds, ChallengeKeeps DEF BeginStepUp

\* Sessions change, each in its place.
LEMMA SessionsKeep ==
  ASSUME AdminInv, request' \in [Request -> RequestRecord], Released(request, request'),
         \A q \in Request : SoundRequest(request'[q], challenges, sessions, receipts),
         sessions' \in Seq(SessionRecord), DOMAIN sessions' = DOMAIN sessions,
         \A s \in DOMAIN sessions : /\ sessions'[s].flow = sessions[s].flow
                                    /\ sessions'[s].idle <= sessions'[s].absolute
                                    /\ sessions[s].revoked => sessions'[s].revoked,
         UNCHANGED <<setting, time, bootstrap, founder, challenges, receipts>>
  PROVE  AdminInv'
<1>1. AdminTypes'
  BY DEF AdminInv, AdminTypes, DocumentTypes
<1>2. 0 \notin DOMAIN challenges
  BY SequenceTyped DEF AdminInv, AdminTypes, DocumentTypes
<1>3. OneHolder(request') /\ TakesNoUsed(request, request', challenges)
  BY <1>2, ReleasedIsHeldByOne, ReleasedTakesNothing DEF AdminInv
<1>4. SessionsStay(sessions, sessions') /\ ChallengesStay(challenges, challenges')
  BY NothingMoves DEF SessionsStay
<1>5. \A q \in Request : SoundRequest(request'[q], challenges', sessions', receipts')
  <2> TAKE q \in Request
  <2> DEFINE r == request'[q]
  <2>1. SoundRequest(r, challenges, sessions, receipts)
    OBVIOUS
  <2>2. r.op \in {"command", "consumed"} => r.receipt \in DOMAIN receipts'
    BY <2>1 DEF SoundRequest
  <2> HIDE DEF r
  <2>3. SoundRequest(r, challenges', sessions', receipts')
    BY <1>4, <2>1, <2>2, RequestStaysSound
  <2> QED
    BY <2>3 DEF r
<1>6. \A r \in DOMAIN receipts :
           receipts[r].acted <= 1 /\ (receipts[r].acted = 1 => receipts[r].consumed)
  BY DEF AdminInv, SoundReceipt
<1> QED
  BY <1>1, <1>3, <1>4, <1>5, <1>6, GentleStep

\* A session that is revoked, and the others.
LEMMA RevokedIs ==
  ASSUME AdminInv, NEW all, NEW x, sessions' = Revoked(all, x)
  PROVE  /\ sessions' \in Seq(SessionRecord) /\ DOMAIN sessions' = DOMAIN sessions
         /\ \A s \in DOMAIN sessions :
              /\ sessions'[s].flow = sessions[s].flow
              /\ sessions'[s].absolute = sessions[s].absolute
              /\ sessions'[s].idle <= sessions'[s].absolute
              /\ sessions[s].revoked => sessions'[s].revoked
<1> DEFINE t == sessions'
<1>1. /\ sessions \in Seq(SessionRecord)
      /\ \A s \in DOMAIN sessions : sessions[s] \in SessionRecord
  BY SequenceTyped DEF AdminInv, AdminTypes, DocumentTypes
<1>2. \A s \in DOMAIN sessions : sessions[s].idle <= sessions[s].absolute
  BY DEF AdminInv, SoundSession
<1>3. t = [s \in DOMAIN sessions |->
             IF all \/ s = x THEN [sessions[s] EXCEPT !.revoked = TRUE] ELSE sessions[s]]
  BY DEF Revoked
<1> HIDE DEF t
<1>4. \A s \in DOMAIN sessions :
        /\ t[s] \in SessionRecord /\ t[s].flow = sessions[s].flow
        /\ t[s].absolute = sessions[s].absolute /\ t[s].idle = sessions[s].idle
        /\ sessions[s].revoked => t[s].revoked
  <2> SUFFICES ASSUME NEW s \in DOMAIN sessions
               PROVE  /\ t[s] \in SessionRecord /\ t[s].flow = sessions[s].flow
                      /\ t[s].absolute = sessions[s].absolute /\ t[s].idle = sessions[s].idle
                      /\ sessions[s].revoked => t[s].revoked
    OBVIOUS
  <2>1. t[s] = [sessions[s] EXCEPT !.revoked = TRUE] \/ t[s] = sessions[s]
    BY <1>3
  <2>2. sessions[s] \in SessionRecord
    BY <1>1
  <2> QED
    BY <2>1, <2>2 DEF SessionRecord
<1>5. t = [s \in DOMAIN sessions |-> t[s]]
  BY <1>3
<1>6. t \in Seq(SessionRecord) /\ DOMAIN t = DOMAIN sessions
  BY <1>1, <1>4, <1>5, SequenceMapped
<1> QED
  BY <1>2, <1>4, <1>6 DEF t

LEMMA LogoutKeeps ==
  ASSUME AdminInv, Logout
  PROVE  AdminInv'
<1>1. PICK s \in DOMAIN sessions : sessions' = Revoked(FALSE, s)
  BY DEF Logout
<1>2. /\ sessions' \in Seq(SessionRecord) /\ DOMAIN sessions' = DOMAIN sessions
      /\ \A x \in DOMAIN sessions :
              /\ sessions'[x].flow = sessions[x].flow
              /\ sessions'[x].idle <= sessions'[x].absolute
              /\ sessions[x].revoked => sessions'[x].revoked
  BY <1>1, RevokedIs
<1> QED
  BY <1>2, NobodyMoves, SessionsKeep DEF Logout

LEMMA RevokeSessionKeeps ==
  ASSUME AdminInv, NEW q \in Request, RevokeSession(q)
  PROVE  AdminInv'
<1>1. sessions' = Revoked(FALSE, request[q].target)
  BY DEF RevokeSession
<1>2. /\ sessions' \in Seq(SessionRecord) /\ DOMAIN sessions' = DOMAIN sessions
      /\ \A x \in DOMAIN sessions :
              /\ sessions'[x].flow = sessions[x].flow
              /\ sessions'[x].idle <= sessions'[x].absolute
              /\ sessions[x].revoked => sessions'[x].revoked
  BY <1>1, RevokedIs
<1> QED
  BY <1>2, RequestEnds, SessionsKeep DEF RevokeSession

\* The touch of a session.
LEMMA TouchedIs ==
  ASSUME AdminInv, NEW q \in Request, TouchSession(q)
  PROVE  /\ sessions' \in Seq(SessionRecord) /\ DOMAIN sessions' = DOMAIN sessions
         /\ \A s \in DOMAIN sessions :
              /\ sessions'[s].flow = sessions[s].flow
              /\ sessions'[s].absolute = sessions[s].absolute
              /\ sessions'[s].idle <= sessions'[s].absolute
              /\ sessions[s].revoked => sessions'[s].revoked
<1> DEFINE x == request[q].session
           now == request[q].now
           old == sessions[x]
           idle == Min({old.absolute, now + Ttl.idle})
           new == [old EXCEPT !.idle = idle, !.seen = now]
           t == sessions'
<1>1. /\ sessions \in Seq(SessionRecord)
      /\ \A s \in DOMAIN sessions : sessions[s] \in SessionRecord
  BY SequenceTyped DEF AdminInv, AdminTypes, DocumentTypes
<1>2. \A s \in DOMAIN sessions : sessions[s].idle <= sessions[s].absolute
  BY DEF AdminInv, SoundSession
<1>3. x \in DOMAIN sessions
  BY DEF AdminInv, SoundRequest, TouchSession
<1>4. t = [sessions EXCEPT ![x].idle = idle, ![x].seen = now]
  BY DEF TouchSession
<1>5. now \in Nat /\ now + Ttl.idle \in Nat
  BY AdminAssumption DEF AdminInv, AdminTypes, RequestRecord
<1>6. old \in SessionRecord /\ old.absolute \in Nat
  BY <1>1, <1>3 DEF SessionRecord
<1>7. idle \in Nat /\ idle <= old.absolute
  BY <1>5, <1>6, LesserOf
<1> HIDE DEF idle, now
<1>8. /\ new \in SessionRecord /\ new.flow = old.flow /\ new.absolute = old.absolute
      /\ new.idle = idle /\ new.revoked = old.revoked
  BY <1>5, <1>6, <1>7 DEF SessionRecord
<1>9. t = [sessions EXCEPT ![x] = new]
  BY <1>3, <1>4, <1>6
<1> HIDE DEF new, t, x
<1>10. t = [s \in DOMAIN sessions |-> t[s]]
  BY <1>9
<1>11. \A s \in DOMAIN sessions : t[s] = IF s = x THEN new ELSE sessions[s]
  BY <1>9
<1>12. t \in Seq(SessionRecord) /\ DOMAIN t = DOMAIN sessions
  BY <1>1, <1>8, <1>10, <1>11, SequenceMapped
<1> QED
  BY <1>2, <1>7, <1>8, <1>11, <1>12 DEF t

LEMMA TouchSessionKeeps ==
  ASSUME AdminInv, NEW q \in Request, TouchSession(q)
  PROVE  AdminInv'
<1> DEFINE r == request[q]
           n == [r EXCEPT !.at = "authenticated", !.now = 0]
<1>1. r \in RequestRecord /\ SoundRequest(r, challenges, sessions, receipts)
  BY DEF AdminInv, AdminTypes
<1>2. /\ n \in RequestRecord /\ n.at = "authenticated"
      /\ n.op = r.op /\ n.flow = r.flow /\ n.session = r.session /\ n.receipt = r.receipt
      /\ n.command = r.command /\ n.revoked = r.revoked
  BY <1>1 DEF RequestRecord
<1>3. /\ r.at = "touch"
      /\ request' = [request EXCEPT ![q].at = "authenticated", ![q].now = 0]
      /\ UNCHANGED <<setting, time, bootstrap, founder, challenges, receipts>>
  BY DEF TouchSession
<1>4. request' = [request EXCEPT ![q] = n]
  BY <1>1, <1>3 DEF AdminInv, AdminTypes
<1> HIDE DEF r, n
<1>5. SoundRequest(n, challenges, sessions, receipts)
  BY <1>1, <1>2, <1>3 DEF SoundRequest
<1>6. /\ request' \in [Request -> RequestRecord]
      /\ request'[q] = n /\ \A p \in Request : p # q => request'[p] = request[p]
      /\ Released(request, request')
  BY <1>2, <1>4, RequestGoesOn DEF r
<1>7. \A p \in Request : SoundRequest(request'[p], challenges, sessions, receipts)
  BY <1>5, <1>6 DEF AdminInv
<1> QED
  BY <1>3, <1>6, <1>7, TouchedIs, SessionsKeep

\* The others, when the document changes as documents may.
LEMMA OthersStaySound ==
  ASSUME AdminInv, NEW q \in Request,
         \A p \in Request : p # q => request'[p] = request[p],
         ChallengesStay(challenges, challenges'), SessionsStay(sessions, sessions'),
         DOMAIN receipts \subseteq DOMAIN receipts',
         \A p \in Request : p # q /\ request[p].op = "consumed" =>
           LET r == request[p].receipt
           IN receipts'[r].consumed = receipts[r].consumed /\ receipts'[r].acted = receipts[r].acted
  PROVE  \A p \in Request : p # q => SoundRequest(request'[p], challenges', sessions', receipts')
<1> SUFFICES ASSUME NEW p \in Request, p # q
             PROVE  SoundRequest(request[p], challenges', sessions', receipts')
  OBVIOUS
<1>1. SoundRequest(request[p], challenges, sessions, receipts)
  BY DEF AdminInv
<1>2. request[p].op \in {"command", "consumed"} => request[p].receipt \in DOMAIN receipts'
  BY <1>1 DEF SoundRequest
<1>3. request[p].op = "consumed" =>
        LET r == request[p].receipt
        IN receipts'[r].consumed = receipts[r].consumed /\ receipts'[r].acted = receipts[r].acted
  OBVIOUS
<1> DEFINE m == request[p]
           cs == challenges'
           ss == sessions'
           rs == receipts'
<1>4. /\ SoundRequest(m, challenges, sessions, receipts)
      /\ m.op \in {"command", "consumed"} => m.receipt \in DOMAIN rs
      /\ m.op = "consumed" => /\ rs[m.receipt].consumed = receipts[m.receipt].consumed
                              /\ rs[m.receipt].acted = receipts[m.receipt].acted
      /\ ChallengesStay(challenges, cs) /\ SessionsStay(sessions, ss)
  BY <1>1, <1>2, <1>3
<1> HIDE DEF m, cs, ss, rs
<1>5. SoundRequest(m, cs, ss, rs)
  BY <1>4, RequestStaysSound
<1> QED
  BY <1>5 DEF m, cs, ss, rs

LEMMA ConsumeChallengeKeeps ==
  ASSUME AdminInv, NEW q \in Request, ConsumeChallenge(q)
  PROVE  AdminInv'
<1>1. PICK flow \in DOMAIN challenges, now \in Recent :
        /\ Usable(flow, challenges[flow].kind, now)
        /\ challenges' = [challenges EXCEPT ![flow].used = TRUE]
        /\ \E s \in IF challenges[flow].kind = "stepUp" THEN DOMAIN sessions ELSE {0} :
               request' = [request EXCEPT ![q] =
                 [Idle EXCEPT !.op = challenges[flow].kind,
                              !.at = AfterChallenge(challenges[flow].kind), !.flow = flow,
                              !.session = s]]
  BY DEF ConsumeChallenge
<1> DEFINE kind == challenges[flow].kind
<1>2. PICK s \in IF kind = "stepUp" THEN DOMAIN sessions ELSE {0} :
        request' = [request EXCEPT ![q] =
          [Idle EXCEPT !.op = kind, !.at = AfterChallenge(kind), !.flow = flow, !.session = s]]
  BY <1>1
<1> DEFINE n == [Idle EXCEPT !.op = kind, !.at = AfterChallenge(kind), !.flow = flow, !.session = s]
           new == [challenges[flow] EXCEPT !.used = TRUE]
           cs == challenges'
<1>3. /\ challenges \in Seq(ChallengeRecord)
      /\ \A f \in DOMAIN challenges : f \in Nat \ {0} /\ challenges[f] \in ChallengeRecord
      /\ \A x \in DOMAIN sessions : x \in Nat
  BY SequenceTyped DEF AdminInv, AdminTypes, DocumentTypes
<1>4. kind \in Kind /\ flow \in Nat /\ flow # 0 /\ s \in Nat
  BY <1>3 DEF ChallengeRecord
<1>5. AfterChallenge(kind) =
        IF kind = "registration" THEN "register"
        ELSE IF kind = "authentication" THEN "read" ELSE "authenticate"
  BY <1>4 DEF AfterChallenge, Kind
<1>6. /\ new \in ChallengeRecord /\ new.used /\ new.kind = kind
      /\ new.token = challenges[flow].token /\ new.session = challenges[flow].session
      /\ new.command = challenges[flow].command
  BY <1>3 DEF ChallengeRecord
<1>7. cs = [challenges EXCEPT ![flow] = new]
  BY <1>1, <1>3
<1>8. ~challenges[flow].used
  BY <1>1 DEF Usable
<1>9. request' = [request EXCEPT ![q] = n]
  BY <1>2
<1> HIDE DEF kind, new, cs
<1>10. /\ n \in RequestRecord /\ n.op = kind /\ n.at = AfterChallenge(kind) /\ n.flow = flow
       /\ n.session = s
  <2>1. AfterChallenge(kind) \in {"register", "read", "authenticate"}
    BY <1>5
  <2> QED
    BY <1>4, <2>1, IdleTyped DEF RequestRecord
<1> HIDE DEF n
<1>11. /\ request' \in [Request -> RequestRecord]
       /\ request'[q] = n /\ \A p \in Request : p # q => request'[p] = request[p]
  BY <1>9, <1>10 DEF AdminInv, AdminTypes
<1>12. /\ DOMAIN cs = DOMAIN challenges /\ cs[flow] = new
       /\ \A f \in DOMAIN challenges : f # flow => cs[f] = challenges[f]
       /\ cs = [f \in DOMAIN challenges |-> cs[f]]
  BY <1>7
<1>13. cs \in Seq(ChallengeRecord)
  <2>1. \A f \in DOMAIN challenges : cs[f] \in ChallengeRecord
    BY <1>3, <1>6, <1>12
  <2> QED
    BY <1>3, <1>12, <2>1, SequenceMapped
<1>14. ChallengesStay(challenges, cs)
  BY <1>6, <1>12 DEF ChallengesStay, kind
<1>15. UNCHANGED <<setting, time, bootstrap, founder, sessions, receipts>>
  BY DEF ConsumeChallenge
<1>16. AdminTypes'
  BY <1>11, <1>13, <1>15 DEF AdminInv, AdminTypes, DocumentTypes, cs
<1>17. \A p \in Request : p # q => request[p].flow # flow
  BY <1>4, <1>8 DEF AdminInv, SoundRequest
<1>18. TakesNoUsed(request, request', challenges)
  BY <1>8, <1>10, <1>11 DEF TakesNoUsed, Unheld
<1>19. OneHolder(request')
  BY <1>4, <1>10, <1>11, <1>17 DEF OneHolder, AdminInv, Kind
<1>20. SessionsStay(sessions, sessions')
  BY <1>15, NothingMoves
<1>21. SoundRequest(n, cs, sessions, receipts)
  <2>1. flow \in DOMAIN cs /\ cs[flow].used /\ cs[flow].kind = kind
    BY <1>6, <1>12
  <2>2. kind = "stepUp" => s \in DOMAIN sessions
    BY DEF kind
  <2> QED
    BY <1>4, <1>5, <1>10, <2>1, <2>2 DEF SoundRequest, Kind
<1>22. \A p \in Request : SoundRequest(request'[p], challenges', sessions', receipts')
  <2>1. ChallengesStay(challenges, challenges') /\ SoundRequest(n, challenges', sessions', receipts')
    BY <1>14, <1>15, <1>21 DEF cs
  <2>2. \A p \in Request : p # q => SoundRequest(request'[p], challenges', sessions', receipts')
    BY <1>11, <1>15, <1>20, <2>1, OthersStaySound
  <2> QED
    BY <1>11, <2>1, <2>2
<1>23. /\ \A x \in DOMAIN sessions : sessions[x].idle <= sessions[x].absolute
       /\ \A r \in DOMAIN receipts :
           receipts[r].acted <= 1 /\ (receipts[r].acted = 1 => receipts[r].consumed)
  BY DEF AdminInv, SoundSession, SoundReceipt
<1>24. ChallengesStay(challenges, challenges')
  BY <1>14 DEF cs
<1> QED
  BY <1>15, <1>16, <1>18, <1>19, <1>20, <1>22, <1>23, <1>24, GentleStep

\* A receipt changes in its place: when it is consumed, and when it is acted upon.
LEMMA ReceiptChanges ==
  ASSUME AdminInv, NEW r \in DOMAIN receipts, NEW new \in ReceiptRecord,
         receipts' = [receipts EXCEPT ![r] = new]
  PROVE  /\ receipts' \in Seq(ReceiptRecord) /\ DOMAIN receipts' = DOMAIN receipts
         /\ receipts'[r] = new
         /\ \A x \in DOMAIN receipts : x # r => receipts'[x] = receipts[x]
<1> DEFINE t == receipts'
<1>1. /\ receipts \in Seq(ReceiptRecord)
      /\ \A x \in DOMAIN receipts : receipts[x] \in ReceiptRecord
  BY SequenceTyped DEF AdminInv, AdminTypes, DocumentTypes
<1>2. /\ t = [x \in DOMAIN receipts |-> t[x]] /\ t[r] = new
      /\ \A x \in DOMAIN receipts : x # r => t[x] = receipts[x]
  OBVIOUS
<1> HIDE DEF t
<1>3. \A x \in DOMAIN receipts : t[x] \in ReceiptRecord
  BY <1>1, <1>2
<1>4. t \in Seq(ReceiptRecord) /\ DOMAIN t = DOMAIN receipts
  BY <1>1, <1>2, <1>3, SequenceMapped
<1> QED
  BY <1>2, <1>4 DEF t

LEMMA ReceiptsAre ==
  ASSUME AdminInv, NEW r \in DOMAIN receipts
  PROVE  /\ receipts[r] \in ReceiptRecord
         /\ receipts[r].acted \in Nat /\ receipts[r].acted <= 1
         /\ receipts[r].acted = 1 => receipts[r].consumed
<1>1. receipts[r] \in ReceiptRecord
  BY SequenceTyped DEF AdminInv, AdminTypes, DocumentTypes
<1> QED
  BY <1>1 DEF AdminInv, SoundReceipt, ReceiptRecord

LEMMA ConsumeStepUpReceiptKeeps ==
  ASSUME AdminInv, NEW q \in Request, ConsumeStepUpReceipt(q)
  PROVE  AdminInv'
<1> DEFINE m == request[q]
           r == request[q].receipt
           c == request[q].command
           at == IF AuthenticatesAgain(c) THEN "authenticate" ELSE "authenticated"
           revoked == sessions[m.session].revoked
           n == [m EXCEPT !.op = "consumed", !.at = at, !.revoked = revoked]
           new == [receipts[r] EXCEPT !.consumed = TRUE]
<1>1. m \in RequestRecord /\ SoundRequest(m, challenges, sessions, receipts)
  BY DEF AdminInv, AdminTypes
<1>2. /\ m.op = "command" /\ m.at = "authenticated" /\ ~receipts[r].consumed
      /\ receipts' = [receipts EXCEPT ![r].consumed = TRUE]
      /\ request' = [request EXCEPT
          ![q].op = "consumed", ![q].at = at, ![q].revoked = revoked]
      /\ UNCHANGED <<setting, time, bootstrap, founder, challenges, sessions>>
  BY DEF ConsumeStepUpReceipt
<1>3. r \in DOMAIN receipts /\ m.session \in DOMAIN sessions /\ m.flow = 0
  BY <1>1, <1>2 DEF SoundRequest, Kind
<1>4. /\ receipts[r] \in ReceiptRecord /\ receipts[r].acted = 0
  BY <1>2, <1>3, ReceiptsAre
<1>5. /\ new \in ReceiptRecord /\ new.consumed /\ new.acted = 0 /\ new.flow = receipts[r].flow
      /\ new.session = receipts[r].session /\ new.command = receipts[r].command
  BY <1>4 DEF ReceiptRecord
<1>6. receipts' = [receipts EXCEPT ![r] = new]
  BY <1>2, <1>3
<1>7. revoked \in BOOLEAN
  <2>1. sessions[m.session] \in SessionRecord
    BY <1>3, SequenceTyped DEF AdminInv, AdminTypes, DocumentTypes
  <2> QED
    BY <2>1 DEF SessionRecord
<1>8. at \in {"authenticate", "authenticated"} /\ (c # "confirm" => at = "authenticate")
  BY DEF AuthenticatesAgain
<1>9. request' = [request EXCEPT ![q] = n]
  BY <1>1, <1>2 DEF AdminInv, AdminTypes
<1> HIDE DEF new, at
<1>10. /\ n \in RequestRecord /\ n.op = "consumed" /\ n.at = at /\ n.flow = 0
       /\ n.session = m.session /\ n.receipt = r /\ n.command = c /\ n.revoked = revoked
  BY <1>1, <1>3, <1>7, <1>8 DEF RequestRecord
<1> HIDE DEF n, revoked
<1>11. /\ receipts' \in Seq(ReceiptRecord) /\ DOMAIN receipts' = DOMAIN receipts
       /\ receipts'[r] = new
       /\ \A x \in DOMAIN receipts : x # r => receipts'[x] = receipts[x]
  BY <1>3, <1>5, <1>6, ReceiptChanges
<1>12. /\ request' \in [Request -> RequestRecord]
       /\ request'[q] = n /\ \A p \in Request : p # q => request'[p] = request[p]
  BY <1>9, <1>10 DEF AdminInv, AdminTypes
<1>13. AdminTypes'
  BY <1>2, <1>11, <1>12 DEF AdminInv, AdminTypes, DocumentTypes
\* Nobody else has this receipt in hand, since it was not consumed.
<1>14. \A p \in Request : request[p].op = "consumed" => request[p].receipt # r
  BY <1>2 DEF AdminInv, SoundRequest
<1>15. OneHolder(request')
  <2>1. OneHolder(request)
    BY DEF AdminInv
  <2> QED
    BY <1>3, <1>10, <1>12, <1>14, <2>1 DEF OneHolder
<1>16. TakesNoUsed(request, request', challenges)
  <2>1. 0 \notin DOMAIN challenges
    BY SequenceTyped DEF AdminInv, AdminTypes, DocumentTypes
  <2> QED
    BY <1>10, <1>12, <2>1 DEF TakesNoUsed, Unheld
<1>17. ChallengesStay(challenges, challenges') /\ SessionsStay(sessions, sessions')
  BY <1>2, NothingMoves
<1>18. SoundRequest(n, challenges, sessions, receipts')
  BY <1>3, <1>5, <1>8, <1>10, <1>11 DEF SoundRequest, Kind, revoked
<1>19. \A p \in Request : SoundRequest(request'[p], challenges', sessions', receipts')
  <2>1. \A p \in Request : p # q /\ request[p].op = "consumed" =>
           LET x == request[p].receipt
           IN receipts'[x].consumed = receipts[x].consumed /\ receipts'[x].acted = receipts[x].acted
    BY <1>11, <1>14 DEF AdminInv, SoundRequest
  <2>2. \A p \in Request : p # q => SoundRequest(request'[p], challenges', sessions', receipts')
    BY <1>11, <1>12, <1>17, <2>1, OthersStaySound
  <2>3. SoundRequest(n, challenges', sessions', receipts')
    BY <1>2, <1>18
  <2> QED
    BY <1>12, <2>2, <2>3
<1>20. \A x \in DOMAIN sessions : sessions'[x].flow = sessions[x].flow
                                  /\ sessions'[x].idle <= sessions'[x].absolute
  BY <1>2 DEF AdminInv, SoundSession
<1>21. \A x \in DOMAIN receipts :
         /\ receipts'[x].flow = receipts[x].flow
         /\ receipts'[x].session = receipts[x].session
         /\ receipts'[x].command = receipts[x].command
         /\ receipts'[x].acted <= 1 /\ (receipts'[x].acted = 1 => receipts'[x].consumed)
  BY <1>5, <1>11, ReceiptsAre
<1>22. DOMAIN sessions' = DOMAIN sessions /\ founder' = founder /\ bootstrap' = bootstrap
  BY <1>2
<1> QED
  BY <1>11, <1>13, <1>15, <1>16, <1>17, <1>19, <1>20, <1>21, <1>22, GentleStep

LEMMA PerformCommandKeeps ==
  ASSUME AdminInv, NEW q \in Request, PerformCommand(q)
  PROVE  AdminInv'
<1> DEFINE m == request[q]
           r == request[q].receipt
           new == [receipts[r] EXCEPT !.acted = @ + 1]
<1>1. m \in RequestRecord /\ SoundRequest(m, challenges, sessions, receipts)
  BY DEF AdminInv, AdminTypes
<1>2. /\ m.op = "consumed"
      /\ receipts' = [receipts EXCEPT ![r].acted = @ + 1]
      /\ sessions' = Revoked(m.command = "revokeAll", 0)
      /\ request' = [request EXCEPT ![q] = Idle]
      /\ UNCHANGED <<setting, time, bootstrap, founder, challenges>>
  BY DEF PerformCommand
<1>3. r \in DOMAIN receipts /\ receipts[r].consumed /\ receipts[r].acted = 0
  BY <1>1, <1>2 DEF SoundRequest, Kind
<1>4. receipts[r] \in ReceiptRecord
  BY <1>3, ReceiptsAre
<1>5. /\ new \in ReceiptRecord /\ new.consumed /\ new.acted = 1 /\ new.flow = receipts[r].flow
      /\ new.session = receipts[r].session /\ new.command = receipts[r].command
  BY <1>3, <1>4 DEF ReceiptRecord
<1>6. receipts' = [receipts EXCEPT ![r] = new]
  BY <1>2, <1>3
<1> HIDE DEF new
<1>7. /\ receipts' \in Seq(ReceiptRecord) /\ DOMAIN receipts' = DOMAIN receipts
      /\ receipts'[r] = new
      /\ \A x \in DOMAIN receipts : x # r => receipts'[x] = receipts[x]
  BY <1>3, <1>5, <1>6, ReceiptChanges
<1>8. /\ sessions' \in Seq(SessionRecord) /\ DOMAIN sessions' = DOMAIN sessions
      /\ \A s \in DOMAIN sessions :
           /\ sessions'[s].flow = sessions[s].flow
           /\ sessions'[s].idle <= sessions'[s].absolute
           /\ sessions[s].revoked => sessions'[s].revoked
  BY <1>2, RevokedIs
<1>9. /\ request' \in [Request -> RequestRecord] /\ request'[q] = Idle
      /\ \A p \in Request : p # q => request'[p] = request[p]
      /\ OneHolder(request') /\ TakesNoUsed(request, request', challenges)
  BY <1>2, RequestEnds
<1>10. AdminTypes'
  BY <1>2, <1>7, <1>8, <1>9 DEF AdminInv, AdminTypes, DocumentTypes
<1>11. ChallengesStay(challenges, challenges') /\ SessionsStay(sessions, sessions')
  BY <1>2, <1>8, NothingMoves DEF SessionsStay
<1>12. \A p \in Request : p # q /\ request[p].op = "consumed" =>
         request[p].receipt # r /\ request[p].receipt \in DOMAIN receipts
  BY <1>2 DEF AdminInv, OneHolder, SoundRequest
<1>13. \A p \in Request : SoundRequest(request'[p], challenges', sessions', receipts')
  <2>1. \A p \in Request : p # q /\ request[p].op = "consumed" =>
           LET x == request[p].receipt
           IN receipts'[x].consumed = receipts[x].consumed /\ receipts'[x].acted = receipts[x].acted
    BY <1>7, <1>12
  <2>2. \A p \in Request : p # q => SoundRequest(request'[p], challenges', sessions', receipts')
    BY <1>7, <1>9, <1>11, <2>1, OthersStaySound
  <2> QED
    BY <1>9, <2>2, IdleIsSound
<1>14. \A x \in DOMAIN receipts :
         /\ receipts'[x].flow = receipts[x].flow
         /\ receipts'[x].session = receipts[x].session
         /\ receipts'[x].command = receipts[x].command
         /\ receipts'[x].acted <= 1 /\ (receipts'[x].acted = 1 => receipts'[x].consumed)
  BY <1>5, <1>7, ReceiptsAre
<1> QED
  BY <1>2, <1>7, <1>8, <1>9, <1>10, <1>11, <1>13, <1>14, GentleStep

----------------------------------------------------------------------------
(* Ceremonies that end: a session, a receipt, a founder.                   *)

LEMMA CounterTyped ==
  ASSUME AdminInv, NEW q \in Request, CounterMoves(q)
  PROVE  /\ founder' \in [registered : BOOLEAN, flow : Nat, counter : Nat]
         /\ founder'.flow = founder.flow /\ founder'.registered = founder.registered
<1>1. PICK n \in 0 .. MaxCounter : founder' = [founder EXCEPT !.counter = n]
  BY DEF CounterMoves, VerifiedCounter
<1>2. n \in Nat /\ founder \in [registered : BOOLEAN, flow : Nat, counter : Nat]
  BY AdminAssumption DEF AdminInv, AdminTypes, DocumentTypes
<1> QED
  BY <1>1, <1>2

LEMMA FounderOnlyCounts ==
  ASSUME AdminInv, founder'.flow = founder.flow, founder'.registered = founder.registered,
         bootstrap' = bootstrap, ChallengesStay(challenges, challenges'),
         TakesNoUsed(request, request', challenges)
  PROVE  SoundFounder(founder', bootstrap', challenges', request')
<1>1. SoundFounder(founder, bootstrap, challenges, request)
  BY DEF AdminInv
<1>2. SoundFounder(founder', bootstrap, challenges, request)
  BY <1>1 DEF SoundFounder
<1>3. founder'.flow # 0 => Unheld(founder'.flow, request')
  BY FlowsAreKnown DEF TakesNoUsed
<1> DEFINE f == founder'
           rs == request'
           cs == challenges'
<1>4. /\ SoundFounder(f, bootstrap, challenges, request)
      /\ f.flow # 0 => Unheld(f.flow, rs)
      /\ ChallengesStay(challenges, cs)
  BY <1>2, <1>3
<1> HIDE DEF f, rs, cs
<1>5. SoundFounder(f, bootstrap, cs, rs)
  BY <1>4, FounderStaysSound
<1> QED
  BY <1>5 DEF f, rs, cs

\* What the others hold and what was made before, when a request q ends and
\* sessions or receipts are appended.
LEMMA EndedKeeps ==
  ASSUME AdminInv, NEW q \in Request, request' = [request EXCEPT ![q] = Idle],
         UNCHANGED challenges,
         SessionsStay(sessions, sessions'), DOMAIN receipts \subseteq DOMAIN receipts',
         \A r \in DOMAIN receipts : receipts'[r] = receipts[r]
  PROVE  /\ \A p \in Request : SoundRequest(request'[p], challenges', sessions', receipts')
         /\ OneHolder(request') /\ TakesNoUsed(request, request', challenges)
         /\ request' \in [Request -> RequestRecord]
         /\ ChallengesStay(challenges, challenges')
<1>1. /\ request' \in [Request -> RequestRecord] /\ request'[q] = Idle
      /\ \A p \in Request : p # q => request'[p] = request[p]
      /\ OneHolder(request') /\ TakesNoUsed(request, request', challenges)
  BY RequestEnds
<1>2. ChallengesStay(challenges, challenges')
  BY NothingMoves
<1>3. \A p \in Request : p # q /\ request[p].op = "consumed" =>
           LET x == request[p].receipt
           IN receipts'[x].consumed = receipts[x].consumed /\ receipts'[x].acted = receipts[x].acted
  BY DEF AdminInv, SoundRequest
<1>4. \A p \in Request : p # q => SoundRequest(request'[p], challenges', sessions', receipts')
  BY <1>1, <1>2, <1>3, OthersStaySound
<1> QED
  BY <1>1, <1>2, <1>4, IdleIsSound

LEMMA FinishAuthenticationKeeps ==
  ASSUME AdminInv, NEW q \in Request, FinishAuthentication(q)
  PROVE  AdminInv'
<1> DEFINE flow == request[q].flow
<1>1. PICK now \in Recent : sessions' = Append(sessions, SessionFrom(flow, now))
  BY DEF FinishAuthentication
<1>2. /\ request[q].op = "authentication" /\ CounterMoves(q)
      /\ request' = [request EXCEPT ![q] = Idle]
      /\ UNCHANGED <<setting, time, bootstrap, challenges, receipts>>
  BY DEF FinishAuthentication
<1>3. /\ flow # 0 /\ flow \in DOMAIN challenges /\ challenges[flow].used
      /\ challenges[flow].kind = "authentication"
  BY <1>2 DEF AdminInv, SoundRequest, Kind
<1>4. flow \in Nat /\ now \in Nat
  BY RecentIsNatural DEF AdminInv, AdminTypes, RequestRecord
<1> DEFINE e == SessionFrom(flow, now)
           ss == sessions'
           i == Len(sessions) + 1
<1>5. e \in SessionRecord /\ e.flow = flow /\ e.idle <= e.absolute
  BY <1>4, NewSession
<1>6. ss = Append(sessions, e) /\ sessions \in Seq(SessionRecord)
  BY <1>1 DEF AdminInv, AdminTypes, DocumentTypes
<1> HIDE DEF e
<1>7. /\ ss \in Seq(SessionRecord) /\ DOMAIN ss = DOMAIN sessions \union {i}
      /\ i \notin DOMAIN sessions /\ ss[i] = e
      /\ \A s \in DOMAIN sessions : ss[s] = sessions[s]
  BY <1>5, <1>6, SequenceGrows
<1> HIDE DEF i
<1>8. SessionsStay(sessions, ss)
  BY <1>7 DEF SessionsStay
<1> HIDE DEF ss
<1>9. /\ \A p \in Request : SoundRequest(request'[p], challenges', sessions', receipts')
      /\ OneHolder(request') /\ TakesNoUsed(request, request', challenges)
      /\ request' \in [Request -> RequestRecord]
      /\ ChallengesStay(challenges, challenges')
  BY <1>2, <1>8, EndedKeeps DEF ss
<1>10. AdminTypes'
  BY <1>2, <1>7, <1>9, CounterTyped DEF AdminInv, AdminTypes, DocumentTypes, ss
<1>11. SoundFounder(founder', bootstrap', challenges', request')
  BY <1>2, <1>9, CounterTyped, FounderOnlyCounts
\* The challenge made nothing before, since its request was still at work.
<1>12. \A s \in DOMAIN sessions : sessions[s].flow # flow
  BY <1>3, FlowsAreKnown DEF Unheld
<1>13. Unheld(flow, request')
  BY <1>2, <1>3, IdleTyped DEF AdminInv, AdminTypes, OneHolder, Unheld
<1>14. \A s \in DOMAIN ss : SoundSession(s, ss, challenges, request')
  <2> TAKE s \in DOMAIN ss
  <2>1. CASE s = i
    BY <1>3, <1>5, <1>7, <1>12, <1>13, <2>1 DEF SoundSession
  <2>2. CASE s \in DOMAIN sessions
    <3>1. SoundSession(s, sessions, challenges, request)
      BY <2>2 DEF AdminInv
    <3>2. sessions[s].flow # 0 => Unheld(sessions[s].flow, request')
      BY <1>9, <2>2, FlowsAreKnown DEF TakesNoUsed
    <3> QED
      BY <1>5, <1>7, <1>12, <2>2, <3>1, <3>2 DEF SoundSession
  <2> QED
    BY <1>7, <2>1, <2>2
<1>15. \A r \in DOMAIN receipts : SoundReceipt(r, receipts, ss, challenges, request')
  <2> TAKE r \in DOMAIN receipts
  <2>1. SoundReceipt(r, receipts, sessions, challenges, request)
    BY DEF AdminInv
  <2>2. Unheld(receipts[r].flow, request')
    BY <1>9, FlowsAreKnown DEF TakesNoUsed
  <2>3. receipts[r].acted <= 1 /\ (receipts[r].acted = 1 => receipts[r].consumed)
    BY <2>1 DEF SoundReceipt
  <2>4. ChallengesStay(challenges, challenges)
    BY NothingMoves
  <2> QED
    BY <1>8, <2>1, <2>2, <2>3, <2>4, ReceiptStaysSound
<1> QED
  BY <1>2, <1>9, <1>10, <1>11, <1>14, <1>15 DEF AdminInv, ss

LEMMA FinishStepUpKeeps ==
  ASSUME AdminInv, NEW q \in Request, FinishStepUp(q)
  PROVE  AdminInv'
<1> DEFINE flow == request[q].flow
           challenge == challenges[flow]
<1>1. PICK now \in Recent :
        receipts' = Append(receipts,
               [flow |-> flow, session |-> challenge.session,
                command |-> challenge.command, expires |-> now + Ttl.stepUp,
                consumed |-> FALSE, acted |-> 0])
  BY DEF FinishStepUp
<1>2. /\ request[q].op = "stepUp" /\ request[q].at = "verify" /\ CounterMoves(q)
      /\ request' = [request EXCEPT ![q] = Idle]
      /\ UNCHANGED <<setting, time, bootstrap, challenges, sessions>>
  BY DEF FinishStepUp
<1>3. /\ flow # 0 /\ flow \in DOMAIN challenges /\ challenge.used
      /\ challenge.kind = "stepUp" /\ challenge.session = request[q].session
      /\ request[q].session \in DOMAIN sessions
  BY <1>2 DEF AdminInv, SoundRequest, Kind
<1>4. flow \in Nat /\ now + Ttl.stepUp \in Nat /\ challenge \in ChallengeRecord
  <2>1. now \in Nat /\ flow \in Nat
    BY RecentIsNatural DEF AdminInv, AdminTypes, RequestRecord
  <2>2. Ttl.stepUp \in Nat
    BY AdminAssumption
  <2>3. challenge \in ChallengeRecord
    BY <1>3, SequenceTyped DEF AdminInv, AdminTypes, DocumentTypes
  <2> QED
    BY <2>1, <2>2, <2>3
<1>5. challenge.session \in Nat /\ challenge.command \in AdminCommand
  BY <1>4 DEF ChallengeRecord
<1> DEFINE e == [flow |-> flow, session |-> challenge.session,
                command |-> challenge.command, expires |-> now + Ttl.stepUp,
                consumed |-> FALSE, acted |-> 0]
           rs == receipts'
           i == Len(receipts) + 1
<1> HIDE DEF challenge
<1>6. /\ e \in ReceiptRecord /\ e.flow = flow /\ e.session = challenge.session
      /\ e.command = challenge.command /\ e.acted = 0
  BY <1>4, <1>5 DEF ReceiptRecord
<1>7. rs = Append(receipts, e) /\ receipts \in Seq(ReceiptRecord)
  BY <1>1 DEF AdminInv, AdminTypes, DocumentTypes, challenge
<1> HIDE DEF e
<1>8. /\ rs \in Seq(ReceiptRecord) /\ DOMAIN rs = DOMAIN receipts \union {i}
      /\ i \notin DOMAIN receipts /\ rs[i] = e
      /\ \A r \in DOMAIN receipts : rs[r] = receipts[r]
  BY <1>6, <1>7, SequenceGrows
<1> HIDE DEF i, rs
<1>9. /\ \A p \in Request : SoundRequest(request'[p], challenges', sessions', receipts')
      /\ OneHolder(request') /\ TakesNoUsed(request, request', challenges)
      /\ request' \in [Request -> RequestRecord]
      /\ ChallengesStay(challenges, challenges')
  BY <1>2, <1>8, EndedKeeps, NothingMoves DEF rs
<1>10. AdminTypes'
  BY <1>2, <1>8, <1>9, CounterTyped DEF AdminInv, AdminTypes, DocumentTypes, rs
<1>11. SoundFounder(founder', bootstrap', challenges', request')
  BY <1>2, <1>9, CounterTyped, FounderOnlyCounts
<1>12. \A r \in DOMAIN receipts : receipts[r].flow # flow
  BY FlowsAreKnown DEF Unheld
<1>13. Unheld(flow, request')
  BY <1>2, <1>3, IdleTyped DEF AdminInv, AdminTypes, OneHolder, Unheld
<1>14. \A r \in DOMAIN rs : SoundReceipt(r, rs, sessions, challenges, request')
  <2> TAKE r \in DOMAIN rs
  <2>1. CASE r = i
    BY <1>3, <1>6, <1>8, <1>12, <1>13, <2>1 DEF SoundReceipt, challenge
  <2>2. CASE r \in DOMAIN receipts
    <3>1. SoundReceipt(r, receipts, sessions, challenges, request)
      BY <2>2 DEF AdminInv
    <3>2. Unheld(receipts[r].flow, request')
      BY <1>9, <2>2, FlowsAreKnown DEF TakesNoUsed
    <3> QED
      BY <1>6, <1>8, <1>12, <2>2, <3>1, <3>2 DEF SoundReceipt
  <2> QED
    BY <1>8, <2>1, <2>2
<1>15. \A s \in DOMAIN sessions : SoundSession(s, sessions, challenges, request')
  <2> TAKE s \in DOMAIN sessions
  <2>1. SoundSession(s, sessions, challenges, request)
    BY DEF AdminInv
  <2>2. sessions[s].flow # 0 => Unheld(sessions[s].flow, request')
    BY <1>9, FlowsAreKnown DEF TakesNoUsed
  <2> QED
    BY <2>1, <2>2 DEF SoundSession
<1> QED
  BY <1>2, <1>9, <1>10, <1>11, <1>14, <1>15 DEF AdminInv, rs

LEMMA FinishFounderRegistrationKeeps ==
  ASSUME AdminInv, NEW q \in Request, FinishFounderRegistration(q)
  PROVE  AdminInv'
<1> DEFINE flow == request[q].flow
<1>1. PICK n \in VerifiedCounter(0) :
        founder' = [registered |-> TRUE, flow |-> flow, counter |-> n]
  BY DEF FinishFounderRegistration
<1>2. /\ request[q].at = "register" /\ challenges[flow].token = bootstrap.token
      /\ bootstrap' = [bootstrap EXCEPT !.consumed = TRUE]
      /\ request' = [request EXCEPT ![q] = Idle]
      /\ UNCHANGED <<setting, time, challenges, sessions, receipts>>
  BY DEF FinishFounderRegistration, ActiveBootstrap
<1>3. /\ flow # 0 /\ flow \in DOMAIN challenges /\ challenges[flow].used
      /\ challenges[flow].kind = "registration"
  BY <1>2 DEF AdminInv, SoundRequest, Kind
<1>4. flow \in Nat /\ n \in Nat
  BY AdminAssumption DEF AdminInv, AdminTypes, RequestRecord, VerifiedCounter
<1>5. bootstrap \in [token : Nat, expires : Nat, consumed : BOOLEAN]
  BY DEF AdminInv, AdminTypes, DocumentTypes
<1>6. /\ bootstrap' \in [token : Nat, expires : Nat, consumed : BOOLEAN]
      /\ bootstrap'.consumed /\ bootstrap'.token = bootstrap.token
  BY <1>2, <1>5
<1>7. /\ founder' \in [registered : BOOLEAN, flow : Nat, counter : Nat]
      /\ founder'.flow = flow /\ founder'.registered
  BY <1>1, <1>4
<1>8. SessionsStay(sessions, sessions')
  BY <1>2, NothingMoves
<1>9. /\ \A p \in Request : SoundRequest(request'[p], challenges', sessions', receipts')
      /\ OneHolder(request') /\ TakesNoUsed(request, request', challenges)
      /\ request' \in [Request -> RequestRecord]
  BY <1>2, <1>8, EndedKeeps
<1>10. AdminTypes'
  BY <1>2, <1>6, <1>7, <1>9 DEF AdminInv, AdminTypes, DocumentTypes
<1>11. Unheld(flow, request')
  BY <1>2, <1>3, IdleTyped DEF AdminInv, AdminTypes, OneHolder, Unheld
<1>12. SoundFounder(founder', bootstrap', challenges', request')
  BY <1>2, <1>3, <1>6, <1>7, <1>11 DEF SoundFounder
<1>13. \A s \in DOMAIN sessions : SoundSession(s, sessions, challenges, request')
  <2> TAKE s \in DOMAIN sessions
  <2>1. SoundSession(s, sessions, challenges, request)
    BY DEF AdminInv
  <2>2. sessions[s].flow # 0 => Unheld(sessions[s].flow, request')
    BY <1>9, FlowsAreKnown DEF TakesNoUsed
  <2> QED
    BY <2>1, <2>2 DEF SoundSession
<1>14. \A r \in DOMAIN receipts : SoundReceipt(r, receipts, sessions, challenges, request')
  <2> TAKE r \in DOMAIN receipts
  <2>1. SoundReceipt(r, receipts, sessions, challenges, request)
    BY DEF AdminInv
  <2>2. Unheld(receipts[r].flow, request')
    BY <1>9, FlowsAreKnown DEF TakesNoUsed
  <2> QED
    BY <2>1, <2>2 DEF SoundReceipt
<1> QED
  BY <1>2, <1>9, <1>10, <1>12, <1>13, <1>14 DEF AdminInv

LEMMA CreateFounderBootstrapKeeps ==
  ASSUME AdminInv, CreateFounderBootstrap
  PROVE  AdminInv'
<1>1. PICK now \in Recent :
        /\ ~founder.registered
        /\ bootstrap' = [token |-> bootstrap.token + 1, expires |-> now + Ttl.bootstrap,
                         consumed |-> FALSE]
        /\ UNCHANGED <<setting, time, founder, challenges, sessions, receipts, request>>
  BY DEF CreateFounderBootstrap
<1>2. now \in Nat /\ bootstrap.token \in Nat
  BY RecentIsNatural DEF AdminInv, AdminTypes, DocumentTypes
<1>3. now + Ttl.bootstrap \in Nat
  BY <1>2, AdminAssumption
<1>4. bootstrap' \in [token : Nat, expires : Nat, consumed : BOOLEAN]
  BY <1>1, <1>2, <1>3
<1>5. AdminTypes'
  BY <1>1, <1>4 DEF AdminInv, AdminTypes, DocumentTypes
<1>6. SoundFounder(founder', bootstrap', challenges', request')
  BY <1>1 DEF AdminInv, SoundFounder
<1>7. UNCHANGED <<founder, challenges, sessions, receipts, request>>
  BY <1>1
<1> QED
  BY <1>5, <1>6, <1>7 DEF AdminInv

\* What passes by the document.
LEMMA AdvanceKeeps ==
  ASSUME AdminInv, Advance \/ UNCHANGED adminVars
  PROVE  AdminInv'
<1>1. UNCHANGED <<setting, bootstrap, founder, challenges, sessions, receipts, request>>
  BY DEF Advance, adminVars
<1>2. time' \in Nat
  BY DEF Advance, adminVars, AdminInv, AdminTypes, DocumentTypes
<1>3. AdminTypes'
  BY <1>1, <1>2 DEF AdminInv, AdminTypes, DocumentTypes
<1> QED
  BY <1>1, <1>3 DEF AdminInv

\* The invariant of the admin security document: its types; what each request in
\* progress may rely on although others change the document; a challenge and a
\* receipt are in the hands of one request; and of what a challenge has made there
\* is one.
THEOREM AdminInvariant == AdminSpec => []AdminInv
<1>1. ASSUME AdminInv, [AdminNext]_adminVars PROVE AdminInv'
  <2>1. CASE Advance \/ UNCHANGED adminVars
    BY <1>1, <2>1, AdvanceKeeps
  <2>2. CASE CreateFounderBootstrap
    BY <1>1, <2>2, CreateFounderBootstrapKeeps
  <2>3. CASE BeginFounderRegistration
    BY <1>1, <2>3, BeginFounderRegistrationKeeps
  <2>4. CASE BeginAuthentication
    BY <1>1, <2>4, BeginAuthenticationKeeps
  <2>5. CASE Logout
    BY <1>1, <2>5, LogoutKeeps
  <2>6. ASSUME NEW q \in Request, AdminStep(q) PROVE AdminInv'
    <3>1. CASE ConsumeChallenge(q)
      BY <1>1, <3>1, ConsumeChallengeKeeps
    <3>2. CASE FinishFounderRegistration(q)
      BY <1>1, <3>2, FinishFounderRegistrationKeeps
    <3>3. CASE ReadCredential(q)
      BY <1>1, <3>3, ReadCredentialKeeps
    <3>4. CASE FinishAuthentication(q)
      BY <1>1, <3>4, FinishAuthenticationKeeps
    <3>5. CASE AuthenticateSession(q)
      BY <1>1, <3>5, AuthenticateSessionKeeps
    <3>6. CASE TouchSession(q)
      BY <1>1, <3>6, TouchSessionKeeps
    <3>7. CASE AskForSession(q)
      BY <1>1, <3>7, AskForSessionKeeps
    <3>8. CASE RevokeSession(q)
      BY <1>1, <3>8, RevokeSessionKeeps
    <3>9. CASE AskForStepUp(q)
      BY <1>1, <3>9, AskForStepUpKeeps
    <3>10. CASE BeginStepUp(q)
      BY <1>1, <3>10, BeginStepUpKeeps
    <3>11. CASE FinishStepUp(q)
      BY <1>1, <3>11, FinishStepUpKeeps
    <3>12. CASE AskForCommand(q)
      BY <1>1, <3>12, AskForCommandKeeps
    <3>13. CASE ConsumeStepUpReceipt(q)
      BY <1>1, <3>13, ConsumeStepUpReceiptKeeps
    <3>14. CASE PerformCommand(q)
      BY <1>1, <3>14, PerformCommandKeeps
    <3>15. CASE Abandon(q)
      BY <1>1, <3>15, AbandonKeeps
    <3> QED
      BY <2>6, <3>1, <3>2, <3>3, <3>4, <3>5, <3>6, <3>7, <3>8, <3>9, <3>10, <3>11, <3>12,
         <3>13, <3>14, <3>15 DEF AdminStep
  <2> QED
    BY <1>1, <2>1, <2>2, <2>3, <2>4, <2>5, <2>6 DEF AdminNext
<1> QED
  BY <1>1, AdminInitInv, PTL DEF AdminSpec

----------------------------------------------------------------------------
(* The properties.                                                         *)

LEMMA AtMostOne ==
  ASSUME NEW S, \A x, y \in S : x = y
  PROVE  Cardinality(S) \in Nat /\ Cardinality(S) <= 1 /\ (S = {} => Cardinality(S) = 0)
<1>1. CASE S = {}
  BY <1>1, FS_EmptySet
<1>2. CASE S # {}
  <2>1. PICK x : x \in S
    BY <1>2
  <2>2. S = {x}
    BY <2>1
  <2> QED
    BY <1>2, <2>2, FS_Singleton
<1> QED
  BY <1>1, <1>2

LEMMA OneUse ==
  ASSUME AdminInv
  PROVE  CeremoniesAreOneUse
<1>1. ASSUME NEW f \in DOMAIN challenges
      PROVE  LET made == {s \in DOMAIN sessions : sessions[s].flow = f}
                 given == {r \in DOMAIN receipts : receipts[r].flow = f}
                 registered == {x \in {f} : x = founder.flow}
             IN /\ Cardinality(made) + Cardinality(given) + Cardinality(registered) <= 1
                /\ made # {} => challenges[f].kind = "authentication"
                /\ given # {} => challenges[f].kind = "stepUp"
                /\ \A r \in given : /\ receipts[r].session = challenges[f].session
                                    /\ receipts[r].command = challenges[f].command
                /\ ~challenges[f].used => made \union given \union registered = {}
  <2> DEFINE made == {s \in DOMAIN sessions : sessions[s].flow = f}
             given == {r \in DOMAIN receipts : receipts[r].flow = f}
             registered == {x \in {f} : x = founder.flow}
  <2>1. f # 0
    BY SequenceTyped DEF AdminInv, AdminTypes, DocumentTypes
  <2>2. \A s \in made : /\ challenges[f].used /\ challenges[f].kind = "authentication"
                        /\ \A t \in made : t = s
    BY <2>1 DEF AdminInv, SoundSession
  <2>3. \A r \in given : /\ challenges[f].used /\ challenges[f].kind = "stepUp"
                         /\ receipts[r].session = challenges[f].session
                         /\ receipts[r].command = challenges[f].command
                         /\ \A t \in given : t = r
    BY DEF AdminInv, SoundReceipt
  <2>4. \A x \in registered : /\ challenges[f].used /\ challenges[f].kind = "registration"
                              /\ \A y \in registered : y = x
    BY <2>1 DEF AdminInv, SoundFounder
  <2> HIDE DEF made, given, registered
  <2>5. /\ Cardinality(made) \in Nat /\ Cardinality(made) <= 1
        /\ made = {} => Cardinality(made) = 0
    BY <2>2, AtMostOne
  <2>6. /\ Cardinality(given) \in Nat /\ Cardinality(given) <= 1
        /\ given = {} => Cardinality(given) = 0
    BY <2>3, AtMostOne
  <2>7. /\ Cardinality(registered) \in Nat /\ Cardinality(registered) <= 1
        /\ registered = {} => Cardinality(registered) = 0
    BY <2>4, AtMostOne
  <2>8. /\ made # {} => given = {} /\ registered = {}
        /\ given # {} => made = {} /\ registered = {}
    BY <2>2, <2>3, <2>4
  <2>9. Cardinality(made) + Cardinality(given) + Cardinality(registered) <= 1
    BY <2>5, <2>6, <2>7, <2>8
  <2>10. ~challenges[f].used => made \union given \union registered = {}
    BY <2>2, <2>3, <2>4
  <2>11. /\ made # {} => challenges[f].kind = "authentication"
         /\ given # {} => challenges[f].kind = "stepUp"
         /\ \A r \in given : /\ receipts[r].session = challenges[f].session
                             /\ receipts[r].command = challenges[f].command
    BY <2>2, <2>3
  <2> QED
    BY <2>9, <2>10, <2>11 DEF made, given, registered
<1>2. \A r \in DOMAIN receipts :
        receipts[r].acted <= 1 /\ (receipts[r].acted = 1 => receipts[r].consumed)
  BY DEF AdminInv, SoundReceipt
<1>3. founder.flow # 0 => challenges[founder.flow].token = bootstrap.token /\ bootstrap.consumed
  BY DEF AdminInv, SoundFounder
<1> QED
  BY <1>1, <1>2, <1>3 DEF CeremoniesAreOneUse

\* Whatever the number of requests, challenges and receipts, nothing that is good
\* for one use is used twice.
THEOREM CeremoniesAreOneUseHolds == AdminSpec => []CeremoniesAreOneUse
BY AdminInvariant, OneUse, PTL

\* What a step does to the sessions that there are.
LEMMA SessionsEnd ==
  ASSUME AdminInv, [AdminNext]_adminVars, NEW s \in DOMAIN sessions
  PROVE  /\ sessions[s].revoked => sessions'[s].revoked
         /\ sessions'[s].absolute = sessions[s].absolute
         /\ sessions'[s].idle <= sessions'[s].absolute
<1> DEFINE Ends == /\ sessions[s].revoked => sessions'[s].revoked
                   /\ sessions'[s].absolute = sessions[s].absolute
                   /\ sessions'[s].idle <= sessions'[s].absolute
<1>1. CASE UNCHANGED sessions
  BY <1>1 DEF AdminInv, SoundSession
<1>2. ASSUME NEW all, NEW x, sessions' = Revoked(all, x) PROVE Ends
  BY <1>2, RevokedIs
<1>3. ASSUME NEW q \in Request, TouchSession(q) PROVE Ends
  BY <1>3, TouchedIs
<1>4. ASSUME NEW q \in Request, FinishAuthentication(q) PROVE Ends
  <2>1. PICK now \in Recent : sessions' = Append(sessions, SessionFrom(request[q].flow, now))
    BY <1>4 DEF FinishAuthentication
  <2>2. request[q].flow \in Nat /\ now \in Nat
    BY RecentIsNatural DEF AdminInv, AdminTypes, RequestRecord
  <2>3. SessionFrom(request[q].flow, now) \in SessionRecord /\ sessions \in Seq(SessionRecord)
    BY <2>2, NewSession DEF AdminInv, AdminTypes, DocumentTypes
  <2>4. sessions'[s] = sessions[s]
    BY <2>1, <2>3, SequenceGrows
  <2> QED
    BY <2>4 DEF AdminInv, SoundSession
<1>5. CASE Logout
  BY <1>2, <1>5 DEF Logout
<1>6. ASSUME NEW q \in Request, AdminStep(q) PROVE Ends
  <2>1. \/ UNCHANGED sessions \/ TouchSession(q) \/ FinishAuthentication(q)
        \/ RevokeSession(q) \/ PerformCommand(q)
    BY <1>6 DEF AdminStep, ConsumeChallenge, FinishFounderRegistration, ReadCredential,
         AuthenticateSession, AskForSession, AskForStepUp, BeginStepUp, FinishStepUp,
         AskForCommand, ConsumeStepUpReceipt, Abandon
  <2>2. CASE RevokeSession(q)
    BY <1>2, <2>2 DEF RevokeSession
  <2>3. CASE PerformCommand(q)
    BY <1>2, <2>3 DEF PerformCommand
  <2> QED
    BY <1>1, <1>3, <1>4, <2>1, <2>2, <2>3
<1> QED
  BY <1>1, <1>5, <1>6 DEF AdminNext, Advance, CreateFounderBootstrap,
     BeginFounderRegistration, BeginAuthentication, adminVars

\* To which session a step gives a receipt.
LEMMA ReceiptsAreForTheLive ==
  ASSUME AdminInv, [AdminNext]_adminVars, NEW r \in DOMAIN receipts' \ DOMAIN receipts
  PROVE  ~sessions[receipts'[r].session].revoked
<1>1. CASE UNCHANGED receipts
  BY <1>1
<1>2. ASSUME NEW q \in Request, AdminStep(q) PROVE ~sessions[receipts'[r].session].revoked
  <2>1. \/ UNCHANGED receipts \/ FinishStepUp(q)
        \/ ConsumeStepUpReceipt(q) \/ PerformCommand(q)
    BY <1>2 DEF AdminStep, ConsumeChallenge, FinishFounderRegistration, ReadCredential,
         FinishAuthentication, TouchSession, RevokeSession,
         AuthenticateSession, AskForSession, AskForStepUp, BeginStepUp,
         AskForCommand, Abandon
  <2>2. CASE ConsumeStepUpReceipt(q) \/ PerformCommand(q)
    BY <2>2 DEF ConsumeStepUpReceipt, PerformCommand
  <2>3. CASE FinishStepUp(q)
    <3> DEFINE flow == request[q].flow
    <3>1. PICK now \in Recent :
            /\ Active(request[q].session, now)
            /\ receipts' = Append(receipts,
                 [flow |-> flow, session |-> challenges[flow].session,
                  command |-> challenges[flow].command, expires |-> now + Ttl.stepUp,
                  consumed |-> FALSE, acted |-> 0])
      BY <2>3 DEF FinishStepUp
    <3>2. challenges[flow].session = request[q].session
      BY <2>3 DEF FinishStepUp, AdminInv, SoundRequest
    <3>3. receipts \in Seq(ReceiptRecord)
      BY DEF AdminInv, AdminTypes, DocumentTypes
    <3> DEFINE e == [flow |-> flow, session |-> challenges[flow].session,
                  command |-> challenges[flow].command, expires |-> now + Ttl.stepUp,
                  consumed |-> FALSE, acted |-> 0]
    <3>4. e.session = request[q].session
      BY <3>2
    <3>5. receipts' = Append(receipts, e)
      BY <3>1
    <3> HIDE DEF e
    <3>6. /\ DOMAIN receipts' = 1 .. Len(receipts) + 1
          /\ receipts'[Len(receipts) + 1] = e /\ DOMAIN receipts = 1 .. Len(receipts)
          /\ Len(receipts) \in Nat
      BY <3>3, <3>5, SequenceTyped
    <3>7. receipts'[r] = e
      BY <3>6
    <3> QED
      BY <3>1, <3>4, <3>7 DEF Active
  <2> QED
    BY <1>1, <2>1, <2>2, <2>3
<1> QED
  BY <1>1, <1>2 DEF AdminNext, Advance, CreateFounderBootstrap,
     BeginFounderRegistration, BeginAuthentication, Logout, adminVars

\* A session that has ended stays ended, whatever requests authenticated before.
THEOREM SessionsEndForGoodHolds == AdminSpec => SessionsEndForGood
<1>1. ASSUME AdminInv, [AdminNext]_adminVars
      PROVE  /\ \A s \in DOMAIN sessions :
                  /\ sessions[s].revoked => sessions'[s].revoked
                  /\ sessions'[s].absolute = sessions[s].absolute
                  /\ sessions'[s].idle <= sessions'[s].absolute
             /\ \A r \in DOMAIN receipts' \ DOMAIN receipts :
                  ~sessions[receipts'[r].session].revoked
             /\ \A q \in Request :
                  PerformCommand(q) /\ request[q].command # "confirm" => ~request[q].revoked
  <2>1. \A q \in Request :
          PerformCommand(q) /\ request[q].command # "confirm" => ~request[q].revoked
    BY <1>1 DEF AdminInv, SoundRequest, PerformCommand
  <2> QED
    BY <1>1, <2>1, SessionsEnd, ReceiptsAreForTheLive
<1> QED
  BY <1>1, AdminInvariant, PTL DEF AdminSpec, SessionsEndForGood

-----------------------------------------------------------------------------
(* The bounds of the document.                                               *)

\* A challenge is bound to a session exactly if it is a step-up's.
BoundTo(challenge, ss) ==
  IF challenge.kind = "stepUp" THEN challenge.session \in DOMAIN ss ELSE challenge.session = 0

\* What counts up stays within its bound, and what names a session names one that
\* there is.
AdminBounds ==
  /\ bootstrap.token <= MaxTokens /\ founder.counter <= MaxCounter
  /\ DOMAIN challenges \subseteq 1..MaxFlows
  /\ \A f \in DOMAIN challenges : BoundTo(challenges[f], sessions)
  /\ \A q \in Request : request[q].session \in {0} \union DOMAIN sessions

\* No session is taken out of the document.
LEMMA SessionsStayThere ==
  ASSUME AdminInv, [AdminNext]_adminVars
  PROVE  DOMAIN sessions \subseteq DOMAIN sessions'
<1>1. CASE UNCHANGED sessions
  BY <1>1
<1>2. ASSUME NEW all, NEW x, sessions' = Revoked(all, x) PROVE DOMAIN sessions \subseteq DOMAIN sessions'
  BY <1>2, RevokedIs
<1>3. ASSUME NEW q \in Request, FinishAuthentication(q) PROVE DOMAIN sessions \subseteq DOMAIN sessions'
  <2>1. PICK now \in Recent : sessions' = Append(sessions, SessionFrom(request[q].flow, now))
    BY <1>3 DEF FinishAuthentication
  <2>2. request[q].flow \in Nat /\ now \in Nat
    BY RecentIsNatural DEF AdminInv, AdminTypes, RequestRecord
  <2>3. SessionFrom(request[q].flow, now) \in SessionRecord /\ sessions \in Seq(SessionRecord)
    BY <2>2, NewSession DEF AdminInv, AdminTypes, DocumentTypes
  <2> QED
    BY <2>1, <2>3, SequenceGrows
<1>4. ASSUME NEW q \in Request, AdminStep(q) PROVE DOMAIN sessions \subseteq DOMAIN sessions'
  <2>1. \/ UNCHANGED sessions \/ TouchSession(q) \/ FinishAuthentication(q)
        \/ RevokeSession(q) \/ PerformCommand(q)
    BY <1>4 DEF AdminStep, ConsumeChallenge, FinishFounderRegistration, ReadCredential,
         AuthenticateSession, AskForSession, AskForStepUp, BeginStepUp, FinishStepUp,
         AskForCommand, ConsumeStepUpReceipt, Abandon
  <2>2. CASE RevokeSession(q) \/ PerformCommand(q)
    BY <1>2, <2>2 DEF RevokeSession, PerformCommand
  <2>3. CASE TouchSession(q)
    BY <2>3, TouchedIs
  <2> QED
    BY <1>1, <1>3, <2>1, <2>2, <2>3
<1> QED
  BY <1>1, <1>2, <1>4 DEF AdminNext, Advance, CreateFounderBootstrap,
     BeginFounderRegistration, BeginAuthentication, Logout, adminVars

LEMMA CountersStayBounded ==
  ASSUME AdminInv, AdminBounds, [AdminNext]_adminVars
  PROVE  bootstrap'.token <= MaxTokens /\ founder'.counter <= MaxCounter
<1>0. bootstrap \in [token : Nat, expires : Nat, consumed : BOOLEAN] /\ MaxTokens \in Nat /\ MaxCounter \in Nat
  BY AdminAssumption DEF AdminInv, AdminTypes, DocumentTypes
<1>1. bootstrap'.token <= MaxTokens
  <2>1. CASE CreateFounderBootstrap
    BY <1>0, <2>1 DEF CreateFounderBootstrap
  <2>2. ASSUME NEW q \in Request, FinishFounderRegistration(q) PROVE bootstrap'.token = bootstrap.token
    BY <1>0, <2>2 DEF FinishFounderRegistration
  <2>3. ASSUME NEW q \in Request, AdminStep(q) PROVE bootstrap'.token = bootstrap.token
    BY <2>2, <2>3 DEF AdminStep, ConsumeChallenge, ReadCredential, FinishAuthentication,
         AuthenticateSession, TouchSession, AskForSession, RevokeSession, AskForStepUp, BeginStepUp,
         FinishStepUp, AskForCommand, ConsumeStepUpReceipt, PerformCommand, Abandon
  <2> QED
    BY <2>1, <2>3 DEF AdminBounds, AdminNext, Advance, BeginFounderRegistration, BeginAuthentication,
       Logout, adminVars
<1>2. founder'.counter <= MaxCounter
  <2>0. founder \in [registered : BOOLEAN, flow : Nat, counter : Nat]
    BY DEF AdminInv, AdminTypes, DocumentTypes
  <2>1. ASSUME NEW q \in Request, FinishFounderRegistration(q) PROVE founder'.counter <= MaxCounter
    <3>1. PICK n \in VerifiedCounter(0) : founder' = [registered |-> TRUE, flow |-> request[q].flow, counter |-> n]
      BY <2>1 DEF FinishFounderRegistration
    <3> QED
      BY <1>0, <3>1 DEF VerifiedCounter
  <2>2. ASSUME NEW q \in Request, CounterMoves(q) PROVE founder'.counter <= MaxCounter
    <3>1. PICK n \in VerifiedCounter(request[q].counter) : founder' = [founder EXCEPT !.counter = n]
      BY <2>2 DEF CounterMoves
    <3>2. n <= MaxCounter
      BY <1>0, <3>1 DEF VerifiedCounter
    <3> QED
      BY <2>0, <3>1, <3>2
  <2>3. ASSUME NEW q \in Request, AdminStep(q) PROVE founder'.counter <= MaxCounter
    <3>1. \/ UNCHANGED founder \/ FinishFounderRegistration(q) \/ CounterMoves(q)
      BY <2>3 DEF AdminStep, ConsumeChallenge, ReadCredential, FinishAuthentication,
         AuthenticateSession, TouchSession, AskForSession, RevokeSession, AskForStepUp, BeginStepUp,
         FinishStepUp, AskForCommand, ConsumeStepUpReceipt, PerformCommand, Abandon
    <3> QED
      BY <2>1, <2>2, <3>1 DEF AdminBounds
  <2> QED
    BY <2>3 DEF AdminBounds, AdminNext, Advance, CreateFounderBootstrap, BeginFounderRegistration,
       BeginAuthentication, Logout, adminVars
<1> QED
  BY <1>1, <1>2

\* A new challenge is bound as its kind asks.
LEMMA NewChallengeIsBound ==
  ASSUME AdminInv, AdminBounds, [AdminNext]_adminVars,
         NEW kind \in Kind, NEW token \in Nat, NEW session \in Nat, NEW command \in AdminCommand,
         NewChallenge(kind, token, session, command),
         IF kind = "stepUp" THEN session \in DOMAIN sessions ELSE session = 0
  PROVE  /\ DOMAIN challenges' \subseteq 1..MaxFlows
         /\ \A f \in DOMAIN challenges' : BoundTo(challenges'[f], sessions')
<1>1. PICK now \in Recent :
        /\ Len(challenges) < MaxFlows
        /\ challenges' = Append(challenges,
             [kind |-> kind, token |-> token, session |-> session, command |-> command,
              expires |-> now + Ttl.challenge, used |-> FALSE])
  BY DEF NewChallenge
<1> DEFINE new == [kind |-> kind, token |-> token, session |-> session, command |-> command,
                   expires |-> now + Ttl.challenge, used |-> FALSE]
<1>2. challenges \in Seq(ChallengeRecord) /\ now \in Nat /\ Ttl.challenge \in Nat
  BY RecentIsNatural, AdminAssumption DEF AdminInv, AdminTypes, DocumentTypes
<1>3. new \in ChallengeRecord /\ BoundTo(new, sessions)
  BY <1>2 DEF ChallengeRecord, BoundTo
<1>4. challenges' = Append(challenges, new)
  BY <1>1
<1> HIDE DEF new
<1>5. /\ DOMAIN challenges' = DOMAIN challenges \union {Len(challenges) + 1}
      /\ challenges'[Len(challenges) + 1] = new
      /\ \A f \in DOMAIN challenges : challenges'[f] = challenges[f]
  BY <1>2, <1>3, <1>4, SequenceGrows
<1>6. Len(challenges) + 1 \in 1..MaxFlows
  BY <1>1, <1>2, SequenceTyped, AdminAssumption
<1>7. \A c : BoundTo(c, sessions) => BoundTo(c, sessions')
  BY SessionsStayThere DEF BoundTo
<1> QED
  BY <1>3, <1>5, <1>6, <1>7 DEF AdminBounds

LEMMA ChallengesStayBound ==
  ASSUME AdminInv, AdminBounds, [AdminNext]_adminVars
  PROVE  /\ DOMAIN challenges' \subseteq 1..MaxFlows
         /\ \A f \in DOMAIN challenges' : BoundTo(challenges'[f], sessions')
<1> DEFINE Bound == /\ DOMAIN challenges' \subseteq 1..MaxFlows
                    /\ \A f \in DOMAIN challenges' : BoundTo(challenges'[f], sessions')
<1> SUFFICES Bound
  OBVIOUS
<1>0. \A c : BoundTo(c, sessions) => BoundTo(c, sessions')
  BY SessionsStayThere DEF BoundTo
<1>1. CASE UNCHANGED challenges
  BY <1>0, <1>1 DEF AdminBounds
<1>2. CASE BeginFounderRegistration
  <2>1. PICK token \in 1 .. bootstrap.token : NewChallenge("registration", token, 0, NoCommand)
    BY <1>2 DEF BeginFounderRegistration
  <2>2. bootstrap.token \in Nat
    BY DEF AdminInv, AdminTypes, DocumentTypes
  <2>3. token \in Nat /\ 0 \in Nat /\ "registration" \in Kind /\ NoCommand \in AdminCommand
    BY <2>2 DEF Kind, AdminCommand
  <2> QED
    BY <2>1, <2>3, NewChallengeIsBound
<1>3. CASE BeginAuthentication
  <2>1. NewChallenge("authentication", 0, 0, NoCommand)
    BY <1>3 DEF BeginAuthentication
  <2>2. 0 \in Nat /\ "authentication" \in Kind /\ NoCommand \in AdminCommand
    BY DEF Kind, AdminCommand
  <2> QED
    BY <2>1, <2>2, NewChallengeIsBound
<1>4. ASSUME NEW q \in Request, BeginStepUp(q) PROVE Bound
  <2>1. NewChallenge("stepUp", 0, request[q].session, request[q].command) /\ request[q].op = "beginStepUp"
    BY <1>4 DEF BeginStepUp
  <2>2. request[q].session \in DOMAIN sessions
    BY <2>1 DEF AdminInv, SoundRequest
  <2>3. request[q].session \in Nat /\ request[q].command \in AdminCommand /\ 0 \in Nat /\ "stepUp" \in Kind
    BY DEF AdminInv, AdminTypes, RequestRecord, Kind
  <2> QED
    BY <2>1, <2>2, <2>3, NewChallengeIsBound
<1>5. ASSUME NEW q \in Request, ConsumeChallenge(q) PROVE Bound
  <2>1. PICK flow \in DOMAIN challenges : challenges' = [challenges EXCEPT ![flow].used = TRUE]
    BY <1>5 DEF ConsumeChallenge
  <2>2. challenges[flow] \in ChallengeRecord
    BY SequenceTyped DEF AdminInv, AdminTypes, DocumentTypes
  <2> DEFINE new == [challenges[flow] EXCEPT !.used = TRUE]
  <2>3. new.kind = challenges[flow].kind /\ new.session = challenges[flow].session
    BY <2>2 DEF ChallengeRecord
  <2>4. /\ DOMAIN challenges' = DOMAIN challenges /\ challenges'[flow] = new
        /\ \A f \in DOMAIN challenges : f # flow => challenges'[f] = challenges[f]
    BY <2>1
  <2> HIDE DEF new
  <2>5. BoundTo(new, sessions)
    BY <2>3 DEF AdminBounds, BoundTo
  <2> QED
    BY <1>0, <2>4, <2>5 DEF AdminBounds
<1>6. ASSUME NEW q \in Request, AdminStep(q) PROVE Bound
  <2>1. UNCHANGED challenges \/ BeginStepUp(q) \/ ConsumeChallenge(q)
    BY <1>6 DEF AdminStep, FinishFounderRegistration, ReadCredential, FinishAuthentication,
         AuthenticateSession, TouchSession, AskForSession, RevokeSession, AskForStepUp,
         FinishStepUp, AskForCommand, ConsumeStepUpReceipt, PerformCommand, Abandon
  <2> HIDE DEF Bound
  <2> QED
    BY <1>1, <1>4, <1>5, <2>1
<1>7. \/ UNCHANGED challenges \/ BeginFounderRegistration \/ BeginAuthentication
      \/ \E q \in Request : AdminStep(q)
  BY DEF AdminNext, Advance, CreateFounderBootstrap, Logout, adminVars
<1> HIDE DEF Bound
<1> QED
  BY <1>1, <1>2, <1>3, <1>6, <1>7

LEMMA RequestsNameSessions ==
  ASSUME AdminInv, AdminBounds, [AdminNext]_adminVars
  PROVE  \A p \in Request : request'[p].session \in {0} \union DOMAIN sessions'
<1> DEFINE Named == \A p \in Request : request'[p].session \in {0} \union DOMAIN sessions'
<1> SUFFICES Named
  OBVIOUS
<1>0. DOMAIN sessions \subseteq DOMAIN sessions'
  BY SessionsStayThere
<1>1. CASE UNCHANGED request
  BY <1>0, <1>1 DEF AdminBounds
<1>2. ASSUME NEW q \in Request, NEW n, request' = [request EXCEPT ![q] = n],
             n.session \in {0, request[q].session} \union DOMAIN sessions
      PROVE  Named
  <2>1. request \in [Request -> RequestRecord]
    BY DEF AdminInv, AdminTypes
  <2>2. request'[q] = n /\ \A p \in Request : p # q => request'[p] = request[p]
    BY <1>2, <2>1
  <2> QED
    BY <1>0, <1>2, <2>2 DEF AdminBounds
<1>3. ASSUME NEW q \in Request, request' = [request EXCEPT ![q] = Idle] PROVE Named
  <2> HIDE DEF Named
  <2> QED
    BY <1>2, <1>3, IdleTyped
<1>4. ASSUME NEW q \in Request, NEW asked \in RequestRecord, Authenticated(q, asked),
             asked.session \in {request[q].session} \union DOMAIN sessions
      PROVE  Named
  <2>1. PICK n \in RequestRecord : request' = [request EXCEPT ![q] = n] /\ n.session = asked.session
    BY <1>4, AuthenticatedIs
  <2> HIDE DEF Named
  <2> QED
    BY <1>2, <1>4, <2>1
<1>5. ASSUME NEW q \in Request, ConsumeChallenge(q) PROVE Named
  <2>1. PICK flow \in DOMAIN challenges,
             s \in {0} \union DOMAIN sessions :
          request' = [request EXCEPT ![q] =
            [Idle EXCEPT !.op = challenges[flow].kind, !.at = AfterChallenge(challenges[flow].kind), !.flow = flow,
                         !.session = s]]
    BY <1>5 DEF ConsumeChallenge
  <2> DEFINE n == [Idle EXCEPT !.op = challenges[flow].kind, !.at = AfterChallenge(challenges[flow].kind),
                               !.flow = flow, !.session = s]
  <2>2. n.session = s
    BY DEF Idle
  <2>3. request' = [request EXCEPT ![q] = n]
    BY <2>1
  <2> HIDE DEF n, Named
  <2> QED
    BY <1>2, <2>2, <2>3
<1>6. ASSUME NEW q \in Request, ReadCredential(q) \/ TouchSession(q) \/ ConsumeStepUpReceipt(q) PROVE Named
  <2>1. request[q] \in RequestRecord
    BY DEF AdminInv, AdminTypes
  <2>2. \E n : request' = [request EXCEPT ![q] = n] /\ n.session = request[q].session
    <3>1. CASE ReadCredential(q)
      <4>1. request' = [request EXCEPT ![q] = [request[q] EXCEPT !.at = "verify", !.counter = founder.counter]]
        BY <3>1 DEF ReadCredential, AdminInv, AdminTypes
      <4>2. [request[q] EXCEPT !.at = "verify", !.counter = founder.counter].session = request[q].session
        BY <2>1 DEF RequestRecord
      <4> QED
        BY <4>1, <4>2
    <3>2. CASE TouchSession(q)
      <4>1. request' = [request EXCEPT ![q] = [request[q] EXCEPT !.at = "authenticated", !.now = 0]]
        BY <3>2 DEF TouchSession, AdminInv, AdminTypes
      <4>2. [request[q] EXCEPT !.at = "authenticated", !.now = 0].session = request[q].session
        BY <2>1 DEF RequestRecord
      <4> QED
        BY <4>1, <4>2
    <3>3. CASE ConsumeStepUpReceipt(q)
      <4> DEFINE next == IF AuthenticatesAgain(request[q].command) THEN "authenticate" ELSE "authenticated"
                 gone == sessions[request[q].session].revoked
                 n == [request[q] EXCEPT !.op = "consumed", !.at = next, !.revoked = gone]
      <4>1. request' = [request EXCEPT ![q].op = "consumed", ![q].at = next, ![q].revoked = gone]
        BY <3>3 DEF ConsumeStepUpReceipt
      <4> HIDE DEF next, gone
      <4>2. request' = [request EXCEPT ![q] = n]
        BY <4>1 DEF AdminInv, AdminTypes
      <4>3. n.session = request[q].session
        BY <2>1 DEF RequestRecord
      <4> HIDE DEF n
      <4> QED
        BY <4>2, <4>3
    <3> QED
      BY <1>6, <3>1, <3>2, <3>3
  <2> HIDE DEF Named
  <2> QED
    BY <1>2, <2>2
<1>7. ASSUME NEW q \in Request, AuthenticateSession(q) PROVE Named
  <2>1. request[q] \in RequestRecord /\ Authenticated(q, request[q])
    BY <1>7 DEF AuthenticateSession, AdminInv, AdminTypes
  <2> HIDE DEF Named
  <2> QED
    BY <1>4, <2>1
<1>8. ASSUME NEW q \in Request, AskForSession(q) PROVE Named
  <2>1. PICK s \in DOMAIN sessions, target \in DOMAIN sessions :
          Authenticated(q, [Idle EXCEPT !.op = "revokeSession", !.session = s, !.target = target])
    BY <1>8 DEF AskForSession
  <2> DEFINE asked == [Idle EXCEPT !.op = "revokeSession", !.session = s, !.target = target]
  <2>2. s \in Nat /\ target \in Nat
    BY SequenceTyped DEF AdminInv, AdminTypes, DocumentTypes
  <2>3. asked \in RequestRecord /\ asked.session = s
    BY <2>2, IdleTyped DEF RequestRecord
  <2>4. Authenticated(q, asked)
    BY <2>1
  <2> HIDE DEF asked, Named
  <2> QED
    BY <1>4, <2>3, <2>4
<1>9. ASSUME NEW q \in Request, AskForStepUp(q) PROVE Named
  <2>1. PICK s \in DOMAIN sessions, c \in setting.commands :
          Authenticated(q, [Idle EXCEPT !.op = "beginStepUp", !.session = s, !.command = c])
    BY <1>9 DEF AskForStepUp
  <2> DEFINE asked == [Idle EXCEPT !.op = "beginStepUp", !.session = s, !.command = c]
  <2>2. s \in Nat /\ c \in AdminCommand
    BY SequenceTyped, CommandsAreTyped DEF AdminInv, AdminTypes, DocumentTypes
  <2>3. asked \in RequestRecord /\ asked.session = s
    BY <2>2, IdleTyped DEF RequestRecord
  <2>4. Authenticated(q, asked)
    BY <2>1
  <2> HIDE DEF asked, Named
  <2> QED
    BY <1>4, <2>3, <2>4
<1>10. ASSUME NEW q \in Request, AskForCommand(q) PROVE Named
  <2>1. PICK r \in DOMAIN receipts, s \in DOMAIN sessions, c \in setting.commands :
          Authenticated(q, [Idle EXCEPT !.op = "command", !.session = s, !.receipt = r, !.command = c])
    BY <1>10 DEF AskForCommand
  <2> DEFINE asked == [Idle EXCEPT !.op = "command", !.session = s, !.receipt = r, !.command = c]
  <2>2. s \in Nat /\ r \in Nat /\ c \in AdminCommand
    BY SequenceTyped, CommandsAreTyped DEF AdminInv, AdminTypes, DocumentTypes
  <2>3. asked \in RequestRecord /\ asked.session = s
    BY <2>2, IdleTyped DEF RequestRecord
  <2>4. Authenticated(q, asked)
    BY <2>1
  <2> HIDE DEF asked, Named
  <2> QED
    BY <1>4, <2>3, <2>4
<1>11. ASSUME NEW q \in Request, AdminStep(q) PROVE Named
  <2>1. \/ request' = [request EXCEPT ![q] = Idle]
        \/ ConsumeChallenge(q) \/ ReadCredential(q) \/ TouchSession(q) \/ ConsumeStepUpReceipt(q)
        \/ AuthenticateSession(q) \/ AskForSession(q) \/ AskForStepUp(q) \/ AskForCommand(q)
    BY <1>11 DEF AdminStep, FinishFounderRegistration, FinishAuthentication, RevokeSession, BeginStepUp,
       FinishStepUp, PerformCommand, Abandon
  <2> HIDE DEF Named
  <2> QED
    BY <1>3, <1>5, <1>6, <1>7, <1>8, <1>9, <1>10, <2>1
<1>12. UNCHANGED request \/ \E q \in Request : AdminStep(q)
  BY DEF AdminNext, Advance, CreateFounderBootstrap, BeginFounderRegistration, BeginAuthentication,
     Logout, adminVars
<1> HIDE DEF Named
<1> QED
  BY <1>1, <1>11, <1>12

\* The document of the founder's security and the requests that work on it keep their
\* shapes and bounds (AdminTypeOK).
THEOREM AdminTyped == AdminSpec => []AdminTypeOK
<1>1. AdminInit => AdminBounds
  <2> SUFFICES ASSUME AdminInit PROVE AdminBounds
    OBVIOUS
  <2>1. DOMAIN challenges = {}
    BY DEF AdminInit
  <2>2. bootstrap.token = 0 /\ founder.counter = 0 /\ \A q \in Request : request[q].session = 0
    BY IdleTyped DEF AdminInit
  <2>3. 0 <= MaxTokens /\ 0 <= MaxCounter
    BY AdminAssumption
  <2> QED
    BY <2>1, <2>2, <2>3 DEF AdminBounds
<1>2. AdminInv /\ AdminBounds /\ [AdminNext]_adminVars => AdminBounds'
  <2> SUFFICES ASSUME AdminInv, AdminBounds, [AdminNext]_adminVars PROVE AdminBounds'
    OBVIOUS
  <2>1. bootstrap'.token <= MaxTokens /\ founder'.counter <= MaxCounter
    BY CountersStayBounded
  <2>2. /\ DOMAIN challenges' \subseteq 1..MaxFlows
        /\ \A f \in DOMAIN challenges' : BoundTo(challenges'[f], sessions')
    BY ChallengesStayBound
  <2>3. \A p \in Request : request'[p].session \in {0} \union DOMAIN sessions'
    BY RequestsNameSessions
  <2> QED
    BY <2>1, <2>2, <2>3 DEF AdminBounds
<1>3. AdminInv /\ AdminBounds => AdminTypeOK
  <2> SUFFICES ASSUME AdminInv, AdminBounds PROVE AdminTypeOK
    OBVIOUS
  <2>1. /\ bootstrap \in [token : Nat, expires : Nat, consumed : BOOLEAN]
        /\ founder \in [registered : BOOLEAN, flow : Nat, counter : Nat]
        /\ challenges \in Seq(ChallengeRecord) /\ sessions \in Seq(SessionRecord)
        /\ request \in [Request -> RequestRecord]
    BY DEF AdminInv, AdminTypes, DocumentTypes
  <2>2. /\ Len(challenges) \in Nat /\ DOMAIN challenges = 1..Len(challenges)
        /\ Len(sessions) \in Nat /\ DOMAIN sessions = 1..Len(sessions)
        /\ \A f \in DOMAIN challenges : challenges[f] \in ChallengeRecord
    BY <2>1, SequenceTyped
  <2>3. {0} \union DOMAIN sessions \subseteq 0..Len(sessions) /\ {0} \union DOMAIN challenges \subseteq 0..Len(challenges)
    BY <2>2
  <2>4. bootstrap \in [token : 0 .. MaxTokens, expires : Nat, consumed : BOOLEAN]
    BY <2>1, AdminAssumption DEF AdminBounds
  <2>5. founder \in [registered : BOOLEAN, flow : 0 .. MaxFlows, counter : 0 .. MaxCounter]
    <3>1. founder.flow = 0 \/ founder.flow \in DOMAIN challenges
      BY FlowsAreKnown
    <3>2. founder.flow \in 0 .. MaxFlows
      BY <3>1, AdminAssumption DEF AdminBounds
    <3>3. founder.counter \in 0 .. MaxCounter
      BY <2>1, AdminAssumption DEF AdminBounds
    <3> QED
      BY <2>1, <3>2, <3>3
  <2>6. ASSUME NEW f \in DOMAIN challenges
        PROVE  /\ challenges[f].kind \in {"registration", "authentication", "stepUp"}
               /\ challenges[f].session \in 0 .. Len(sessions)
               /\ (challenges[f].kind = "stepUp") = (challenges[f].session # 0)
    <3>1. challenges[f].kind \in Kind /\ BoundTo(challenges[f], sessions) /\ 0 \notin DOMAIN sessions
      BY <2>2 DEF AdminBounds, ChallengeRecord
    <3>2. challenges[f].session \in {0} \union DOMAIN sessions
      BY <3>1 DEF BoundTo
    <3>3. (challenges[f].kind = "stepUp") <=> (challenges[f].session # 0)
      BY <3>1 DEF BoundTo
    <3> QED
      BY <2>3, <3>1, <3>2, <3>3 DEF Kind
  <2>7. \A r \in DOMAIN receipts : receipts[r].session \in DOMAIN sessions
    BY DEF AdminInv, SoundReceipt
  <2>8. ASSUME NEW q \in Request
        PROVE  /\ request[q].at \in {"end", "register", "read", "verify", "authenticate", "touch", "authenticated"}
               /\ request[q].flow \in 0 .. Len(challenges)
               /\ request[q].session \in 0 .. Len(sessions)
    <3>1. request[q] \in RequestRecord
      BY <2>1
    <3>2. request[q].flow \in {0} \union DOMAIN challenges
      BY DEF AdminInv, SoundRequest
    <3>3. request[q].session \in {0} \union DOMAIN sessions
      BY DEF AdminBounds
    <3> QED
      BY <2>3, <3>1, <3>2, <3>3 DEF RequestRecord
  <2> QED
    BY <2>4, <2>5, <2>6, <2>7, <2>8 DEF AdminTypeOK
<1> QED
  BY <1>1, <1>2, <1>3, AdminInvariant, PTL DEF AdminSpec

-----------------------------------------------------------------------------
(* The workflow and the admin security together (MCWorkflowAdmin).           *)

\* A behaviour of the two is one of each: it takes that component's steps, or leaves
\* it alone.
LEMMA EitherBehaves == WorkflowAdminSpec => WorkflowSpec /\ AdminSpec
<1>1. WorkflowAdminInit => WorkflowInit /\ AdminInit
  BY DEF WorkflowAdminInit
<1>2. [WorkflowAdminNext]_<<part, workflowVars, adminVars>> => [WorkflowNext]_workflowVars /\ [AdminNext]_adminVars
  BY DEF WorkflowAdminNext
<1> QED
  BY <1>1, <1>2, PTL DEF WorkflowAdminSpec, WorkflowSpec, AdminSpec

\* Whatever callers and requests do, the records of the workflow and of the founder's
\* security keep their shapes (the runs' WorkflowAdminTypeOK).
THEOREM WorkflowAdminTyped == WorkflowAdminSpec => []WorkflowAdminTypeOK
<1>1. WorkflowTypeOK /\ AdminTypeOK => WorkflowAdminTypeOK
  BY DEF WorkflowAdminTypeOK
<1> QED
  BY <1>1, EitherBehaves, WorkflowTyped, AdminTyped, PTL

=============================================================================
