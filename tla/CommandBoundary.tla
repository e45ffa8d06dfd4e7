--------------------------- MODULE CommandBoundary ---------------------------
(***************************************************************************)
(* The boundary that every local command crosses                           *)
(* (LocalWorkflowCommandBoundary.execute): the receipt of the command's    *)
(* identifier is looked up, the command is dispatched when there is none,  *)
(* and the receipt of its answer is inserted.  These are three             *)
(* transactions, and callers interleave between them.  What a dispatch     *)
(* does is left to the modules that extend this one.                       *)
(***************************************************************************)
EXTENDS Integers, FiniteSets

CONSTANT Caller  \* the adapters' requests: each has one command under way

VARIABLES
  execution,       \* [Caller -> the command under way, or NoExecution]
  commandReceipts  \* local_workflow_commands: a set of [id, input, response]

boundaryVars == <<execution, commandReceipts>>

NoExecution == [step |-> "NONE"]
NoResponse == [status |-> "NONE"]

BoundaryInit ==
  /\ execution = [c \in Caller |-> NoExecution]
  /\ commandReceipts = {}

Receipts(id) == {r \in commandReceipts : r.id = id}

\* The effect of a call on the caller's own execution.
Execution(command) == [step |-> "LOOKUP", command |-> command, response |-> NoResponse]
Answered(c, response) == [execution[c] EXCEPT !.step = "ANSWERED", !.response = response]
Refused(c) == [execution[c] EXCEPT !.step = "REFUSED"]

Execute(c, command) == execution' = [execution EXCEPT ![c] = Execution(command)]

\* The stored answer, for the same request; another one under the identifier is
\* refused.
Replay(c) ==
  \E r \in Receipts(execution[c].command.id) :
    execution' = [execution EXCEPT ![c] =
      IF r.input = execution[c].command.input THEN Answered(c, r.response) ELSE Refused(c)]

LookUp(c) ==
  /\ execution[c].step = "LOOKUP"
  /\ IF Receipts(execution[c].command.id) # {} THEN Replay(c)
     ELSE execution' = [execution EXCEPT ![c].step = "DISPATCH"]
  /\ UNCHANGED commandReceipts

\* The two ends of a dispatch.
Dispatched(c, response) ==
  /\ execution[c].step = "DISPATCH"
  /\ execution' = [execution EXCEPT ![c].step = "INSERT", ![c].response = response]
  /\ UNCHANGED commandReceipts

DispatchFails(c) ==
  /\ execution[c].step = "DISPATCH"
  /\ execution' = [execution EXCEPT ![c] = Refused(c)]
  /\ UNCHANGED commandReceipts

\* When another caller was first with this identifier, its answer counts.
InsertReceipt(c) ==
  /\ execution[c].step = "INSERT"
  /\ IF Receipts(execution[c].command.id) # {}
       THEN Replay(c) /\ UNCHANGED commandReceipts
     ELSE /\ commandReceipts' = commandReceipts \union
               {[id |-> execution[c].command.id, input |-> execution[c].command.input,
                 response |-> execution[c].response]}
          /\ execution' = [execution EXCEPT ![c] = Answered(c, execution[c].response)]

BoundaryStep(c) == LookUp(c) \/ InsertReceipt(c)

IsIdle(c) == execution[c] = NoExecution
IsOver(c) == execution[c].step \in {"ANSWERED", "REFUSED"}

-----------------------------------------------------------------------------
(* Property. *)

\* Whoever is answered gets the one answer that is stored for the command, be it
\* the first to send it, a retry, or one of two that raced: an identifier never
\* has two answers, nor an answer to another request (replay, and the catch of
\* the insertion).
OneAnswer ==
  \A c \in Caller : execution[c].step = "ANSWERED" =>
    Receipts(execution[c].command.id) =
      {[id |-> execution[c].command.id, input |-> execution[c].command.input,
        response |-> execution[c].response]}

=============================================================================
