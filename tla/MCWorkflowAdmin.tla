---------------------------- MODULE MCWorkflowAdmin ----------------------------
(***************************************************************************)
(* Small instances of WorkflowExecution and AdminSecurity for TLC.  A      *)
(* behaviour is about one of them, chosen at the start among Parts; the    *)
(* other rests in one of its initial states.  Requests are named like the   *)
(* callers of the workflow's invoker, and differ only in their names too.   *)
(***************************************************************************)
EXTENDS MCWorkflow, AdminSecurity

CONSTANT Parts  \* the components the behaviours are about

VARIABLE part  \* the component a behaviour is about

Lifetimes == [bootstrap |-> 1, challenge |-> 1, absolute |-> 3, idle |-> 2, stepUp |-> 1]

\* The first founder, who may sign in twice; step-ups beside a second sign-in,
\* too quick to touch a session; step-ups for two commands of one session; and
\* one session that is touched while it is logged out everywhere.
Settings ==
  {[registered |-> FALSE, touch |-> 5, commands |-> {}, sessions |-> 2],
   [registered |-> TRUE, touch |-> 5, commands |-> {"killSwitch"}, sessions |-> 2],
   [registered |-> TRUE, touch |-> 5, commands |-> {"confirm", "killSwitch"}, sessions |-> 1],
   [registered |-> TRUE, touch |-> 1, commands |-> {"revokeAll"}, sessions |-> 1]}

\* Of the workflows, two independent steps have one attempt each, and two of
\* which one waits for the other have two.
WorkflowAdminInit ==
  /\ part \in Parts
  /\ WorkflowInit /\ AdminInit
  /\ wf.maxAttempts = 1 <=> \A s \in Step : wf.definition[s] = {}
  /\ part # "workflow" => wf.maxAttempts = 1
  /\ part # "admin" => ~setting.registered

WorkflowAdminNext ==
  \/ part = "workflow" /\ WorkflowNext /\ UNCHANGED <<part, adminVars>>
  \/ part = "admin" /\ AdminNext /\ UNCHANGED <<part, workflowVars>>

WorkflowAdminSpec == WorkflowAdminInit /\ [][WorkflowAdminNext]_<<part, workflowVars, adminVars>>

\* The components' records keep their shapes.
WorkflowAdminTypeOK == WorkflowTypeOK /\ AdminTypeOK

=============================================================================
