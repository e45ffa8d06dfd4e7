------------------------------ MODULE MCWorkflow ------------------------------
(***************************************************************************)
(* Small instances of WorkflowExecution for TLC.                           *)
(***************************************************************************)
EXTENDS WorkflowExecution, TLC

CONSTANTS a, b, i1, i2, c1, c2

\* Two independent steps, or b after a.
Definitions == {[s \in Step |-> {}], [s \in Step |-> IF s = b THEN {a} ELSE {}]}

\* Invocations and callers differ only in their names.
NameSymmetry == Permutations(Invocation) \union Permutations(Caller)

=============================================================================
