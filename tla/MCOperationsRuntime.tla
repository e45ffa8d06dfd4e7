------------------------ MODULE MCOperationsRuntime ------------------------
(***************************************************************************)
(* Small instances of OperationsRuntime for TLC.                           *)
(***************************************************************************)
EXTENDS OperationsRuntime, TLC

CONSTANTS j1, j2, a, b, primary

\* One worker identity, as in operations-runtime-cli.ts.
OneWorker == [i \in Instance |-> primary]

\* j1 outranks j2.
RankedJobs == [j \in Job |-> IF j = j1 THEN 1 ELSE 0]

Released    == [killSwitch |-> FALSE, maintenance |-> FALSE]
Killed      == [killSwitch |-> TRUE, maintenance |-> FALSE]
Maintenance == [killSwitch |-> FALSE, maintenance |-> TRUE]

KillSwitchOnly == {Released, Killed}
EitherStop     == {Released, Killed, Maintenance}

\* Instances differ only in their names; so would jobs of equal priority.
InstanceSymmetry == Permutations(Instance)

=============================================================================
