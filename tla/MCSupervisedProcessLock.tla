---------------------- MODULE MCSupervisedProcessLock ----------------------
(***************************************************************************)
(* Small instances of SupervisedProcessLock for TLC.                       *)
(***************************************************************************)
EXTENDS SupervisedProcessLock, TLC

CONSTANTS p1, p2, p3, p4

\* Processes differ only in their names.
ProcessSymmetry == Permutations(Process)

=============================================================================
