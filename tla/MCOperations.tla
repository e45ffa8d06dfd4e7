----------------------------- MODULE MCOperations -----------------------------
(***************************************************************************)
(* Small instances, for TLC, of the operations runtime and of the          *)
(* operator's control over operations and content.  A behaviour is about   *)
(* one of them, chosen at the start; the other rests in its initial state. *)
(***************************************************************************)
EXTENDS MCOperationsRuntime, OperationsControl

CONSTANTS
  Parts,  \* the components the behaviours are about
  k1, k2, l1

\* Instances and keys differ only in their names.
NameSymmetry == InstanceSymmetry \union Permutations(Key)

VARIABLE part  \* the component a behaviour is about

\* Bound: an operator who renews a proposal sets the kill switch at most once.
OperatorBound ==
  killSwitch.version > 1 =>
    \A k \in Key : proposals[k] # NoProposal => proposals[k].renewals = 0

OperationsInit == part \in Parts /\ Init /\ OperatorInit

OperationsNext ==
  \/ part = "worker" /\ Next /\ UNCHANGED <<part, operatorVars>>
  \/ part = "operator" /\ OperatorNext /\ OperatorBound' /\ UNCHANGED <<part, vars>>

\* The bounds of the operator's part let it run out of work.
Rest == part = "operator" /\ UNCHANGED <<part, vars, operatorVars>>

OperationsSpec == OperationsInit /\ [][OperationsNext \/ Rest]_<<part, vars, operatorVars>>

\* The components' records keep their shapes.
OperationsTypeOK == TypeOK /\ OperatorTypeOK

=============================================================================
