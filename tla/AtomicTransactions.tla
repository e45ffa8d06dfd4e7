-------------------------- MODULE AtomicTransactions --------------------------
(***************************************************************************)
(* What the repositories' transactions promise to those who call them (and *)
(* what the actions of the other modules of this project assume): all of a *)
(* transaction's writes are kept, or none; a caller who was told that it   *)
(* succeeded finds them, one who was told that it failed does not.  Only a *)
(* caller whose process died does not know, and of the transactions that   *)
(* died with it at most one was kept.                                      *)
(***************************************************************************)
EXTENDS Naturals, FiniteSets

CONSTANTS Txn, Branch  \* a transaction makes one write in each of its branches

VARIABLES content, outcome

atomicVars == <<content, outcome>>

Writes(t) == {t} \X Branch

AtomicInit == content = {} /\ outcome = [t \in Txn |-> "OPEN"]

Succeed(t) ==
  /\ outcome[t] = "OPEN"
  /\ content' = content \union Writes(t)
  /\ outcome' = [outcome EXCEPT ![t] = "DONE"]

Fail(t) ==
  /\ outcome[t] = "OPEN"
  /\ outcome' = [outcome EXCEPT ![t] = "FAILED"]
  /\ UNCHANGED content

Lose(lost) ==
  /\ \A t \in lost : outcome[t] = "OPEN"
  /\ outcome' = [t \in Txn |-> IF t \in lost THEN "LOST" ELSE outcome[t]]
  /\ \/ UNCHANGED content
     \/ \E t \in lost : content' = content \union Writes(t)

AtomicNext ==
  \/ \E lost \in SUBSET Txn : Lose(lost)
  \/ \E t \in Txn : Succeed(t) \/ Fail(t)

AtomicSpec == AtomicInit /\ [][AtomicNext]_atomicVars

=============================================================================
