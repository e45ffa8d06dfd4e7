--------------------------- MODULE TransactionRunner ---------------------------
(***************************************************************************)
(* SqliteRepositoryTransactionRunner: each process has one connection and  *)
(* one runner, which puts the transactions that the process calls one      *)
(* behind the other (#tail).  A transaction's operation writes in parallel *)
(* branches (Promise.all).  When one of them fails the operation has       *)
(* failed, and the others go on after the rollback: only the transaction's *)
(* scope keeps them out of the database, and out of the next transaction.  *)
(* The venture and the vault have runners of the same form.                *)
(*                                                                         *)
(* An operation that waits for another transaction of its own runner would *)
(* wait for ever; none does, and the model has none.                       *)
(***************************************************************************)
EXTENDS Naturals, FiniteSets, Sequences

CONSTANTS
  Txn,
  Branch,
  Runner,           \* the processes
  RunnerOf,         \* which of them calls a transaction
  MaxRunnerFaults   \* bound: crashes, failing COMMITs, ROLLBACKs and BEGINs

ASSUME RunnerAssumption ==
  RunnerOf \in [Txn -> Runner] /\ MaxRunnerFaults \in Nat

VARIABLES
  disk,         \* the writes that the database holds
  connection,   \* of each process: open, within a transaction, its writes so far
  runner,       \* of each process: #acceptingTransactions, and #tail as a queue
  transaction,  \* of each transaction: its state, its scope, its branches
  runnerFaults

runnerVars == <<disk, connection, runner, transaction, runnerFaults>>

Opened == [open |-> TRUE, begun |-> FALSE, writes |-> {}]
NewRunner == [accepting |-> TRUE, queue |-> <<>>]
NewTransaction == [state |-> "NEW", active |-> FALSE, branches |-> [b \in Branch |-> "TODO"]]

RunnerInit ==
  /\ disk = {}
  /\ connection = [r \in Runner |-> Opened]
  /\ runner = [r \in Runner |-> NewRunner]
  /\ transaction = [t \in Txn |-> NewTransaction]
  /\ runnerFaults = 0

RunnerFault ==
  /\ runnerFaults < MaxRunnerFaults
  /\ runnerFaults' = runnerFaults + 1

NoBranches == [b \in Branch |-> "FAILED"]

IsHead(t) == runner[RunnerOf[t]].queue # <<>> /\ Head(runner[RunnerOf[t]].queue) = t
Dequeued(t) == [runner EXCEPT ![RunnerOf[t]].queue = Tail(@)]

\* A connection that has begun a transaction holds the database's write lock.
Locked == \E r \in Runner : connection[r].begun

-----------------------------------------------------------------------------
(* transaction() *)

CallTransaction(t) ==
  LET r == RunnerOf[t] IN
  /\ transaction[t].state = "NEW" /\ connection[r].open
  /\ IF runner[r].accepting
       THEN /\ transaction' = [transaction EXCEPT ![t].state = "QUEUED"]
            /\ runner' = [runner EXCEPT ![r].queue = Append(@, t)]
       ELSE /\ transaction' = [transaction EXCEPT ![t].state = "FAILED", ![t].branches = NoBranches]
            /\ UNCHANGED runner
  /\ UNCHANGED <<disk, connection, runnerFaults>>

Begin(t) ==
  /\ IsHead(t) /\ transaction[t].state = "QUEUED" /\ ~Locked
  /\ connection' = [connection EXCEPT ![RunnerOf[t]].begun = TRUE]
  /\ transaction' = [transaction EXCEPT ![t].state = "RUNNING", ![t].active = TRUE]
  /\ UNCHANGED <<disk, runner, runnerFaults>>

\* The database is locked for longer than the timeout, by another connection or by
\* a transaction of this one that could not be rolled back.
BeginFails(t) ==
  /\ IsHead(t) /\ transaction[t].state = "QUEUED"
  /\ \/ Locked /\ UNCHANGED runnerFaults
     \/ RunnerFault
  /\ transaction' = [transaction EXCEPT ![t].state = "FAILED", ![t].branches = NoBranches]
  /\ runner' = Dequeued(t)
  /\ UNCHANGED <<disk, connection>>

-----------------------------------------------------------------------------
(* A branch of the operation. *)

\* Mutant: the scope of a transaction is not closed behind it.
EverUsable(t) == transaction[t].state \in {"RUNNING", "FAILED"}

\* assertActiveTransaction
Usable(t) == transaction[t].active

BranchEnds(t, b, as) == transaction' = [transaction EXCEPT ![t].branches[b] = as]

\* Outside of a transaction SQLite would commit a write by itself.
Write(t, b) ==
  LET r == RunnerOf[t] IN
  /\ transaction[t].branches[b] = "TODO" /\ transaction[t].state \in {"RUNNING", "FAILED"}
  /\ Usable(t) /\ connection[r].open
  /\ connection[r].begun \/ ~Locked
  /\ IF connection[r].begun
       THEN /\ connection' = [connection EXCEPT ![r].writes = @ \union {<<t, b>>}]
            /\ UNCHANGED disk
       ELSE /\ disk' = disk \union {<<t, b>>}
            /\ UNCHANGED connection
  /\ BranchEnds(t, b, "WRITTEN")
  /\ UNCHANGED <<runner, runnerFaults>>

\* A constraint, a conflict, or a scope or connection that is closed.
WriteFails(t, b) ==
  /\ transaction[t].branches[b] = "TODO" /\ transaction[t].state \in {"RUNNING", "FAILED"}
  /\ BranchEnds(t, b, "FAILED")
  /\ UNCHANGED <<disk, connection, runner, runnerFaults>>

-----------------------------------------------------------------------------
(* The end of a transaction. *)

Resolved(t) == \A b \in Branch : transaction[t].branches[b] = "WRITTEN"
Rejected(t) == \E b \in Branch : transaction[t].branches[b] = "FAILED"

NoTransaction(r) == [connection EXCEPT ![r].begun = FALSE, ![r].writes = {}]

EndsAs(t, state) ==
  /\ transaction' = [transaction EXCEPT ![t].state = state, ![t].active = FALSE]
  /\ runner' = Dequeued(t)

Commit(t) ==
  /\ transaction[t].state = "RUNNING" /\ Resolved(t)
  /\ disk' = disk \union connection[RunnerOf[t]].writes
  /\ connection' = NoTransaction(RunnerOf[t])
  /\ EndsAs(t, "DONE")
  /\ UNCHANGED runnerFaults

RollBack(t) ==
  /\ transaction[t].state = "RUNNING" /\ Rejected(t)
  /\ connection' = NoTransaction(RunnerOf[t])
  /\ EndsAs(t, "FAILED")
  /\ UNCHANGED <<disk, runnerFaults>>

\* A failing COMMIT is rolled back, by SQLite already or by the runner.
CommitFails(t) ==
  /\ transaction[t].state = "RUNNING" /\ Resolved(t)
  /\ RunnerFault
  /\ connection' = NoTransaction(RunnerOf[t])
  /\ EndsAs(t, "FAILED")
  /\ UNCHANGED disk

\* The transaction stays open behind a failing ROLLBACK.
RollBackFails(t) ==
  /\ transaction[t].state = "RUNNING" /\ (Resolved(t) \/ Rejected(t))
  /\ RunnerFault
  /\ EndsAs(t, "FAILED")
  /\ UNCHANGED <<disk, connection>>

-----------------------------------------------------------------------------
(* The runner's end. *)

CloseRunner(r) ==
  /\ runner[r].accepting
  /\ runner' = [runner EXCEPT ![r].accepting = FALSE]
  /\ UNCHANGED <<disk, connection, transaction, runnerFaults>>

Closed == [open |-> FALSE, begun |-> FALSE, writes |-> {}]

\* Behind the last transaction; what is open in the database is rolled back.
ConnectionCloses(r) ==
  /\ ~runner[r].accepting /\ runner[r].queue = <<>> /\ connection[r].open
  /\ connection' = [connection EXCEPT ![r] = Closed]
  /\ UNCHANGED <<disk, runner, transaction, runnerFaults>>

\* The process dies; if that is during a COMMIT its writes may have been kept.
RunnerCrash(r) ==
  /\ connection[r].open /\ RunnerFault
  /\ \/ UNCHANGED disk
     \/ /\ \E t \in Txn : RunnerOf[t] = r /\ transaction[t].state = "RUNNING" /\ Resolved(t)
        /\ disk' = disk \union connection[r].writes
  /\ connection' = [connection EXCEPT ![r] = Closed]
  /\ runner' = [runner EXCEPT ![r] = [accepting |-> FALSE, queue |-> <<>>]]
  /\ transaction' = [t \in Txn |->
       IF RunnerOf[t] # r \/ transaction[t].state \in {"NEW", "DONE"} THEN transaction[t]
       ELSE [state |-> IF transaction[t].state = "FAILED" THEN "FAILED" ELSE "LOST",
             active |-> FALSE, branches |-> NoBranches]]

Restart(r) ==
  /\ ~connection[r].open
  /\ connection' = [connection EXCEPT ![r] = Opened]
  /\ runner' = [runner EXCEPT ![r] = NewRunner]
  /\ UNCHANGED <<disk, transaction, runnerFaults>>

RunnerNext ==
  \/ \E t \in Txn :
       \/ CallTransaction(t) \/ Begin(t) \/ BeginFails(t)
       \/ \E b \in Branch : Write(t, b) \/ WriteFails(t, b)
       \/ Commit(t) \/ RollBack(t) \/ CommitFails(t) \/ RollBackFails(t)
  \/ \E r \in Runner : CloseRunner(r) \/ ConnectionCloses(r) \/ RunnerCrash(r) \/ Restart(r)

RunnerSpec == RunnerInit /\ [][RunnerNext]_runnerVars

-----------------------------------------------------------------------------
(* Properties. *)

\* The records keep their shapes.
RunnerTypeOK ==
  /\ disk \subseteq Txn \X Branch
  /\ connection \in
       [Runner -> [open : BOOLEAN, begun : BOOLEAN, writes : SUBSET (Txn \X Branch)]]
  /\ runner \in [Runner -> [accepting : BOOLEAN, queue : Seq(Txn)]]
  /\ transaction \in
       [Txn -> [state : {"NEW", "QUEUED", "RUNNING", "DONE", "FAILED", "LOST"},
                        active : BOOLEAN, branches : [Branch -> {"TODO", "WRITTEN", "FAILED"}]]]
  /\ runnerFaults \in 0..MaxRunnerFaults

OutcomeOf(t) ==
  IF transaction[t].state \in {"NEW", "QUEUED", "RUNNING"} THEN "OPEN" ELSE transaction[t].state

Atomic == INSTANCE AtomicTransactions
  WITH content <- disk, outcome <- [t \in Txn |-> OutcomeOf(t)]

\* Transactions are atomic, and their callers told the truth, with branches that go
\* on behind a rollback, COMMITs and ROLLBACKs that fail, several processes and
\* crashes (SqliteRepositoryTransactionRunner, assertActiveTransaction).
TransactionsAreAtomic == Atomic!AtomicSpec

=============================================================================
