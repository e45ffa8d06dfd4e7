---------------------------- MODULE CostLedgerFile ----------------------------
(***************************************************************************)
(* How FileProductionCostLedgerRepository makes a transaction of a read, a *)
(* computation and a rename: a lock directory with an owner file in it,    *)
(* which a waiting process removes when its owner is dead, or when it has  *)
(* been without a readable owner for half a minute. Within one process the *)
(* transactions queue; across processes only the directory excludes.       *)
(* Each transaction of this model adds itself to the ledger.               *)
(***************************************************************************)
EXTENDS Integers, FiniteSets

CONSTANTS
  Pid,           \* processes; a restarted one is another of them
  LockAttempts,  \* LOCK_ATTEMPTS
  MaxDeaths,     \* bound: processes that die
  MaxAged        \* bound: lock directories that grow half a minute old

ASSUME LedgerAssumption ==
  /\ LockAttempts \in Nat \ {0} /\ MaxAged \in Nat
  /\ {"absent", "none"} \cap Pid = {}

VARIABLES
  dir,       \* the lock directory
  file,      \* the ledger file: the transactions it holds
  pc,        \* where each process is in its transaction
  attempt,   \* its attempts at the lock
  seen,      \* the directory that it inspected
  copy,      \* the ledger that it read
  reported,  \* history: the transactions that returned to their caller
  stolen,    \* history: whether a directory was removed that was not the one inspected
  aged       \* bound: how many directories grew old

ledgerVars == <<dir, file, pc, attempt, seen, copy, reported, stolen, aged>>

NoDirectory == [id |-> 0, owner |-> "absent", old |-> FALSE]

LedgerInit ==
  /\ dir = NoDirectory /\ file = {}
  /\ pc = [p \in Pid |-> "idle"]
  /\ attempt = [p \in Pid |-> 0]
  /\ seen = [p \in Pid |-> NoDirectory]
  /\ copy = [p \in Pid |-> {}]
  /\ reported = {} /\ stolen = FALSE /\ aged = 0

Goto(p, label) == pc' = [pc EXCEPT ![p] = label]

ProcessIsAlive(p) == pc[p] # "dead"

\* The end of a transaction: what it held in memory is gone.
Finish(p) ==
  /\ Goto(p, "idle")
  /\ attempt' = [attempt EXCEPT ![p] = 0]
  /\ seen' = [seen EXCEPT ![p] = NoDirectory]
  /\ copy' = [copy EXCEPT ![p] = {}]

\* The pause after an attempt; after the last one the lock is busy.
RetryLock(p) ==
  IF attempt[p] < LockAttempts
    THEN /\ Goto(p, "lock") /\ seen' = [seen EXCEPT ![p] = NoDirectory]
         /\ UNCHANGED <<attempt, copy>>
    ELSE Finish(p)

Transaction(p) ==
  /\ pc[p] = "idle" /\ p \notin reported
  /\ Goto(p, "lock")
  /\ UNCHANGED <<dir, file, attempt, seen, copy, reported, stolen, aged>>

MakeDirectory(p) ==
  /\ pc[p] = "lock"
  /\ attempt' = [attempt EXCEPT ![p] = @ + 1]
  /\ IF dir = NoDirectory
       THEN dir' = [id |-> p, owner |-> "none", old |-> FALSE] /\ Goto(p, "own")
       ELSE dir' = dir /\ Goto(p, "inspect")
  /\ UNCHANGED <<file, seen, copy, reported, stolen, aged>>

\* open(owner.json, "wx"): another process may have removed the directory, or
\* removed it and made one of its own.
WriteOwner(p) ==
  /\ pc[p] = "own"
  /\ \/ dir = NoDirectory /\ Finish(p) /\ UNCHANGED dir
     \/ /\ dir.owner = "none"
        /\ dir' = [dir EXCEPT !.owner = p, !.old = FALSE] /\ Goto(p, "read")
        /\ UNCHANGED <<attempt, seen, copy>>
     \/ /\ dir.owner \in Pid /\ Goto(p, "inspect")
        /\ UNCHANGED <<dir, attempt, seen, copy>>
  /\ UNCHANGED <<file, reported, stolen, aged>>

\* A recovery that trusts the age and not the owner's life.
StaleByAge(d) == d.old

\* A recovery of directories without an owner only.
StaleWithoutOwner(d) == d.owner = "none" /\ d.old

Stale(d) ==
  \/ d.owner \in Pid /\ ~ProcessIsAlive(d.owner)
  \/ d.owner = "none" /\ d.old

\* recoverStaleLock up to its decision.
Inspect(p) ==
  /\ pc[p] = "inspect"
  /\ IF Stale(dir)
       THEN /\ Goto(p, "remove") /\ seen' = [seen EXCEPT ![p] = dir]
            /\ UNCHANGED <<attempt, copy>>
       ELSE RetryLock(p)
  /\ UNCHANGED <<dir, file, reported, stolen, aged>>

\* rm(path): whatever directory is there by now. When there is none the error
\* of a first try is swallowed, or leads to a second try if the directory of a
\* dead owner was old; an error of the last try ends the transaction.
RemoveStale(p) ==
  /\ pc[p] \in {"remove", "remove again"}
  /\ dir' = NoDirectory
  /\ stolen' = (stolen \/ (dir # NoDirectory /\ dir # seen[p]))
  /\ IF dir # NoDirectory \/ ~seen[p].old THEN RetryLock(p)
     ELSE IF pc[p] = "remove" /\ seen[p].owner \in Pid
       THEN Goto(p, "remove again") /\ UNCHANGED <<attempt, seen, copy>>
     ELSE Finish(p)
  /\ UNCHANGED <<file, reported, aged>>

ReadState(p) ==
  /\ pc[p] = "read" /\ Goto(p, "write")
  /\ copy' = [copy EXCEPT ![p] = file]
  /\ UNCHANGED <<dir, file, attempt, seen, reported, stolen, aged>>

\* The temporary file, synced, takes the name of the ledger.
WriteState(p) ==
  /\ pc[p] = "write" /\ Goto(p, "release")
  /\ file' = copy[p] \cup {p}
  /\ UNCHANGED <<dir, attempt, seen, copy, reported, stolen, aged>>

\* A directory with another owner is left alone and the transaction throws,
\* although it is in the file.
ReleaseLock(p) ==
  /\ pc[p] = "release"
  /\ dir' = IF dir.owner = p THEN NoDirectory ELSE dir
  /\ reported' = IF dir.owner \in Pid \ {p} THEN reported ELSE reported \cup {p}
  /\ Finish(p)
  /\ UNCHANGED <<file, stolen, aged>>

\* The process dies: its lock and its ledger stay as they are.
Die(p) ==
  /\ ProcessIsAlive(p) /\ p \notin reported
  /\ Cardinality({q \in Pid : ~ProcessIsAlive(q)}) < MaxDeaths
  /\ Goto(p, "dead")
  /\ attempt' = [attempt EXCEPT ![p] = 0]
  /\ seen' = [seen EXCEPT ![p] = NoDirectory]
  /\ copy' = [copy EXCEPT ![p] = {}]
  /\ UNCHANGED <<dir, file, reported, stolen, aged>>

\* CORRUPT_LOCK_RECOVERY_MS pass for the directory, as when its maker sleeps.
GrowOld ==
  /\ dir # NoDirectory /\ ~dir.old /\ aged < MaxAged
  /\ dir' = [dir EXCEPT !.old = TRUE] /\ aged' = aged + 1
  /\ UNCHANGED <<file, pc, attempt, seen, copy, reported, stolen>>

LedgerStep(p) ==
  \/ Transaction(p) \/ MakeDirectory(p) \/ WriteOwner(p) \/ Inspect(p)
  \/ RemoveStale(p) \/ ReadState(p) \/ WriteState(p) \/ ReleaseLock(p)

LedgerNext == GrowOld \/ \E p \in Pid : LedgerStep(p) \/ Die(p)

LedgerSpec == LedgerInit /\ [][LedgerNext]_ledgerVars

\* A live process goes on, and its callers ask again when the lock was busy.
LedgerFairness == \A p \in Pid : WF_ledgerVars(LedgerStep(p))
LedgerFairSpec == LedgerSpec /\ LedgerFairness

----------------------------------------------------------------------------
Label == {"idle", "lock", "own", "inspect", "remove", "remove again", "read",
          "write", "release", "dead"}
Directory == [id : Pid \cup {0}, owner : Pid \cup {"absent", "none"}, old : BOOLEAN]

LedgerTypeOK ==
  /\ dir \in Directory /\ file \subseteq Pid
  /\ pc \in [Pid -> Label] /\ attempt \in [Pid -> 0 .. LockAttempts]
  /\ seen \in [Pid -> Directory] /\ copy \in [Pid -> SUBSET Pid]
  /\ reported \subseteq Pid /\ stolen \in BOOLEAN /\ aged \in 0 .. MaxAged

\* A transaction whose caller was told it is done stays in the ledger: neither
\* deaths at any point nor a takeover of a left lock lose a reservation or a
\* settlement. The one exception is a recovery that removes a directory made
\* after its inspection.
ReportedIsKept == stolen \/ reported \subseteq file

\* Between the read and the rename of one process no other renames, with the
\* same exception.
WritersExclude ==
  stolen \/ \A p, q \in Pid : pc[p] = "write" /\ p # q => pc[q] \notin {"read", "write"}

\* The file below the ledger's transactions loses none of them.
LedgerIsKept == ReportedIsKept /\ WritersExclude

\* The lock of a dead process goes away as long as a process still asks for it.
DeadLockIsRemoved ==
  \A p \in Pid :
    (dir.owner = p /\ ~ProcessIsAlive(p))
      ~> (dir.owner # p \/ \A q \in Pid : q \in reported \/ ~ProcessIsAlive(q))

=============================================================================
