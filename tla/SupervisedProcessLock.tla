----------------------- MODULE SupervisedProcessLock -----------------------
(***************************************************************************)
(* The lock file that keeps a runtime role to one process.  A process      *)
(* publishes its record with link(2), which fails if the path exists.  A   *)
(* lock whose process is gone is stale: whoever wants to remove it first   *)
(* publishes a recovery claim at path.recovery the same way, and a claim   *)
(* whose owner is gone is stale too.                                       *)
(*                                                                         *)
(* Every action is one system call, the unit between two awaits.  A file   *)
(* is known by the process whose record it holds: a process publishes one  *)
(* lock and one claim at most, so the inode and the token of a record say  *)
(* the same thing, and a dead process's identity is not reused while a     *)
(* file or a process remembers it.                                         *)
(***************************************************************************)
EXTENDS Naturals

CONSTANTS
  Process,           \* process incarnations, as verifiable-process-identity.ts tells them apart
  MaxCrashes,        \* bound: processes that end without cleaning up
  CrashesInRecovery  \* whether one may do so with the recovery claim in hand

ASSUME LockAssumption ==
  /\ "none" \notin Process
  /\ MaxCrashes \in Nat
  /\ CrashesInRecovery \in BOOLEAN

VARIABLES
  lock,     \* whose record the lock path holds
  claim,    \* whose record the recovery path holds
  process,  \* each process's own memory
  crashes

lockVars == <<lock, claim, process, crashes>>

File == Process \cup {"none"}

\* The system call a process takes next; HELD: acquire returned.
LockPC == {"DOWN", "PUBLISH", "READ", "PROBE",
       "CLAIM", "READ_CLAIM", "PROBE_CLAIM", "RECHECK", "STAT_CLAIM", "UNLINK_CLAIM",
       "READ_STALE", "STAT_STALE", "UNLINK_STALE",
       "READ_RELEASE", "STAT_RELEASE", "UNLINK_RELEASE",
       "HELD", "READ_OWN", "STAT_OWN", "UNLINK_OWN"}

\* attempt and claimAttempt: the passes of the two loops; seen and claimSeen:
\* the records of others read; claimed: a recovery claim is in hand; failing:
\* an error unwinds through the cleanup of acquire.
AcquireMemory == [pc : LockPC, attempt : {0, 1}, claimAttempt : {0, 1}, seen : File, claimSeen : File,
           claimed : BOOLEAN, failing : BOOLEAN]

NotRunning == [pc |-> "DOWN", attempt |-> 0, claimAttempt |-> 0, seen |-> "none", claimSeen |-> "none",
         claimed |-> FALSE, failing |-> FALSE]

LockInit ==
  /\ lock = "none"
  /\ claim = "none"
  /\ process = [p \in Process |-> NotRunning]
  /\ crashes = 0

IsActive(p) == process[p].pc # "DOWN"

\* Process p is at a call and goes on with a new memory.
At(p, pc) == process[p].pc = pc
Becomes(p, memory) == process' = [process EXCEPT ![p] = memory]
Goes(p, pc) == Becomes(p, [process[p] EXCEPT !.pc = pc])

----------------------------------------------------------------------------
(* acquire *)

Acquire(p) ==
  /\ At(p, "DOWN")
  /\ p \notin {lock, claim}
  /\ \A other \in Process : p \notin {process[other].seen, process[other].claimSeen}
  /\ Becomes(p, [NotRunning EXCEPT !.pc = "PUBLISH"])
  /\ UNCHANGED <<lock, claim, crashes>>

\* An error before the publication ends acquire through its catch block: the
\* recovery claim goes if there is one.
Throws(p) ==
  Becomes(p, IF process[p].claimed THEN [process[p] EXCEPT !.failing = TRUE, !.pc = "READ_RELEASE"]
                                   ELSE NotRunning)

\* The next pass of the loop in acquire, if there is one.
Retries(p) ==
  IF process[p].attempt = 0
    THEN Becomes(p, [process[p] EXCEPT !.pc = "PUBLISH", !.attempt = 1])
    ELSE Throws(p)

Publish(p) ==
  /\ At(p, "PUBLISH")
  /\ IF lock = "none"
       THEN /\ lock' = p
            /\ Goes(p, IF process[p].claimed THEN "READ_RELEASE" ELSE "HELD")
       ELSE /\ Goes(p, "READ")
            /\ UNCHANGED lock
  /\ UNCHANGED <<claim, crashes>>

ReadLock(p) ==
  /\ At(p, "READ")
  /\ IF lock = "none" THEN Retries(p)
                      ELSE Becomes(p, [process[p] EXCEPT !.pc = "PROBE", !.seen = lock])
  /\ UNCHANGED <<lock, claim, crashes>>

\* isRecordedProcessActive; a live holder, or a second stale one, is an error.
ProbeHolder(p) ==
  /\ At(p, "PROBE")
  /\ IF IsActive(process[p].seen) \/ process[p].attempt > 0 THEN Throws(p) ELSE Goes(p, "CLAIM")
  /\ UNCHANGED <<lock, claim, crashes>>

----------------------------------------------------------------------------
(* acquireRecoveryClaim *)

\* A claim published by rename(2), which replaces the one of another process.
PublishClaimByRename(p) ==
  /\ At(p, "CLAIM")
  /\ claim' = p
  /\ Becomes(p, [process[p] EXCEPT !.claimed = TRUE, !.pc = "READ_STALE"])
  /\ UNCHANGED <<lock, crashes>>

PublishClaim(p) ==
  /\ At(p, "CLAIM")
  /\ IF claim = "none"
       THEN /\ claim' = p
            /\ Becomes(p, [process[p] EXCEPT !.claimed = TRUE, !.pc = "READ_STALE"])
       ELSE /\ Goes(p, "READ_CLAIM")
            /\ UNCHANGED claim
  /\ UNCHANGED <<lock, crashes>>

\* The loop of acquireRecoveryClaim without its limit.
RetriesClaimAgain(p) ==
  Becomes(p, [process[p] EXCEPT !.pc = "CLAIM", !.claimAttempt = @ + 1])

RetriesClaim(p) ==
  IF process[p].claimAttempt = 0
    THEN Becomes(p, [process[p] EXCEPT !.pc = "CLAIM", !.claimAttempt = 1])
    ELSE Throws(p)

ReadClaim(p) ==
  /\ At(p, "READ_CLAIM")
  /\ IF claim = "none" THEN RetriesClaim(p)
                       ELSE Becomes(p, [process[p] EXCEPT !.pc = "PROBE_CLAIM", !.claimSeen = claim])
  /\ UNCHANGED <<lock, claim, crashes>>

\* A claim that is always taken for a live one.
ProbeClaimantByName(p) ==
  /\ At(p, "PROBE_CLAIM")
  /\ Throws(p)
  /\ UNCHANGED <<lock, claim, crashes>>

ProbeClaimant(p) ==
  /\ At(p, "PROBE_CLAIM")
  /\ IF IsActive(process[p].claimSeen) \/ process[p].claimAttempt > 0 THEN Throws(p) ELSE Goes(p, "RECHECK")
  /\ UNCHANGED <<lock, claim, crashes>>

\* An orphan claim is removed only while the stale lock is still the one seen.
RecheckLock(p) ==
  /\ At(p, "RECHECK")
  /\ IF lock = process[p].seen THEN Goes(p, "STAT_CLAIM") ELSE Throws(p)
  /\ UNCHANGED <<lock, claim, crashes>>

\* removeOwnedFile: lstat, compare, unlink.  Nothing holds the path between
\* the two calls, and unlink removes what it finds.
StatClaim(p) ==
  /\ At(p, "STAT_CLAIM")
  /\ IF claim = "none" THEN RetriesClaim(p)
     ELSE IF claim = process[p].claimSeen THEN Goes(p, "UNLINK_CLAIM")
     ELSE Throws(p)
  /\ UNCHANGED <<lock, claim, crashes>>

UnlinkClaim(p) ==
  /\ At(p, "UNLINK_CLAIM")
  /\ claim' = "none"
  /\ RetriesClaim(p)
  /\ UNCHANGED <<lock, crashes>>

----------------------------------------------------------------------------
(* removeStaleLock, with the recovery claim in hand *)

\* A removal that takes the lock of the moment for the stale one.
ReadStaleUnchecked(p) ==
  /\ At(p, "READ_STALE")
  /\ IF lock = "none" THEN Retries(p) ELSE Becomes(p, [process[p] EXCEPT !.pc = "STAT_STALE", !.seen = lock])
  /\ UNCHANGED <<lock, claim, crashes>>

ReadStale(p) ==
  /\ At(p, "READ_STALE")
  /\ IF lock = "none" THEN Retries(p)
     ELSE IF lock = process[p].seen THEN Goes(p, "STAT_STALE")
     ELSE Throws(p)
  /\ UNCHANGED <<lock, claim, crashes>>

StatStale(p) ==
  /\ At(p, "STAT_STALE")
  /\ IF lock = "none" THEN Retries(p)
     ELSE IF lock = process[p].seen THEN Goes(p, "UNLINK_STALE")
     ELSE Throws(p)
  /\ UNCHANGED <<lock, claim, crashes>>

UnlinkStale(p) ==
  /\ At(p, "UNLINK_STALE")
  /\ lock' = "none"
  /\ Retries(p)
  /\ UNCHANGED <<claim, crashes>>

----------------------------------------------------------------------------
(* releaseRecoveryClaim, at the end of acquire or in its cleanup *)

\* A cleanup ends the process, a success returns the lock.
ClaimReleased(p) == IF process[p].failing THEN NotRunning ELSE [process[p] EXCEPT !.pc = "HELD", !.claimed = FALSE]

\* The claim of another process is an error: after the publication it takes the
\* lock down again, in the cleanup it is counted and nothing is left to do.
ClaimNotReleased(p) ==
  IF process[p].failing THEN Becomes(p, NotRunning)
  ELSE Becomes(p, [process[p] EXCEPT !.failing = TRUE, !.pc = "STAT_OWN"])

ReadRelease(p) ==
  /\ At(p, "READ_RELEASE")
  /\ IF claim = "none" THEN Becomes(p, ClaimReleased(p))
     ELSE IF claim = p THEN Goes(p, "STAT_RELEASE")
     ELSE ClaimNotReleased(p)
  /\ UNCHANGED <<lock, claim, crashes>>

StatRelease(p) ==
  /\ At(p, "STAT_RELEASE")
  /\ IF claim = "none" THEN Becomes(p, ClaimReleased(p))
     ELSE IF claim = p THEN Goes(p, "UNLINK_RELEASE")
     ELSE ClaimNotReleased(p)
  /\ UNCHANGED <<lock, claim, crashes>>

UnlinkRelease(p) ==
  /\ At(p, "UNLINK_RELEASE")
  /\ claim' = "none"
  /\ Becomes(p, ClaimReleased(p))
  /\ UNCHANGED <<lock, crashes>>

----------------------------------------------------------------------------
(* close, and the removal of a published lock in the cleanup of acquire *)

CloseLock(p) ==
  /\ At(p, "HELD")
  /\ Goes(p, "READ_OWN")
  /\ UNCHANGED <<lock, claim, crashes>>

\* A lock of somebody else is reported and left alone.
ReadOwn(p) ==
  /\ At(p, "READ_OWN")
  /\ IF lock = p THEN Goes(p, "STAT_OWN") ELSE Becomes(p, NotRunning)
  /\ UNCHANGED <<lock, claim, crashes>>

\* After the lock the cleanup of a failed acquire turns to the claim.
OwnRemoved(p) ==
  IF process[p].failing /\ process[p].claimed
    THEN [process[p] EXCEPT !.pc = "READ_RELEASE"]
    ELSE NotRunning

StatOwn(p) ==
  /\ At(p, "STAT_OWN")
  /\ IF lock = p THEN Goes(p, "UNLINK_OWN") ELSE Becomes(p, OwnRemoved(p))
  /\ UNCHANGED <<lock, claim, crashes>>

UnlinkOwn(p) ==
  /\ At(p, "UNLINK_OWN")
  /\ lock' = "none"
  /\ Becomes(p, OwnRemoved(p))
  /\ UNCHANGED <<claim, crashes>>

----------------------------------------------------------------------------
ProcessCrash(p) ==
  /\ IsActive(p) /\ crashes < MaxCrashes
  /\ process[p].claimed => CrashesInRecovery
  /\ crashes' = crashes + 1
  /\ Becomes(p, NotRunning)
  /\ UNCHANGED <<lock, claim>>

\* The calls of acquire and close, one after the other.
ProcessStep(p) ==
  \/ Publish(p) \/ ReadLock(p) \/ ProbeHolder(p)
  \/ PublishClaim(p) \/ ReadClaim(p) \/ ProbeClaimant(p)
  \/ RecheckLock(p) \/ StatClaim(p) \/ UnlinkClaim(p)
  \/ ReadStale(p) \/ StatStale(p) \/ UnlinkStale(p)
  \/ ReadRelease(p) \/ StatRelease(p) \/ UnlinkRelease(p)
  \/ ReadOwn(p) \/ StatOwn(p) \/ UnlinkOwn(p)

LockNext == \E p \in Process : Acquire(p) \/ ProcessStep(p) \/ CloseLock(p) \/ ProcessCrash(p)

LockSpec == LockInit /\ [][LockNext]_lockVars

\* A process that is alive goes on, and somebody starts one when none is.
LockFairness ==
  /\ \A p \in Process : WF_lockVars(ProcessStep(p))
  /\ WF_lockVars((\A p \in Process : ~IsActive(p)) /\ \E p \in Process : Acquire(p))

LockFairSpec == LockSpec /\ LockFairness

----------------------------------------------------------------------------
(* Properties *)

LockTypeOK ==
  /\ lock \in File
  /\ claim \in File
  /\ process \in [Process -> AcquireMemory]
  /\ crashes \in 0 .. MaxCrashes

Holds(p) == process[p].pc = "HELD"

\* The comment on SupervisedProcessLock calls it an exclusive file lock: of
\* all the processes that raced for it, recovered it or crashed, one holds it.
Exclusive == \A p, q \in Process : Holds(p) /\ Holds(q) => p = q

\* A holder's record stays published until the holder removes it, so that
\* every later acquire meets it.
HolderIsPublished == \A p \in Process : Holds(p) => lock = p

\* Whatever a crash leaves behind, a stale lock, an orphan recovery claim or
\* both, does not lock the role out for ever.
Recoverable == []<>(\E p \in Process : Holds(p))

=============================================================================
