---------------------------- MODULE ProcessesProofs ----------------------------
(***************************************************************************)
(* What holds of the components in which several processes share a table   *)
(* or a file, for every value of their constants: the role lock, the       *)
(* scheduler, the ledger of paid calls and its file, and the database's    *)
(* transactions.                                                           *)
(***************************************************************************)
EXTENDS MCProcesses, SequenceTheorems, SumTheorems

-----------------------------------------------------------------------------
(* The role lock (SupervisedProcessLock).                                    *)

\* Shorthands for the calls of one phase.
Recovering == {"CLAIM", "READ_CLAIM", "PROBE_CLAIM", "RECHECK", "STAT_CLAIM",
               "READ_STALE", "STAT_STALE", "UNLINK_STALE"}
Releasing  == {"READ_RELEASE", "STAT_RELEASE", "UNLINK_RELEASE"}
Owning     == {"HELD", "READ_OWN", "STAT_OWN", "UNLINK_OWN"}
Claiming   == {"READ_STALE", "STAT_STALE", "UNLINK_STALE"} \cup Releasing

\* The recovery claim is where its owner thinks it is.
ClaimKept(p) ==
  /\ process[p].claimed <=> claim = p
  /\ process[p].pc \in Claiming => process[p].claimed
  /\ process[p].pc \in Owning => ~process[p].claimed
  /\ process[p].failing => process[p].pc \in Releasing
  /\ process[p].claimed => IsActive(p)

\* The records a recovering process has seen are of processes that are gone,
\* and gone for good while it remembers them.
SeenIsGone(p) ==
  /\ process[p].pc \in Recovering => process[p].seen \in Process /\ ~IsActive(process[p].seen)
  /\ process[p].pc \in {"RECHECK", "STAT_CLAIM"} =>
       process[p].claimSeen \in Process /\ ~IsActive(process[p].claimSeen)
  /\ process[p].pc = "PROBE" => process[p].seen \in Process
  /\ process[p].pc = "PROBE_CLAIM" => process[p].claimSeen \in Process
  /\ process[p].pc # "UNLINK_CLAIM"

\* The lock is where its owner thinks it is, and the stale one where the
\* process that removes it does.
LockKept(p) ==
  /\ process[p].pc \in Owning => lock = p
  /\ process[p].pc \in Releasing /\ ~process[p].failing => lock = p
  /\ process[p].pc = "UNLINK_STALE" => lock = process[p].seen

Good(p) == ClaimKept(p) /\ SeenIsGone(p) /\ LockKept(p)

LockInvariant == LockTypeOK /\ \A p \in Process : Good(p)

----------------------------------------------------------------------------
\* A step of p is harmless to the others if it takes down no lock but its own
\* or, with the claim in hand, a dead process's, no claim but its own, and
\* brings to life nobody they remember.
Harmless(p) ==
  /\ \E memory \in AcquireMemory : process' = [process EXCEPT ![p] = memory]
  /\ \/ lock' = lock
     \/ lock = "none" /\ lock' = p
     \/ lock' = "none" /\ lock = p /\ IsActive(p)
     \/ lock' = "none" /\ lock \in Process /\ ~IsActive(lock) /\ claim = p
  /\ \/ claim' = claim
     \/ claim = "none" /\ claim' = p
     \/ claim' = "none" /\ claim = p
  /\ \/ IsActive(p) \/ process'[p].pc = "DOWN"
     \/ \A other \in Process : p \notin {process[other].seen, process[other].claimSeen}
  /\ crashes' \in 0 .. MaxCrashes

LEMMA HarmlessStep ==
  ASSUME LockInvariant, NEW p \in Process, Harmless(p), Good(p)'
  PROVE  LockInvariant'
<1>1. PICK memory \in AcquireMemory : process' = [process EXCEPT ![p] = memory]
  BY DEF Harmless
<1>2. LockTypeOK'
  BY <1>1 DEF LockInvariant, LockTypeOK, Harmless, File
<1>3. ASSUME NEW q \in Process, q # p
      PROVE  Good(q)'
  <2>1. process'[q] = process[q] /\ process'[p] = memory
    BY <1>1, <1>3 DEF LockInvariant, LockTypeOK
  <2>2. \A r \in Process : r \in {process[q].seen, process[q].claimSeen} /\ ~IsActive(r) => ~IsActive(r)'
    BY <1>1 DEF IsActive, Harmless, LockInvariant, LockTypeOK
  <2>3. Good(q) /\ "none" \notin Process
    BY LockAssumption DEF LockInvariant
  <2>4. ClaimKept(q)'
    BY <1>3, <2>1, <2>3 DEF Good, ClaimKept, Harmless, IsActive
  <2>5. SeenIsGone(q)'
    BY <2>1, <2>2, <2>3 DEF Good, SeenIsGone
  <2>6. LockKept(q)'
    <3>1. process[q].pc \in Owning \/ process[q].pc \in Releasing => IsActive(q)
      BY DEF Owning, Releasing, IsActive
    <3>2. process[q].pc = "UNLINK_STALE" => claim = q /\ ~IsActive(lock) /\ lock \in Process
      BY <2>3 DEF Good, ClaimKept, SeenIsGone, LockKept, Claiming, Recovering
    <3>3. lock' # lock => \/ lock = "none"
                          \/ lock = p /\ IsActive(p)
                          \/ ~IsActive(lock) /\ claim = p
      BY DEF Harmless
    <3> QED
      BY <1>3, <2>1, <2>3, <3>1, <3>2, <3>3 DEF Good, LockKept
  <2> QED
    BY <2>4, <2>5, <2>6 DEF Good
<1> QED
  BY <1>2, <1>3 DEF LockInvariant

----------------------------------------------------------------------------
(* What the calls leave in the memory of the process that makes them. *)

Turns(p, at, found, claimSeen, claimed, failing) ==
  /\ \E memory \in AcquireMemory : process' = [process EXCEPT ![p] = memory]
  /\ process'[p].pc = at /\ process'[p].seen = found /\ process'[p].claimSeen = claimSeen
  /\ process'[p].claimed = claimed /\ process'[p].failing = failing
  /\ \A q \in Process \ {p} : process'[q] = process[q]

TurnsTo(p, at) ==
  Turns(p, at, process[p].seen, process[p].claimSeen, process[p].claimed, process[p].failing)

TurnsDown(p) == Turns(p, "DOWN", "none", "none", FALSE, FALSE)

TurnsAway(p) ==
  IF process[p].claimed
    THEN Turns(p, "READ_RELEASE", process[p].seen, process[p].claimSeen, TRUE, TRUE)
    ELSE TurnsDown(p)

LEMMA MemoryTurns ==
  ASSUME LockTypeOK, NEW p \in Process, NEW memory \in AcquireMemory, Becomes(p, memory)
  PROVE  Turns(p, memory.pc, memory.seen, memory.claimSeen, memory.claimed, memory.failing)
  BY DEF LockTypeOK, Becomes, Turns

LEMMA DownTurns == ASSUME LockTypeOK, NEW p \in Process, Becomes(p, NotRunning) PROVE TurnsDown(p)
<1>1. NotRunning \in AcquireMemory
  BY DEF NotRunning, AcquireMemory, LockPC, File
<1> QED
  BY <1>1, MemoryTurns DEF NotRunning, TurnsDown

LEMMA GoesTurns ==
  ASSUME LockTypeOK, NEW p \in Process, NEW at \in LockPC, Goes(p, at)
  PROVE  TurnsTo(p, at)
<1> DEFINE memory == [process[p] EXCEPT !.pc = at]
<1>1. memory \in AcquireMemory /\ memory.pc = at /\ memory.seen = process[p].seen
      /\ memory.claimSeen = process[p].claimSeen /\ memory.claimed = process[p].claimed
      /\ memory.failing = process[p].failing
  BY DEF LockTypeOK, AcquireMemory
<1>2. Becomes(p, memory)
  BY DEF Goes
<1> HIDE DEF memory
<1> QED
  BY <1>1, <1>2, MemoryTurns DEF TurnsTo

LEMMA ThrowsTurns == ASSUME LockTypeOK, NEW p \in Process, Throws(p) PROVE TurnsAway(p)
<1>1. CASE process[p].claimed
  <2> DEFINE memory == [process[p] EXCEPT !.failing = TRUE, !.pc = "READ_RELEASE"]
  <2>1. memory \in AcquireMemory /\ memory.pc = "READ_RELEASE" /\ memory.seen = process[p].seen
        /\ memory.claimSeen = process[p].claimSeen /\ memory.claimed = TRUE /\ memory.failing = TRUE
    BY <1>1 DEF LockTypeOK, AcquireMemory, LockPC
  <2>2. Becomes(p, memory)
    BY <1>1 DEF Throws
  <2> HIDE DEF memory
  <2> QED
    BY <1>1, <2>1, <2>2, MemoryTurns DEF TurnsAway
<1>2. CASE ~process[p].claimed
  BY <1>2, DownTurns DEF Throws, TurnsAway
<1> QED
  BY <1>1, <1>2

LEMMA RetriesTurns ==
  ASSUME LockTypeOK, NEW p \in Process, Retries(p)
  PROVE  TurnsTo(p, "PUBLISH") \/ TurnsAway(p)
<1>1. CASE process[p].attempt = 0
  <2> DEFINE memory == [process[p] EXCEPT !.pc = "PUBLISH", !.attempt = 1]
  <2>1. memory \in AcquireMemory /\ memory.pc = "PUBLISH" /\ memory.seen = process[p].seen
        /\ memory.claimSeen = process[p].claimSeen /\ memory.claimed = process[p].claimed
        /\ memory.failing = process[p].failing
    BY DEF LockTypeOK, AcquireMemory, LockPC
  <2>2. Becomes(p, memory)
    BY <1>1 DEF Retries
  <2> HIDE DEF memory
  <2> QED
    BY <2>1, <2>2, MemoryTurns DEF TurnsTo
<1> QED
  BY <1>1, ThrowsTurns DEF Retries

LEMMA RetriesClaimTurns ==
  ASSUME LockTypeOK, NEW p \in Process, RetriesClaim(p)
  PROVE  TurnsTo(p, "CLAIM") \/ TurnsAway(p)
<1>1. CASE process[p].claimAttempt = 0
  <2> DEFINE memory == [process[p] EXCEPT !.pc = "CLAIM", !.claimAttempt = 1]
  <2>1. memory \in AcquireMemory /\ memory.pc = "CLAIM" /\ memory.seen = process[p].seen
        /\ memory.claimSeen = process[p].claimSeen /\ memory.claimed = process[p].claimed
        /\ memory.failing = process[p].failing
    BY DEF LockTypeOK, AcquireMemory, LockPC
  <2>2. Becomes(p, memory)
    BY <1>1 DEF RetriesClaim
  <2> HIDE DEF memory
  <2> QED
    BY <2>1, <2>2, MemoryTurns DEF TurnsTo
<1> QED
  BY <1>1, ThrowsTurns DEF RetriesClaim

LEMMA ReleasedTurns ==
  ASSUME LockTypeOK, NEW p \in Process, Becomes(p, ClaimReleased(p))
  PROVE  IF process[p].failing THEN TurnsDown(p)
         ELSE Turns(p, "HELD", process[p].seen, process[p].claimSeen, FALSE, FALSE)
<1>1. CASE process[p].failing
  BY <1>1, DownTurns DEF ClaimReleased
<1>2. CASE ~process[p].failing
  <2> DEFINE memory == [process[p] EXCEPT !.pc = "HELD", !.claimed = FALSE]
  <2>1. memory \in AcquireMemory /\ memory.pc = "HELD" /\ memory.seen = process[p].seen
        /\ memory.claimSeen = process[p].claimSeen /\ memory.claimed = FALSE /\ memory.failing = FALSE
    BY <1>2 DEF LockTypeOK, AcquireMemory, LockPC
  <2>2. Becomes(p, memory)
    BY <1>2 DEF ClaimReleased
  <2> HIDE DEF memory
  <2> QED
    BY <1>2, <2>1, <2>2, MemoryTurns
<1> QED
  BY <1>1, <1>2

----------------------------------------------------------------------------
(* What the invariant asks of a process after a call, phase by phase. *)

LockContext(p) ==
  /\ LockInvariant /\ IsActive(p) /\ ~process[p].failing
  /\ claim' = claim

LEMMA LeavesGood ==
  ASSUME NEW p \in Process, LockContext(p), TurnsTo(p, "PUBLISH") \/ TurnsAway(p)
  PROVE  Good(p)'
<1>1. ClaimKept(p)
  BY DEF LockContext, LockInvariant, Good
<1>2. CASE TurnsTo(p, "PUBLISH")
  BY <1>1, <1>2 DEF LockContext, TurnsTo, Turns, Good, ClaimKept, SeenIsGone, LockKept, IsActive,
     Recovering, Releasing, Owning, Claiming
<1>3. CASE process[p].claimed /\ TurnsAway(p)
  BY <1>1, <1>3 DEF LockContext, TurnsAway, Turns, Good, ClaimKept, SeenIsGone, LockKept, IsActive,
     Recovering, Releasing, Owning, Claiming
<1>4. CASE ~process[p].claimed /\ TurnsAway(p)
  BY <1>1, <1>4 DEF LockContext, TurnsAway, TurnsDown, Turns, Good, ClaimKept, SeenIsGone, LockKept, IsActive,
     Recovering, Releasing, Owning, Claiming
<1> QED
  BY <1>2, <1>3, <1>4

LEMMA RecoversGood ==
  ASSUME NEW p \in Process, NEW at \in Recovering, LockContext(p), TurnsTo(p, at), lock' = lock,
         process[p].seen \in Process, ~IsActive(process[p].seen),
         at \in Claiming => process[p].claimed,
         at \in {"RECHECK", "STAT_CLAIM"} =>
           process[p].claimSeen \in Process /\ ~IsActive(process[p].claimSeen),
         at = "PROBE_CLAIM" => process[p].claimSeen \in Process,
         at = "UNLINK_STALE" => lock = process[p].seen
  PROVE  Good(p)'
<1>1. \A q \in Process : ~IsActive(q) => ~IsActive(q)'
  BY DEF LockContext, TurnsTo, Turns, IsActive
<1>2. ClaimKept(p)'
  BY DEF LockContext, LockInvariant, Good, TurnsTo, Turns, ClaimKept, IsActive, Recovering, Releasing, Owning, Claiming
<1>3. SeenIsGone(p)'
  BY <1>1 DEF TurnsTo, Turns, SeenIsGone, Recovering
<1>4. LockKept(p)'
  BY DEF TurnsTo, Turns, LockKept, Recovering, Releasing, Owning
<1> QED
  BY <1>2, <1>3, <1>4 DEF Good

\* A call that changes no file is harmless.
LEMMA QuietHarmless ==
  ASSUME LockInvariant, NEW p \in Process, IsActive(p),
         \E memory \in AcquireMemory : process' = [process EXCEPT ![p] = memory],
         UNCHANGED <<lock, claim, crashes>>
  PROVE  Harmless(p)
  BY DEF Harmless, LockInvariant, LockTypeOK

----------------------------------------------------------------------------
LEMMA LockSteps ==
  ASSUME LockInvariant, ~CrashesInRecovery, NEW p \in Process,
         Acquire(p) \/ ProcessStep(p) \/ CloseLock(p) \/ ProcessCrash(p)
  PROVE  Harmless(p) /\ Good(p)'
<1>1. /\ LockTypeOK /\ "none" \notin Process
      /\ lock \in File /\ claim \in File /\ crashes \in 0 .. MaxCrashes /\ MaxCrashes \in Nat
      /\ ClaimKept(p) /\ SeenIsGone(p) /\ LockKept(p)
      /\ \A q \in Process : Good(q)
      /\ process[p].seen \in File /\ process[p].claimSeen \in File
  BY LockAssumption DEF LockInvariant, LockTypeOK, AcquireMemory, Good
<1>2. CASE Acquire(p)
  <2> DEFINE memory == [NotRunning EXCEPT !.pc = "PUBLISH"]
  <2>1. memory \in AcquireMemory /\ memory.pc = "PUBLISH" /\ memory.seen = "none" /\ memory.claimSeen = "none"
        /\ memory.claimed = FALSE /\ memory.failing = FALSE
    BY DEF NotRunning, AcquireMemory, LockPC, File
  <2>2. Becomes(p, memory)
    BY <1>2 DEF Acquire
  <2> HIDE DEF memory
  <2> QED
    BY <1>1, <1>2, <2>1, <2>2, MemoryTurns
       DEF At, Acquire, LockPC, Good, ClaimKept, SeenIsGone, LockKept, IsActive,
     Recovering, Releasing, Owning, Claiming, Harmless, Turns, TurnsTo, TurnsDown, TurnsAway
<1>3. CASE Publish(p)
  BY <1>1, <1>3, GoesTurns
     DEF At, Publish, LockPC, Good, ClaimKept, SeenIsGone, LockKept, IsActive,
     Recovering, Releasing, Owning, Claiming, Harmless, Turns, TurnsTo, TurnsDown, TurnsAway, File
<1>4. CASE ReadLock(p)
  <2> DEFINE memory == [process[p] EXCEPT !.pc = "PROBE", !.seen = lock]
  <2>1. memory \in AcquireMemory /\ memory.pc = "PROBE" /\ memory.seen = lock
        /\ memory.claimSeen = process[p].claimSeen /\ memory.claimed = process[p].claimed
        /\ memory.failing = process[p].failing
    BY <1>1 DEF LockTypeOK, AcquireMemory, LockPC
  <2>2. lock # "none" => Becomes(p, memory)
    BY <1>4 DEF ReadLock
  <2> HIDE DEF memory
  <2>3. LockContext(p)
    BY <1>1, <1>4 DEF LockContext, IsActive, At, ReadLock, ClaimKept, Releasing
  <2>4. CASE lock = "none"
    <3>1. TurnsTo(p, "PUBLISH") \/ TurnsAway(p)
      BY <1>1, <1>4, <2>4, RetriesTurns DEF ReadLock
    <3> QED
      BY <1>4, <2>3, <3>1, LeavesGood, QuietHarmless DEF LockContext, ReadLock, Turns, TurnsTo, TurnsDown, TurnsAway
  <2>5. CASE lock # "none"
    <3>1. Turns(p, "PROBE", lock, process[p].claimSeen, process[p].claimed, process[p].failing)
      BY <1>1, <2>1, <2>2, <2>5, MemoryTurns
    <3>2. Harmless(p)
      BY <1>4, <2>3, <3>1, QuietHarmless DEF LockContext, ReadLock, Turns
    <3> QED
      BY <1>1, <1>4, <2>3, <2>5, <3>1, <3>2
         DEF LockContext, Turns, File, Good, ClaimKept, SeenIsGone, LockKept, IsActive,
     Recovering, Releasing, Owning, Claiming
  <2> QED
    BY <2>4, <2>5
<1>5. CASE ProbeHolder(p)
  <2>1. LockContext(p)
    BY <1>1, <1>5 DEF LockContext, IsActive, At, ProbeHolder, ClaimKept, Releasing
  <2>2. CASE Throws(p)
    <3>1. TurnsAway(p)
      BY <1>1, <2>2, ThrowsTurns
    <3> QED
      BY <1>5, <2>1, <3>1, LeavesGood, QuietHarmless DEF LockContext, ProbeHolder, Turns, TurnsTo, TurnsDown, TurnsAway
  <2>3. CASE Goes(p, "CLAIM") /\ ~IsActive(process[p].seen)
    <3>1. TurnsTo(p, "CLAIM") /\ process[p].seen \in Process
      BY <1>1, <1>5, <2>3, GoesTurns DEF ProbeHolder, At, LockPC, SeenIsGone
    <3>2. Harmless(p)
      BY <1>5, <2>1, <3>1, QuietHarmless DEF LockContext, ProbeHolder, Turns, TurnsTo, TurnsDown, TurnsAway
    <3> QED
      BY <1>5, <2>1, <2>3, <3>1, <3>2, RecoversGood DEF ProbeHolder, Recovering, Releasing, Owning, Claiming
  <2> QED
    BY <1>5, <2>2, <2>3 DEF ProbeHolder
<1>6. CASE PublishClaim(p)
  <2> DEFINE memory == [process[p] EXCEPT !.claimed = TRUE, !.pc = "READ_STALE"]
  <2>1. memory \in AcquireMemory /\ memory.pc = "READ_STALE" /\ memory.seen = process[p].seen
        /\ memory.claimSeen = process[p].claimSeen /\ memory.claimed = TRUE
        /\ memory.failing = process[p].failing
    BY <1>1 DEF LockTypeOK, AcquireMemory, LockPC
  <2>2. claim = "none" => Becomes(p, memory)
    BY <1>6 DEF PublishClaim
  <2> HIDE DEF memory
  <2>3. process[p].seen \in Process /\ ~IsActive(process[p].seen) /\ IsActive(p) /\ ~process[p].failing
    BY <1>1, <1>6 DEF At, PublishClaim, SeenIsGone, ClaimKept, Recovering, Releasing, IsActive
  <2>4. CASE claim = "none"
    <3>1. Turns(p, "READ_STALE", process[p].seen, process[p].claimSeen, TRUE, process[p].failing)
      BY <1>1, <2>1, <2>2, <2>4, MemoryTurns
    <3>2. lock' = lock /\ claim' = p /\ crashes' = crashes
      BY <1>6, <2>4 DEF PublishClaim
    <3>3. Harmless(p)
      BY <1>1, <2>3, <2>4, <3>1, <3>2 DEF Harmless, Turns
    <3> QED
      BY <1>1, <2>3, <3>1, <3>2, <3>3
         DEF Turns, Good, ClaimKept, SeenIsGone, LockKept, IsActive,
     Recovering, Releasing, Owning, Claiming
  <2>5. CASE claim # "none"
    <3>1. TurnsTo(p, "READ_CLAIM")
      BY <1>1, <1>6, <2>5, GoesTurns DEF PublishClaim, LockPC
    <3>2. LockContext(p) /\ lock' = lock /\ crashes' = crashes
      BY <1>6, <2>3, <2>5 DEF LockContext, PublishClaim
    <3>3. Harmless(p)
      BY <2>3, <3>1, <3>2, QuietHarmless DEF LockContext, TurnsTo, Turns
    <3> QED
      BY <2>3, <3>1, <3>2, <3>3, RecoversGood DEF Recovering, Releasing, Owning, Claiming
  <2> QED
    BY <2>4, <2>5
<1>7. CASE ReadClaim(p)
  <2> DEFINE memory == [process[p] EXCEPT !.pc = "PROBE_CLAIM", !.claimSeen = claim]
  <2>1. memory \in AcquireMemory /\ memory.pc = "PROBE_CLAIM" /\ memory.seen = process[p].seen
        /\ memory.claimSeen = claim /\ memory.claimed = process[p].claimed
        /\ memory.failing = process[p].failing
    BY <1>1 DEF LockTypeOK, AcquireMemory, LockPC
  <2>2. claim # "none" => Becomes(p, memory)
    BY <1>7 DEF ReadClaim
  <2> HIDE DEF memory
  <2>3. LockContext(p)
    BY <1>1, <1>7 DEF LockContext, IsActive, At, ReadClaim, ClaimKept, Releasing
  <2>4. process[p].seen \in Process /\ ~IsActive(process[p].seen)
    BY <1>1, <1>7 DEF At, ReadClaim, SeenIsGone, Recovering
  <2>5. CASE claim = "none"
    <3>1. TurnsTo(p, "CLAIM") \/ TurnsAway(p)
      BY <1>1, <1>7, <2>5, RetriesClaimTurns DEF ReadClaim
    <3>2. Harmless(p)
      BY <1>7, <2>3, <3>1, QuietHarmless DEF LockContext, ReadClaim, Turns, TurnsTo, TurnsDown, TurnsAway
    <3> QED
      BY <1>7, <2>3, <2>4, <3>1, <3>2, LeavesGood, RecoversGood DEF ReadClaim, Recovering, Releasing, Owning, Claiming
  <2>6. CASE claim # "none"
    <3>1. Turns(p, "PROBE_CLAIM", process[p].seen, claim, process[p].claimed, process[p].failing)
      BY <1>1, <2>1, <2>2, <2>6, MemoryTurns
    <3>2. Harmless(p)
      BY <1>7, <2>3, <3>1, QuietHarmless DEF LockContext, ReadClaim, Turns
    <3> QED
      BY <1>1, <1>7, <2>3, <2>4, <2>6, <3>1, <3>2
         DEF LockContext, Turns, File, Good, ClaimKept, SeenIsGone, LockKept, IsActive,
     Recovering, Releasing, Owning, Claiming
  <2> QED
    BY <2>5, <2>6
<1>8. CASE ProbeClaimant(p)
  <2>1. LockContext(p)
    BY <1>1, <1>8 DEF LockContext, IsActive, At, ProbeClaimant, ClaimKept, Releasing
  <2>2. CASE Throws(p)
    <3>1. TurnsAway(p)
      BY <1>1, <2>2, ThrowsTurns
    <3> QED
      BY <1>8, <2>1, <3>1, LeavesGood, QuietHarmless DEF LockContext, ProbeClaimant, Turns, TurnsTo, TurnsDown, TurnsAway
  <2>3. CASE Goes(p, "RECHECK") /\ ~IsActive(process[p].claimSeen)
    <3>1. TurnsTo(p, "RECHECK") /\ process[p].seen \in Process /\ ~IsActive(process[p].seen)
          /\ process[p].claimSeen \in Process
      BY <1>1, <1>8, <2>3, GoesTurns DEF ProbeClaimant, At, LockPC, SeenIsGone, Recovering
    <3>2. Harmless(p)
      BY <1>8, <2>1, <3>1, QuietHarmless DEF LockContext, ProbeClaimant, Turns, TurnsTo, TurnsDown, TurnsAway
    <3> QED
      BY <1>8, <2>1, <2>3, <3>1, <3>2, RecoversGood DEF ProbeClaimant, Recovering, Releasing, Owning, Claiming
  <2> QED
    BY <1>1, <1>8, <2>2, <2>3 DEF ProbeClaimant, At, SeenIsGone
<1>9. CASE RecheckLock(p)
  <2>1. LockContext(p)
    BY <1>1, <1>9 DEF LockContext, IsActive, At, RecheckLock, ClaimKept, Releasing
  <2>2. CASE Throws(p)
    <3>1. TurnsAway(p)
      BY <1>1, <2>2, ThrowsTurns
    <3> QED
      BY <1>9, <2>1, <3>1, LeavesGood, QuietHarmless DEF LockContext, RecheckLock, Turns, TurnsTo, TurnsDown, TurnsAway
  <2>3. CASE Goes(p, "STAT_CLAIM") /\ ~IsActive(process[p].claimSeen)
    <3>1. TurnsTo(p, "STAT_CLAIM") /\ process[p].seen \in Process /\ ~IsActive(process[p].seen)
          /\ process[p].claimSeen \in Process
      BY <1>1, <1>9, <2>3, GoesTurns DEF RecheckLock, At, LockPC, SeenIsGone, Recovering
    <3>2. Harmless(p)
      BY <1>9, <2>1, <3>1, QuietHarmless DEF LockContext, RecheckLock, Turns, TurnsTo, TurnsDown, TurnsAway
    <3> QED
      BY <1>9, <2>1, <2>3, <3>1, <3>2, RecoversGood DEF RecheckLock, Recovering, Releasing, Owning, Claiming
  <2> QED
    BY <1>1, <1>9, <2>2, <2>3 DEF RecheckLock, At, SeenIsGone
<1>10. CASE StatClaim(p)
  <2>1. LockContext(p)
    BY <1>1, <1>10 DEF LockContext, IsActive, At, StatClaim, ClaimKept, Releasing
  <2>2. process[p].seen \in Process /\ ~IsActive(process[p].seen)
        /\ process[p].claimSeen \in Process /\ ~IsActive(process[p].claimSeen)
    BY <1>1, <1>10 DEF StatClaim, At, SeenIsGone, Recovering
  <2>3. claim # process[p].claimSeen
    <3>1. ClaimKept(process[p].claimSeen)
      BY <1>1, <2>2 DEF Good
    <3> QED
      BY <2>2, <3>1 DEF ClaimKept
  <2>4. TurnsTo(p, "CLAIM") \/ TurnsAway(p)
    BY <1>1, <1>10, <2>3, RetriesClaimTurns, ThrowsTurns DEF StatClaim
  <2>5. Harmless(p)
    BY <1>10, <2>1, <2>4, QuietHarmless DEF LockContext, StatClaim, Turns, TurnsTo, TurnsDown, TurnsAway
  <2> QED
    BY <1>10, <2>1, <2>2, <2>4, <2>5, LeavesGood, RecoversGood DEF StatClaim, Recovering, Releasing, Owning, Claiming
<1>11. CASE UnlinkClaim(p)
  BY <1>1, <1>11
     DEF At, UnlinkClaim, LockPC, Good, ClaimKept, SeenIsGone, LockKept, IsActive,
     Recovering, Releasing, Owning, Claiming, Harmless, Turns, TurnsTo, TurnsDown, TurnsAway, File
<1>12. CASE ReadStale(p)
  <2>1. LockContext(p)
    BY <1>1, <1>12 DEF LockContext, IsActive, At, ReadStale, ClaimKept, Releasing
  <2>2. process[p].seen \in Process /\ ~IsActive(process[p].seen) /\ process[p].claimed
    BY <1>1, <1>12 DEF ReadStale, At, SeenIsGone, ClaimKept, Recovering, Claiming
  <2>3. \/ TurnsTo(p, "PUBLISH") \/ TurnsAway(p)
        \/ TurnsTo(p, "STAT_STALE") /\ lock = process[p].seen
    BY <1>1, <1>12, RetriesTurns, ThrowsTurns, GoesTurns DEF ReadStale, LockPC
  <2>4. Harmless(p)
    BY <1>12, <2>1, <2>3, QuietHarmless DEF LockContext, ReadStale, Turns, TurnsTo, TurnsDown, TurnsAway
  <2> QED
    BY <1>12, <2>1, <2>2, <2>3, <2>4, LeavesGood, RecoversGood DEF ReadStale, Recovering, Releasing, Owning, Claiming
<1>13. CASE StatStale(p)
  <2>1. LockContext(p)
    BY <1>1, <1>13 DEF LockContext, IsActive, At, StatStale, ClaimKept, Releasing
  <2>2. process[p].seen \in Process /\ ~IsActive(process[p].seen) /\ process[p].claimed
    BY <1>1, <1>13 DEF StatStale, At, SeenIsGone, ClaimKept, Recovering, Claiming
  <2>3. \/ TurnsTo(p, "PUBLISH") \/ TurnsAway(p)
        \/ TurnsTo(p, "UNLINK_STALE") /\ lock = process[p].seen
    BY <1>1, <1>13, RetriesTurns, ThrowsTurns, GoesTurns DEF StatStale, LockPC
  <2>4. Harmless(p)
    BY <1>13, <2>1, <2>3, QuietHarmless DEF LockContext, StatStale, Turns, TurnsTo, TurnsDown, TurnsAway
  <2> QED
    BY <1>13, <2>1, <2>2, <2>3, <2>4, LeavesGood, RecoversGood DEF StatStale, Recovering, Releasing, Owning, Claiming
<1>14. CASE UnlinkStale(p)
  <2>1. LockContext(p)
    BY <1>1, <1>14 DEF LockContext, IsActive, At, UnlinkStale, ClaimKept, Releasing
  <2>2. TurnsTo(p, "PUBLISH") \/ TurnsAway(p)
    BY <1>1, <1>14, RetriesTurns DEF UnlinkStale
  <2>3. process[p].seen \in Process /\ ~IsActive(process[p].seen) /\ lock = process[p].seen /\ claim = p
    BY <1>1, <1>14 DEF UnlinkStale, At, SeenIsGone, ClaimKept, LockKept, Recovering, Claiming
  <2>4. \E memory \in AcquireMemory : process' = [process EXCEPT ![p] = memory]
    BY <2>2 DEF Turns, TurnsTo, TurnsDown, TurnsAway
  <2>5. Harmless(p)
    BY <1>1, <1>14, <2>1, <2>3, <2>4 DEF LockContext, UnlinkStale, Harmless
  <2> QED
    BY <2>1, <2>2, <2>5, LeavesGood
<1>15. CASE ReadRelease(p)
  BY <1>1, <1>15, ReleasedTurns, GoesTurns
     DEF At, ReadRelease, LockPC, Good, ClaimKept, SeenIsGone, LockKept, IsActive,
     Recovering, Releasing, Owning, Claiming, Harmless, Turns, TurnsTo, TurnsDown, TurnsAway, File
<1>16. CASE StatRelease(p)
  BY <1>1, <1>16, ReleasedTurns, GoesTurns
     DEF At, StatRelease, LockPC, Good, ClaimKept, SeenIsGone, LockKept, IsActive,
     Recovering, Releasing, Owning, Claiming, Harmless, Turns, TurnsTo, TurnsDown, TurnsAway, File
<1>17. CASE UnlinkRelease(p)
  <2>1. claim = p /\ (~process[p].failing => lock = p) /\ IsActive(p)
        /\ lock' = lock /\ claim' = "none" /\ crashes' = crashes
    BY <1>1, <1>17 DEF UnlinkRelease, At, ClaimKept, LockKept, Claiming, Releasing, IsActive
  <2>2. \/ TurnsDown(p)
        \/ ~process[p].failing /\ Turns(p, "HELD", process[p].seen, process[p].claimSeen, FALSE, FALSE)
    BY <1>1, <1>17, ReleasedTurns DEF UnlinkRelease
  <2>3. Harmless(p)
    BY <1>1, <2>1, <2>2 DEF Harmless, TurnsDown, Turns
  <2>4. CASE TurnsDown(p)
    BY <1>1, <2>1, <2>3, <2>4 DEF TurnsDown, Turns, Good, ClaimKept, SeenIsGone, LockKept, IsActive,
     Recovering, Releasing, Owning, Claiming
  <2>5. CASE ~process[p].failing /\ Turns(p, "HELD", process[p].seen, process[p].claimSeen, FALSE, FALSE)
    BY <1>1, <2>1, <2>3, <2>5 DEF Turns, Good, ClaimKept, SeenIsGone, LockKept, IsActive,
     Recovering, Releasing, Owning, Claiming
  <2> QED
    BY <2>2, <2>4, <2>5
<1>18. CASE CloseLock(p)
  BY <1>1, <1>18, GoesTurns
     DEF At, CloseLock, LockPC, Good, ClaimKept, SeenIsGone, LockKept, IsActive,
     Recovering, Releasing, Owning, Claiming, Harmless, Turns, TurnsTo, TurnsDown, TurnsAway, File
<1>19. CASE ReadOwn(p)
  BY <1>1, <1>19, GoesTurns, DownTurns
     DEF At, ReadOwn, LockPC, Good, ClaimKept, SeenIsGone, LockKept, IsActive,
     Recovering, Releasing, Owning, Claiming, Harmless, Turns, TurnsTo, TurnsDown, TurnsAway, File
<1>20. CASE StatOwn(p)
  BY <1>1, <1>20, GoesTurns, DownTurns
     DEF At, StatOwn, OwnRemoved, LockPC, Good, ClaimKept, SeenIsGone, LockKept, IsActive,
     Recovering, Releasing, Owning, Claiming, Harmless, Turns, TurnsTo, TurnsDown, TurnsAway, File
<1>21. CASE UnlinkOwn(p)
  BY <1>1, <1>21, DownTurns
     DEF At, UnlinkOwn, OwnRemoved, LockPC, Good, ClaimKept, SeenIsGone, LockKept, IsActive,
     Recovering, Releasing, Owning, Claiming, Harmless, Turns, TurnsTo, TurnsDown, TurnsAway, File
<1>22. CASE ProcessCrash(p)
  <2>1. IsActive(p) /\ ~process[p].claimed /\ lock' = lock /\ claim' = claim
        /\ crashes' \in 0 .. MaxCrashes
    BY <1>1, <1>22 DEF ProcessCrash
  <2>2. TurnsDown(p)
    BY <1>1, <1>22, DownTurns DEF ProcessCrash
  <2>3. Harmless(p)
    BY <2>1, <2>2 DEF Harmless, TurnsDown, Turns
  <2> QED
    BY <1>1, <2>1, <2>2, <2>3 DEF TurnsDown, Turns, Good, ClaimKept, SeenIsGone, LockKept, IsActive,
     Recovering, Releasing, Owning, Claiming
<1> QED
  BY <1>2, <1>3, <1>4, <1>5, <1>6, <1>7, <1>8, <1>9, <1>10, <1>11, <1>12, <1>13, <1>14, <1>15, <1>16, <1>17, <1>18, <1>19, <1>20, <1>21, <1>22 DEF ProcessStep

----------------------------------------------------------------------------
LEMMA LockInitially == LockInit => LockInvariant
<1> SUFFICES ASSUME LockInit PROVE LockInvariant
  OBVIOUS
<1>1. NotRunning \in AcquireMemory
  BY DEF NotRunning, AcquireMemory, LockPC, File
<1>2. LockTypeOK
  BY <1>1, LockAssumption DEF LockInit, LockTypeOK, File
<1>3. NotRunning.pc = "DOWN" /\ NotRunning.claimed = FALSE /\ NotRunning.failing = FALSE
  BY DEF NotRunning
<1>4. ASSUME NEW p \in Process PROVE Good(p)
  <2>1. process[p] = NotRunning /\ claim # p
    BY LockAssumption DEF LockInit
  <2> QED
    BY <1>3, <2>1 DEF Good, ClaimKept, SeenIsGone, LockKept, IsActive, Recovering, Releasing, Owning, Claiming
<1> QED
  BY <1>2, <1>4 DEF LockInvariant

LEMMA LockInvariantHolds == ASSUME ~CrashesInRecovery PROVE LockSpec => []LockInvariant
<1>1. LockInvariant /\ [LockNext]_lockVars => LockInvariant'
  <2> SUFFICES ASSUME LockInvariant, [LockNext]_lockVars PROVE LockInvariant'
    OBVIOUS
  <2>1. CASE LockNext
    BY <2>1, LockSteps, HarmlessStep DEF LockNext
  <2>2. CASE UNCHANGED lockVars
    BY <2>2 DEF lockVars, LockInvariant, LockTypeOK, Good, ClaimKept, SeenIsGone, LockKept, IsActive
  <2> QED
    BY <2>1, <2>2
<1> QED
  BY <1>1, LockInitially, PTL DEF LockSpec

\* The types of the files and of the memory of the processes.
THEOREM LockTyped == ASSUME ~CrashesInRecovery PROVE LockSpec => []LockTypeOK
<1>1. LockInvariant => LockTypeOK
  BY DEF LockInvariant
<1> QED
  BY <1>1, LockInvariantHolds, PTL

\* Whoever holds the role finds its own record at the lock path, until it
\* closes: no recovery of a stale lock ever takes it down.
THEOREM HolderIsPublishedHolds == ASSUME ~CrashesInRecovery PROVE LockSpec => []HolderIsPublished
<1>1. LockInvariant => HolderIsPublished
  BY DEF LockInvariant, Good, LockKept, Owning, HolderIsPublished, Holds
<1> QED
  BY <1>1, LockInvariantHolds, PTL

\* Two processes that ran acquire never both hold the role, however many
\* processes race and however many of them crash, as long as none of them
\* crashes with a recovery claim in hand.
THEOREM ExclusiveHolds == ASSUME ~CrashesInRecovery PROVE LockSpec => []Exclusive
<1>1. HolderIsPublished => Exclusive
  BY DEF HolderIsPublished, Exclusive
<1> QED
  BY <1>1, HolderIsPublishedHolds, PTL

-----------------------------------------------------------------------------
(* The scheduler (OperationsScheduler).                                      *)

\* What NextOccurrence chooses from, one choice at a time.
IsNext(s, lag, next) ==
  LET late == -(schedule[s].due + lag)
  IN \/ Gap[s] = {} /\ next.queued /\ next.row = Finished(s)
     \/ \E gap \in Gap[s], ahead \in Nat \ {0} :
          /\ next.queued = (CatchUp[s] \/ ~Missed(gap, late))
          /\ next.row = Moved(s, ahead - lag)

\* A tick's effect on one schedule: none, or that of its next occurrence.
Left(s) == schedule'[s] = schedule[s] /\ jobOf'[s] = jobOf[s]
Taken(s, lag, next) ==
  /\ Enabled(s) /\ IsPast(schedule[s].due, lag)
  /\ IsNext(s, lag, next)
  /\ schedule'[s] = next.row
  /\ jobOf'[s] = JobsAfter(s, next)

\* The next occurrence lies ahead of the clock reading.
LEMMA AheadIsPositive ==
  ASSUME NEW s \in Schedule, NEW gap \in Gap[s], NEW late \in Int, NEW ahead \in Ahead(s, gap, late)
  PROVE  ahead \in Nat \ {0}
<1>1. gap \in Nat \ {0}
  BY SchedulerAssumption
<1>2. CASE late < gap
  BY <1>1, <1>2 DEF Ahead
<1>3. CASE ~(late < gap) /\ late < MaxLate /\ Gap[s] = {gap}
  <2>1. ahead = gap - (late % gap)
    BY <1>3 DEF Ahead
  <2>2. late % gap \in 0 .. gap - 1
    BY <1>1
  <2> QED
    BY <1>1, <2>1, <2>2
<1>4. CASE ~(late < gap) /\ ~(late < MaxLate /\ Gap[s] = {gap})
  <2> QED
    BY <1>4 DEF Ahead
<1> QED
  BY <1>2, <1>3, <1>4

LEMMA NextOccurrenceIsNext ==
  ASSUME NEW s \in Schedule, schedule[s].due \in Int, NEW lag \in ReadLag,
         NEW next \in NextOccurrence(s, lag)
  PROVE  IsNext(s, lag, next)
<1> DEFINE late == -(schedule[s].due + lag)
           choices(gap) == [queued : {CatchUp[s] \/ ~Missed(gap, late)},
                            row : {Moved(s, ahead - lag) : ahead \in Ahead(s, gap, late)}]
<1>1. late \in Int
  BY SchedulerAssumption DEF ReadLag
<1>2. CASE Gap[s] = {}
  BY <1>2 DEF NextOccurrence, IsNext
<1>3. CASE Gap[s] # {}
  <2>1. PICK gap \in Gap[s] : next \in choices(gap)
    BY <1>3 DEF NextOccurrence
  <2>2. PICK ahead \in Ahead(s, gap, late) : next.row = Moved(s, ahead - lag)
    BY <2>1
  <2>3. ahead \in Nat \ {0}
    BY <1>1, AheadIsPositive
  <2> QED
    BY <2>1, <2>2, <2>3 DEF IsNext
<1> QED
  BY <1>2, <1>3

\* Seen from one schedule a materialization takes one occurrence at most.
LEMMA MaterializeTakesOne ==
  ASSUME SchedulerTypeOK, NEW i \in Scheduler, NEW lag \in ReadLag, Materialize(i, lag), NEW s \in Schedule
  PROVE  Left(s) \/ \E next : Taken(s, lag, next)
<1>1. schedule[s].due \in Int
  BY DEF SchedulerTypeOK, ScheduleRow
<1>2. CASE UNCHANGED <<schedule, jobOf, others>>
  BY <1>2 DEF Left
<1>3. CASE \E S \in SUBSET Schedule :
             /\ DueBatch(S, lag)
             /\ \E next \in [S -> UNION {NextOccurrence(t, lag) : t \in S}] :
                  /\ \A t \in S : next[t] \in NextOccurrence(t, lag)
                  /\ schedule' = [t \in Schedule |-> IF t \in S THEN next[t].row ELSE schedule[t]]
                  /\ jobOf' = [t \in Schedule |-> IF t \in S THEN JobsAfter(t, next[t]) ELSE jobOf[t]]
                  /\ others' = others + Cardinality({t \in S : Outlives(t, next[t])})
  <2>1. PICK S \in SUBSET Schedule :
             /\ DueBatch(S, lag)
             /\ \E next \in [S -> UNION {NextOccurrence(t, lag) : t \in S}] :
                  /\ \A t \in S : next[t] \in NextOccurrence(t, lag)
                  /\ schedule' = [t \in Schedule |-> IF t \in S THEN next[t].row ELSE schedule[t]]
                  /\ jobOf' = [t \in Schedule |-> IF t \in S THEN JobsAfter(t, next[t]) ELSE jobOf[t]]
                  /\ others' = others + Cardinality({t \in S : Outlives(t, next[t])})
    BY <1>3
  <2>2. PICK next \in [S -> UNION {NextOccurrence(t, lag) : t \in S}] :
                  /\ \A t \in S : next[t] \in NextOccurrence(t, lag)
                  /\ schedule' = [t \in Schedule |-> IF t \in S THEN next[t].row ELSE schedule[t]]
                  /\ jobOf' = [t \in Schedule |-> IF t \in S THEN JobsAfter(t, next[t]) ELSE jobOf[t]]
                  /\ others' = others + Cardinality({t \in S : Outlives(t, next[t])})
    BY <2>1
  <2>3. CASE s \notin S
    BY <2>2, <2>3 DEF Left
  <2>4. CASE s \in S
    <3>1. schedule'[s] = next[s].row /\ jobOf'[s] = JobsAfter(s, next[s])
      BY <2>2, <2>4, Zenon
    <3>2. IsNext(s, lag, next[s])
      BY <1>1, <2>2, <2>4, NextOccurrenceIsNext
    <3>3. Enabled(s) /\ IsPast(schedule[s].due, lag)
      BY <2>1, <2>4 DEF DueBatch, DueSchedules
    <3> QED
      BY <3>1, <3>2, <3>3 DEF Taken
  <2> QED
    BY <2>3, <2>4
<1> QED
  BY <1>2, <1>3, Zenon DEF Materialize

----------------------------------------------------------------------------
\* One gap is left where the next occurrence's job may go: nothing has been
\* queued for the occurrence a schedule points at.
Unqueued(s) ==
  /\ Enabled(s) => jobOf[s][schedule[s].at] = "NONE"
  /\ schedule[s].status = "ABSENT" =>
       schedule[s].at = 0 /\ \A n \in Occurrence : jobOf[s][n] = "NONE"

SchedulerInvariant == SchedulerTypeOK /\ \A s \in Schedule : Unqueued(s)

\* A schedule taken by a tick keeps its shape and moves to a free slot.
LEMMA TakenIsTyped ==
  ASSUME SchedulerTypeOK, NEW s \in Schedule, NEW lag \in ReadLag, NEW next, Taken(s, lag, next)
  PROVE  /\ schedule'[s] \in ScheduleRow
         /\ jobOf'[s] \in [Occurrence -> JobState]
         /\ \/ schedule'[s] = Finished(s)
            \/ /\ schedule'[s].at \in Occurrence
               /\ schedule'[s].at # schedule[s].at
               /\ schedule'[s].due > -MaxReadLag
               /\ jobOf'[s][schedule'[s].at] = "NONE"
<1>1. schedule[s] \in ScheduleRow /\ jobOf[s] \in [Occurrence -> JobState]
  BY DEF SchedulerTypeOK
<1>2. lag \in Int /\ lag <= MaxReadLag /\ MaxReadLag \in Nat /\ Window \in Nat \ {0, 1}
  BY SchedulerAssumption DEF ReadLag
<1>3. jobOf'[s] \in [Occurrence -> JobState]
  BY <1>1 DEF Taken, JobsAfter, JobState
<1>4. CASE next.row = Finished(s)
  BY <1>1, <1>3, <1>4 DEF Taken, Finished, ScheduleRow
<1>5. CASE \E ahead \in Nat \ {0} : next.row = Moved(s, ahead - lag)
  <2>1. PICK ahead \in Nat \ {0} : next.row = Moved(s, ahead - lag)
    BY <1>5
  <2>2. (schedule[s].at + 1) % Window \in Occurrence /\ (schedule[s].at + 1) % Window # schedule[s].at
    BY <1>1, <1>2 DEF ScheduleRow, Occurrence
  <2>3. /\ schedule'[s].at = (schedule[s].at + 1) % Window
        /\ schedule'[s].due = ahead - lag
        /\ schedule'[s] \in ScheduleRow
    <3>1. schedule'[s] = [schedule[s] EXCEPT !.due = ahead - lag, !.at = (@ + 1) % Window]
      BY <2>1 DEF Taken, Moved
    <3>2. ahead - lag \in Int
      BY <1>2, <2>1
    <3>3. /\ schedule'[s].status = schedule[s].status
          /\ schedule'[s].due = ahead - lag
          /\ schedule'[s].at = (schedule[s].at + 1) % Window
      BY <1>1, <3>1 DEF ScheduleRow
    <3> QED
      BY <1>1, <2>2, <3>1, <3>2, <3>3 DEF ScheduleRow
  <2>4. jobOf'[s][schedule'[s].at] = "NONE"
    BY <2>2, <2>3 DEF Taken, JobsAfter
  <2> QED
    BY <1>2, <1>3, <2>2, <2>3, <2>4
<1> QED
  BY <1>4, <1>5 DEF Taken, IsNext

LEMMA SchedulerInitially == SchedulerInit => SchedulerInvariant
BY SchedulerAssumption
   DEF SchedulerInit, SchedulerInvariant, SchedulerTypeOK, Unqueued, Enabled, Absent, ScheduleRow, JobState, NoLeaseRow, LeaseRows,
       Down, Memory, Occurrence

\* The jobs that a tick loses sight of are counted, and there are finitely many.
LEMMA OthersCounted ==
  ASSUME SchedulerTypeOK, NEW i \in Scheduler, NEW lag \in ReadLag, Materialize(i, lag)
  PROVE  others' \in Nat
<1>1. others \in Nat /\ IsFiniteSet(Schedule)
  BY SchedulerAssumption DEF SchedulerTypeOK
<1>2. ASSUME NEW S \in SUBSET Schedule, NEW E \in SUBSET S, others' = others + Cardinality(E)
      PROVE  others' \in Nat
  <2>1. Cardinality(E) \in Nat
    BY <1>1, <1>2, FS_Subset, FS_CardinalityType
  <2> QED BY <1>1, <1>2, <2>1
<1>3. \/ others' = others
      \/ \E S \in SUBSET Schedule : \E next \in [S -> UNION {NextOccurrence(t, lag) : t \in S}] :
           others' = others + Cardinality({t \in S : Outlives(t, next[t])})
  BY Zenon DEF Materialize
<1>4. CASE others' = others
  BY <1>1, <1>4
<1>5. ASSUME NEW S \in SUBSET Schedule, NEW next,
             others' = others + Cardinality({t \in S : Outlives(t, next[t])})
      PROVE  others' \in Nat
  <2> DEFINE E == {t \in S : Outlives(t, next[t])}
  <2>1. E \in SUBSET S /\ others' = others + Cardinality(E)
    BY <1>5
  <2> HIDE DEF E
  <2> QED BY <1>2, <2>1
<1> QED
  BY <1>3, <1>4, <1>5

LEMMA ScheduleTypesStep ==
  ASSUME SchedulerTypeOK, [SchedulerNext]_schedulerVars
  PROVE  SchedulerTypeOK'
<1>1. CASE UNCHANGED schedulerVars
  BY <1>1 DEF SchedulerTypeOK, schedulerVars
<1>2. CASE SchedulerTick
  <2>1. ASSUME NEW row \in ScheduleRow
        PROVE  [row EXCEPT !.due = CountDown(@, MaxLate)] \in ScheduleRow
    BY SchedulerAssumption DEF ScheduleRow, CountDown
  <2>2. ASSUME NEW row \in LeaseRows
        PROVE  /\ [row EXCEPT !.ttl = CountDown(@, MaxReadLag)] \in LeaseRows
               /\ [row EXCEPT !.ttl = CountDown(@, MaxReadLag)].holder = row.holder
               /\ [row EXCEPT !.ttl = CountDown(@, MaxReadLag)].token = row.token
    BY SchedulerAssumption DEF LeaseRows, CountDown
  <2>3. schedule' \in [Schedule -> ScheduleRow]
    BY <1>2, <2>1 DEF SchedulerTypeOK, SchedulerTick
  <2>4. leaseRow' \in LeaseRows /\ (leaseRow'.holder = "none" <=> leaseRow'.token = 0)
    BY <1>2, <2>2 DEF SchedulerTypeOK, SchedulerTick
  <2> QED
    BY <1>2, <2>3, <2>4 DEF SchedulerTypeOK, SchedulerTick
<1>3. CASE SetStopped
  BY <1>3 DEF SchedulerTypeOK, SetStopped
<1>8. CASE OtherJobs
  BY <1>8 DEF SchedulerTypeOK, OtherJobs
<1>4. CASE \E s \in Schedule, n \in Occurrence : JobEnds(s, n) \/ JobIsDeleted(s, n)
  <2>1. PICK s \in Schedule, n \in Occurrence, state \in JobState :
          jobOf' = [jobOf EXCEPT ![s][n] = state]
    BY <1>4 DEF JobEnds, JobIsDeleted, JobState
  <2>2. jobOf' \in [Schedule -> [Occurrence -> JobState]]
    BY <2>1 DEF SchedulerTypeOK
  <2> QED
    BY <1>4, <2>2 DEF SchedulerTypeOK, JobEnds, JobIsDeleted
<1>5. CASE \E i \in Scheduler : StartScheduler(i) \/ SchedulerCrash(i) \/ Ends(i)
  <2>1. UNCHANGED <<schedule, jobOf, others, leaseRow, stopped>>
    BY <1>5 DEF StartScheduler, SchedulerCrash, Ends, schedulerTables
  <2>2. scheduler' \in [Scheduler -> Memory]
    <3>1. Down \in Memory /\ [Down EXCEPT !.pc = "CLOSING"] \in Memory
      BY SchedulerAssumption DEF Down, Memory
    <3>2. ASSUME NEW i \in Scheduler PROVE [scheduler[i] EXCEPT !.pc = "STARTING"] \in Memory
      BY DEF SchedulerTypeOK, Memory
    <3> QED
      BY <1>5, <3>1, <3>2 DEF SchedulerTypeOK, StartScheduler, SchedulerCrash, Ends
  <2>3. schedulerStops' \in 0 .. MaxSchedulerStops
    <3>1. schedulerStops' = schedulerStops \/ CountStop
      BY <1>5 DEF StartScheduler, SchedulerCrash, Ends
    <3> QED
      BY <3>1, SchedulerAssumption DEF SchedulerTypeOK, CountStop
  <2> QED
    BY <2>1, <2>2, <2>3 DEF SchedulerTypeOK
<1>6. ASSUME NEW i \in Scheduler, NEW lag \in ReadLag, SchedulerRun(i, lag)
      PROVE  SchedulerTypeOK'
  <2>0. lag \in Int
    BY SchedulerAssumption DEF ReadLag
  <2>1. CASE \E s \in Schedule : RegisterSchedule(i, s, lag)
    BY <2>0, <2>1, SchedulerAssumption DEF SchedulerTypeOK, RegisterSchedule, ScheduleRow, Occurrence
  <2>2. CASE Registered(i)
    BY <2>2 DEF SchedulerTypeOK, Registered, Memory, schedulerTables
  <2>3. CASE CloseScheduler(i)
    BY <2>3, SchedulerAssumption DEF SchedulerTypeOK, CloseScheduler, Down, Memory, NoLeaseRow, LeaseRows
  <2>4. CASE AcquireLease(i, lag)
    <3>1. leaseRow.token \in 0 .. MaxSchedulerToken
      BY DEF SchedulerTypeOK, LeaseRows
    <3>2. NextToken(leaseRow.token) \in 1 .. MaxSchedulerToken
      BY <3>1, SchedulerAssumption DEF NextToken
    <3> DEFINE token == IF leaseRow.holder = i THEN leaseRow.token ELSE NextToken(leaseRow.token)
    <3>3. token \in 1 .. MaxSchedulerToken
      BY <3>1, <3>2, SchedulerAssumption DEF SchedulerTypeOK
    <3>4. /\ leaseRow' = [holder |-> i, token |-> token, ttl |-> SchedulerLease - lag]
          /\ scheduler' = [scheduler EXCEPT ![i] = [pc |-> "LEASED", token |-> token]]
      BY <2>4 DEF AcquireLease
    <3> HIDE DEF token
    <3> QED
      BY <2>0, <2>4, <3>3, <3>4, SchedulerAssumption DEF SchedulerTypeOK, AcquireLease, LeaseRows, Memory
  <2>5. CASE Materialize(i, lag)
    <3>1. \A s \in Schedule : schedule'[s] \in ScheduleRow /\ jobOf'[s] \in [Occurrence -> JobState]
      BY <2>5, MaterializeTakesOne, TakenIsTyped DEF Left, SchedulerTypeOK
    <3>2. DOMAIN schedule' = Schedule /\ DOMAIN jobOf' = Schedule
      BY <2>5 DEF Materialize, SchedulerTypeOK
    <3>3. others' \in Nat
      BY <2>5, OthersCounted
    <3>4. /\ scheduler' \in [Scheduler -> Memory]
          /\ UNCHANGED <<leaseRow, stopped, schedulerStops>>
      BY <2>5 DEF Materialize, SchedulerTypeOK, Memory
    <3>5. schedule' \in [Schedule -> ScheduleRow] /\ jobOf' \in [Schedule -> [Occurrence -> JobState]]
      BY <2>5, <3>1, <3>2 DEF SchedulerTypeOK, Materialize
    <3> QED
      BY <3>3, <3>4, <3>5 DEF SchedulerTypeOK
  <2> QED
    BY <1>6, <2>1, <2>2, <2>3, <2>4, <2>5 DEF SchedulerRun
<1> QED
  BY <1>1, <1>2, <1>3, <1>4, <1>5, <1>6, <1>8 DEF SchedulerNext

LEMMA SchedulerSteps ==
  ASSUME SchedulerInvariant, [SchedulerNext]_schedulerVars
  PROVE  SchedulerInvariant'
<1>1. SchedulerTypeOK /\ SchedulerTypeOK'
  BY ScheduleTypesStep DEF SchedulerInvariant
<1> SUFFICES ASSUME NEW s \in Schedule
             PROVE  Unqueued(s)'
  BY <1>1 DEF SchedulerInvariant
<1>2. Unqueued(s)
  BY DEF SchedulerInvariant
<1>3. CASE UNCHANGED <<schedule, jobOf>>
  BY <1>2, <1>3 DEF Unqueued, Enabled
<1>4. CASE SchedulerTick
  BY <1>1, <1>2, <1>4 DEF SchedulerTick, SchedulerTypeOK, ScheduleRow, Unqueued, Enabled
<1>5. CASE \E t \in Schedule, n \in Occurrence : JobEnds(t, n) \/ JobIsDeleted(t, n)
  <2>1. PICK t \in Schedule, n \in Occurrence, state \in JobState :
          jobOf[t][n] # "NONE" /\ schedule' = schedule /\ jobOf' = [jobOf EXCEPT ![t][n] = state]
    BY <1>5 DEF JobEnds, JobIsDeleted, JobState
  <2>2. \A m \in Occurrence : jobOf[s][m] = "NONE" => jobOf'[s][m] = "NONE"
    BY <1>1, <2>1 DEF SchedulerTypeOK
  <2>3. schedule[s].at \in Occurrence
    BY <1>1 DEF SchedulerTypeOK, ScheduleRow
  <2> QED
    BY <1>2, <2>1, <2>2, <2>3 DEF Unqueued, Enabled
<1>6. CASE \E i \in Scheduler, lag \in ReadLag, t \in Schedule : RegisterSchedule(i, t, lag)
  BY <1>1, <1>2, <1>6, SchedulerAssumption DEF RegisterSchedule, SchedulerTypeOK, ScheduleRow, Unqueued, Enabled, Occurrence
<1>7. CASE \E i \in Scheduler, lag \in ReadLag : Materialize(i, lag)
  <2>1. PICK i \in Scheduler, lag \in ReadLag : Materialize(i, lag)
    BY <1>7
  <2>2. CASE Left(s)
    BY <1>2, <2>2 DEF Left, Unqueued, Enabled
  <2>3. CASE \E next : Taken(s, lag, next)
    <3>1. schedule'[s].status \in {"ENABLED", "DISABLED"}
      BY <1>1, <2>3 DEF Taken, IsNext, Finished, Moved, Enabled, SchedulerTypeOK, ScheduleRow
    <3>2. schedule'[s] = Finished(s) => ~Enabled(s)'
      BY <1>1 DEF Finished, Enabled, SchedulerTypeOK, ScheduleRow
    <3> QED
      BY <1>1, <2>3, <3>1, <3>2, TakenIsTyped DEF Unqueued
  <2> QED
    BY <1>1, <2>1, <2>2, <2>3, MaterializeTakesOne
<1> QED
  BY <1>3, <1>4, <1>5, <1>6, <1>7
     DEF SchedulerNext, SchedulerRun, schedulerVars, schedulerTables, SetStopped, OtherJobs, StartScheduler, SchedulerCrash, Ends, Registered, CloseScheduler, AcquireLease

\* SchedulerInvariant holds throughout.
THEOREM SchedulerInvariantHolds == SchedulerSpec => []SchedulerInvariant
BY SchedulerInitially, SchedulerSteps, PTL DEF SchedulerSpec

\* Rows and memories keep their shape, whatever gaps the calendar has and
\* however late a tick comes.
THEOREM SchedulerTyped == SchedulerSpec => []SchedulerTypeOK
<1>1. SchedulerInvariant => SchedulerTypeOK
  BY DEF SchedulerInvariant
<1> QED
  BY <1>1, SchedulerInvariantHolds, PTL

----------------------------------------------------------------------------
\* Only a materialization queues a job, moves or disables a schedule.
LEMMA OnlyMaterializeTakes ==
  ASSUME SchedulerInvariant, [SchedulerNext]_schedulerVars, NEW s \in Schedule,
         ~ \E i \in Scheduler, lag \in ReadLag : Materialize(i, lag)
  PROVE  /\ \A n \in Occurrence : ~Queues(s, n)
         /\ ~Advances(s)
         /\ Enabled(s) => Enabled(s)' /\ schedule'[s].due <= schedule[s].due
<1>1. SchedulerTypeOK /\ Unqueued(s) /\ schedule[s] \in ScheduleRow
  BY DEF SchedulerInvariant, SchedulerTypeOK
<1>2. CASE UNCHANGED <<schedule, jobOf>>
  BY <1>1, <1>2 DEF Queues, Advances, Enabled, ScheduleRow
<1>3. CASE SchedulerTick
  BY <1>1, <1>3 DEF SchedulerTick, CountDown, Queues, Advances, Enabled, ScheduleRow
<1>4. CASE \E t \in Schedule, n \in Occurrence : JobEnds(t, n) \/ JobIsDeleted(t, n)
  BY <1>1, <1>4 DEF JobEnds, JobIsDeleted, SchedulerTypeOK, Queues, Advances, Enabled, ScheduleRow
<1>5. CASE \E i \in Scheduler, lag \in ReadLag, t \in Schedule : RegisterSchedule(i, t, lag)
  BY <1>1, <1>5 DEF RegisterSchedule, SchedulerTypeOK, Unqueued, Queues, Advances, Enabled, ScheduleRow
<1> QED
  BY <1>2, <1>3, <1>4, <1>5
     DEF SchedulerNext, SchedulerRun, schedulerVars, schedulerTables, SetStopped, OtherJobs, StartScheduler, SchedulerCrash, Ends, Registered, CloseScheduler, AcquireLease

\* What a step does to one schedule and its jobs.
LEMMA EachStep ==
  ASSUME SchedulerInvariant, [SchedulerNext]_schedulerVars, NEW s \in Schedule
  PROVE  \/ \E lag \in ReadLag : \E next : Taken(s, lag, next)
         \/ /\ \A n \in Occurrence : ~Queues(s, n)
            /\ ~Advances(s)
            /\ Enabled(s) => Enabled(s)' /\ schedule'[s].due <= schedule[s].due
<1>1. SchedulerTypeOK /\ schedule[s].due \in Int
  BY DEF SchedulerInvariant, SchedulerTypeOK, ScheduleRow
<1>2. CASE \E i \in Scheduler, lag \in ReadLag : Materialize(i, lag)
  <2>1. PICK i \in Scheduler, lag \in ReadLag : Materialize(i, lag)
    BY <1>2
  <2>2. CASE Left(s)
    BY <1>1, <2>2 DEF Left, Queues, Advances, Enabled
  <2> QED
    BY <1>1, <2>1, <2>2, MaterializeTakesOne
<1> QED
  BY <1>2, OnlyMaterializeTakes

\* A tick queues the occurrence it found and no other.
LEMMA QueuesCurrent ==
  ASSUME SchedulerTypeOK, NEW s \in Schedule, NEW lag \in ReadLag, NEW next, Taken(s, lag, next),
         NEW n \in Occurrence, Queues(s, n)
  PROVE  n = schedule[s].at /\ next.queued
BY DEF Taken, JobsAfter, Queues

\* No occurrence is queued a second time: the advance of nextRunAt is in the
\* transaction that inserts the job, so that neither a crash between the two
\* nor a deleted operation identity can bring the occurrence back.
THEOREM OccurrenceOnceHolds == SchedulerSpec => OccurrenceOnce
<1>1. ASSUME SchedulerInvariant, [SchedulerNext]_schedulerVars, NEW s \in Schedule, NEW n \in Occurrence,
             jobOf[s][n] \in {"TERMINAL", "DELETED"}
      PROVE  ~Queues(s, n)
  <2>0. SUFFICES ASSUME Queues(s, n) PROVE FALSE
    OBVIOUS
  <2>1. PICK lag \in ReadLag : \E next : Taken(s, lag, next)
    BY <1>1, <2>0, EachStep
  <2>2. PICK next : Taken(s, lag, next)
    BY <2>1
  <2>3. n = schedule[s].at
    BY <1>1, <2>0, <2>2, QueuesCurrent DEF SchedulerInvariant
  <2>4. jobOf[s][n] = "NONE"
    BY <1>1, <2>2, <2>3 DEF SchedulerInvariant, Unqueued, Taken
  <2> QED
    BY <1>1, <2>4
<1>2. SchedulerInvariant /\ [SchedulerNext]_schedulerVars =>
        [\A s \in Schedule, n \in Occurrence :
           jobOf[s][n] \in {"TERMINAL", "DELETED"} => ~Queues(s, n)]_schedulerVars
  BY <1>1
<1> QED
  BY <1>2, SchedulerInvariantHolds, PTL DEF SchedulerSpec, OccurrenceOnce

\* No occurrence that is due gets lost, whatever restarts, stalls and takeovers
\* of the lease there are.
THEOREM OccurrenceKeptHolds == SchedulerSpec => OccurrenceKept
<1> DEFINE Leaves(s) ==
      /\ schedule[s].status = "ENABLED" /\ schedule[s].due <= 0
      /\ Advances(s) \/ schedule'[s].status # "ENABLED" \/ schedule'[s].due > 0
           Accounted(s) ==
      \/ jobOf'[s][schedule[s].at] # "NONE"
      \/ ~CatchUp[s] /\ \E gap \in Gap[s] : -schedule[s].due >= gap
<1>1. ASSUME SchedulerInvariant, [SchedulerNext]_schedulerVars, NEW s \in Schedule, Leaves(s)
      PROVE  Accounted(s)
  <2>1. SchedulerTypeOK /\ schedule[s] \in ScheduleRow
    BY <1>1 DEF SchedulerInvariant, SchedulerTypeOK
  <2>2. PICK lag \in ReadLag : \E next : Taken(s, lag, next)
    <3>1. ~(~Advances(s) /\ (Enabled(s) => Enabled(s)' /\ schedule'[s].due <= schedule[s].due))
      <4>1. schedule[s].due \in Int
        BY <2>1 DEF ScheduleRow
      <4>2. schedule'[s].due \in Int
        BY <1>1, ScheduleTypesStep DEF SchedulerInvariant, SchedulerTypeOK, ScheduleRow
      <4> QED
        BY <1>1, <4>1, <4>2 DEF Enabled
    <3> QED
      BY <1>1, <3>1, EachStep
  <2>3. PICK next : Taken(s, lag, next)
    BY <2>2
  <2>4. schedule[s].at \in Occurrence
    BY <2>1 DEF ScheduleRow
  <2>5. CASE next.queued
    BY <2>3, <2>4, <2>5 DEF Taken, JobsAfter
  <2>6. CASE ~next.queued
    <3>1. PICK gap \in Gap[s] : ~CatchUp[s] /\ Missed(gap, -(schedule[s].due + lag))
      BY <2>3, <2>6 DEF Taken, IsNext
    <3>2. gap \in Int /\ lag \in Nat /\ schedule[s].due \in Int
      BY <2>1, SchedulerAssumption DEF ReadLag, ScheduleRow
    <3>3. -schedule[s].due >= gap
      BY <3>1, <3>2 DEF Missed
    <3> QED
      BY <3>1, <3>3
  <2> QED
    BY <2>5, <2>6
<1>2. SchedulerInvariant /\ [SchedulerNext]_schedulerVars => [\A s \in Schedule : Leaves(s) => Accounted(s)]_schedulerVars
  BY <1>1
<1>3. [][\A s \in Schedule : Leaves(s) => Accounted(s)]_schedulerVars => OccurrenceKept
  BY DEF OccurrenceKept
<1> QED
  BY <1>2, <1>3, SchedulerInvariantHolds, PTL DEF SchedulerSpec

\* With SKIP nothing is queued a gap late or later, whatever the clock reading.
THEOREM SkipNeverLateHolds == SchedulerSpec => SkipNeverLate
<1>1. ASSUME SchedulerInvariant, [SchedulerNext]_schedulerVars, NEW s \in Schedule, NEW n \in Occurrence,
             ~CatchUp[s], Gap[s] # {}, Queues(s, n)
      PROVE  \E gap \in Gap[s] : -schedule[s].due < gap + MaxReadLag
  <2>1. PICK lag \in ReadLag : \E next : Taken(s, lag, next)
    BY <1>1, EachStep
  <2>2. PICK next : Taken(s, lag, next)
    BY <2>1
  <2>3. next.queued
    BY <1>1, <2>2, QueuesCurrent DEF SchedulerInvariant
  <2>4. PICK gap \in Gap[s] : ~Missed(gap, -(schedule[s].due + lag))
    BY <1>1, <2>2, <2>3 DEF Taken, IsNext
  <2>5. gap \in Int /\ lag \in Nat /\ lag <= MaxReadLag /\ MaxReadLag \in Nat /\ schedule[s].due \in Int
    BY <1>1, SchedulerAssumption DEF ReadLag, SchedulerInvariant, SchedulerTypeOK, ScheduleRow
  <2> QED
    BY <2>4, <2>5 DEF Missed
<1>2. SchedulerInvariant /\ [SchedulerNext]_schedulerVars =>
        [\A s \in Schedule, n \in Occurrence :
           ~CatchUp[s] /\ Gap[s] # {} /\ Queues(s, n) =>
             \E gap \in Gap[s] : -schedule[s].due < gap + MaxReadLag]_schedulerVars
  BY <1>1
<1> QED
  BY <1>2, SchedulerInvariantHolds, PTL DEF SchedulerSpec, SkipNeverLate

\* After a tick a schedule lies ahead of the clock, for any length of downtime.
THEOREM NoBacklogHolds == SchedulerSpec => NoBacklog
<1>1. ASSUME SchedulerInvariant, [SchedulerNext]_schedulerVars, NEW s \in Schedule, Advances(s)
      PROVE  schedule'[s].due > -MaxReadLag
  <2>1. PICK lag \in ReadLag : \E next : Taken(s, lag, next)
    BY <1>1, EachStep
  <2>2. PICK next : Taken(s, lag, next)
    BY <2>1
  <2>3. schedule'[s] # Finished(s)
    BY <1>1 DEF SchedulerInvariant, SchedulerTypeOK, ScheduleRow, Finished, Advances
  <2> QED
    BY <1>1, <2>2, <2>3, TakenIsTyped DEF SchedulerInvariant
<1>2. SchedulerInvariant /\ [SchedulerNext]_schedulerVars => [\A s \in Schedule : Advances(s) => schedule'[s].due > -MaxReadLag]_schedulerVars
  BY <1>1
<1> QED
  BY <1>2, SchedulerInvariantHolds, PTL DEF SchedulerSpec, NoBacklog

-----------------------------------------------------------------------------
\* An occurrence that is due is queued or, by its policy, skipped, and never
\* twice, whatever crashes, takeovers and restarts come in between.
THEOREM OccurrencesAreExactHold == SchedulerSpec => OccurrencesAreExact
BY OccurrenceOnceHolds, OccurrenceKeptHolds DEF OccurrencesAreExact

\* However long no tick came, one tick brings a schedule up to date.
THEOREM CatchesUpHolds == SchedulerSpec => CatchesUp
BY SkipNeverLateHolds, NoBacklogHolds DEF CatchesUp

----------------------------------------------------------------------------
(* Back pressure.  A batch is no larger than the room its transaction sees,   *)
(* and each of its schedules gets one job at most.                            *)

LEMMA MinIsBound ==
  ASSUME NEW a \in Int, NEW b \in Int, NEW c \in Int
  PROVE  Min({a, b, c}) <= b
<1>1. \E x \in {a, b, c} : \A y \in {a, b, c} : x <= y
  <2>1. CASE a <= b /\ a <= c
    BY <2>1
  <2>2. CASE b <= a /\ b <= c
    BY <2>2
  <2>3. CASE c <= a /\ c <= b
    BY <2>3
  <2> QED BY <2>1, <2>2, <2>3
<1> QED BY <1>1 DEF Min

\* The jobs of a schedule after its occurrence has been dealt with.
LEMMA OneMoreJob ==
  ASSUME SchedulerTypeOK, NEW s \in Schedule, NEW next,
         jobOf'[s] = jobOf[s] \/ jobOf'[s] = JobsAfter(s, next)
  PROVE  /\ IsFiniteSet(Active(s)) /\ IsFiniteSet(Active(s)')
         /\ Cardinality(Active(s)) \in Nat /\ Cardinality(Active(s)') \in Nat
         /\ Cardinality(Active(s)') <= Cardinality(Active(s)) + 1
         /\ jobOf'[s] = jobOf[s] => Cardinality(Active(s)') = Cardinality(Active(s))
<1>1. schedule[s].at \in Occurrence
  BY DEF SchedulerTypeOK, ScheduleRow
<1>2. IsFiniteSet(Occurrence)
  <2>1. 0 \in Int /\ Window - 1 \in Int
    BY SchedulerAssumption
  <2> QED BY <2>1, FS_Interval DEF Occurrence
<1>3. Active(s) \subseteq Occurrence /\ Active(s)' \subseteq Occurrence
  BY DEF Active
<1>4. Active(s)' \subseteq Active(s) \cup {schedule[s].at}
  BY DEF Active, JobsAfter
<1>5. IsFiniteSet(Active(s)) /\ IsFiniteSet(Active(s)')
  BY <1>2, <1>3, FS_Subset
<1>6. /\ IsFiniteSet(Active(s) \cup {schedule[s].at})
      /\ Cardinality(Active(s) \cup {schedule[s].at}) \in Nat
      /\ Cardinality(Active(s) \cup {schedule[s].at}) <= Cardinality(Active(s)) + 1
  <2>1. CASE schedule[s].at \in Active(s)
    <3>1. Active(s) \cup {schedule[s].at} = Active(s)
      BY <2>1
    <3>2. Cardinality(Active(s)) \in Nat
      BY <1>5, FS_CardinalityType
    <3> QED BY <1>5, <3>1, <3>2
  <2>2. CASE schedule[s].at \notin Active(s)
    <3> DEFINE A == Active(s)
               x == schedule[s].at
    <3>1. IsFiniteSet(A) /\ x \notin A
      BY <1>5, <2>2
    <3> HIDE DEF A, x
    <3>2. IsFiniteSet(A \cup {x}) /\ Cardinality(A \cup {x}) = Cardinality(A) + 1
      BY <3>1, FS_AddElement
    <3>3. Cardinality(A) \in Nat
      BY <3>1, FS_CardinalityType
    <3>4. IsFiniteSet(A \cup {x}) /\ Cardinality(A \cup {x}) \in Nat /\ Cardinality(A \cup {x}) <= Cardinality(A) + 1
      BY <3>2, <3>3
    <3> QED BY <3>4 DEF A, x
  <2> QED BY <2>1, <2>2
<1>7. Cardinality(Active(s)') <= Cardinality(Active(s) \cup {schedule[s].at})
  BY <1>4, <1>6, FS_Subset
<1>8. Cardinality(Active(s)) \in Nat /\ Cardinality(Active(s)') \in Nat
  BY <1>5, FS_CardinalityType
<1>9. jobOf'[s] = jobOf[s] => Active(s)' = Active(s)
  BY DEF Active
<1> QED
  BY <1>5, <1>6, <1>7, <1>8, <1>9

\* A schedule that loses sight of an active job has no more of them than before.
LEMMA OutlivingJob ==
  ASSUME SchedulerTypeOK, NEW s \in Schedule, NEW next,
         jobOf'[s] = JobsAfter(s, next), Outlives(s, next), next.row.at \in Occurrence
  PROVE  Cardinality(Active(s)') <= Cardinality(Active(s))
<1> DEFINE A == Active(s)
           B == Active(s)'
           x == next.row.at
           y == schedule[s].at
<1>1. y \in Occurrence
  BY DEF SchedulerTypeOK, ScheduleRow
<1>2. x \in A /\ x # y
  BY DEF Outlives, Active
<1>3. B \subseteq (A \ {x}) \cup {y}
  BY <1>2 DEF Active, JobsAfter
<1>4. IsFiniteSet(A) /\ Cardinality(A) \in Nat
  BY OneMoreJob
<1> HIDE DEF A, B, x, y
<1>5. IsFiniteSet(A \ {x}) /\ Cardinality(A \ {x}) = Cardinality(A) - 1
  BY <1>2, <1>4, FS_RemoveElement
<1>6. /\ IsFiniteSet((A \ {x}) \cup {y})
      /\ Cardinality((A \ {x}) \cup {y}) \in Nat
      /\ Cardinality((A \ {x}) \cup {y}) <= Cardinality(A)
  <2>1. IsFiniteSet((A \ {x}) \cup {y}) /\ Cardinality((A \ {x}) \cup {y})
          = IF y \in A \ {x} THEN Cardinality(A \ {x}) ELSE Cardinality(A \ {x}) + 1
    BY <1>5, FS_AddElement
  <2>2. Cardinality((A \ {x}) \cup {y}) \in Nat
    BY <2>1, FS_CardinalityType
  <2> QED BY <1>4, <1>5, <2>1, <2>2
<1>7. IsFiniteSet(B) /\ Cardinality(B) <= Cardinality((A \ {x}) \cup {y})
  BY <1>3, <1>6, FS_Subset
<1>8. Cardinality(B) \in Nat
  BY <1>7, FS_CardinalityType
<1>9. Cardinality(B) <= Cardinality(A)
  BY <1>4, <1>6, <1>7, <1>8
<1> QED BY <1>9 DEF A, B

LEMMA BatchFits ==
  ASSUME SchedulerTypeOK, NEW S \in SUBSET Schedule, NEW lag \in ReadLag, DueBatch(S, lag),
         Available > 0, NEW next,
         \A s \in S : jobOf'[s] = JobsAfter(s, next[s]) /\ next[s].row.at \in Occurrence,
         \A s \in Schedule \ S : jobOf'[s] = jobOf[s],
         others' = others + Cardinality({s \in S : Outlives(s, next[s])})
  PROVE  ActiveDepth' <= MaxQueueDepth
<1> DEFINE f == [s \in Schedule |-> Cardinality(Active(s))]
           g == [s \in Schedule |-> Cardinality(Active(s)')]
           Unmoved == Schedule \ S
           Out == {s \in S : Outlives(s, next[s])}
           Grown == S \ Out
<1>1. /\ \A s \in Schedule : f[s] \in Nat /\ g[s] \in Nat
      /\ \A s \in Grown : g[s] <= f[s] + 1
      /\ \A s \in Out : g[s] <= f[s]
      /\ \A s \in Unmoved : g[s] = f[s]
  <2>1. ASSUME NEW s \in Schedule
        PROVE  /\ f[s] \in Nat /\ g[s] \in Nat /\ g[s] <= f[s] + 1
               /\ s \in Unmoved => g[s] = f[s]
    BY OneMoreJob
  <2>2. ASSUME NEW s \in Out PROVE g[s] <= f[s]
    BY <2>2, OutlivingJob
  <2> HIDE DEF f, g, Out
  <2> QED BY <2>1, <2>2
<1>2. ActiveDepth = others + SumFunctionOnSet(f, Schedule) /\ ActiveDepth' = others' + SumFunctionOnSet(g, Schedule)
  BY DEF ActiveDepth, SumFunction
<1>3. /\ IsFiniteSet(Schedule) /\ IsFiniteSet(S) /\ IsFiniteSet(Unmoved)
      /\ IsFiniteSet(Out) /\ IsFiniteSet(Grown) /\ IsFiniteSet(S)
      /\ Out \cap Grown = {} /\ Out \cup Grown = S
      /\ S \cap Unmoved = {} /\ S \cup Unmoved = Schedule
  <2>1. IsFiniteSet(Schedule) /\ IsFiniteSet(S) /\ Unmoved \subseteq Schedule
    BY SchedulerAssumption, FS_Subset
  <2>2. Out \subseteq S /\ Grown \subseteq S /\ Out \cap Grown = {} /\ Out \cup Grown = S
    OBVIOUS
  <2>3. S \cap Unmoved = {} /\ S \cup Unmoved = Schedule
    OBVIOUS
  <2> HIDE DEF Out, Grown, Unmoved
  <2> QED BY <2>1, <2>2, <2>3, FS_Subset
<1>4. /\ others \in Nat /\ MaxQueueDepth \in Nat /\ BatchLimit \in Nat
      /\ others' = others + Cardinality(Out)
  BY SchedulerAssumption DEF SchedulerTypeOK
<1> HIDE DEF f, g, Unmoved, Out, Grown
<1>5. /\ SumFunctionOnSet(f, Schedule)
           = SumFunctionOnSet(f, Out) + SumFunctionOnSet(f, Grown) + SumFunctionOnSet(f, Unmoved)
      /\ SumFunctionOnSet(g, Schedule)
           = SumFunctionOnSet(g, Out) + SumFunctionOnSet(g, Grown) + SumFunctionOnSet(g, Unmoved)
  <2>1. \A s \in S \cup Unmoved : f[s] \in Int /\ g[s] \in Int
    BY <1>1, <1>3
  <2>2. \A s \in Out \cup Grown : f[s] \in Int /\ g[s] \in Int
    BY <1>3, <2>1
  <2>3. /\ SumFunctionOnSet(f, S \cup Unmoved) = SumFunctionOnSet(f, S) + SumFunctionOnSet(f, Unmoved)
        /\ SumFunctionOnSet(g, S \cup Unmoved) = SumFunctionOnSet(g, S) + SumFunctionOnSet(g, Unmoved)
    BY <1>3, <2>1, SumOfUnion
  <2>4. /\ SumFunctionOnSet(f, Out \cup Grown) = SumFunctionOnSet(f, Out) + SumFunctionOnSet(f, Grown)
        /\ SumFunctionOnSet(g, Out \cup Grown) = SumFunctionOnSet(g, Out) + SumFunctionOnSet(g, Grown)
    BY <1>3, <2>2, SumOfUnion
  <2> QED BY <1>3, <2>3, <2>4
<1>6. SumFunctionOnSet(g, Unmoved) = SumFunctionOnSet(f, Unmoved)
  <2>1. \A s \in Unmoved : g[s] \in Int /\ g[s] = f[s]
    BY <1>1, <1>3
  <2> QED BY <1>3, <2>1, SumEqual
<1>7. /\ SumFunctionOnSet(g, Grown) <= SumFunctionOnSet(f, Grown) + Cardinality(Grown)
      /\ SumFunctionOnSet(g, Out) <= SumFunctionOnSet(f, Out)
  <2>1. \A s \in Grown : f[s] \in Int /\ g[s] \in Int /\ g[s] <= f[s] + 1
    BY <1>1, <1>3
  <2>2. \A s \in Out : f[s] \in Int /\ g[s] \in Int /\ g[s] <= f[s]
    BY <1>1, <1>3
  <2> QED BY <1>3, <2>1, <2>2, SumGrowsByOnes, SumMonotone
<1>8. /\ SumFunctionOnSet(f, Out) \in Nat /\ SumFunctionOnSet(g, Out) \in Nat
      /\ SumFunctionOnSet(f, Grown) \in Nat /\ SumFunctionOnSet(g, Grown) \in Nat
      /\ SumFunctionOnSet(f, Unmoved) \in Nat
  <2>1. /\ \A s \in Out : f[s] \in Nat /\ g[s] \in Nat
        /\ \A s \in Grown : f[s] \in Nat /\ g[s] \in Nat
        /\ \A s \in Unmoved : f[s] \in Nat
    BY <1>1, <1>3
  <2> QED BY <1>3, <2>1, SumIsNatural
<1>9. ActiveDepth \in Nat /\ Available = MaxQueueDepth - ActiveDepth /\ Available \in Nat
  <2>1. ActiveDepth \in Nat
    BY <1>2, <1>4, <1>5, <1>8
  <2> QED BY <1>4, <2>1 DEF Available
<1>10. Cardinality(S) <= Available /\ Cardinality(S) \in Nat
  <2>1. IsFiniteSet(DueSchedules(lag))
    BY <1>3, FS_Subset DEF DueSchedules
  <2>2. Cardinality(DueSchedules(lag)) \in Nat /\ Cardinality(S) \in Nat
    BY <1>3, <2>1, FS_CardinalityType
  <2>3. Cardinality(S) = Min({BatchLimit, Available, Cardinality(DueSchedules(lag))})
    BY DEF DueBatch
  <2> QED BY <1>4, <1>9, <2>2, <2>3, MinIsBound
<1>11. /\ Cardinality(Out) \in Nat /\ Cardinality(Grown) \in Nat
       /\ Cardinality(S) = Cardinality(Out) + Cardinality(Grown)
  <2>1. /\ Cardinality(Out) \in Nat /\ Cardinality(Grown) \in Nat
        /\ Cardinality(Out \cup Grown)
             = Cardinality(Out) + Cardinality(Grown) - Cardinality(Out \cap Grown)
    BY <1>3, FS_CardinalityType, FS_Union
  <2>2. Cardinality(Out \cap Grown) = 0
    BY <1>3, FS_EmptySet
  <2>3. Cardinality(S) = Cardinality(Out \cup Grown)
    BY <1>3
  <2> QED BY <2>1, <2>2, <2>3
<1> QED
  BY <1>2, <1>4, <1>5, <1>6, <1>7, <1>8, <1>9, <1>10, <1>11

\* A tick that queues jobs leaves the queue within maxQueueDepth, whatever other
\* producers have put there since its last one (listDueSchedules, tick).
THEOREM QueueBoundedHolds == SchedulerSpec => QueueBounded
<1>1. SchedulerInvariant /\ [SchedulerNext]_schedulerVars =>
        [(\E s \in Schedule, n \in Occurrence : Queues(s, n)) => ActiveDepth' <= MaxQueueDepth]_schedulerVars
  <2> SUFFICES ASSUME SchedulerInvariant, [SchedulerNext]_schedulerVars,
                      NEW s \in Schedule, NEW n \in Occurrence, Queues(s, n)
               PROVE  ActiveDepth' <= MaxQueueDepth
    OBVIOUS
  <2>1. SchedulerTypeOK
    BY DEF SchedulerInvariant
  <2>2. PICK i \in Scheduler, lag \in ReadLag : Materialize(i, lag)
    BY OnlyMaterializeTakes
  <2>3. ~UNCHANGED jobOf
    BY DEF Queues
  <2>4. /\ Available > 0
        /\ \E S \in SUBSET Schedule :
             /\ DueBatch(S, lag)
             /\ \E next \in [S -> UNION {NextOccurrence(t, lag) : t \in S}] :
                  /\ schedule' = [t \in Schedule |-> IF t \in S THEN next[t].row ELSE schedule[t]]
                  /\ jobOf' = [t \in Schedule |-> IF t \in S THEN JobsAfter(t, next[t]) ELSE jobOf[t]]
                  /\ others' = others + Cardinality({t \in S : Outlives(t, next[t])})
    BY <2>2, <2>3, Zenon DEF Materialize
  <2>5. PICK S \in SUBSET Schedule :
             /\ DueBatch(S, lag)
             /\ \E next \in [S -> UNION {NextOccurrence(t, lag) : t \in S}] :
                  /\ schedule' = [t \in Schedule |-> IF t \in S THEN next[t].row ELSE schedule[t]]
                  /\ jobOf' = [t \in Schedule |-> IF t \in S THEN JobsAfter(t, next[t]) ELSE jobOf[t]]
                  /\ others' = others + Cardinality({t \in S : Outlives(t, next[t])})
    BY <2>4
  <2>6. PICK next :
          /\ schedule' = [t \in Schedule |-> IF t \in S THEN next[t].row ELSE schedule[t]]
          /\ jobOf' = [t \in Schedule |-> IF t \in S THEN JobsAfter(t, next[t]) ELSE jobOf[t]]
          /\ others' = others + Cardinality({t \in S : Outlives(t, next[t])})
    BY <2>5
  <2>7. /\ \A t \in S : jobOf'[t] = JobsAfter(t, next[t]) /\ schedule'[t] = next[t].row
        /\ \A t \in Schedule \ S : jobOf'[t] = jobOf[t]
    BY <2>6, Zenon
  <2>8. \A t \in S : next[t].row.at \in Occurrence
    <3>1. \A t \in Schedule : schedule'[t].at \in Occurrence
      BY <2>1, ScheduleTypesStep DEF SchedulerTypeOK, ScheduleRow
    <3> QED BY <2>7, <3>1
  <2> QED BY <2>1, <2>4, <2>5, <2>6, <2>7, <2>8, BatchFits
<1> QED
  BY <1>1, SchedulerInvariantHolds, PTL DEF SchedulerSpec, QueueBounded

----------------------------------------------------------------------------
(* The file below the ledger (CostLedgerFile).                             *)

Critical == {"read", "write", "release"}
Removing == {"remove", "remove again"}

\* A process asks for the lock only while it has an attempt left.
AttemptsLeft == \A p \in Pid : pc[p] \in {"idle", "lock"} => attempt[p] < LockAttempts

\* What a process is about to remove had no owner yet or a dead one, and the
\* dead do not come back.
JudgedStale ==
  \A p \in Pid : pc[p] \in Removing =>
    \/ seen[p].owner = "none"
    \/ seen[p].owner \in Pid /\ pc[seen[p].owner] = "dead"

\* The process between its read and its release owns the directory, so that
\* there is only one, and the copy it writes back is still the file.
OwnerWorks ==
  \A p \in Pid :
    /\ pc[p] \in Critical => dir.owner = p
    /\ pc[p] = "write" => copy[p] = file
    /\ pc[p] = "release" => p \in file

LedgerInv ==
  /\ LedgerTypeOK /\ AttemptsLeft /\ JudgedStale
  /\ stolen \/ (OwnerWorks /\ reported \subseteq file)

\* The lock directory of the initial state, and those that processes make.
LEMMA Directories ==
  /\ NoDirectory \in Directory
  /\ \A p \in Pid : [id |-> p, owner |-> "none", old |-> FALSE] \in Directory
BY DEF NoDirectory, Directory

\* The first state satisfies the invariant.
LEMMA LedgerInitInv == LedgerInit => LedgerInv
<1> SUFFICES ASSUME LedgerInit PROVE LedgerInv
  OBVIOUS
<1> USE DEF LedgerInit
<1>1. LedgerTypeOK
  <2>1. seen \in [Pid -> Directory] /\ dir \in Directory
    BY Directories
  <2>2. pc \in [Pid -> Label] /\ copy \in [Pid -> SUBSET Pid]
    BY DEF Label
  <2>3. attempt \in [Pid -> 0 .. LockAttempts] /\ aged \in 0 .. MaxAged
    BY LedgerAssumption
  <2> QED
    BY <2>1, <2>2, <2>3 DEF LedgerTypeOK
<1>2. AttemptsLeft /\ JudgedStale /\ OwnerWorks /\ reported \subseteq file
  BY LedgerAssumption DEF AttemptsLeft, JudgedStale, OwnerWorks, Removing, Critical
<1> QED
  BY <1>1, <1>2 DEF LedgerInv

\* A process whose transaction ends, or that tries the lock again, forgets the
\* directory that it inspected and holds nothing.
LEMMA FinishKeeps ==
  ASSUME LedgerTypeOK, NEW p \in Pid, Finish(p)
  PROVE  /\ pc' = [pc EXCEPT ![p] = "idle"]
         /\ pc' \in [Pid -> Label]
         /\ attempt' = [attempt EXCEPT ![p] = 0]
         /\ attempt' \in [Pid -> 0 .. LockAttempts]
         /\ seen' = [seen EXCEPT ![p] = NoDirectory]
         /\ seen' \in [Pid -> Directory]
         /\ copy' = [copy EXCEPT ![p] = {}]
         /\ copy' \in [Pid -> SUBSET Pid]
<1>1. /\ pc' = [pc EXCEPT ![p] = "idle"] /\ attempt' = [attempt EXCEPT ![p] = 0]
      /\ seen' = [seen EXCEPT ![p] = NoDirectory] /\ copy' = [copy EXCEPT ![p] = {}]
  BY DEF Finish, Goto
<1>2. pc' \in [Pid -> Label] /\ copy' \in [Pid -> SUBSET Pid]
  BY <1>1 DEF LedgerTypeOK, Label
<1>3. attempt' \in [Pid -> 0 .. LockAttempts]
  BY <1>1, LedgerAssumption DEF LedgerTypeOK
<1>4. seen' \in [Pid -> Directory]
  BY <1>1, Directories DEF LedgerTypeOK
<1> QED
  BY <1>1, <1>2, <1>3, <1>4

\* After its pause a process is at the lock with an attempt left, or idle.
LEMMA RetryKeeps ==
  ASSUME LedgerTypeOK, NEW p \in Pid, RetryLock(p)
  PROVE  /\ \E l \in {"idle", "lock"} : pc' = [pc EXCEPT ![p] = l]
         /\ pc' \in [Pid -> Label]
         /\ attempt' \in [Pid -> 0 .. LockAttempts]
         /\ \A q \in Pid \ {p} : attempt'[q] = attempt[q]
         /\ attempt'[p] < LockAttempts
         /\ seen' = [seen EXCEPT ![p] = NoDirectory]
         /\ seen' \in [Pid -> Directory]
         /\ copy' \in [Pid -> SUBSET Pid]
         /\ \A q \in Pid \ {p} : copy'[q] = copy[q]
<1>1. CASE attempt[p] < LockAttempts
  BY <1>1, Directories DEF RetryLock, LedgerTypeOK, Goto, Label
<1>2. CASE ~(attempt[p] < LockAttempts)
  <2>1. Finish(p)
    BY <1>2 DEF RetryLock
  <2> QED
    BY <2>1, FinishKeeps, LedgerAssumption DEF LedgerTypeOK
<1> QED
  BY <1>1, <1>2

\* Every step keeps the records in shape and the attempts within their bound.
LEMMA LedgerTypes ==
  ASSUME LedgerTypeOK, AttemptsLeft, [LedgerNext]_ledgerVars
  PROVE  LedgerTypeOK' /\ AttemptsLeft'
<1> USE DEF LedgerTypeOK, AttemptsLeft
<1>1. CASE UNCHANGED ledgerVars
  BY <1>1 DEF ledgerVars
<1>2. CASE GrowOld
  <2>1. dir' \in Directory
    BY <1>2 DEF GrowOld, Directory
  <2>2. aged' \in 0 .. MaxAged
    BY <1>2, LedgerAssumption DEF GrowOld
  <2> QED
    BY <1>2, <2>1, <2>2 DEF GrowOld
<1>3. ASSUME NEW p \in Pid, Die(p) PROVE LedgerTypeOK' /\ AttemptsLeft'
  <2>1. /\ pc' = [pc EXCEPT ![p] = "dead"] /\ attempt' = [attempt EXCEPT ![p] = 0]
        /\ seen' = [seen EXCEPT ![p] = NoDirectory] /\ copy' = [copy EXCEPT ![p] = {}]
        /\ UNCHANGED <<dir, file, reported, stolen, aged>>
    BY <1>3 DEF Die, Goto
  <2>2. pc' \in [Pid -> Label] /\ copy' \in [Pid -> SUBSET Pid]
    BY <2>1 DEF Label
  <2>3. attempt' \in [Pid -> 0 .. LockAttempts] /\ AttemptsLeft'
    BY <2>1, LedgerAssumption
  <2>4. seen' \in [Pid -> Directory]
    BY <2>1, Directories
  <2> QED
    BY <2>1, <2>2, <2>3, <2>4
<1>4. ASSUME NEW p \in Pid, Transaction(p) PROVE LedgerTypeOK' /\ AttemptsLeft'
  BY <1>4 DEF Transaction, Goto, Label
<1>5. ASSUME NEW p \in Pid, MakeDirectory(p) PROVE LedgerTypeOK' /\ AttemptsLeft'
  <2>1. attempt' = [attempt EXCEPT ![p] = @ + 1] /\ attempt[p] < LockAttempts
    BY <1>5 DEF MakeDirectory
  <2>2. attempt' \in [Pid -> 0 .. LockAttempts]
    BY <2>1, LedgerAssumption
  <2>3. dir' \in Directory
    BY <1>5, Directories DEF MakeDirectory
  <2>4. \E l \in {"own", "inspect"} : pc' = [pc EXCEPT ![p] = l]
    BY <1>5 DEF MakeDirectory, Goto
  <2>5. pc' \in [Pid -> Label] /\ AttemptsLeft'
    BY <2>1, <2>4 DEF Label
  <2> QED
    BY <1>5, <2>2, <2>3, <2>5 DEF MakeDirectory
<1>6. ASSUME NEW p \in Pid, WriteOwner(p) PROVE LedgerTypeOK' /\ AttemptsLeft'
  <2>1. CASE dir = NoDirectory /\ Finish(p) /\ UNCHANGED dir
    BY <1>6, <2>1, FinishKeeps, LedgerAssumption DEF WriteOwner
  <2>2. CASE dir' = [dir EXCEPT !.owner = p, !.old = FALSE] /\ Goto(p, "read")
             /\ UNCHANGED <<attempt, seen, copy>>
    <3>1. dir' \in Directory
      BY <2>2 DEF Directory
    <3> QED
      BY <1>6, <2>2, <3>1 DEF WriteOwner, Goto, Label
  <2>3. CASE Goto(p, "inspect") /\ UNCHANGED <<dir, attempt, seen, copy>>
    BY <1>6, <2>3 DEF WriteOwner, Goto, Label
  <2> QED
    BY <1>6, <2>1, <2>2, <2>3 DEF WriteOwner
<1>7. ASSUME NEW p \in Pid, Inspect(p) PROVE LedgerTypeOK' /\ AttemptsLeft'
  <2>1. CASE Stale(dir)
    BY <1>7, <2>1 DEF Inspect, Goto, Label
  <2>2. CASE ~Stale(dir)
    BY <1>7, <2>2, RetryKeeps DEF Inspect
  <2> QED
    BY <2>1, <2>2
<1>8. ASSUME NEW p \in Pid, RemoveStale(p) PROVE LedgerTypeOK' /\ AttemptsLeft'
  <2>1. dir' \in Directory /\ stolen' \in BOOLEAN
    BY <1>8, Directories DEF RemoveStale
  <2>2. UNCHANGED <<file, reported, aged>>
    BY <1>8 DEF RemoveStale
  <2>3. CASE RetryLock(p)
    <3>1. /\ pc' \in [Pid -> Label] /\ attempt' \in [Pid -> 0 .. LockAttempts]
          /\ seen' \in [Pid -> Directory] /\ copy' \in [Pid -> SUBSET Pid]
      BY <2>3, RetryKeeps
    <3>2. AttemptsLeft'
      BY <2>3, RetryKeeps
    <3> QED
      BY <2>1, <2>2, <3>1, <3>2
  <2>4. CASE Goto(p, "remove again") /\ UNCHANGED <<attempt, seen, copy>>
    BY <2>1, <2>2, <2>4 DEF Goto, Label
  <2>5. CASE Finish(p)
    <3>1. /\ pc' \in [Pid -> Label] /\ attempt' \in [Pid -> 0 .. LockAttempts]
          /\ seen' \in [Pid -> Directory] /\ copy' \in [Pid -> SUBSET Pid]
      BY <2>5, FinishKeeps
    <3>2. AttemptsLeft'
      BY <2>5, FinishKeeps, LedgerAssumption
    <3> QED
      BY <2>1, <2>2, <3>1, <3>2
  <2> QED
    BY <1>8, <2>3, <2>4, <2>5 DEF RemoveStale
<1>9. ASSUME NEW p \in Pid, ReadState(p) PROVE LedgerTypeOK' /\ AttemptsLeft'
  BY <1>9 DEF ReadState, Goto, Label
<1>10. ASSUME NEW p \in Pid, WriteState(p) PROVE LedgerTypeOK' /\ AttemptsLeft'
  BY <1>10 DEF WriteState, Goto, Label
<1>11. ASSUME NEW p \in Pid, ReleaseLock(p) PROVE LedgerTypeOK' /\ AttemptsLeft'
  BY <1>11, FinishKeeps, Directories, LedgerAssumption DEF ReleaseLock
<1> QED
  BY <1>1, <1>2, <1>3, <1>4, <1>5, <1>6, <1>7, <1>8, <1>9, <1>10, <1>11
     DEF LedgerNext, LedgerStep

\* A judgement stays right: the dead stay dead, and a process judges anew
\* before it removes again.
LEMMA JudgementsHold ==
  ASSUME LedgerTypeOK, JudgedStale, [LedgerNext]_ledgerVars
  PROVE  JudgedStale'
<1> USE DEF LedgerTypeOK, JudgedStale, Removing
<1>1. CASE UNCHANGED ledgerVars
  BY <1>1 DEF ledgerVars
<1>2. CASE GrowOld
  BY <1>2 DEF GrowOld
<1>3. ASSUME NEW p \in Pid, Die(p) PROVE JudgedStale'
  BY <1>3 DEF Die, Goto
<1>4. ASSUME NEW p \in Pid, Transaction(p) PROVE JudgedStale'
  BY <1>4 DEF Transaction, Goto
<1>5. ASSUME NEW p \in Pid, MakeDirectory(p) PROVE JudgedStale'
  BY <1>5 DEF MakeDirectory, Goto
<1>6. ASSUME NEW p \in Pid, WriteOwner(p) PROVE JudgedStale'
  BY <1>6 DEF WriteOwner, Goto, Finish
<1>7. ASSUME NEW p \in Pid, Inspect(p) PROVE JudgedStale'
  <2>1. /\ pc[p] = "inspect"
        /\ \/ Stale(dir) /\ Goto(p, "remove") /\ seen' = [seen EXCEPT ![p] = dir]
           \/ RetryLock(p)
    BY <1>7 DEF Inspect
  <2>2. CASE Stale(dir) /\ Goto(p, "remove") /\ seen' = [seen EXCEPT ![p] = dir]
    <3>1. dir.owner = "none" \/ (dir.owner \in Pid /\ pc[dir.owner] = "dead")
      BY <2>2 DEF Stale, ProcessIsAlive
    <3> QED
      BY <2>1, <2>2, <3>1 DEF Goto
  <2>3. CASE RetryLock(p)
    <3>1. /\ \E l \in {"idle", "lock"} : pc' = [pc EXCEPT ![p] = l]
          /\ seen' = [seen EXCEPT ![p] = NoDirectory]
      BY <2>3, RetryKeeps
    <3> QED
      BY <2>1, <3>1
  <2> QED
    BY <2>1, <2>2, <2>3
<1>8. ASSUME NEW p \in Pid, RemoveStale(p) PROVE JudgedStale'
  <2>1. /\ pc[p] \in Removing
        /\ \/ RetryLock(p) \/ Finish(p)
           \/ Goto(p, "remove again") /\ UNCHANGED seen
    <3> HIDE DEF JudgedStale, LedgerTypeOK
    <3> QED
      BY <1>8 DEF RemoveStale
  <2>2. CASE RetryLock(p)
    <3>1. /\ \E l \in {"idle", "lock"} : pc' = [pc EXCEPT ![p] = l]
          /\ seen' = [seen EXCEPT ![p] = NoDirectory]
      BY <2>2, RetryKeeps
    <3> QED
      BY <2>1, <3>1
  <2>3. CASE Goto(p, "remove again") /\ UNCHANGED seen
    BY <2>1, <2>3 DEF Goto
  <2>4. CASE Finish(p)
    BY <2>1, <2>4 DEF Finish, Goto
  <2> QED
    BY <2>1, <2>2, <2>3, <2>4
<1>9. ASSUME NEW p \in Pid, ReadState(p) PROVE JudgedStale'
  BY <1>9 DEF ReadState, Goto
<1>10. ASSUME NEW p \in Pid, WriteState(p) PROVE JudgedStale'
  BY <1>10 DEF WriteState, Goto
<1>11. ASSUME NEW p \in Pid, ReleaseLock(p) PROVE JudgedStale'
  BY <1>11 DEF ReleaseLock, Finish, Goto
<1> QED
  BY <1>1, <1>2, <1>3, <1>4, <1>5, <1>6, <1>7, <1>8, <1>9, <1>10, <1>11
     DEF LedgerNext, LedgerStep

\* Nobody works while the directory has no owner.
LEMMA NobodyWorks ==
  ASSUME OwnerWorks, dir.owner \in {"absent", "none"}
  PROVE  \A p \in Pid : pc[p] \notin Critical
BY LedgerAssumption DEF OwnerWorks

\* Only a removal of a directory that was not inspected breaks the exclusion;
\* without one every step leaves the owner alone with the file, and the file
\* with every transaction that was reported.
LEMMA OwnerWorksOn ==
  ASSUME LedgerTypeOK, JudgedStale, OwnerWorks, reported \subseteq file,
         [LedgerNext]_ledgerVars
  PROVE  stolen' \/ (OwnerWorks' /\ reported' \subseteq file')
<1> USE DEF LedgerTypeOK, Critical
<1> DEFINE Goal == OwnerWorks' /\ reported' \subseteq file'
<1>1. CASE UNCHANGED ledgerVars
  BY <1>1 DEF ledgerVars, OwnerWorks
<1>2. CASE GrowOld
  <2>1. dir'.owner = dir.owner
    BY <1>2 DEF GrowOld, Directory
  <2> QED
    BY <1>2, <2>1 DEF GrowOld, OwnerWorks
<1>3. ASSUME NEW p \in Pid, Die(p) PROVE Goal
  BY <1>3 DEF Die, Goto, OwnerWorks
<1>4. ASSUME NEW p \in Pid, Transaction(p) PROVE Goal
  BY <1>4 DEF Transaction, Goto, OwnerWorks
<1>5. ASSUME NEW p \in Pid, MakeDirectory(p) PROVE Goal
  <2>1. CASE dir = NoDirectory
    <3>1. \A q \in Pid : pc[q] \notin Critical
      BY <2>1, NobodyWorks DEF NoDirectory
    <3> QED
      BY <1>5, <2>1, <3>1 DEF MakeDirectory, Goto, OwnerWorks
  <2>2. CASE dir # NoDirectory
    BY <1>5, <2>2 DEF MakeDirectory, Goto, OwnerWorks
  <2> QED
    BY <2>1, <2>2
<1>6. ASSUME NEW p \in Pid, WriteOwner(p) PROVE Goal
  <2>1. CASE Finish(p) /\ UNCHANGED dir
    BY <1>6, <2>1 DEF WriteOwner, Finish, Goto, OwnerWorks
  <2>2. CASE /\ dir.owner = "none" /\ dir' = [dir EXCEPT !.owner = p, !.old = FALSE]
             /\ Goto(p, "read") /\ UNCHANGED <<attempt, seen, copy>>
    <3>1. \A q \in Pid : pc[q] \notin Critical
      BY <2>2, NobodyWorks
    <3>2. dir'.owner = p
      BY <2>2 DEF Directory
    <3> QED
      BY <1>6, <2>2, <3>1, <3>2 DEF WriteOwner, Goto, OwnerWorks
  <2>3. CASE Goto(p, "inspect") /\ UNCHANGED <<dir, attempt, seen, copy>>
    BY <1>6, <2>3 DEF WriteOwner, Goto, OwnerWorks
  <2> QED
    BY <1>6, <2>1, <2>2, <2>3 DEF WriteOwner
<1>7. ASSUME NEW p \in Pid, Inspect(p) PROVE Goal
  <2>1. CASE Stale(dir)
    BY <1>7, <2>1 DEF Inspect, Goto, OwnerWorks
  <2>2. CASE ~Stale(dir)
    <3>1. pc[p] \notin Critical
      BY <1>7 DEF Inspect
    <3> QED
      BY <1>7, <2>2, <3>1, RetryKeeps DEF Inspect, OwnerWorks
  <2> QED
    BY <2>1, <2>2
<1>8. ASSUME NEW p \in Pid, RemoveStale(p), ~stolen' PROVE Goal
  <2>1. dir = NoDirectory \/ dir = seen[p]
    BY <1>8 DEF RemoveStale
  <2>2. \A q \in Pid : pc[q] \notin Critical
    <3>1. CASE dir = NoDirectory
      BY <3>1, NobodyWorks DEF NoDirectory
    <3>2. CASE dir = seen[p] /\ seen[p].owner = "none"
      BY <3>2, NobodyWorks
    <3>3. CASE dir = seen[p] /\ seen[p].owner \in Pid /\ pc[seen[p].owner] = "dead"
      BY <3>3 DEF OwnerWorks
    <3> QED
      BY <1>8, <2>1, <3>1, <3>2, <3>3 DEF RemoveStale, JudgedStale, Removing
  <2>3. \A q \in Pid : pc'[q] \notin Critical
    BY <1>8, <2>2, RetryKeeps DEF RemoveStale, Finish, Goto
  <2>4. UNCHANGED <<file, reported>>
    BY <1>8 DEF RemoveStale
  <2> QED
    BY <2>3, <2>4 DEF OwnerWorks
<1>9. ASSUME NEW p \in Pid, ReadState(p) PROVE Goal
  BY <1>9 DEF ReadState, Goto, OwnerWorks
<1>10. ASSUME NEW p \in Pid, WriteState(p) PROVE Goal
  <2>1. \A q \in Pid \ {p} : pc[q] \notin Critical
    BY <1>10 DEF WriteState, OwnerWorks
  <2>2. file' = file \cup {p}
    BY <1>10 DEF WriteState, OwnerWorks
  <2> QED
    BY <1>10, <2>1, <2>2 DEF WriteState, Goto, OwnerWorks
<1>11. ASSUME NEW p \in Pid, ReleaseLock(p) PROVE Goal
  <2>1. \A q \in Pid \ {p} : pc[q] \notin Critical
    BY <1>11 DEF ReleaseLock, OwnerWorks
  <2>2. p \in file
    BY <1>11 DEF ReleaseLock, OwnerWorks
  <2> QED
    BY <1>11, <2>1, <2>2 DEF ReleaseLock, Finish, Goto, OwnerWorks
<1> QED
  BY <1>1, <1>2, <1>3, <1>4, <1>5, <1>6, <1>7, <1>8, <1>9, <1>10, <1>11
     DEF LedgerNext, LedgerStep

\* Once a directory was stolen, that stays known.
LEMMA StolenStays == ASSUME [LedgerNext]_ledgerVars, stolen PROVE stolen'
BY DEF LedgerNext, LedgerStep, ledgerVars, GrowOld, Die, Transaction, MakeDirectory,
       WriteOwner, Inspect, RemoveStale, ReadState, WriteState, ReleaseLock

\* The invariant holds of every reachable state of the file.
LEMMA LedgerInvariant == LedgerSpec => []LedgerInv
<1>1. LedgerInv /\ [LedgerNext]_ledgerVars => LedgerInv'
  BY LedgerTypes, JudgementsHold, OwnerWorksOn, StolenStays DEF LedgerInv
<1> QED
  BY <1>1, LedgerInitInv, PTL DEF LedgerSpec

\* The file's variables keep their types, and no process tries the lock more
\* often than LOCK_ATTEMPTS says.
THEOREM LedgerTyped == LedgerSpec => []LedgerTypeOK
<1>1. LedgerInv => LedgerTypeOK
  BY DEF LedgerInv
<1> QED
  BY <1>1, LedgerInvariant, PTL

\* Neither deaths at any point nor takeovers of a left lock lose a transaction
\* that was reported, or let two processes write at a time, unless a recovery
\* removed a directory made after its inspection.
THEOREM LedgerIsKeptHolds == LedgerSpec => []LedgerIsKept
<1>1. LedgerInv => LedgerIsKept
  <2> SUFFICES ASSUME LedgerInv, ~stolen PROVE LedgerIsKept
    BY DEF LedgerIsKept, ReportedIsKept, WritersExclude
  <2> QED
    BY DEF LedgerInv, LedgerIsKept, ReportedIsKept, WritersExclude, OwnerWorks, Critical
<1> QED
  BY <1>1, LedgerInvariant, PTL

----------------------------------------------------------------------------
(* The paid calls (PaidModelCalls).                                        *)

Reservation == [status : {"none", "OPEN", "SETTLED"}, day : Nat]
Usage == [cost : Nat, calls : 0 .. 1]
Ledger == [reservations : [ModelRequest -> Reservation],
           settlements : [ModelRequest -> Usage],
           anomalyStop : BOOLEAN, killSwitch : {"ACTIVE", "RELEASED"}]

\* The types of the variables, with the ledger as one record.
PaidTypes ==
  /\ now \in 0 .. Horizon /\ approvedAt \in 0 .. now
  /\ ledger \in Ledger
  /\ caller \in [ModelRequest -> {"idle", "reserving", "calling", "settling",
                                  "settling thrown", "stopping"}]
  /\ answer \in [ModelRequest -> Usage]
  /\ calls \in [ModelRequest -> Nat]
  /\ lost \subseteq ModelRequest /\ faults \in 0 .. MaxFaults

\* A call is made under an open reservation that has seen none yet, and is
\* settled under that reservation; a request that reached the provider stays
\* reserved, so that it is not reserved again.
CallsAreReserved ==
  \A r \in ModelRequest :
    /\ caller[r] \in {"calling", "settling", "settling thrown"} =>
         ledger.reservations[r].status = "OPEN"
    /\ caller[r] = "calling" => calls[r] = 0
    /\ calls[r] > 0 => r \in Reserved

PaidInv == PaidTypes /\ CallsAreReserved /\ ReservationsAreSound

\* The day of an instant is a number.
LEMMA DayIsNat == ASSUME NEW t \in Nat PROVE Day(t) \in Nat
<1> DEFINE n == t + DayLength - 1
<1>1. n \in Nat /\ DayLength \in Nat /\ DayLength > 0
  BY PaidAssumption
<1> HIDE DEF n
<1>2. n \div DayLength \in Nat
  BY <1>1, SMTT(30)
<1> QED
  BY <1>2 DEF Day, n

\* The first state satisfies the invariant.
LEMMA PaidInitInv == PaidInit => PaidInv
<1> SUFFICES ASSUME PaidInit PROVE PaidInv
  OBVIOUS
<1> USE DEF PaidInit
<1>1. NoReservation \in Reservation /\ NoAnswer \in Usage
  BY DEF NoReservation, NoAnswer, Reservation, Usage
<1>2. ledger \in Ledger
  BY <1>1 DEF Ledger
<1>3. PaidTypes
  BY <1>1, <1>2, PaidAssumption DEF PaidTypes
<1>4. CallsAreReserved /\ ReservationsAreSound
  BY DEF CallsAreReserved, ReservationsAreSound, PaidOnce, OpenOnlyWhenLost, NoReservation
<1> QED
  BY <1>3, <1>4 DEF PaidInv

\* What a reservation, a settlement and the kill switch write.
LEMMA ReserveWrites ==
  ASSUME ledger \in Ledger, NEW r \in ModelRequest, NEW record \in Reservation,
         ledger' = [ledger EXCEPT !.reservations[r] = record]
  PROVE  /\ ledger' \in Ledger
         /\ ledger'.reservations = [ledger.reservations EXCEPT ![r] = record]
BY DEF Ledger

LEMMA SettleWrites ==
  ASSUME ledger \in Ledger, NEW r \in ModelRequest, answer[r] \in Usage, Settle(r)
  PROVE  /\ ledger' \in Ledger
         /\ ledger'.reservations =
              [ledger.reservations EXCEPT ![r] =
                 [ledger.reservations[r] EXCEPT !.status = "SETTLED"]]
<1> DEFINE rec == [ledger.reservations[r] EXCEPT !.status = "SETTLED"]
           settled == [ledger.reservations EXCEPT ![r] = rec]
           accounts == [ledger.settlements EXCEPT ![r] = answer[r]]
<1>1. rec \in Reservation
  BY DEF Ledger, Reservation
<1>2. /\ settled \in [ModelRequest -> Reservation]
      /\ accounts \in [ModelRequest -> Usage]
  BY <1>1 DEF Ledger
<1>3. \E stop \in BOOLEAN, switch \in {"ACTIVE", "RELEASED"} :
        ledger' = [reservations |-> settled, settlements |-> accounts,
                   anomalyStop |-> stop, killSwitch |-> switch]
  <2>1. Anomaly(r) \in BOOLEAN
    BY DEF Anomaly
  <2>2. (ledger.anomalyStop \/ Anomaly(r)) \in BOOLEAN
    OBVIOUS
  <2>3. (IF Anomaly(r) THEN "ACTIVE" ELSE ledger.killSwitch) \in {"ACTIVE", "RELEASED"}
    BY DEF Ledger
  <2>4. ledger' = [reservations |-> settled, settlements |-> accounts,
                   anomalyStop |-> ledger.anomalyStop \/ Anomaly(r),
                   killSwitch |-> IF Anomaly(r) THEN "ACTIVE" ELSE ledger.killSwitch]
    BY DEF Settle, Ledger
  <2> QED
    BY <2>2, <2>3, <2>4
<1> QED
  BY <1>2, <1>3 DEF Ledger

LEMMA SwitchWrites ==
  ASSUME ledger \in Ledger, ledger' = [ledger EXCEPT !.killSwitch = "ACTIVE"]
  PROVE  ledger' \in Ledger /\ ledger'.reservations = ledger.reservations
BY DEF Ledger

\* The bounds are numbers, and so is every estimate.
LEMMA PaidBounds ==
  /\ Horizon \in Nat /\ MaxFaults \in Nat /\ NoAnswer \in Usage
  /\ \A r \in ModelRequest : Estimate[r] \in Nat
BY PaidAssumption DEF NoAnswer, Usage

\* What a call returns is an account of at most one call.
LEMMA AnsweredTyped ==
  ASSUME PaidTypes, NEW r \in ModelRequest, NEW cost \in Nat, NEW counted \in {0, 1},
         Answered(r, cost, counted)
  PROVE  /\ answer' \in [ModelRequest -> Usage]
         /\ caller' = [caller EXCEPT ![r] = "settling"]
         /\ caller' \in [ModelRequest -> {"idle", "reserving", "calling", "settling",
                                          "settling thrown", "stopping"}]
         /\ UNCHANGED <<now, approvedAt, ledger, lost, faults>>
<1>1. [cost |-> cost, calls |-> counted] \in Usage
  BY DEF Usage
<1> QED
  BY <1>1 DEF Answered, PaidTypes

\* Every way the provider's part ends, with the calls it has seen then.
Outcome(r) ==
  RefuseRequest(r) \/ AcceptAnswer(r) \/ ProviderFails(r) \/ RejectAnswer(r)

LEMMA OutcomeAnswers ==
  ASSUME NEW r \in ModelRequest, Outcome(r)
  PROVE  /\ caller[r] = "calling"
         /\ \E cost \in Nat, counted \in {0, 1} : Answered(r, cost, counted)
         /\ calls' = calls \/ calls' = [calls EXCEPT ![r] = @ + 1]
<1>1. CASE RefuseRequest(r)
  <2>1. 0 \in Nat /\ 0 \in {0, 1}
    OBVIOUS
  <2> QED
    BY <1>1, <2>1, Zenon DEF RefuseRequest
<1>2. CASE AcceptAnswer(r)
  <2>1. 1 \in {0, 1} /\ Cost \subseteq Nat
    BY PaidAssumption
  <2> QED
    BY <1>2, <2>1, Zenon DEF AcceptAnswer, Call
<1>3. CASE ProviderFails(r)
  <2>1. 1 \in {0, 1} /\ Estimate[r] \in Nat
    BY PaidBounds
  <2> QED
    BY <1>3, <2>1, Zenon DEF ProviderFails, Call
<1>4. CASE RejectAnswer(r)
  <2>1. 0 \in Nat /\ 0 \in {0, 1}
    OBVIOUS
  <2> QED
    BY <1>4, <2>1, Zenon DEF RejectAnswer, Call
<1> QED
  BY <1>1, <1>2, <1>3, <1>4 DEF Outcome

\* Every step keeps the variables in their types.
LEMMA PaidTypesOn ==
  ASSUME PaidTypes
  PROVE  [PaidNext]_paidVars => PaidTypes'
<1>1. CASE UNCHANGED paidVars
  BY <1>1 DEF paidVars, PaidTypes
<1>2. ASSUME NEW r \in ModelRequest, Generate(r) PROVE PaidTypes'
  BY <1>2 DEF Generate, PaidTypes
<1>3. ASSUME NEW r \in ModelRequest, Reserve(r) PROVE PaidTypes'
  <2>1. UNCHANGED <<approvedAt, answer, calls, lost, faults>>
    BY <1>3 DEF Reserve
  <2>2. CASE RefuseReservation(r) /\ UNCHANGED <<now, ledger>>
    BY <2>1, <2>2 DEF RefuseReservation, Return, PaidTypes
  <2>3. ASSUME NEW later \in {now, now + 1}, later <= Horizon, now' = later,
               ledger' = [ledger EXCEPT !.reservations[r] =
                            [status |-> "OPEN", day |-> Day(later)]],
               caller' = [caller EXCEPT ![r] = "calling"]
        PROVE  PaidTypes'
    <3>1. now \in 0 .. Horizon /\ approvedAt \in 0 .. now
      BY DEF PaidTypes
    <3>2. later \in Nat /\ later \in 0 .. Horizon /\ approvedAt \in 0 .. later
      BY <2>3, <3>1, PaidBounds
    <3>3. [status |-> "OPEN", day |-> Day(later)] \in Reservation
      BY <3>2, DayIsNat DEF Reservation
    <3>4. ledger' \in Ledger
      BY <2>3, <3>3, ReserveWrites DEF PaidTypes
    <3> QED
      BY <2>1, <2>3, <3>2, <3>4 DEF PaidTypes
  <2> QED
    BY <1>3, <2>2, <2>3 DEF Reserve
<1>4. ASSUME NEW r \in ModelRequest, Outcome(r) PROVE PaidTypes'
  <2>1. calls' \in [ModelRequest -> Nat]
    <3>1. calls \in [ModelRequest -> Nat]
      BY DEF PaidTypes
    <3>2. calls' = calls \/ calls' = [calls EXCEPT ![r] = @ + 1]
      BY <1>4, OutcomeAnswers
    <3> QED
      BY <3>1, <3>2
  <2>2. PICK cost \in Nat, counted \in {0, 1} : Answered(r, cost, counted)
    BY <1>4, OutcomeAnswers
  <2> QED
    BY <2>1, <2>2, AnsweredTyped DEF PaidTypes
<1>5. ASSUME NEW r \in ModelRequest, GatewayThrows(r) PROVE PaidTypes'
  <2>1. [cost |-> Estimate[r], calls |-> 1] \in Usage
    BY PaidBounds DEF Usage
  <2> QED
    BY <1>5, <2>1 DEF GatewayThrows, PaidTypes
<1>6. ASSUME NEW r \in ModelRequest, Settle(r) PROVE PaidTypes'
  <2>1. ledger' \in Ledger
    BY <1>6, SettleWrites DEF PaidTypes
  <2>2. /\ answer' = [answer EXCEPT ![r] = NoAnswer]
        /\ caller' \in {[caller EXCEPT ![r] = "idle"], [caller EXCEPT ![r] = "stopping"]}
        /\ UNCHANGED <<now, approvedAt, calls, lost, faults>>
    BY <1>6 DEF Settle, Return
  <2> QED
    BY <2>1, <2>2, PaidBounds DEF PaidTypes
<1>7. ASSUME NEW r \in ModelRequest, ActivateKillSwitch(r) PROVE PaidTypes'
  <2>1. ledger' \in Ledger
    BY <1>7, SwitchWrites DEF ActivateKillSwitch, PaidTypes
  <2> QED
    BY <1>7, <2>1 DEF ActivateKillSwitch, Return, PaidTypes
<1>8. ASSUME NEW rs \in SUBSET ModelRequest, Lose(rs)
      PROVE  lost' \subseteq ModelRequest /\ faults' \in 0 .. MaxFaults
  <2>1. lost \subseteq ModelRequest /\ faults \in 0 .. MaxFaults /\ MaxFaults \in Nat
    BY PaidBounds DEF PaidTypes
  <2> QED
    BY <1>8, <2>1 DEF Lose
<1>9. ASSUME NEW r \in ModelRequest, LedgerFails(r) PROVE PaidTypes'
  <2>1. {r} \in SUBSET ModelRequest /\ Lose({r})
    BY <1>9 DEF LedgerFails
  <2>2. lost' \subseteq ModelRequest /\ faults' \in 0 .. MaxFaults
    BY <2>1, <1>8
  <2> QED
    BY <1>9, <2>2, PaidBounds DEF LedgerFails, Return, PaidTypes
<1>10. CASE GatewayCrash
  <2>1. PICK reached \in SUBSET {r \in ModelRequest : caller[r] = "calling"} :
          calls' = [r \in ModelRequest |-> calls[r] + IF r \in reached THEN 1 ELSE 0]
    BY <1>10 DEF GatewayCrash
  <2>2. calls' \in [ModelRequest -> Nat]
    <3>1. calls \in [ModelRequest -> Nat]
      BY DEF PaidTypes
    <3> QED
      BY <2>1, <3>1
  <2>3. lost' \subseteq ModelRequest /\ faults' \in 0 .. MaxFaults
    BY <1>8, <1>10 DEF GatewayCrash
  <2>4. approvedAt' \in 0 .. now' /\ now' \in 0 .. Horizon /\ ledger' \in Ledger
    <3>1. /\ now \in 0 .. Horizon /\ approvedAt \in 0 .. now /\ Horizon \in Nat
          /\ ledger \in Ledger
      BY PaidBounds DEF PaidTypes
    <3>2. approvedAt' \in {approvedAt, now} /\ now' = now /\ ledger' = ledger
      BY <1>10 DEF GatewayCrash
    <3> QED
      BY <3>1, <3>2
  <2>5. /\ caller' \in [ModelRequest -> {"idle", "reserving", "calling", "settling",
                                        "settling thrown", "stopping"}]
        /\ answer' \in [ModelRequest -> Usage]
    BY <1>10, PaidBounds DEF GatewayCrash
  <2> QED
    BY <2>2, <2>3, <2>4, <2>5 DEF PaidTypes
<1>11. CASE PaidTick
  <2>1. now \in 0 .. Horizon /\ approvedAt \in 0 .. now /\ Horizon \in Nat
    BY PaidBounds DEF PaidTypes
  <2>2. now < Horizon /\ now' = now + 1 /\ approvedAt' = approvedAt
    BY <1>11 DEF PaidTick
  <2>3. now' \in 0 .. Horizon /\ approvedAt' \in 0 .. now'
    BY <2>1, <2>2
  <2> QED
    BY <1>11, <2>3 DEF PaidTick, PaidTypes
<1> QED
  BY <1>1, <1>2, <1>3, <1>4, <1>5, <1>6, <1>7, <1>9, <1>10, <1>11 DEF PaidNext, Outcome

\* No step makes a second call for a request, or leaves a reservation open
\* behind a call that was not cut short.
LEMMA CallsOn ==
  ASSUME PaidInv
  PROVE  [PaidNext]_paidVars => CallsAreReserved' /\ ReservationsAreSound'
<1> DEFINE Sound == CallsAreReserved /\ ReservationsAreSound
<1> USE DEF CallsAreReserved, ReservationsAreSound, PaidOnce, OpenOnlyWhenLost
<1>0. PaidTypes /\ Sound
  BY DEF PaidInv
<1>a. /\ caller \in [ModelRequest -> {"idle", "reserving", "calling", "settling",
                                      "settling thrown", "stopping"}]
      /\ calls \in [ModelRequest -> Nat]
      /\ ledger \in Ledger /\ ledger.reservations \in [ModelRequest -> Reservation]
      /\ now \in 0 .. Horizon
  BY <1>0 DEF PaidTypes, Ledger
<1>b. calls \in [ModelRequest -> Nat]
  BY <1>a
<1>1. CASE UNCHANGED paidVars
  BY <1>0, <1>a, <1>1 DEF paidVars, Reserved
<1>2. ASSUME NEW r \in ModelRequest, Generate(r) PROVE Sound'
  BY <1>0, <1>a, <1>2 DEF Generate, Reserved
<1>3. ASSUME NEW r \in ModelRequest, Reserve(r) PROVE Sound'
  <2>1. caller[r] = "reserving" /\ UNCHANGED <<calls, lost>>
    BY <1>3 DEF Reserve
  <2>2. CASE RefuseReservation(r) /\ UNCHANGED <<now, ledger>>
    BY <1>0, <1>a, <2>1, <2>2 DEF RefuseReservation, Return, Reserved
  <2>3. ASSUME NEW later \in {now, now + 1}, r \notin Reserved, now' = later,
               later <= Horizon,
               ledger' = [ledger EXCEPT !.reservations[r] =
                            [status |-> "OPEN", day |-> Day(later)]],
               caller' = [caller EXCEPT ![r] = "calling"]
        PROVE  Sound'
    <3>1. later \in Nat
      <4>1. now \in 0 .. Horizon /\ Horizon \in Nat
        BY <1>a, PaidBounds
      <4> HIDE DEF CallsAreReserved, ReservationsAreSound
      <4> QED
        BY <2>3, <4>1
    <3>2. [status |-> "OPEN", day |-> Day(later)] \in Reservation
      BY <3>1, DayIsNat DEF Reservation
    <3>3. ledger'.reservations =
            [ledger.reservations EXCEPT ![r] = [status |-> "OPEN", day |-> Day(later)]]
      BY <1>a, <2>3, <3>2, ReserveWrites
    <3>4. /\ ledger'.reservations[r].status = "OPEN"
          /\ \A q \in ModelRequest \ {r} :
               ledger'.reservations[q] = ledger.reservations[q]
      <4> DEFINE record == [status |-> "OPEN", day |-> Day(later)]
      <4>1. record.status = "OPEN"
        OBVIOUS
      <4>2. ledger'.reservations = [ledger.reservations EXCEPT ![r] = record]
        BY <3>3
      <4> HIDE DEF record
      <4> QED
        BY <1>a, <4>1, <4>2
    <3>5. calls[r] = 0
      <4>1. calls[r] \in Nat /\ ~(calls[r] > 0)
        BY <1>0, <1>a, <2>3
      <4> QED
        BY <4>1
    <3> QED
      BY <1>0, <1>a, <2>1, <2>3, <3>4, <3>5 DEF Reserved
  <2> QED
    BY <1>3, <2>2, <2>3 DEF Reserve
<1>4. ASSUME NEW r \in ModelRequest, Outcome(r) PROVE Sound'
  <2>1. caller[r] = "calling" /\ (calls' = calls \/ calls' = [calls EXCEPT ![r] = @ + 1])
    BY <1>4, OutcomeAnswers
  <2>2. caller' = [caller EXCEPT ![r] = "settling"] /\ UNCHANGED <<ledger, lost>>
    <3>1. PICK cost \in Nat, counted \in {0, 1} : Answered(r, cost, counted)
      BY <1>4, OutcomeAnswers
    <3> QED
      BY <3>1 DEF Answered
  <2>3. calls[r] = 0 /\ ledger.reservations[r].status = "OPEN"
    BY <1>0, <2>1
  <2>4. calls'[r] \in {0, 1} /\ \A q \in ModelRequest \ {r} : calls'[q] = calls[q]
    BY <1>b, <2>1, <2>3
  <2>5. r \in Reserved /\ Reserved' = Reserved
    BY <2>2, <2>3 DEF Reserved
  <2> QED
    <3>1. CallsAreReserved'
      <4>1. /\ caller'[r] = "settling" /\ ledger' = ledger
            /\ \A q \in ModelRequest \ {r} : caller'[q] = caller[q] /\ calls'[q] = calls[q]
        BY <1>a, <2>2, <2>4
      <4>2. ASSUME NEW q \in ModelRequest \ {r}
            PROVE  /\ caller'[q] \in {"calling", "settling", "settling thrown"} =>
                        ledger'.reservations[q].status = "OPEN"
                   /\ caller'[q] = "calling" => calls'[q] = 0
                   /\ calls'[q] > 0 => q \in Reserved'
        BY <1>0, <2>5, <4>1
      <4>3. /\ ledger'.reservations[r].status = "OPEN" /\ caller'[r] # "calling"
            /\ r \in Reserved'
        BY <2>3, <2>5, <4>1
      <4> QED
        BY <4>2, <4>3
    <3>2. \A q \in ModelRequest : calls'[q] <= 1
      <4>1. \A q \in ModelRequest : calls[q] <= 1
        BY <1>0
      <4>2. calls'[r] <= 1
        BY <2>4
      <4> HIDE DEF CallsAreReserved, ReservationsAreSound
      <4> QED
        BY <2>4, <4>1, <4>2
    <3>3. OpenOnlyWhenLost'
      BY <1>0, <1>a, <2>2
    <3> QED
      BY <3>1, <3>2, <3>3
<1>5. ASSUME NEW r \in ModelRequest, GatewayThrows(r) PROVE Sound'
  BY <1>0, <1>a, <1>5 DEF GatewayThrows, Reserved
<1>6. ASSUME NEW r \in ModelRequest, Settle(r) PROVE Sound'
  <2>1. /\ caller[r] \in {"settling", "settling thrown"}
        /\ caller' \in {[caller EXCEPT ![r] = "idle"], [caller EXCEPT ![r] = "stopping"]}
        /\ UNCHANGED <<calls, lost>>
    BY <1>6 DEF Settle, Return
  <2>2. ledger'.reservations =
          [ledger.reservations EXCEPT ![r] =
             [ledger.reservations[r] EXCEPT !.status = "SETTLED"]]
    BY <1>0, <1>a, <1>6, SettleWrites DEF PaidTypes
  <2>3. /\ ledger'.reservations[r].status = "SETTLED"
        /\ \A q \in ModelRequest \ {r} :
             ledger'.reservations[q] = ledger.reservations[q]
    BY <1>a, <2>2 DEF Reservation
  <2> QED
    BY <1>0, <1>a, <2>1, <2>3 DEF Reserved
<1>7. ASSUME NEW r \in ModelRequest, ActivateKillSwitch(r) PROVE Sound'
  <2>1. ledger'.reservations = ledger.reservations
    BY <1>0, <1>a, <1>7, SwitchWrites DEF ActivateKillSwitch
  <2> QED
    BY <1>0, <1>a, <1>7, <2>1 DEF ActivateKillSwitch, Return, Reserved
<1>8. ASSUME NEW r \in ModelRequest, LedgerFails(r) PROVE Sound'
  BY <1>0, <1>a, <1>8 DEF LedgerFails, Return, Lose, Reserved
<1>9. CASE GatewayCrash
  <2>1. PICK reached \in SUBSET {r \in ModelRequest : caller[r] = "calling"} :
          calls' = [r \in ModelRequest |-> calls[r] + IF r \in reached THEN 1 ELSE 0]
    BY <1>9 DEF GatewayCrash
  <2>2. /\ lost' = lost \cup {r \in ModelRequest : caller[r] # "idle"}
        /\ caller' = [r \in ModelRequest |-> "idle"] /\ ledger' = ledger
    BY <1>9 DEF GatewayCrash, Lose
  <2>3. /\ Reserved' = Reserved
        /\ \A r \in ModelRequest :
             calls'[r] = calls[r] \/ (calls[r] = 0 /\ calls'[r] = 1 /\ r \in Reserved)
    <3>1. Reserved' = Reserved
      BY <2>2 DEF Reserved
    <3>2. \A r \in reached : calls[r] = 0 /\ r \in Reserved
      BY <1>0 DEF Reserved
    <3>3. \A r \in ModelRequest \ reached : calls'[r] = calls[r]
      BY <1>b, <2>1
    <3>4. \A r \in reached : calls'[r] = 1
      BY <1>b, <2>1, <3>2
    <3> QED
      BY <3>1, <3>2, <3>3, <3>4
  <2>4. \A r \in ModelRequest : calls'[r] <= 1 /\ (calls'[r] > 0 => r \in Reserved')
    <3>1. \A r \in ModelRequest : calls[r] <= 1 /\ (calls[r] > 0 => r \in Reserved)
      BY <1>0
    <3> QED
      BY <1>b, <2>3, <3>1
  <2>5. \A r \in ModelRequest : caller'[r] = "idle"
    BY <2>2
  <2>6. OpenOnlyWhenLost'
    BY <1>0, <2>2
  <2> QED
    BY <2>4, <2>5, <2>6
<1>10. CASE PaidTick
  BY <1>0, <1>a, <1>10 DEF PaidTick, Reserved
<1> QED
  BY <1>1, <1>2, <1>3, <1>4, <1>5, <1>6, <1>7, <1>8, <1>9, <1>10 DEF PaidNext, Outcome

\* The invariant holds of every reachable state of the ledger and its callers.
LEMMA PaidInvariant == PaidSpec => []PaidInv
<1>1. PaidInv /\ [PaidNext]_paidVars => PaidInv'
  BY PaidTypesOn, CallsOn DEF PaidInv
<1> QED
  BY <1>1, PaidInitInv, PTL DEF PaidSpec

\* The variables keep their types: no request's account counts two calls, and
\* an approval is never in the future.
THEOREM PaidTyped == PaidSpec => []PaidTypeOK
<1>1. PaidInv => PaidTypeOK
  BY DEF PaidInv, PaidTypes, PaidTypeOK, Ledger, Reservation, Usage
<1> QED
  BY <1>1, PaidInvariant, PTL

\* Whatever dies or fails, a request is paid once, and what stays reserved with
\* no call that will settle it belongs to a call that was cut short.
THEOREM ReservationsAreSoundHolds == PaidSpec => []ReservationsAreSound
<1>1. PaidInv => ReservationsAreSound
  BY DEF PaidInv
<1> QED
  BY <1>1, PaidInvariant, PTL

----------------------------------------------------------------------------
(* The budgets (assertWithinBudgets).                                      *)

Charges == [r \in ModelRequest |-> Charge(r)]

\* No reservation has a date to come: a reservation on a new day is the first.
DatesHavePassed == \A r \in Reserved : ledger.reservations[r].day <= Day(now)

WithinLimits ==
  /\ \A d \in Nat : Spend(OfDay(d)) <= Limit.day
  /\ \A r \in ModelRequest : Spend(OfMission(Mission[r])) <= Limit.mission
  /\ Spend(Reserved) <= Limit.all

StoppedByAnomaly == ledger.anomalyStop /\ ledger.killSwitch = "ACTIVE"

BudgetInv == DatesHavePassed /\ (StoppedByAnomaly \/ WithinLimits)

LEMMA DayIncreases ==
  ASSUME NEW t \in Nat, NEW u \in Nat, t <= u
  PROVE  Day(t) \in Int /\ Day(u) \in Int /\ Day(t) <= Day(u)
<1> DEFINE m == t + DayLength - 1
           n == u + DayLength - 1
<1>1. m \in Nat /\ n \in Nat /\ m <= n /\ DayLength \in Nat /\ DayLength > 0
  BY PaidAssumption
<1> HIDE DEF m, n
<1>2. m \div DayLength \in Int /\ n \div DayLength \in Int /\ m \div DayLength <= n \div DayLength
  BY <1>1, SMTT(30)
<1> QED
  BY <1>2 DEF Day, m, n

\* Every request has a charge, so every set of requests has a sum.
LEMMA SpendTyped ==
  ASSUME PaidTypes
  PROVE  /\ Charges \in [ModelRequest -> Nat]
         /\ \A R \in SUBSET ModelRequest : IsFiniteSet(R) /\ Spend(R) \in Nat
<1>1. \A r \in ModelRequest : Charge(r) \in Nat
  BY PaidBounds DEF Charge, PaidTypes, Ledger, Usage
<1>2. Charges \in [ModelRequest -> Nat]
  BY <1>1 DEF Charges
<1>3. ASSUME NEW R \in SUBSET ModelRequest PROVE IsFiniteSet(R) /\ Spend(R) \in Nat
  <2>1. IsFiniteSet(R)
    BY PaidAssumption, FS_Subset
  <2>2. SumFunctionOnSet(Charges, R) \in Nat
    BY <1>2, <2>1, SumIsNatural
  <2> QED BY <2>1, <2>2 DEF Spend, Charges
<1> QED BY <1>2, <1>3

\* A step that reserves nothing and charges nobody more keeps the limits.
LEMMA LimitsKept ==
  ASSUME PaidTypes, PaidTypes', WithinLimits,
         \A r \in ModelRequest :
           /\ Charge(r)' <= Charge(r)
           /\ (r \in Reserved)' <=> r \in Reserved
           /\ ledger'.reservations[r].day = ledger.reservations[r].day
  PROVE  WithinLimits'
<1>1. /\ Reserved' = Reserved
      /\ \A d : OfDay(d)' = OfDay(d)
      /\ \A m : OfMission(m)' = OfMission(m)
  BY DEF Reserved, OfDay, OfMission
<1>a. \A r \in ModelRequest : Charge(r) \in Nat /\ Charge(r)' \in Nat
  BY PaidBounds DEF Charge, PaidTypes, Ledger, Usage
<1>b. \A r \in ModelRequest : Charges[r] = Charge(r) /\ Charges'[r] = Charge(r)'
  BY DEF Charges
<1>2. \A r \in ModelRequest : Charges[r] \in Nat /\ Charges'[r] \in Nat /\ Charges'[r] <= Charges[r]
  BY <1>a, <1>b
<1>3. ASSUME NEW R \in SUBSET ModelRequest
      PROVE  SumFunctionOnSet(Charges', R) <= SumFunctionOnSet(Charges, R)
  <2>1. IsFiniteSet(R)
    BY SpendTyped
  <2>2. \A r \in R : Charges[r] \in Int /\ Charges'[r] \in Int /\ Charges'[r] <= Charges[r]
    BY <1>2
  <2> QED BY <2>1, <2>2, SumMonotone
<1>4. /\ Reserved \in SUBSET ModelRequest
      /\ \A d : OfDay(d) \in SUBSET ModelRequest
      /\ \A m : OfMission(m) \in SUBSET ModelRequest
  BY DEF Reserved, OfDay, OfMission
<1>5. ASSUME NEW R \in SUBSET ModelRequest, NEW limit \in Nat, Spend(R) <= limit
      PROVE  SumFunctionOnSet(Charges', R) <= limit
  <2>1. SumFunctionOnSet(Charges, R) = Spend(R)
    BY DEF Spend, Charges
  <2>2. SumFunctionOnSet(Charges, R) \in Nat /\ SumFunctionOnSet(Charges', R) \in Nat
    BY <1>2, SpendTyped, SumIsNatural
  <2> QED BY <1>3, <1>5, <2>1, <2>2
<1>6. Limit.day \in Nat /\ Limit.mission \in Nat /\ Limit.all \in Nat
  BY PaidAssumption
<1>7. /\ \A d \in Nat : SumFunctionOnSet(Charges', OfDay(d)) <= Limit.day
      /\ \A r \in ModelRequest : SumFunctionOnSet(Charges', OfMission(Mission[r])) <= Limit.mission
      /\ SumFunctionOnSet(Charges', Reserved) <= Limit.all
  BY <1>4, <1>5, <1>6 DEF WithinLimits
<1> QED
  BY <1>1, <1>7 DEF WithinLimits, Spend, Charges

\* A reservation is within the limits of its own day, mission and all.
LEMMA LimitsOnReserve ==
  ASSUME PaidTypes, BudgetInv, WithinLimits,
         NEW r \in ModelRequest, r \notin Reserved, WithinBudgets(r, Day(now)),
         NEW later \in {now, now + 1}, later <= Horizon,
         ledger' = [ledger EXCEPT !.reservations[r] = [status |-> "OPEN", day |-> Day(later)]]
  PROVE  WithinLimits'
<1>1. now \in Nat /\ later \in Nat /\ now <= later
  <2>1. now \in 0 .. Horizon /\ Horizon \in Nat
    BY PaidBounds DEF PaidTypes
  <2> QED BY <2>1
<1>2. Day(now) \in Nat /\ Day(later) \in Nat /\ Day(now) <= Day(later)
  BY <1>1, DayIsNat, DayIncreases
<1>3. /\ ledger' \in Ledger /\ ledger'.settlements = ledger.settlements
      /\ ledger'.reservations = [ledger.reservations EXCEPT ![r] = [status |-> "OPEN", day |-> Day(later)]]
  <2>1. [status |-> "OPEN", day |-> Day(later)] \in Reservation
    BY <1>2 DEF Reservation
  <2>2. ledger \in Ledger
    BY DEF PaidTypes
  <2>3. ledger'.settlements = ledger.settlements
    BY <2>2 DEF Ledger
  <2> QED BY <2>1, <2>2, <2>3, ReserveWrites
<1>4. /\ ledger'.reservations[r].status = "OPEN" /\ ledger'.reservations[r].day = Day(later)
      /\ \A q \in ModelRequest \ {r} : ledger'.reservations[q] = ledger.reservations[q]
  <2> DEFINE record == [status |-> "OPEN", day |-> Day(later)]
  <2>1. record.status = "OPEN" /\ record.day = Day(later)
    OBVIOUS
  <2>2. ledger'.reservations = [ledger.reservations EXCEPT ![r] = record] /\ r \in DOMAIN ledger.reservations
    BY <1>3 DEF PaidTypes, Ledger
  <2> HIDE DEF record
  <2> QED
    BY <2>1, <2>2 DEF PaidTypes, Ledger
<1>5. Charges' = Charges
  <2>1. \A q \in ModelRequest : Charge(q)' = Charge(q)
    <3>1. ledger.reservations[r].status = "none"
      BY DEF Reserved
    <3> QED BY <1>3, <1>4, <3>1 DEF Charge
  <2> QED BY <2>1 DEF Charges
<1>6. /\ Reserved' = Reserved \cup {r}
      /\ \A d : OfDay(d)' = IF d = Day(later) THEN OfDay(d) \cup {r} ELSE OfDay(d)
      /\ \A m : OfMission(m)' = IF m = Mission[r] THEN OfMission(m) \cup {r} ELSE OfMission(m)
  <2>1. Reserved' = Reserved \cup {r}
    BY <1>4 DEF Reserved
  <2>2. \A d : OfDay(d)' = IF d = Day(later) THEN OfDay(d) \cup {r} ELSE OfDay(d)
    BY <1>4, <2>1 DEF OfDay, Reserved
  <2>3. \A m : OfMission(m)' = IF m = Mission[r] THEN OfMission(m) \cup {r} ELSE OfMission(m)
    BY <2>1 DEF OfMission
  <2> QED BY <2>1, <2>2, <2>3
<1>7. Estimate[r] \in Nat /\ Charges[r] = Estimate[r] /\ \A q \in ModelRequest : Charges[q] \in Nat
  BY PaidBounds, SpendTyped DEF Charges, Charge, Reserved
<1>8. ASSUME NEW R \in SUBSET ModelRequest, r \notin R
      PROVE  SumFunctionOnSet(Charges, R \cup {r}) = Spend(R) + Estimate[r]
  <2>1. IsFiniteSet(R) /\ Charges[r] \in Int /\ \A q \in R : Charges[q] \in Int
    BY <1>7, SpendTyped
  <2>2. SumFunctionOnSet(Charges, R \cup {r}) = SumFunctionOnSet(Charges, R) + Charges[r]
    BY <1>8, <2>1, SumAdds
  <2> QED BY <1>7, <2>2 DEF Spend, Charges
<1>9. /\ Reserved \in SUBSET ModelRequest /\ r \notin Reserved
      /\ \A d : OfDay(d) \in SUBSET ModelRequest /\ r \notin OfDay(d)
      /\ \A m : OfMission(m) \in SUBSET ModelRequest /\ r \notin OfMission(m)
  BY DEF Reserved, OfDay, OfMission
<1>10. \A R \in SUBSET ModelRequest : SumFunctionOnSet(Charges, R) = Spend(R)
  BY DEF Spend, Charges
<1>11. Spend(OfDay(Day(later))) + Estimate[r] <= Limit.day
  <2>1. CASE Day(later) = Day(now)
    BY <2>1 DEF WithinBudgets
  <2>2. CASE Day(later) # Day(now)
    <3>1. OfDay(Day(later)) = {}
      <4>1. \A q \in Reserved : ledger.reservations[q].day \in Nat /\ ledger.reservations[q].day <= Day(now)
        BY DEF BudgetInv, DatesHavePassed, Reserved, PaidTypes, Ledger, Reservation
      <4> QED BY <1>2, <2>2, <4>1 DEF OfDay
    <3>2. Spend({}) = 0
      BY SumOfNone DEF Spend
    <3>3. Spend(OfDay(Day(now))) + Estimate[r] <= Limit.day /\ Spend(OfDay(Day(now))) \in Nat
      BY <1>9, SpendTyped DEF WithinBudgets
    <3>4. Limit.day \in Nat
      BY PaidAssumption
    <3> QED BY <1>7, <3>1, <3>2, <3>3, <3>4
  <2> QED BY <2>1, <2>2
<1>12. \A d \in Nat : SumFunctionOnSet(Charges, OfDay(d)') <= Limit.day
  BY <1>6, <1>8, <1>9, <1>10, <1>11 DEF WithinLimits
<1>13. \A q \in ModelRequest : SumFunctionOnSet(Charges, OfMission(Mission[q])') <= Limit.mission
  <2>1. Spend(OfMission(Mission[r])) + Estimate[r] <= Limit.mission
    BY DEF WithinBudgets
  <2> QED BY <1>6, <1>8, <1>9, <1>10, <2>1 DEF WithinLimits
<1>14. SumFunctionOnSet(Charges, Reserved') <= Limit.all
  <2>1. Spend(Reserved) + Estimate[r] <= Limit.all
    BY DEF WithinBudgets
  <2> QED BY <1>6, <1>8, <1>9, <2>1
<1> QED
  BY <1>5, <1>12, <1>13, <1>14 DEF WithinLimits, Spend, Charges

\* A step that leaves the ledger alone keeps the budgets, whatever the clock does.
LEMMA BudgetsRest ==
  ASSUME PaidTypes, PaidTypes', BudgetInv, ledger' = ledger, now <= now'
  PROVE  BudgetInv'
<1>1. now \in Nat /\ now' \in Nat
  <2>1. now \in 0 .. Horizon /\ now' \in 0 .. Horizon /\ Horizon \in Nat
    BY PaidBounds DEF PaidTypes
  <2> QED BY <2>1
<1>2. Day(now) \in Int /\ Day(now)' \in Int /\ Day(now) <= Day(now)'
  <2>1. Day(now') \in Int /\ Day(now) \in Int /\ Day(now) <= Day(now')
    BY <1>1, DayIncreases
  <2> QED BY <2>1 DEF Day
<1>3. DatesHavePassed'
  <2>1. \A r \in Reserved : ledger.reservations[r].day \in Nat /\ ledger.reservations[r].day <= Day(now)
    BY DEF BudgetInv, DatesHavePassed, Reserved, PaidTypes, Ledger, Reservation
  <2>2. \A r \in Reserved : ledger.reservations[r].day <= Day(now)'
    BY <1>2, <2>1
  <2> QED BY <2>2 DEF DatesHavePassed, Reserved
<1>4. StoppedByAnomaly \/ WithinLimits
  BY DEF BudgetInv
<1>5. (StoppedByAnomaly' <=> StoppedByAnomaly) /\ (WithinLimits' <=> WithinLimits)
  BY DEF StoppedByAnomaly, WithinLimits, Spend, Charge, OfDay, OfMission, Reserved
<1> QED BY <1>3, <1>4, <1>5 DEF BudgetInv

\* A settlement charges what the answer cost, at most the estimate, or stops everything.
LEMMA BudgetsOnSettle ==
  ASSUME PaidTypes, PaidTypes', CallsAreReserved, BudgetInv, NEW r \in ModelRequest, Settle(r)
  PROVE  BudgetInv'
<1>1. /\ ledger \in Ledger /\ answer[r] \in Usage /\ ledger.reservations[r] \in Reservation
      /\ ledger.reservations[r].status = "OPEN"
      /\ now' = now
  BY DEF PaidTypes, Ledger, CallsAreReserved, Settle
<1>2. ledger'.reservations =
        [ledger.reservations EXCEPT ![r] = [ledger.reservations[r] EXCEPT !.status = "SETTLED"]]
  BY <1>1, SettleWrites
<1>3. /\ ledger'.reservations[r].status = "SETTLED"
      /\ ledger'.reservations[r].day = ledger.reservations[r].day
      /\ \A q \in ModelRequest \ {r} : ledger'.reservations[q] = ledger.reservations[q]
  BY <1>1, <1>2 DEF Ledger, Reservation
<1>4. /\ ledger'.settlements = [ledger.settlements EXCEPT ![r] = answer[r]]
      /\ ledger'.anomalyStop = (ledger.anomalyStop \/ Anomaly(r))
      /\ ledger'.killSwitch = IF Anomaly(r) THEN "ACTIVE" ELSE ledger.killSwitch
  BY <1>1 DEF Settle, Ledger
<1>5. Reserved' = Reserved
  BY <1>1, <1>3 DEF Reserved
<1>6. DatesHavePassed'
  <2>1. Day(now)' = Day(now) /\ \A q \in Reserved : ledger'.reservations[q].day = ledger.reservations[q].day
    BY <1>1, <1>3 DEF Day, Reserved
  <2> QED BY <1>5, <2>1 DEF DatesHavePassed, BudgetInv
<1>7. CASE Anomaly(r) \/ StoppedByAnomaly
  BY <1>4, <1>6, <1>7 DEF BudgetInv, StoppedByAnomaly
<1>8. CASE ~Anomaly(r) /\ WithinLimits
  <2>1. answer[r].cost <= Estimate[r] /\ answer[r].cost \in Nat /\ Estimate[r] \in Nat
    BY <1>1, <1>8, PaidBounds DEF Anomaly, Usage
  <2>2. Charge(r) = Estimate[r] /\ Charge(r)' = answer[r].cost
    BY <1>1, <1>3, <1>4 DEF Charge, Ledger
  <2>3. \A q \in ModelRequest \ {r} : Charge(q)' = Charge(q) /\ Charge(q) \in Nat
    BY <1>1, <1>3, <1>4, PaidBounds DEF Charge, Ledger, Usage
  <2>4. \A q \in ModelRequest : Charge(q)' <= Charge(q)
    BY <2>1, <2>2, <2>3
  <2>5. \A q \in ModelRequest : ledger'.reservations[q].day = ledger.reservations[q].day
    BY <1>3
  <2>6. \A q \in ModelRequest : (q \in Reserved)' <=> q \in Reserved
    BY <1>5
  <2>7. WithinLimits'
    BY <1>8, <2>4, <2>5, <2>6, LimitsKept
  <2> QED BY <1>6, <2>7 DEF BudgetInv
<1> QED BY <1>7, <1>8 DEF BudgetInv

LEMMA BudgetsOn ==
  ASSUME PaidTypes, PaidTypes', CallsAreReserved, BudgetInv
  PROVE  [PaidNext]_paidVars => BudgetInv'
<1>a. now \in Nat /\ Horizon \in Nat
  <2>1. now \in 0 .. Horizon /\ Horizon \in Nat
    BY PaidBounds DEF PaidTypes
  <2> QED BY <2>1
<1>1. CASE UNCHANGED paidVars
  BY <1>1, <1>a, BudgetsRest DEF paidVars
<1>2. ASSUME NEW r \in ModelRequest, Generate(r) PROVE BudgetInv'
  BY <1>2, <1>a, BudgetsRest DEF Generate
<1>3. ASSUME NEW r \in ModelRequest, Reserve(r) PROVE BudgetInv'
  <2>1. CASE RefuseReservation(r) /\ UNCHANGED <<now, ledger>>
    BY <1>a, <2>1, BudgetsRest
  <2>2. ASSUME r \notin Reserved, CostControlOpen, WithinBudgets(r, Day(now)),
               NEW later \in {now, now + 1}, later <= Horizon, now' = later,
               ledger' = [ledger EXCEPT !.reservations[r] =
                            [status |-> "OPEN", day |-> Day(later)]]
        PROVE  BudgetInv'
    <3>1. ~StoppedByAnomaly
      BY <2>2 DEF CostControlOpen, StoppedByAnomaly
    <3>2. WithinLimits'
      BY <2>2, <3>1, LimitsOnReserve DEF BudgetInv
    <3>3. later \in Nat /\ now <= later
      BY <1>a
    <3>4. Day(now) \in Nat /\ Day(later) \in Nat /\ Day(now) <= Day(later) /\ Day(now)' = Day(later)
      <4>1. Day(now)' = Day(later)
        BY <2>2 DEF Day
      <4> QED BY <1>a, <3>3, <4>1, DayIsNat, DayIncreases
    <3>5. ledger'.reservations = [ledger.reservations EXCEPT ![r] = [status |-> "OPEN", day |-> Day(later)]]
      <4>1. [status |-> "OPEN", day |-> Day(later)] \in Reservation
        BY <3>4 DEF Reservation
      <4> QED BY <2>2, <4>1, ReserveWrites DEF PaidTypes
    <3>6. /\ ledger'.reservations[r].day = Day(later)
          /\ \A q \in ModelRequest \ {r} : ledger'.reservations[q] = ledger.reservations[q]
      <4> DEFINE record == [status |-> "OPEN", day |-> Day(later)]
      <4>1. record.day = Day(later)
        OBVIOUS
      <4>2. ledger'.reservations = [ledger.reservations EXCEPT ![r] = record]
        BY <3>5
      <4> HIDE DEF record
      <4> QED BY <4>1, <4>2 DEF PaidTypes, Ledger
    <3>7. \A q \in Reserved : ledger.reservations[q].day \in Nat /\ ledger.reservations[q].day <= Day(now)
      BY DEF BudgetInv, DatesHavePassed, Reserved, PaidTypes, Ledger, Reservation
    <3>8. \A q \in Reserved' : q = r \/ q \in Reserved
      BY <3>6 DEF Reserved
    <3>9. \A q \in Reserved' : ledger'.reservations[q].day <= Day(later)
      <4> SUFFICES ASSUME NEW q \in Reserved' PROVE ledger'.reservations[q].day <= Day(later)
        OBVIOUS
      <4>1. CASE q = r
        BY <3>4, <3>6, <4>1
      <4>2. CASE q # r
        <5>1. q \in Reserved /\ ledger'.reservations[q] = ledger.reservations[q]
          BY <3>6, <3>8, <4>2 DEF Reserved
        <5> QED BY <3>4, <3>7, <5>1
      <4> QED BY <4>1, <4>2
    <3> QED BY <3>2, <3>4, <3>9 DEF BudgetInv, DatesHavePassed
  <2> QED BY <1>3, <2>1, <2>2 DEF Reserve
<1>4. ASSUME NEW r \in ModelRequest, Outcome(r) PROVE BudgetInv'
  <2>1. PICK cost \in Nat, counted \in {0, 1} : Answered(r, cost, counted)
    BY <1>4, OutcomeAnswers
  <2>2. ledger' = ledger /\ now' = now
    BY <2>1 DEF Answered
  <2> QED BY <1>a, <2>2, BudgetsRest
<1>5. ASSUME NEW r \in ModelRequest, GatewayThrows(r) PROVE BudgetInv'
  <2>1. ledger' = ledger /\ now' = now
    BY <1>5 DEF GatewayThrows
  <2> QED BY <1>a, <2>1, BudgetsRest
<1>6. ASSUME NEW r \in ModelRequest, Settle(r) PROVE BudgetInv'
  BY <1>6, BudgetsOnSettle
<1>7. ASSUME NEW r \in ModelRequest, ActivateKillSwitch(r) PROVE BudgetInv'
  <2>1. /\ ledger'.reservations = ledger.reservations /\ ledger'.settlements = ledger.settlements
        /\ ledger'.anomalyStop = ledger.anomalyStop /\ ledger'.killSwitch = "ACTIVE"
        /\ now' = now
    BY <1>7 DEF ActivateKillSwitch, PaidTypes, Ledger
  <2>2. DatesHavePassed'
    BY <2>1 DEF BudgetInv, DatesHavePassed, Reserved, Day
  <2>3. WithinLimits' <=> WithinLimits
    BY <2>1 DEF WithinLimits, Spend, Charge, OfDay, OfMission, Reserved
  <2> QED BY <2>1, <2>2, <2>3 DEF BudgetInv, StoppedByAnomaly
<1>8. ASSUME NEW r \in ModelRequest, LedgerFails(r) PROVE BudgetInv'
  BY <1>8, <1>a, BudgetsRest DEF LedgerFails
<1>9. CASE GatewayCrash
  BY <1>9, <1>a, BudgetsRest DEF GatewayCrash
<1>10. CASE PaidTick
  BY <1>10, <1>a, BudgetsRest DEF PaidTick
<1> QED
  BY <1>1, <1>2, <1>3, <1>4, <1>5, <1>6, <1>7, <1>8, <1>9, <1>10 DEF PaidNext, Outcome

LEMMA BudgetsAtFirst == PaidInit => BudgetInv
<1> SUFFICES ASSUME PaidInit PROVE BudgetInv
  OBVIOUS
<1>1. Reserved = {} /\ (\A d : OfDay(d) = {}) /\ (\A m : OfMission(m) = {})
  BY DEF PaidInit, Reserved, NoReservation, OfDay, OfMission
<1>2. Spend({}) = 0
  BY SumOfNone DEF Spend
<1>3. Limit.day \in Nat /\ Limit.mission \in Nat /\ Limit.all \in Nat
  BY PaidAssumption
<1>4. WithinLimits
  BY <1>1, <1>2, <1>3 DEF WithinLimits
<1> QED BY <1>1, <1>4 DEF BudgetInv, DatesHavePassed

\* However calls interleave, across midnight and across restarts, what is reserved
\* and settled stays within the budget of each day, of each mission and of all,
\* unless a settlement above its estimate has stopped everything (reserve, settle).
THEOREM BudgetsHoldAlways == PaidSpec => []BudgetsHold
<1>1. PaidInv /\ PaidInv' /\ BudgetInv /\ [PaidNext]_paidVars => BudgetInv'
  BY BudgetsOn DEF PaidInv
<1>2. PaidSpec => []BudgetInv
  BY <1>1, PaidInvariant, BudgetsAtFirst, PTL DEF PaidSpec
<1>3. BudgetInv => BudgetsHold
  <2>1. 0 .. Day(Horizon) \subseteq Nat
    BY PaidBounds, DayIsNat
  <2> QED BY <2>1 DEF BudgetInv, StoppedByAnomaly, WithinLimits, BudgetsHold
<1> QED BY <1>2, <1>3, PTL

-----------------------------------------------------------------------------
(* The runner's transactions.                                                *)

Running(t) == transaction[t].state = "RUNNING"

Written(t) == {b \in Branch : transaction[t].branches[b] = "WRITTEN"}

\* A transaction that is under way is the first of its queue, its scope is open,
\* and its connection holds what it has written and nothing else.
RunsAlone(t) ==
  Running(t) => /\ IsHead(t) /\ connection[RunnerOf[t]].open
                /\ connection[RunnerOf[t]].begun
                /\ connection[RunnerOf[t]].writes = {t} \X Written(t)

ScopeIsOpen(t) == transaction[t].active <=> Running(t)

NotBegun(t) ==
  transaction[t].state \in {"NEW", "QUEUED"} =>
    \A b \in Branch : transaction[t].branches[b] = "TODO"

Sound(t) == RunsAlone(t) /\ ScopeIsOpen(t) /\ NotBegun(t)

\* Without a transaction a connection holds no writes, and nobody waits for one that
\* is closed.
Clean(r) ==
  /\ ~connection[r].begun => connection[r].writes = {}
  /\ ~connection[r].open => ~connection[r].begun /\ runner[r].queue = <<>>

RunnerInv ==
  /\ RunnerTypeOK
  /\ \A t \in Txn : Sound(t)
  /\ \A r \in Runner : Clean(r)

-----------------------------------------------------------------------------
(* The queue of a runner. *)

LEMMA OneRuns ==
  ASSUME RunnerInv, NEW t \in Txn, NEW u \in Txn, IsHead(t), Running(u), RunnerOf[u] = RunnerOf[t]
  PROVE  u = t
  BY DEF RunnerInv, Sound, RunsAlone, IsHead

-----------------------------------------------------------------------------
(* What the actions leave in the records. *)

TxnState == {"NEW", "QUEUED", "RUNNING", "DONE", "FAILED", "LOST"}
TxnRecord == [state : TxnState, active : BOOLEAN, branches : [Branch -> {"TODO", "WRITTEN", "FAILED"}]]

\* What an action does to one transaction, all others being left as they are.
TxnBecomes(t, state, active, branches) ==
  /\ transaction' \in [Txn -> TxnRecord]
  /\ transaction'[t].state = state /\ transaction'[t].active = active
  /\ transaction'[t].branches = branches
  /\ \A u \in Txn \ {t} : transaction'[u] = transaction[u]

LEMMA TxnTurns ==
  ASSUME RunnerTypeOK, NEW t \in Txn, NEW rec \in TxnRecord,
         transaction' = [transaction EXCEPT ![t] = rec]
  PROVE  TxnBecomes(t, rec.state, rec.active, rec.branches)
  BY DEF RunnerTypeOK, TxnBecomes, TxnRecord, TxnState

LEMMA EndsTurns ==
  ASSUME RunnerTypeOK, NEW t \in Txn, NEW state \in TxnState, EndsAs(t, state)
  PROVE  TxnBecomes(t, state, FALSE, transaction[t].branches)
<1> DEFINE rec == [transaction[t] EXCEPT !.state = state, !.active = FALSE]
<1>1. rec \in TxnRecord /\ rec.state = state /\ rec.active = FALSE /\ rec.branches = transaction[t].branches
  BY DEF RunnerTypeOK, TxnRecord, TxnState
<1>2. transaction' = [transaction EXCEPT ![t] = rec]
  BY DEF EndsAs
<1> HIDE DEF rec
<1> QED
  BY <1>1, <1>2, TxnTurns

LEMMA BeginTurns ==
  ASSUME RunnerTypeOK, NEW t \in Txn, Begin(t)
  PROVE  TxnBecomes(t, "RUNNING", TRUE, transaction[t].branches)
<1> DEFINE rec == [transaction[t] EXCEPT !.state = "RUNNING", !.active = TRUE]
<1>1. rec \in TxnRecord /\ rec.state = "RUNNING" /\ rec.active = TRUE /\ rec.branches = transaction[t].branches
  BY DEF RunnerTypeOK, TxnRecord, TxnState
<1>2. transaction' = [transaction EXCEPT ![t] = rec]
  BY DEF Begin
<1> HIDE DEF rec
<1> QED
  BY <1>1, <1>2, TxnTurns

LEMMA QueuedTurns ==
  ASSUME RunnerTypeOK, NEW t \in Txn, transaction' = [transaction EXCEPT ![t].state = "QUEUED"]
  PROVE  TxnBecomes(t, "QUEUED", transaction[t].active, transaction[t].branches)
<1> DEFINE rec == [transaction[t] EXCEPT !.state = "QUEUED"]
<1>1. rec \in TxnRecord /\ rec.state = "QUEUED" /\ rec.active = transaction[t].active /\ rec.branches = transaction[t].branches
  BY DEF RunnerTypeOK, TxnRecord, TxnState
<1>2. transaction' = [transaction EXCEPT ![t] = rec]
  OBVIOUS
<1> HIDE DEF rec
<1> QED
  BY <1>1, <1>2, TxnTurns

LEMMA RefusedTurns ==
  ASSUME RunnerTypeOK, NEW t \in Txn,
         transaction' = [transaction EXCEPT ![t].state = "FAILED", ![t].branches = NoBranches]
  PROVE  TxnBecomes(t, "FAILED", transaction[t].active, NoBranches)
<1> DEFINE rec == [transaction[t] EXCEPT !.state = "FAILED", !.branches = NoBranches]
<1>1. rec \in TxnRecord /\ rec.state = "FAILED" /\ rec.active = transaction[t].active /\ rec.branches = NoBranches
  BY DEF RunnerTypeOK, TxnRecord, TxnState, NoBranches
<1>2. transaction' = [transaction EXCEPT ![t] = rec]
  OBVIOUS
<1> HIDE DEF rec
<1> QED
  BY <1>1, <1>2, TxnTurns

LEMMA BranchTurns ==
  ASSUME RunnerTypeOK, NEW t \in Txn, NEW b \in Branch, NEW as \in {"TODO", "WRITTEN", "FAILED"},
         BranchEnds(t, b, as)
  PROVE  TxnBecomes(t, transaction[t].state, transaction[t].active,
               [transaction[t].branches EXCEPT ![b] = as])
<1> DEFINE rec == [transaction[t] EXCEPT !.branches = [transaction[t].branches EXCEPT ![b] = as]]
<1>1. rec \in TxnRecord /\ rec.state = transaction[t].state /\ rec.active = transaction[t].active
      /\ rec.branches = [transaction[t].branches EXCEPT ![b] = as]
  BY DEF RunnerTypeOK, TxnRecord, TxnState
<1>2. transaction' = [transaction EXCEPT ![t] = rec]
  BY DEF BranchEnds
<1> HIDE DEF rec
<1> QED
  BY <1>1, <1>2, TxnTurns

ConnectionRecord == [open : BOOLEAN, begun : BOOLEAN, writes : SUBSET (Txn \X Branch)]

Connects(r, open, begun, writes) ==
  /\ connection' \in [Runner -> ConnectionRecord]
  /\ connection'[r].open = open /\ connection'[r].begun = begun /\ connection'[r].writes = writes
  /\ \A q \in Runner \ {r} : connection'[q] = connection[q]

LEMMA ConnectionConnects ==
  ASSUME RunnerTypeOK, NEW r \in Runner, NEW rec \in ConnectionRecord,
         connection' = [connection EXCEPT ![r] = rec]
  PROVE  Connects(r, rec.open, rec.begun, rec.writes)
  BY DEF RunnerTypeOK, Connects, ConnectionRecord

LEMMA Connected ==
  ASSUME NEW c \in ConnectionRecord, NEW begun \in BOOLEAN, NEW writes \in SUBSET (Txn \X Branch)
  PROVE  /\ [c EXCEPT !.begun = begun] \in ConnectionRecord
         /\ [c EXCEPT !.writes = writes] \in ConnectionRecord
         /\ [c EXCEPT !.begun = begun, !.writes = writes] \in ConnectionRecord
         /\ [open |-> begun, begun |-> FALSE, writes |-> {}] \in ConnectionRecord
  BY Zenon DEF ConnectionRecord

LEMMA BeginConnects ==
  ASSUME RunnerTypeOK, NEW r \in Runner, connection' = [connection EXCEPT ![r].begun = TRUE]
  PROVE  Connects(r, connection[r].open, TRUE, connection[r].writes)
<1> DEFINE rec == [connection[r] EXCEPT !.begun = TRUE]
<1>0. connection[r] \in ConnectionRecord
  BY DEF RunnerTypeOK, ConnectionRecord
<1>1. rec \in ConnectionRecord
  BY <1>0, Connected
<1>3. rec.open = connection[r].open /\ rec.begun = TRUE /\ rec.writes = connection[r].writes
  BY <1>0 DEF ConnectionRecord
<1>2. connection' = [connection EXCEPT ![r] = rec]
  OBVIOUS
<1> HIDE DEF rec
<1> QED
  BY <1>1, <1>2, <1>3, ConnectionConnects

LEMMA WriteConnects ==
  ASSUME RunnerTypeOK, NEW r \in Runner, NEW w \in Txn \X Branch,
         connection' = [connection EXCEPT ![r].writes = @ \union {w}]
  PROVE  Connects(r, connection[r].open, connection[r].begun, connection[r].writes \union {w})
<1> DEFINE rec == [connection[r] EXCEPT !.writes = connection[r].writes \union {w}]
<1>0. connection[r] \in ConnectionRecord
  BY DEF RunnerTypeOK, ConnectionRecord
<1>1. rec \in ConnectionRecord
  <2>1. connection[r].writes \union {w} \in SUBSET (Txn \X Branch)
    BY <1>0 DEF ConnectionRecord
  <2> QED
    BY <1>0, <2>1, Connected
<1>3. /\ rec.open = connection[r].open /\ rec.begun = connection[r].begun
      /\ rec.writes = connection[r].writes \union {w}
  BY <1>0 DEF ConnectionRecord
<1>2. connection' = [connection EXCEPT ![r] = rec]
  OBVIOUS
<1> HIDE DEF rec
<1> QED
  BY <1>1, <1>2, <1>3, ConnectionConnects

LEMMA EndConnects ==
  ASSUME RunnerTypeOK, NEW r \in Runner, connection' = NoTransaction(r)
  PROVE  Connects(r, connection[r].open, FALSE, {})
<1> DEFINE rec == [connection[r] EXCEPT !.begun = FALSE, !.writes = {}]
<1>0. connection[r] \in ConnectionRecord
  BY DEF RunnerTypeOK, ConnectionRecord
<1>1. rec \in ConnectionRecord
  BY <1>0, Connected
<1>3. rec.open = connection[r].open /\ rec.begun = FALSE /\ rec.writes = {}
  BY <1>0 DEF ConnectionRecord
<1>2. connection' = [connection EXCEPT ![r] = rec]
  BY DEF NoTransaction
<1> HIDE DEF rec
<1> QED
  BY <1>1, <1>2, <1>3, ConnectionConnects

LEMMA CloseConnects ==
  ASSUME RunnerTypeOK, NEW r \in Runner
  PROVE  /\ connection' = [connection EXCEPT ![r] = Closed] => Connects(r, FALSE, FALSE, {})
         /\ connection' = [connection EXCEPT ![r] = Opened] => Connects(r, TRUE, FALSE, {})
<1>1. connection[r] \in ConnectionRecord
  BY DEF RunnerTypeOK, ConnectionRecord
<1>2. Closed \in ConnectionRecord /\ Opened \in ConnectionRecord
  BY <1>1, Connected DEF Closed, Opened
<1> QED
  BY <1>2, ConnectionConnects, Zenon DEF Closed, Opened

RunnerRecord == [accepting : BOOLEAN, queue : Seq(Txn)]

Lines(r, queue) ==
  /\ runner' \in [Runner -> RunnerRecord]
  /\ runner'[r].queue = queue
  /\ \A q \in Runner \ {r} : runner'[q] = runner[q]

LEMMA RunnerLines ==
  ASSUME RunnerTypeOK, NEW r \in Runner, NEW rec \in RunnerRecord,
         runner' = [runner EXCEPT ![r] = rec]
  PROVE  Lines(r, rec.queue)
  BY DEF RunnerTypeOK, Lines, RunnerRecord

LEMMA CallLines ==
  ASSUME RunnerTypeOK, NEW r \in Runner, NEW t \in Txn,
         runner' = [runner EXCEPT ![r].queue = Append(@, t)]
  PROVE  Lines(r, Append(runner[r].queue, t))
<1> DEFINE rec == [runner[r] EXCEPT !.queue = Append(runner[r].queue, t)]
<1>1. Append(runner[r].queue, t) \in Seq(Txn)
  BY AppendProperties DEF RunnerTypeOK
<1>2. rec \in RunnerRecord /\ rec.queue = Append(runner[r].queue, t)
  BY <1>1 DEF RunnerTypeOK, RunnerRecord
<1>3. runner' = [runner EXCEPT ![r] = rec]
  OBVIOUS
<1> HIDE DEF rec
<1> QED
  BY <1>2, <1>3, RunnerLines

LEMMA DequeuedLines ==
  ASSUME RunnerTypeOK, NEW t \in Txn, IsHead(t), runner' = Dequeued(t)
  PROVE  Lines(RunnerOf[t], Tail(runner[RunnerOf[t]].queue))
<1> DEFINE r == RunnerOf[t]
           rec == [runner[r] EXCEPT !.queue = Tail(runner[r].queue)]
<1>1. r \in Runner
  BY RunnerAssumption
<1>2. Tail(runner[r].queue) \in Seq(Txn)
  BY <1>1, HeadTailProperties DEF RunnerTypeOK, IsHead
<1>3. rec \in RunnerRecord /\ rec.queue = Tail(runner[r].queue)
  BY <1>1, <1>2 DEF RunnerTypeOK, RunnerRecord
<1>4. runner' = [runner EXCEPT ![r] = rec]
  BY DEF Dequeued
<1> HIDE DEF r, rec
<1>5. Lines(r, rec.queue)
  BY <1>1, <1>3, <1>4, RunnerLines
<1> QED
  BY <1>3, <1>5 DEF r

LEMMA CloseLines ==
  ASSUME RunnerTypeOK, NEW r \in Runner, runner' = [runner EXCEPT ![r].accepting = FALSE]
  PROVE  Lines(r, runner[r].queue)
<1> DEFINE rec == [runner[r] EXCEPT !.accepting = FALSE]
<1>1. runner[r] \in RunnerRecord
  BY DEF RunnerTypeOK, RunnerRecord
<1>2. rec \in RunnerRecord
  BY <1>1, Zenon DEF RunnerRecord
<1>3. rec.queue = runner[r].queue
  BY <1>1 DEF RunnerRecord
<1>4. runner' = [runner EXCEPT ![r] = rec]
  OBVIOUS
<1> HIDE DEF rec
<1>5. Lines(r, rec.queue)
  BY <1>2, <1>4, RunnerLines
<1> QED
  BY <1>3, <1>5

LEMMA EmptyLines ==
  ASSUME RunnerTypeOK, NEW r \in Runner, NEW accepting \in BOOLEAN,
         runner' = [runner EXCEPT ![r] = [accepting |-> accepting, queue |-> <<>>]]
  PROVE  Lines(r, <<>>)
<1> DEFINE rec == [accepting |-> accepting, queue |-> <<>>]
<1>1. rec \in RunnerRecord /\ rec.queue = <<>>
  BY DEF RunnerRecord
<1> HIDE DEF rec
<1>2. runner' = [runner EXCEPT ![r] = rec]
  BY DEF rec
<1> QED
  BY <1>1, <1>2, RunnerLines

LEMMA RunnerShapes ==
  ASSUME disk' \subseteq Txn \X Branch, connection' \in [Runner -> ConnectionRecord],
         runner' \in [Runner -> RunnerRecord], transaction' \in [Txn -> TxnRecord],
         runnerFaults' \in 0..MaxRunnerFaults
  PROVE  RunnerTypeOK'
  BY DEF RunnerTypeOK, ConnectionRecord, RunnerRecord, TxnRecord, TxnState

LEMMA RunnerShapesStay ==
  ASSUME RunnerTypeOK
  PROVE  /\ disk' = disk => disk' \subseteq Txn \X Branch
         /\ connection' = connection => connection' \in [Runner -> ConnectionRecord]
         /\ runner' = runner => runner' \in [Runner -> RunnerRecord]
         /\ transaction' = transaction => transaction' \in [Txn -> TxnRecord]
         /\ RunnerFault \/ runnerFaults' = runnerFaults => runnerFaults' \in 0..MaxRunnerFaults
  BY RunnerAssumption DEF RunnerTypeOK, ConnectionRecord, RunnerRecord, TxnRecord, TxnState, RunnerFault

-----------------------------------------------------------------------------
(* The invariant. *)

\* Who is not the first of its queue is not under way, and who comes behind
\* another one does not become the first.
LEMMA HeadsStay ==
  ASSUME RunnerInv, NEW r \in Runner, NEW t \in Txn, Running(t),
         \/ runner' = runner
         \/ \E u \in Txn : Lines(r, Append(runner[r].queue, u))
         \/ Lines(r, runner[r].queue)
         \/ RunnerOf[t] # r /\ \E q : Lines(r, q)
  PROVE  IsHead(t)'
<1>1. IsHead(t) /\ RunnerOf[t] \in Runner /\ runner[RunnerOf[t]].queue \in Seq(Txn)
  BY RunnerAssumption DEF RunnerInv, Sound, RunsAlone, RunnerTypeOK
<1>2. CASE \E u \in Txn : Lines(r, Append(runner[r].queue, u))
  <2>1. PICK u \in Txn : Lines(r, Append(runner[r].queue, u))
    BY <1>2
  <2>2. CASE RunnerOf[t] = r
    <3>1. Append(runner[r].queue, u) # <<>> /\ Head(Append(runner[r].queue, u)) = Head(runner[r].queue)
      BY <1>1, <2>2, AppendProperties, HeadTailAppend DEF IsHead
    <3> QED
      BY <1>1, <2>1, <2>2, <3>1 DEF Lines, IsHead
  <2> QED
    BY <1>1, <2>1, <2>2 DEF Lines, IsHead
<1> QED
  BY <1>1, <1>2 DEF Lines, IsHead

LEMMA CallStep == ASSUME RunnerInv, NEW t \in Txn, CallTransaction(t) PROVE RunnerInv'
<1> DEFINE r == RunnerOf[t]
<1>1. RunnerTypeOK /\ r \in Runner /\ ~Running(t) /\ connection[r].open
  BY RunnerAssumption DEF RunnerInv, CallTransaction, Running
<1>2. runner' = runner \/ Lines(r, Append(runner[r].queue, t))
  BY <1>1, CallLines DEF CallTransaction
<1>3. \/ TxnBecomes(t, "QUEUED", transaction[t].active, transaction[t].branches)
      \/ TxnBecomes(t, "FAILED", transaction[t].active, NoBranches)
  BY <1>1, QueuedTurns, RefusedTurns DEF CallTransaction
<1>4. transaction[t].state = "NEW" /\ UNCHANGED <<disk, connection, runnerFaults>>
  BY DEF CallTransaction
<1>5. RunnerTypeOK'
  BY <1>1, <1>2, <1>3, <1>4, RunnerShapesStay, RunnerShapes DEF TxnBecomes, Lines
<1>6. ASSUME NEW u \in Txn PROVE Sound(u)'
  <2>1. Sound(u)
    BY DEF RunnerInv
  <2>2. CASE u = t
    BY <1>1, <1>3, <1>4, <2>1, <2>2 DEF Sound, RunsAlone, ScopeIsOpen, NotBegun, Running, TxnBecomes
  <2>3. CASE u # t
    <3>1. Running(u) => IsHead(u)'
      BY <1>1, <1>2, HeadsStay
    <3> QED
      BY <1>3, <1>4, <2>1, <2>3, <3>1 DEF Sound, RunsAlone, ScopeIsOpen, NotBegun, Running, TxnBecomes, Written
  <2> QED
    BY <2>2, <2>3
<1>7. ASSUME NEW q \in Runner PROVE Clean(q)'
  BY <1>1, <1>2, <1>4 DEF RunnerInv, Clean, Lines
<1> QED
  BY <1>5, <1>6, <1>7 DEF RunnerInv

LEMMA BeginStep == ASSUME RunnerInv, NEW t \in Txn, Begin(t) PROVE RunnerInv'
<1> DEFINE r == RunnerOf[t]
<1>1. /\ RunnerTypeOK /\ r \in Runner /\ ~connection[r].begun /\ connection[r].writes = {}
      /\ connection[r].open
  BY RunnerAssumption DEF RunnerInv, Clean, Begin, Locked, IsHead
<1>2. TxnBecomes(t, "RUNNING", TRUE, transaction[t].branches)
  BY <1>1, BeginTurns
<1>3. Connects(r, connection[r].open, TRUE, connection[r].writes)
  BY <1>1, BeginConnects DEF Begin
<1>4. transaction[t].state = "QUEUED" /\ UNCHANGED <<disk, runner, runnerFaults>>
  BY DEF Begin
<1>5. RunnerTypeOK'
  BY <1>1, <1>2, <1>3, <1>4, RunnerShapesStay, RunnerShapes DEF TxnBecomes, Connects
<1>6. ASSUME NEW u \in Txn, u # t PROVE Sound(u)'
  <2>1. Sound(u)
    BY DEF RunnerInv
  <2>2. Running(u) => RunnerOf[u] # r
    BY <1>1, <2>1 DEF Sound, RunsAlone
  <2> QED
    BY <1>2, <1>3, <1>4, <1>6, <2>1, <2>2, RunnerAssumption
       DEF Sound, RunsAlone, ScopeIsOpen, NotBegun, Running, TxnBecomes, Connects, Written, IsHead
<1>7. Sound(t)'
  <2>1. \A b \in Branch : transaction[t].branches[b] = "TODO"
    BY <1>4 DEF RunnerInv, Sound, NotBegun
  <2>2. Written(t)' = {}
    BY <1>2, <2>1 DEF Written, TxnBecomes
  <2>3. IsHead(t)'
    BY <1>4 DEF Begin, IsHead
  <2> QED
    BY <1>1, <1>2, <1>3, <2>2, <2>3 DEF Sound, RunsAlone, ScopeIsOpen, NotBegun, Running, TxnBecomes, Connects
<1>8. ASSUME NEW q \in Runner PROVE Clean(q)'
  BY <1>1, <1>3, <1>4 DEF RunnerInv, Clean, Connects
<1> QED
  BY <1>5, <1>6, <1>7, <1>8 DEF RunnerInv

LEMMA BeginFailsStep == ASSUME RunnerInv, NEW t \in Txn, BeginFails(t) PROVE RunnerInv'
<1> DEFINE r == RunnerOf[t]
<1>1. RunnerTypeOK /\ r \in Runner /\ IsHead(t) /\ transaction[t].state = "QUEUED"
  BY RunnerAssumption DEF RunnerInv, BeginFails
<1>2. TxnBecomes(t, "FAILED", transaction[t].active, NoBranches)
  BY <1>1, RefusedTurns DEF BeginFails
<1>3. Lines(r, Tail(runner[r].queue))
  BY <1>1, DequeuedLines DEF BeginFails
<1>4. UNCHANGED <<disk, connection>> /\ (RunnerFault \/ runnerFaults' = runnerFaults)
  BY DEF BeginFails
<1>5. RunnerTypeOK'
  BY <1>1, <1>2, <1>3, <1>4, RunnerShapesStay, RunnerShapes DEF TxnBecomes, Lines
<1>6. ASSUME NEW u \in Txn, u # t PROVE Sound(u)'
  <2>1. Sound(u)
    BY DEF RunnerInv
  <2>2. Running(u) => RunnerOf[u] # r
    BY <1>1, <1>6, OneRuns
  <2>3. Running(u) => IsHead(u)'
    BY <1>1, <1>3, <2>2, HeadsStay
  <2> QED
    BY <1>2, <1>4, <1>6, <2>1, <2>3
       DEF Sound, RunsAlone, ScopeIsOpen, NotBegun, Running, TxnBecomes, Written
<1>7. Sound(t)'
  <2>1. ~transaction[t].active
    BY <1>1 DEF RunnerInv, Sound, ScopeIsOpen, Running
  <2> QED
    BY <1>2, <2>1 DEF Sound, RunsAlone, ScopeIsOpen, NotBegun, Running, TxnBecomes
<1>8. ASSUME NEW q \in Runner PROVE Clean(q)'
  BY <1>1, <1>3, <1>4 DEF RunnerInv, Clean, Lines, IsHead
<1> QED
  BY <1>5, <1>6, <1>7, <1>8 DEF RunnerInv

\* Only a transaction that is under way writes, and it does so within its own
\* transaction of the database.
LEMMA WriterRuns ==
  ASSUME RunnerInv, NEW t \in Txn, NEW b \in Branch, Write(t, b)
  PROVE  /\ Running(t) /\ connection[RunnerOf[t]].begun /\ disk' = disk
         /\ connection' = [connection EXCEPT ![RunnerOf[t]].writes = @ \union {<<t, b>>}]
<1>1. Running(t) /\ connection[RunnerOf[t]].begun
  BY DEF RunnerInv, Sound, ScopeIsOpen, RunsAlone, Write, Usable
<1> QED
  BY <1>1 DEF Write

LEMMA WriteStep == ASSUME RunnerInv, NEW t \in Txn, NEW b \in Branch, Write(t, b) PROVE RunnerInv'
<1> DEFINE r == RunnerOf[t]
           branches == [transaction[t].branches EXCEPT ![b] = "WRITTEN"]
<1>1. RunnerTypeOK /\ r \in Runner /\ Running(t) /\ Sound(t)
  BY RunnerAssumption, WriterRuns DEF RunnerInv
<1>2. TxnBecomes(t, transaction[t].state, transaction[t].active, branches)
  BY <1>1, BranchTurns DEF Write
<1>3. Connects(r, connection[r].open, connection[r].begun, connection[r].writes \union {<<t, b>>})
  BY <1>1, WriterRuns, WriteConnects
<1>4. UNCHANGED <<disk, runner, runnerFaults>>
  BY WriterRuns DEF Write
<1>5. RunnerTypeOK'
  BY <1>1, <1>2, <1>3, <1>4, RunnerShapesStay, RunnerShapes DEF TxnBecomes, Connects
<1>6. ASSUME NEW u \in Txn, u # t PROVE Sound(u)'
  <2>1. Sound(u)
    BY DEF RunnerInv
  <2>2. Running(u) => RunnerOf[u] # r
    BY <1>1, <1>6, OneRuns DEF Sound, RunsAlone
  <2> QED
    BY <1>2, <1>3, <1>4, <1>6, <2>1, <2>2, RunnerAssumption
       DEF Sound, RunsAlone, ScopeIsOpen, NotBegun, Running, TxnBecomes, Connects, Written, IsHead
<1>7. Sound(t)'
  <2>1. Written(t)' = Written(t) \union {b}
    <3>1. transaction[t].branches \in [Branch -> {"TODO", "WRITTEN", "FAILED"}]
      BY <1>1 DEF RunnerTypeOK
    <3> QED
      BY <1>2, <3>1 DEF Written, TxnBecomes
  <2>2. ({t} \X Written(t)) \union {<<t, b>>} = {t} \X (Written(t) \union {b})
    OBVIOUS
  <2>3. connection'[r].writes = {t} \X Written(t)'
    BY <1>1, <1>3, <2>1, <2>2 DEF Sound, RunsAlone, Connects
  <2>4. IsHead(t)'
    BY <1>1, <1>4 DEF Sound, RunsAlone, IsHead
  <2> QED
    BY <1>1, <1>2, <1>3, <2>3, <2>4 DEF Sound, RunsAlone, ScopeIsOpen, NotBegun, Running, TxnBecomes, Connects
<1>8. ASSUME NEW q \in Runner PROVE Clean(q)'
  BY <1>1, <1>3, <1>4, WriterRuns DEF RunnerInv, Clean, Connects
<1> QED
  BY <1>5, <1>6, <1>7, <1>8 DEF RunnerInv

LEMMA WriteFailsStep ==
  ASSUME RunnerInv, NEW t \in Txn, NEW b \in Branch, WriteFails(t, b) PROVE RunnerInv'
<1> DEFINE branches == [transaction[t].branches EXCEPT ![b] = "FAILED"]
<1>1. RunnerTypeOK /\ Sound(t) /\ transaction[t].state \in {"RUNNING", "FAILED"}
  BY DEF RunnerInv, WriteFails
<1>2. TxnBecomes(t, transaction[t].state, transaction[t].active, branches)
  BY <1>1, BranchTurns DEF WriteFails
<1>3. UNCHANGED <<disk, connection, runner, runnerFaults>>
  BY DEF WriteFails
<1>4. RunnerTypeOK'
  BY <1>1, <1>2, <1>3, RunnerShapesStay, RunnerShapes DEF TxnBecomes
<1>5. ASSUME NEW u \in Txn, u # t PROVE Sound(u)'
  <2>1. Sound(u)
    BY DEF RunnerInv
  <2> QED
    BY <1>2, <1>3, <1>5, <2>1
       DEF Sound, RunsAlone, ScopeIsOpen, NotBegun, Running, TxnBecomes, Written, IsHead
<1>6. Sound(t)'
  <2>1. Written(t)' = Written(t)
    <3>1. transaction[t].branches \in [Branch -> {"TODO", "WRITTEN", "FAILED"}]
      BY <1>1 DEF RunnerTypeOK
    <3>2. transaction[t].branches[b] = "TODO"
      BY DEF WriteFails
    <3> QED
      BY <1>2, <3>1, <3>2 DEF Written, TxnBecomes
  <2> QED
    BY <1>1, <1>2, <1>3, <2>1 DEF Sound, RunsAlone, ScopeIsOpen, NotBegun, Running, TxnBecomes, IsHead
<1>7. ASSUME NEW q \in Runner PROVE Clean(q)'
  BY <1>3 DEF RunnerInv, Clean
<1> QED
  BY <1>4, <1>5, <1>6, <1>7 DEF RunnerInv

\* The four ends of a transaction: the next one of its process finds the connection
\* without it, or still in it and then nobody begins.
LEMMA EndStep ==
  ASSUME RunnerInv, NEW t \in Txn, Running(t), NEW state \in {"DONE", "FAILED"}, EndsAs(t, state),
         connection' = NoTransaction(RunnerOf[t]) \/ connection' = connection,
         disk' \subseteq Txn \X Branch, RunnerFault \/ runnerFaults' = runnerFaults
  PROVE  RunnerInv'
<1> DEFINE r == RunnerOf[t]
<1>1. RunnerTypeOK /\ r \in Runner /\ IsHead(t) /\ connection[r].open /\ connection[r].begun
  BY RunnerAssumption DEF RunnerInv, Sound, RunsAlone
<1>2. TxnBecomes(t, state, FALSE, transaction[t].branches)
  BY <1>1, EndsTurns DEF TxnState
<1>3. Lines(r, Tail(runner[r].queue))
  BY <1>1, DequeuedLines DEF EndsAs
<1>4. connection' = connection \/ Connects(r, TRUE, FALSE, {})
  BY <1>1, EndConnects
<1>5. RunnerTypeOK'
  BY <1>1, <1>2, <1>3, <1>4, RunnerShapesStay, RunnerShapes DEF TxnBecomes, Lines, Connects
<1>6. ASSUME NEW u \in Txn, u # t PROVE Sound(u)'
  <2>1. Sound(u)
    BY DEF RunnerInv
  <2>2. Running(u) => RunnerOf[u] # r
    BY <1>1, <1>6, OneRuns
  <2>3. Running(u) => IsHead(u)'
    BY <1>1, <1>3, <2>2, HeadsStay
  <2>4. Running(u) => connection'[RunnerOf[u]] = connection[RunnerOf[u]]
    BY <1>4, <2>2, RunnerAssumption DEF Connects
  <2> QED
    BY <1>2, <1>6, <2>1, <2>3, <2>4
       DEF Sound, RunsAlone, ScopeIsOpen, NotBegun, Running, TxnBecomes, Written
<1>7. Sound(t)'
  BY <1>2 DEF Sound, RunsAlone, ScopeIsOpen, NotBegun, Running, TxnBecomes
<1>8. ASSUME NEW q \in Runner PROVE Clean(q)'
  BY <1>1, <1>3, <1>4 DEF RunnerInv, Clean, Lines, Connects
<1> QED
  BY <1>5, <1>6, <1>7, <1>8 DEF RunnerInv

\* What a COMMIT keeps is the transaction, all of it and nothing else.
LEMMA CommitsItsWrites ==
  ASSUME RunnerInv, NEW t \in Txn, Running(t), Resolved(t)
  PROVE  connection[RunnerOf[t]].writes = {t} \X Branch
<1>1. Written(t) = Branch
  BY DEF Resolved, Written
<1> QED
  BY <1>1 DEF RunnerInv, Sound, RunsAlone

LEMMA EndsStep ==
  ASSUME RunnerInv, NEW t \in Txn, Commit(t) \/ RollBack(t) \/ CommitFails(t) \/ RollBackFails(t)
  PROVE  RunnerInv'
<1>1. Running(t) /\ RunnerTypeOK
  BY DEF RunnerInv, Commit, RollBack, CommitFails, RollBackFails, Running
<1>2. CASE Commit(t)
  <2>1. disk' \subseteq Txn \X Branch
    BY <1>1, <1>2, CommitsItsWrites DEF Commit, RunnerTypeOK
  <2> QED
    BY <1>1, <1>2, <2>1, EndStep DEF Commit
<1>3. CASE RollBack(t) \/ CommitFails(t) \/ RollBackFails(t)
  <2>1. disk' \subseteq Txn \X Branch
    BY <1>1, <1>3 DEF RollBack, CommitFails, RollBackFails, RunnerTypeOK
  <2> QED
    BY <1>1, <1>3, <2>1, EndStep DEF RollBack, CommitFails, RollBackFails
<1> QED
  BY <1>2, <1>3

LEMMA CloseStep ==
  ASSUME RunnerInv, NEW r \in Runner, CloseRunner(r) \/ ConnectionCloses(r) \/ Restart(r)
  PROVE  RunnerInv'
<1>1. RunnerTypeOK /\ UNCHANGED <<disk, transaction, runnerFaults>>
  BY DEF RunnerInv, CloseRunner, ConnectionCloses, Restart
<1>2. \/ connection' = connection /\ Lines(r, runner[r].queue)
      \/ Connects(r, FALSE, FALSE, {}) /\ runner' = runner /\ runner[r].queue = <<>>
      \/ Connects(r, TRUE, FALSE, {}) /\ Lines(r, <<>>) /\ runner[r].queue = <<>>
  BY <1>1, CloseLines, EmptyLines, CloseConnects
     DEF CloseRunner, ConnectionCloses, Restart, NewRunner, RunnerInv, Clean
<1>3. RunnerTypeOK'
  BY <1>1, <1>2, RunnerShapesStay, RunnerShapes DEF Lines, Connects
<1>4. ASSUME NEW u \in Txn PROVE Sound(u)'
  <2>1. Sound(u)
    BY DEF RunnerInv
  <2>2. runner[r].queue = <<>> /\ Running(u) => RunnerOf[u] # r
    BY <2>1 DEF Sound, RunsAlone, IsHead
  <2>3. Running(u) => IsHead(u)'
    BY <1>2, <2>2, HeadsStay
  <2>4. Running(u) => connection'[RunnerOf[u]] = connection[RunnerOf[u]]
    BY <1>2, <2>2, RunnerAssumption DEF Connects
  <2> QED
    BY <1>1, <2>1, <2>3, <2>4 DEF Sound, RunsAlone, ScopeIsOpen, NotBegun, Running, Written
<1>5. ASSUME NEW q \in Runner PROVE Clean(q)'
  BY <1>2 DEF RunnerInv, Clean, Lines, Connects
<1> QED
  BY <1>3, <1>4, <1>5 DEF RunnerInv

\* Whom a crash takes along.
Dies(t, r) == RunnerOf[t] = r /\ transaction[t].state \in {"QUEUED", "RUNNING"}

LEMMA CrashStep == ASSUME RunnerInv, NEW r \in Runner, RunnerCrash(r) PROVE RunnerInv'
<1>1. RunnerTypeOK
  BY DEF RunnerInv
<1>2. Connects(r, FALSE, FALSE, {}) /\ Lines(r, <<>>)
  BY <1>1, CloseConnects, EmptyLines DEF RunnerCrash
<1>3. disk' \subseteq Txn \X Branch
  BY <1>1 DEF RunnerCrash, RunnerTypeOK
<1>4. transaction' \in [Txn -> TxnRecord]
  BY <1>1 DEF RunnerCrash, RunnerTypeOK, NoBranches, TxnRecord, TxnState
<1>5. RunnerTypeOK'
  BY <1>1, <1>2, <1>3, <1>4, RunnerShapesStay, RunnerShapes DEF Lines, Connects, RunnerCrash
<1>6. ASSUME NEW u \in Txn PROVE Sound(u)'
  <2>1. Sound(u)
    BY DEF RunnerInv
  <2>2. CASE RunnerOf[u] # r
    <3>1. transaction'[u] = transaction[u]
      BY <2>2 DEF RunnerCrash
    <3>2. Running(u) => IsHead(u)'
      BY <1>2, <2>2, HeadsStay
    <3>3. connection'[RunnerOf[u]] = connection[RunnerOf[u]]
      BY <1>2, <2>2, RunnerAssumption DEF Connects
    <3> QED
      BY <2>1, <3>1, <3>2, <3>3 DEF Sound, RunsAlone, ScopeIsOpen, NotBegun, Running, Written
  <2>3. CASE transaction[u].state \in {"NEW", "DONE"}
    <3>1. transaction'[u] = transaction[u]
      BY <2>3 DEF RunnerCrash
    <3> QED
      BY <2>1, <2>3, <3>1 DEF Sound, RunsAlone, ScopeIsOpen, NotBegun, Running
  <2>4. CASE RunnerOf[u] = r /\ transaction[u].state \notin {"NEW", "DONE"}
    <3>1. transaction'[u].state \in {"FAILED", "LOST"} /\ transaction'[u].active = FALSE
      BY <2>4 DEF RunnerCrash
    <3> QED
      BY <3>1 DEF Sound, RunsAlone, ScopeIsOpen, NotBegun, Running
  <2> QED
    BY <2>2, <2>3, <2>4
<1>7. ASSUME NEW q \in Runner PROVE Clean(q)'
  BY <1>2 DEF RunnerInv, Clean, Lines, Connects
<1> QED
  BY <1>5, <1>6, <1>7 DEF RunnerInv

LEMMA RunnerInvStep == RunnerInv /\ [RunnerNext]_runnerVars => RunnerInv'
<1> SUFFICES ASSUME RunnerInv, [RunnerNext]_runnerVars PROVE RunnerInv'
  OBVIOUS
<1>1. CASE RunnerNext
  BY <1>1, CallStep, BeginStep, BeginFailsStep, WriteStep, WriteFailsStep, EndsStep, CloseStep,
     CrashStep DEF RunnerNext
<1>2. CASE UNCHANGED runnerVars
  BY <1>2 DEF runnerVars, RunnerInv, RunnerTypeOK, Sound, RunsAlone, ScopeIsOpen, NotBegun, Clean,
     Running, Written, IsHead
<1> QED
  BY <1>1, <1>2

LEMMA RunnerInvInit == RunnerInit => RunnerInv
<1> SUFFICES ASSUME RunnerInit PROVE RunnerInv
  OBVIOUS
<1>1. <<>> \in Seq(Txn) /\ 0 \in 0..MaxRunnerFaults
  BY RunnerAssumption
<1>2. RunnerTypeOK
  BY <1>1 DEF RunnerInit, RunnerTypeOK, Opened, NewRunner, NewTransaction
<1>3. \A t \in Txn : Sound(t)
  BY DEF RunnerInit, NewTransaction, Sound, RunsAlone, ScopeIsOpen, NotBegun, Running
<1>4. \A r \in Runner : Clean(r)
  BY DEF RunnerInit, Opened, Clean
<1> QED
  BY <1>2, <1>3, <1>4 DEF RunnerInv

\* However transactions queue, fail and die, at every moment the one under way on a
\* connection is the head of its process's queue, and the connection holds its writes
\* and no other's (#tail, scope.active).
THEOREM RunnerInvariant == RunnerSpec => []RunnerInv
<1> QED
  BY RunnerInvInit, RunnerInvStep, PTL DEF RunnerSpec

\* The records of the runner keep their shapes.
THEOREM RunnerTyped == RunnerSpec => []RunnerTypeOK
<1> QED
  BY RunnerInvariant, PTL DEF RunnerInv

-----------------------------------------------------------------------------
(* The refinement: what a step does to the outcomes and to the database. *)

\* An end that only one transaction sees.
LEMMA OutcomeTurns ==
  ASSUME NEW t \in Txn, NEW state, NEW active, NEW branches, TxnBecomes(t, state, active, branches)
  PROVE  /\ OutcomeOf(t)' = IF state \in {"NEW", "QUEUED", "RUNNING"} THEN "OPEN" ELSE state
         /\ \A u \in Txn \ {t} : OutcomeOf(u)' = OutcomeOf(u)
  BY DEF TxnBecomes, OutcomeOf

LEMMA Succeeds ==
  ASSUME NEW t \in Txn, OutcomeOf(t) = "OPEN", OutcomeOf(t)' = "DONE",
         \A u \in Txn \ {t} : OutcomeOf(u)' = OutcomeOf(u), disk' = disk \union ({t} \X Branch)
  PROVE  Atomic!Succeed(t)
  BY DEF Atomic!Succeed, Atomic!Writes

LEMMA Fails ==
  ASSUME NEW t \in Txn, OutcomeOf(t) = "OPEN", OutcomeOf(t)' = "FAILED",
         \A u \in Txn \ {t} : OutcomeOf(u)' = OutcomeOf(u), disk' = disk
  PROVE  Atomic!Fail(t)
  BY DEF Atomic!Fail

LEMMA Stutters ==
  ASSUME \A u \in Txn : OutcomeOf(u)' = OutcomeOf(u), disk' = disk
  PROVE  UNCHANGED Atomic!atomicVars
  BY DEF Atomic!atomicVars

LEMMA CrashLoses ==
  ASSUME RunnerInv, NEW r \in Runner, RunnerCrash(r)
  PROVE  Atomic!Lose({t \in Txn : Dies(t, r)})
<1> DEFINE gone == {t \in Txn : Dies(t, r)}
<1>1. RunnerTypeOK
  BY DEF RunnerInv
<1>2. \A t \in gone : OutcomeOf(t) = "OPEN" /\ OutcomeOf(t)' = "LOST"
  BY DEF RunnerCrash, OutcomeOf, Dies
<1>3. ASSUME NEW t \in Txn, t \notin gone PROVE OutcomeOf(t)' = OutcomeOf(t)
  <2>1. transaction[t].state \in TxnState
    BY <1>1 DEF RunnerTypeOK, TxnState
  <2> QED
    BY <1>3, <2>1 DEF RunnerCrash, OutcomeOf, Dies, TxnState
<1>4. disk' = disk \/ \E t \in gone : disk' = disk \union ({t} \X Branch)
  BY CommitsItsWrites DEF RunnerCrash, Dies, Running
<1> QED
  BY <1>2, <1>3, <1>4 DEF Atomic!Lose, Atomic!Writes

LEMMA StepIsAtomic ==
  RunnerInv /\ [RunnerNext]_runnerVars => [Atomic!AtomicNext]_(Atomic!atomicVars)
<1> SUFFICES ASSUME RunnerInv, [RunnerNext]_runnerVars
             PROVE  [Atomic!AtomicNext]_(Atomic!atomicVars)
  OBVIOUS
<1>0. RunnerTypeOK
  BY DEF RunnerInv
<1>1. ASSUME NEW t \in Txn, CallTransaction(t) PROVE [Atomic!AtomicNext]_(Atomic!atomicVars)
  <2>1. OutcomeOf(t) = "OPEN" /\ disk' = disk
    BY <1>1 DEF CallTransaction, OutcomeOf
  <2>2. CASE runner[RunnerOf[t]].accepting
    <3>1. TxnBecomes(t, "QUEUED", transaction[t].active, transaction[t].branches)
      BY <1>0, <1>1, <2>2, QueuedTurns DEF CallTransaction
    <3> QED
      BY <2>1, <3>1, OutcomeTurns, Stutters
  <2>3. CASE ~runner[RunnerOf[t]].accepting
    <3>1. TxnBecomes(t, "FAILED", transaction[t].active, NoBranches)
      BY <1>0, <1>1, <2>3, RefusedTurns DEF CallTransaction
    <3> QED
      BY <2>1, <3>1, OutcomeTurns, Fails DEF Atomic!AtomicNext
  <2> QED
    BY <2>2, <2>3
<1>2. ASSUME NEW t \in Txn, Begin(t) PROVE [Atomic!AtomicNext]_(Atomic!atomicVars)
  <2>1. OutcomeOf(t) = "OPEN" /\ disk' = disk
    BY <1>2 DEF Begin, OutcomeOf
  <2> QED
    BY <1>0, <1>2, <2>1, BeginTurns, OutcomeTurns, Stutters
<1>3. ASSUME NEW t \in Txn, BeginFails(t) PROVE [Atomic!AtomicNext]_(Atomic!atomicVars)
  <2>1. OutcomeOf(t) = "OPEN" /\ disk' = disk
    BY <1>3 DEF BeginFails, OutcomeOf
  <2>2. TxnBecomes(t, "FAILED", transaction[t].active, NoBranches)
    BY <1>0, <1>3, RefusedTurns DEF BeginFails
  <2> QED
    BY <2>1, <2>2, OutcomeTurns, Fails DEF Atomic!AtomicNext
<1>4. ASSUME NEW t \in Txn, NEW b \in Branch, Write(t, b) \/ WriteFails(t, b)
      PROVE [Atomic!AtomicNext]_(Atomic!atomicVars)
  <2>1. disk' = disk
    BY <1>4, WriterRuns DEF WriteFails
  <2>2. \E branches : TxnBecomes(t, transaction[t].state, transaction[t].active, branches)
    BY <1>0, <1>4, BranchTurns DEF Write, WriteFails
  <2>3. OutcomeOf(t)' = OutcomeOf(t) /\ \A u \in Txn \ {t} : OutcomeOf(u)' = OutcomeOf(u)
    BY <2>2 DEF TxnBecomes, OutcomeOf
  <2> QED
    BY <2>1, <2>3, Stutters
<1>5. ASSUME NEW t \in Txn, Commit(t) PROVE [Atomic!AtomicNext]_(Atomic!atomicVars)
  <2>1. OutcomeOf(t) = "OPEN" /\ Running(t)
    BY <1>5 DEF Commit, OutcomeOf, Running
  <2>2. disk' = disk \union ({t} \X Branch)
    BY <1>5, <2>1, CommitsItsWrites DEF Commit
  <2>3. TxnBecomes(t, "DONE", FALSE, transaction[t].branches)
    BY <1>0, <1>5, EndsTurns DEF Commit, TxnState
  <2> QED
    BY <2>1, <2>2, <2>3, OutcomeTurns, Succeeds DEF Atomic!AtomicNext
<1>6. ASSUME NEW t \in Txn, RollBack(t) \/ CommitFails(t) \/ RollBackFails(t)
      PROVE [Atomic!AtomicNext]_(Atomic!atomicVars)
  <2>1. OutcomeOf(t) = "OPEN" /\ disk' = disk
    BY <1>6 DEF RollBack, CommitFails, RollBackFails, OutcomeOf
  <2>2. TxnBecomes(t, "FAILED", FALSE, transaction[t].branches)
    BY <1>0, <1>6, EndsTurns DEF RollBack, CommitFails, RollBackFails, TxnState
  <2> QED
    BY <2>1, <2>2, OutcomeTurns, Fails DEF Atomic!AtomicNext
<1>7. ASSUME NEW r \in Runner, CloseRunner(r) \/ ConnectionCloses(r) \/ Restart(r)
      PROVE [Atomic!AtomicNext]_(Atomic!atomicVars)
  BY <1>7, Stutters DEF CloseRunner, ConnectionCloses, Restart, OutcomeOf
<1>8. ASSUME NEW r \in Runner, RunnerCrash(r) PROVE [Atomic!AtomicNext]_(Atomic!atomicVars)
  BY <1>8, CrashLoses DEF Atomic!AtomicNext
<1>9. CASE UNCHANGED runnerVars
  BY <1>9, Stutters DEF runnerVars, OutcomeOf
<1> QED
  BY <1>1, <1>2, <1>3, <1>4, <1>5, <1>6, <1>7, <1>8, <1>9 DEF RunnerNext

LEMMA InitIsAtomic == RunnerInit => Atomic!AtomicInit
  BY DEF RunnerInit, NewTransaction, OutcomeOf, Atomic!AtomicInit

\* The runner implements the abstract transactions: all writes of a transaction are
\* kept or none, and its caller is told which, whatever branches go on behind a
\* rollback, COMMITs and ROLLBACKs fail, and processes die
\* (SqliteRepositoryTransactionRunner.transaction, assertActiveTransaction).
THEOREM RunnerIsAtomic == RunnerSpec => TransactionsAreAtomic
<1>1. RunnerSpec => []RunnerInv
  BY RunnerInvariant
<1> QED
  BY <1>1, InitIsAtomic, StepIsAtomic, PTL DEF RunnerSpec, TransactionsAreAtomic, Atomic!AtomicSpec

-----------------------------------------------------------------------------
(* The processes together (MCProcesses).                                     *)

\* A behaviour of the processes is one of each component: it takes that
\* component's steps, or leaves it alone.
LEMMA EachProcessBehaves ==
  ProcessesSpec => SchedulerSpec /\ LockSpec /\ PaidSpec /\ LedgerSpec /\ RunnerSpec
<1>1. ProcessesInit => SchedulerInit /\ LockInit /\ PaidInit /\ LedgerInit /\ RunnerInit
  BY DEF ProcessesInit
<1>2. ASSUME [ProcessesNext \/ Rest]_processesVars
      PROVE  /\ [SchedulerNext]_schedulerVars /\ [LockNext]_lockVars /\ [PaidNext]_paidVars
             /\ [LedgerNext]_ledgerVars /\ [RunnerNext]_runnerVars
  <2>1. CASE ProcessesNext
    BY <2>1 DEF ProcessesNext
  <2>2. CASE Rest \/ UNCHANGED processesVars
    BY <2>2 DEF Rest, processesVars, sharedVars
  <2> QED BY <1>2, <2>1, <2>2
<1> QED
  BY <1>1, <1>2, PTL DEF ProcessesSpec, SchedulerSpec, LockSpec, PaidSpec, LedgerSpec, RunnerSpec

\* Whatever the processes of the scheduler, of the role lock, of the paid calls and
\* of the database do, and however they are interrupted, the records they share
\* keep their shapes (as the runs' ProcessesTypeOK); for the lock, as long as no
\* process ends with a recovery claim in hand.
THEOREM ProcessesTyped ==
  ASSUME ~CrashesInRecovery
  PROVE  ProcessesSpec => []ProcessesTypeOK
<1>1. LockSpec => []LockTypeOK
  BY LockTyped
<1>2. SchedulerTypeOK /\ LockTypeOK /\ PaidTypeOK /\ LedgerTypeOK /\ RunnerTypeOK => ProcessesTypeOK
  BY DEF ProcessesTypeOK
<1> QED
  BY <1>1, <1>2, EachProcessBehaves, SchedulerTyped, PaidTyped, LedgerTyped, RunnerTyped, PTL

================================================================================
