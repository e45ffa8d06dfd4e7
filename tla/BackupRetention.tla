---------------------------- MODULE BackupRetention ----------------------------
(***************************************************************************)
(* Verified backups and their retention (verifyBackupRestore of            *)
(* operations-runtime-cli.ts, operations-backup-retention.ts).  A pass     *)
(* makes a backup of the database, proves it by a restore, adds the admin  *)
(* security snapshot and the manifest, and then removes old backups of the *)
(* directory: it lists the directory, inspects every candidate, protects   *)
(* the newest bundles that the host has signed, and takes the doomed ones  *)
(* out of the way file by file before it unlinks them.  Any failure of the *)
(* pass removes the backup that the pass has made.                         *)
(*                                                                         *)
(* The role lock admits one backup verifier, and one worker whose jobs     *)
(* verify backups too: two passes may share a directory.  Nothing is       *)
(* locked, every file operation is a step, and a pass may die after any.   *)
(* Backups are numbered in the order of their names, which is that of      *)
(* their age.                                                              *)
(***************************************************************************)
EXTENDS Integers, FiniteSetsExt

CONSTANTS
  Existing,           \* backups that are there at the beginning
  LastBackup,         \* bound: backups ever made
  Verifier,           \* processes that verify backups
  MinimumRecent,      \* minimumRecentBackups, 14 in the code
  MaxDeletions,       \* maxDeletions, 32 in the code
  MaxRetentionFaults  \* bound: crashes, and file operations that fail

ASSUME RetentionAssumption ==
  /\ Existing \in Nat /\ LastBackup \in Nat /\ Existing <= LastBackup
  /\ MinimumRecent \in Nat \ {0} /\ MaxDeletions \in Nat \ {0} /\ MaxRetentionFaults \in Nat

VARIABLES
  files,         \* [Backup -> parts in place]
  renewed,       \* how often sidecars of a backup were put back, which changes their ctime
  made,          \* the last backup made
  aged,          \* the last backup that is older than maxAgeMs
  anchored,      \* is the public key of the host's signatures configured?
  broken,        \* signed bundles that do not validate
  passes,        \* [Verifier -> pass]
  reported,      \* backups whose pass ended well
  torn,          \* bundles whose rollback failed
  retentionFaults

retentionVars == <<files, renewed, made, aged, anchored, broken, passes, reported, torn, retentionFaults>>

Backup == 1..LastBackup

Bundle == {"DATABASE", "MANIFEST", "ADMIN_SECURITY", "SIGNATURE"}
Unsigned == Bundle \ {"SIGNATURE"}
Sidecars == Bundle \ {"DATABASE"}

NoPass == [at |-> "NONE"]
Absent == [parts |-> {}, renewed |-> 0]

RetentionInit ==
  /\ files \in {f \in [Backup -> {{}, Unsigned, Bundle}] : \A b \in Backup : f[b] = {} <=> b > Existing}
  /\ broken \in {{}} \union {{b} : b \in {c \in Backup : files[c] = Bundle}}
  /\ anchored \in BOOLEAN
  /\ made = Existing /\ aged = 0
  /\ renewed = [b \in Backup |-> 0]
  /\ passes = [v \in Verifier |-> NoPass]
  /\ reported = {} /\ torn = {} /\ retentionFaults = 0

-----------------------------------------------------------------------------
(* The surroundings. *)

\* A day passes.
GrowOld ==
  /\ aged < made
  /\ aged' = aged + 1
  /\ UNCHANGED <<files, renewed, made, anchored, broken, passes, reported, torn, retentionFaults>>

\* The host signs a bundle when its pass has ended well, long before it is old.
HostSigns(b) ==
  /\ b \in reported /\ b > aged /\ files[b] = Unsigned
  /\ files' = [files EXCEPT ![b] = Bundle]
  /\ UNCHANGED <<renewed, made, aged, anchored, broken, passes, reported, torn, retentionFaults>>

\* The process is killed, or the removal of the restore probe fails its cleanup.
PassDies(v) ==
  /\ passes[v] # NoPass /\ retentionFaults < MaxRetentionFaults
  /\ passes' = [passes EXCEPT ![v] = NoPass]
  /\ retentionFaults' = retentionFaults + 1
  /\ UNCHANGED <<files, renewed, made, aged, anchored, broken, reported, torn>>

-----------------------------------------------------------------------------
(* The backup. *)

PassAt(v, place) == passes[v].at = place
PassGoes(v, pass) == passes' = [passes EXCEPT ![v] = pass]
PassMoves(v, place) == PassGoes(v, [passes[v] EXCEPT !.at = place])

\* The pass has failed: what it has made is removed.
TakeBack(v) == PassGoes(v, [at |-> "DISCARD", own |-> passes[v].own])

\* createSqliteBackup publishes the database by its final name.
MakeBackup(v) ==
  /\ PassAt(v, "NONE") /\ made < LastBackup
  /\ made' = made + 1
  /\ files' = [files EXCEPT ![made + 1] = {"DATABASE"}]
  /\ PassGoes(v, [at |-> "SNAPSHOT", own |-> made + 1])
  /\ UNCHANGED <<renewed, aged, anchored, broken, reported, torn, retentionFaults>>

\* The restore probe and the snapshot of the admin security state, then the manifest.
AddPart(v) ==
  \/ /\ PassAt(v, "SNAPSHOT")
     /\ files' = [files EXCEPT ![passes[v].own] = @ \union {"ADMIN_SECURITY"}]
     /\ PassMoves(v, "MANIFEST")
     /\ UNCHANGED <<renewed, made, aged, anchored, broken, reported, torn, retentionFaults>>
  \/ /\ PassAt(v, "MANIFEST")
     /\ files' = [files EXCEPT ![passes[v].own] = @ \union {"MANIFEST"}]
     /\ PassMoves(v, "LIST")
     /\ UNCHANGED <<renewed, made, aged, anchored, broken, reported, torn, retentionFaults>>

\* An operation fails that reads files or adds one.
PassFails(v) ==
  /\ \/ passes[v].at \in {"SNAPSHOT", "MANIFEST", "LIST", "INSPECT", "SIDECARS", "SIGNATURE"}
     \/ PassAt(v, "DELETE") /\ passes[v].doomed # {}
  /\ retentionFaults < MaxRetentionFaults
  /\ retentionFaults' = retentionFaults + 1
  /\ TakeBack(v)
  /\ UNCHANGED <<files, renewed, made, aged, anchored, broken, reported, torn>>

\* The finally clause of verifyBackupRestore: the files go in any order.
DiscardPart(v) ==
  /\ PassAt(v, "DISCARD")
  /\ LET own == passes[v].own IN
       \/ /\ files[own] = {}
          /\ PassGoes(v, NoPass) /\ UNCHANGED files
       \/ \E part \in files[own] :
            /\ files' = [files EXCEPT ![own] = @ \ {part}]
            /\ UNCHANGED passes
  /\ UNCHANGED <<renewed, made, aged, anchored, broken, reported, torn, retentionFaults>>

-----------------------------------------------------------------------------
(* The scan. *)

\* The clock is read, and the names are read, once.
ListBackups(v) ==
  /\ PassAt(v, "LIST")
  /\ PassGoes(v, [at |-> "INSPECT", own |-> passes[v].own, now |-> aged, looking |-> 0,
                  names |-> {b \in Backup : "DATABASE" \in files[b]} \ {passes[v].own},
                  seen |-> [b \in Backup |-> Absent]])
  /\ UNCHANGED <<files, renewed, made, aged, anchored, broken, reported, torn, retentionFaults>>

\* A candidate that has gone since the listing fails the scan.
InspectDatabase(v) ==
  /\ PassAt(v, "INSPECT")
  /\ \E b \in passes[v].names :
       IF "DATABASE" \in files[b]
         THEN PassGoes(v, [passes[v] EXCEPT !.at = "SIDECARS", !.looking = b, !.names = @ \ {b}])
         ELSE TakeBack(v)
  /\ UNCHANGED <<files, renewed, made, aged, anchored, broken, reported, torn, retentionFaults>>

InspectSidecars(v) ==
  /\ PassAt(v, "SIDECARS")
  /\ LET named == passes[v].looking IN
       PassGoes(v, [passes[v] EXCEPT !.at = "SIGNATURE",
           !.seen[named] = [parts |-> {"DATABASE"} \union (files[named] \intersect Unsigned), renewed |-> renewed[named]]])
  /\ UNCHANGED <<files, renewed, made, aged, anchored, broken, reported, torn, retentionFaults>>

\* signatureArtifactIdentity: a bundle with a signature has to validate as a whole.
Validates(b) == anchored /\ files[b] = Bundle /\ b \notin broken

InspectSignature(v) ==
  /\ PassAt(v, "SIGNATURE")
  /\ LET named == passes[v].looking IN
       \/ /\ "SIGNATURE" \notin files[named]
          /\ PassGoes(v, [passes[v] EXCEPT !.at = "INSPECT", !.looking = 0])
       \/ /\ "SIGNATURE" \in files[named] /\ Validates(named) /\ passes[v].seen[named].parts = Unsigned
          /\ PassGoes(v, [passes[v] EXCEPT !.at = "INSPECT", !.looking = 0, !.seen[named].parts = Bundle])
       \/ /\ "SIGNATURE" \in files[named] /\ ~(Validates(named) /\ passes[v].seen[named].parts = Unsigned)
          /\ TakeBack(v)
  /\ UNCHANGED <<files, renewed, made, aged, anchored, broken, reported, torn, retentionFaults>>

-----------------------------------------------------------------------------
(* The cleanup. *)

Inspected(pass) == {b \in Backup : pass.seen[b].parts # {}}
RecoveryGrade(pass) == {b \in Inspected(pass) : pass.seen[b].parts = Bundle}

\* Those of a set that are among its k greatest, and its k least, members.
Newest(k, set) == {b \in set : Cardinality({c \in set : c > b}) < k}
Oldest(k, set) == {b \in set : Cardinality({c \in set : c < b}) < k}

\* Mutant: the newest backups are protected, signed or not.
NewestOfAll(pass) == Newest(MinimumRecent, Inspected(pass))

Protected(pass) == Newest(MinimumRecent, RecoveryGrade(pass))

Doomed(pass) ==
  Oldest(MaxDeletions, {b \in Inspected(pass) \ Protected(pass) : b <= pass.now})

Judge(v) ==
  /\ PassAt(v, "INSPECT") /\ passes[v].names = {}
  /\ LET doomed == Doomed(passes[v]) IN
       PassGoes(v, [at |-> "DELETE", own |-> passes[v].own, doomed |-> doomed, moved |-> {},
                    seen |-> [b \in Backup |-> IF b \in doomed THEN passes[v].seen[b] ELSE Absent]])
  /\ UNCHANGED <<files, renewed, made, aged, anchored, broken, reported, torn, retentionFaults>>

\* Is the bundle still the one that was inspected?
SameIdentity(b, view) ==
  /\ view.parts \subseteq files[b]
  /\ view.parts \intersect Sidecars # {} => view.renewed = renewed[b]

\* The candidates are removed from the oldest on; each is verified just before.
Target(v) == Min(passes[v].doomed)

VerifyIdentity(v) ==
  /\ PassAt(v, "DELETE") /\ passes[v].doomed # {}
  /\ IF SameIdentity(Target(v), passes[v].seen[Target(v)])
       THEN PassMoves(v, "MOVE")
       ELSE TakeBack(v)
  /\ UNCHANGED <<files, renewed, made, aged, anchored, broken, reported, torn, retentionFaults>>

\* The parts of a bundle are moved in this order, and put back in the reverse one.
MoveOrder(part) == CASE part = "DATABASE" -> 1 [] part = "MANIFEST" -> 2
                     [] part = "ADMIN_SECURITY" -> 3 [] part = "SIGNATURE" -> 4
FirstPart(parts) == CHOOSE part \in parts : \A other \in parts : MoveOrder(part) <= MoveOrder(other)
LastPart(parts) == CHOOSE part \in parts : \A other \in parts : MoveOrder(part) >= MoveOrder(other)

\* The parts of the candidate that are still to be moved.
ToMove(v) == passes[v].seen[Target(v)].parts \ passes[v].moved

\* removeBundle renames a part; when that fails, it puts back what it has moved.
MovePart(v) ==
  /\ PassAt(v, "MOVE") /\ ToMove(v) # {}
  /\ LET target == Target(v)
         part == FirstPart(ToMove(v)) IN
       \/ /\ part \in files[target]
          /\ files' = [files EXCEPT ![target] = @ \ {part}]
          /\ PassGoes(v, [passes[v] EXCEPT !.moved = @ \union {part}])
          /\ UNCHANGED retentionFaults
       \/ /\ part \notin files[target]
          /\ PassMoves(v, "ROLLBACK")
          /\ UNCHANGED <<files, retentionFaults>>
       \/ /\ part \in files[target] /\ retentionFaults < MaxRetentionFaults
          /\ retentionFaults' = retentionFaults + 1
          /\ PassMoves(v, "ROLLBACK")
          /\ UNCHANGED files
  /\ UNCHANGED <<renewed, made, aged, anchored, broken, reported, torn>>

PutBack(v) ==
  /\ PassAt(v, "ROLLBACK") /\ passes[v].moved # {}
  /\ LET target == Target(v)
         part == LastPart(passes[v].moved) IN
       /\ PassGoes(v, [passes[v] EXCEPT !.moved = @ \ {part}])
       /\ \/ /\ files' = [files EXCEPT ![target] = @ \union {part}]
             /\ renewed' = [renewed EXCEPT ![target] = IF part \in Sidecars THEN @ + 1 ELSE @]
             /\ UNCHANGED <<torn, retentionFaults>>
          \/ /\ retentionFaults < MaxRetentionFaults
             /\ retentionFaults' = retentionFaults + 1
             /\ torn' = torn \union {target}
             /\ UNCHANGED <<files, renewed>>
  /\ UNCHANGED <<made, aged, anchored, broken, reported>>

RollbackEnds(v) ==
  /\ PassAt(v, "ROLLBACK") /\ passes[v].moved = {}
  /\ TakeBack(v)
  /\ UNCHANGED <<files, renewed, made, aged, anchored, broken, reported, torn, retentionFaults>>

\* What is moved away has a name that no scan knows; it is unlinked, or stays.
Unlink(v) ==
  /\ PassAt(v, "MOVE") /\ ToMove(v) = {}
  /\ \/ /\ PassGoes(v, [passes[v] EXCEPT !.at = "DELETE", !.moved = {}, !.doomed = @ \ {Target(v)},
                                  !.seen[Target(v)] = Absent])
        /\ UNCHANGED retentionFaults
     \/ /\ retentionFaults < MaxRetentionFaults
        /\ retentionFaults' = retentionFaults + 1
        /\ TakeBack(v)
  /\ UNCHANGED <<files, renewed, made, aged, anchored, broken, reported, torn>>

PassEnds(v) ==
  /\ PassAt(v, "DELETE") /\ passes[v].doomed = {}
  /\ PassGoes(v, NoPass)
  /\ reported' = reported \union {passes[v].own}
  /\ UNCHANGED <<files, renewed, made, aged, anchored, broken, torn, retentionFaults>>

RetentionNext ==
  \/ GrowOld
  \/ \E b \in Backup : HostSigns(b)
  \/ \E v \in Verifier :
       \/ MakeBackup(v) \/ AddPart(v) \/ PassFails(v) \/ DiscardPart(v) \/ PassDies(v)
       \/ ListBackups(v) \/ InspectDatabase(v) \/ InspectSidecars(v) \/ InspectSignature(v) \/ Judge(v)
       \/ VerifyIdentity(v) \/ MovePart(v) \/ PutBack(v) \/ RollbackEnds(v) \/ Unlink(v) \/ PassEnds(v)

RetentionSpec == RetentionInit /\ [][RetentionNext]_retentionVars

-----------------------------------------------------------------------------
(* Properties. *)

RetentionTypeOK ==
  /\ files \in [Backup -> SUBSET Bundle]
  /\ made \in Existing..LastBackup /\ aged \in 0..made
  /\ broken \subseteq Backup /\ reported \subseteq Backup /\ torn \subseteq Backup
  /\ retentionFaults \in 0..MaxRetentionFaults

\* A backup whose verification was reported stays until it is old.  A database has
\* a signature only beside the whole bundle, whatever pass died over it: one that is
\* not whole would fail every later scan, and every later backup with it.  Only a
\* rollback that fails itself leaves such a bundle.
BundlesAreWhole ==
  /\ \A b \in reported : b > aged => Unsigned \subseteq files[b]
  /\ \A b \in Backup : {"DATABASE", "SIGNATURE"} \subseteq files[b] => files[b] = Bundle \/ b \in torn

\* A bundle that a recovery could be made from is given up only when it is old and
\* MinimumRecent newer ones remain, whatever another pass removes meanwhile.
RecoveryFloor ==
  [][\A b \in Backup : Validates(b) /\ ~Validates(b)' =>
       b <= aged /\ Cardinality({c \in Backup : c > b /\ Validates(c)'}) >= MinimumRecent]_retentionVars

\* The retention takes nothing that a recovery needs.
BackupsAreKept == []BundlesAreWhole /\ RecoveryFloor

=============================================================================
