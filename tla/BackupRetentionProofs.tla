------------------------- MODULE BackupRetentionProofs -------------------------
(***************************************************************************)
(* Theorems about the retention of backups, for any backups, passes that   *)
(* share their directory, crashes and failing operations.                  *)
(***************************************************************************)
EXTENDS BackupRetention, FiniteSetTheorems, WellFoundedInduction, TLAPS

-----------------------------------------------------------------------------
(* The backups and their retention: the invariant.                           *)

\* The shape of a pass: while it makes a backup or removes it, while it scans, and
\* while it deletes.
View == [parts : SUBSET Bundle, renewed : Nat]
Making == [at : {"SNAPSHOT", "MANIFEST", "LIST", "DISCARD"}, own : Backup]
Scanning == [at : {"INSPECT", "SIDECARS", "SIGNATURE"}, own : Backup, now : Nat, looking : Nat,
             names : SUBSET Backup, seen : [Backup -> View]]
Deleting == [at : {"DELETE", "MOVE", "ROLLBACK"}, own : Backup, doomed : SUBSET Backup,
             moved : SUBSET Bundle, seen : [Backup -> View]]
Pass == {NoPass} \cup Making \cup Scanning \cup Deleting

RetentionShape ==
  /\ files \in [Backup -> SUBSET Bundle] /\ renewed \in [Backup -> Nat]
  /\ made \in Existing..LastBackup /\ aged \in 0..made
  /\ anchored \in BOOLEAN /\ broken \subseteq Backup
  /\ passes \in [Verifier -> Pass]
  /\ reported \subseteq Backup /\ torn \subseteq Backup
  /\ retentionFaults \in 0..MaxRetentionFaults

\* The bundles that a recovery can be made from, by the files there are and those
\* of the backups that a configured key vouches for.
Trusted == IF anchored THEN Backup \ broken ELSE {}
Valid(fs, ok) == {b \in ok : fs[b] = Bundle}
Floor(b, fs, ok) == MinimumRecent <= Cardinality({c \in Valid(fs, ok) : c > b})

\* What a pass has put in place when it has come to a place.
Done(at) ==
  CASE at = "DISCARD" -> {}
    [] at = "SNAPSHOT" -> {"DATABASE"}
    [] at = "MANIFEST" -> {"DATABASE", "ADMIN_SECURITY"}
    [] OTHER -> Unsigned

OwnIsGrowing(p, fs, old, last, rep) ==
  p # NoPass =>
    /\ p.own <= last /\ p.own \notin rep /\ "SIGNATURE" \notin fs[p.own]
    /\ p.own > old => Done(p.at) \subseteq fs[p.own]

\* What a scan has seen of the old bundles is not less than what is signed now, and
\* what it takes for a bundle is one, or has enough newer ones.
ViewIsTrue(p, b, fs, ok) ==
  p.seen[b].parts # {} =>
    /\ "DATABASE" \in p.seen[b].parts
    /\ p.seen[b].parts = Bundle => b \in Valid(fs, ok) \/ Floor(b, fs, ok)
    /\ b <= p.now /\ "SIGNATURE" \in fs[b] /\ (p.at = "SIGNATURE" => b # p.looking) =>
         p.seen[b].parts = Bundle

ScanIsTrue(p, fs, old, ok) ==
  p \in Scanning =>
    /\ p.now <= old
    /\ p.at # "INSPECT" => p.looking \in Backup
    /\ \A b \in Backup : ViewIsTrue(p, b, fs, ok)

DoomIsDeserved(p, b, fs, old, ok) ==
  /\ b <= old /\ "DATABASE" \in p.seen[b].parts
  /\ "SIGNATURE" \in fs[b] => Floor(b, fs, ok)

DeletionIsSafe(p, fs, old, ok) ==
  p \in Deleting =>
    /\ \A b \in p.doomed : DoomIsDeserved(p, b, fs, old, ok)
    /\ p.at = "DELETE" => p.moved = {}
    /\ p.at # "DELETE" => p.doomed # {}
    /\ p.at = "ROLLBACK" => "SIGNATURE" \notin p.moved
    /\ p.at = "MOVE" /\ "SIGNATURE" \in p.moved => p.seen[Min(p.doomed)].parts \subseteq p.moved

\* A pass that has moved parts away has the database of the bundle, and lacks
\* nothing that it needs to make a signed one whole again.
IsMoving(p, b) == p \in Deleting /\ p.moved # {} /\ Min(p.doomed) = b
MovedIsKept(p, fs, trn) ==
  \A b \in Backup \ trn : IsMoving(p, b) =>
    /\ "DATABASE" \in p.moved /\ "DATABASE" \notin fs[b]
    /\ "SIGNATURE" \in fs[b] => fs[b] \cup p.moved = Bundle

PassIsSound(p, fs, old, last, rep, ok, trn) ==
  /\ OwnIsGrowing(p, fs, old, last, rep)
  /\ ScanIsTrue(p, fs, old, ok)
  /\ DeletionIsSafe(p, fs, old, ok)
  /\ MovedIsKept(p, fs, trn)

FileIsSound(b, fs, last, trn) ==
  /\ b > last => fs[b] = {}
  /\ {"DATABASE", "SIGNATURE"} \subseteq fs[b] => fs[b] = Bundle \/ b \in trn

ReportIsKept(b, fs, old, last) == b <= last /\ (b > old => Unsigned \subseteq fs[b])

Apart(p, q, trn) ==
  /\ p # NoPass /\ q # NoPass => p.own # q.own
  /\ \A b \in Backup \ trn : ~(IsMoving(p, b) /\ IsMoving(q, b))

RetentionInv ==
  /\ RetentionShape
  /\ \A b \in Backup : FileIsSound(b, files, made, torn)
  /\ \A b \in reported : ReportIsKept(b, files, aged, made)
  /\ \A v \in Verifier : PassIsSound(passes[v], files, aged, made, reported, Trusted, torn)
  /\ \A v, w \in Verifier : v # w => Apart(passes[v], passes[w], torn)

-----------------------------------------------------------------------------
(* The least of a set, and the order of the parts.                           *)

\* A nonempty set of backups has a least one, which Target takes.
LEMMA LeastBackup ==
  ASSUME NEW S \in SUBSET Backup, S # {}
  PROVE  Min(S) \in S /\ \A b \in S : Min(S) <= b
<1> DEFINE Below(b) == {c \in S : c <= b}
           Sets == {Below(b) : b \in S}
<1>1. \A b \in S : b \in Int
  BY RetentionAssumption DEF Backup
<1>2. IsFiniteSet(Backup)
  BY RetentionAssumption, FS_Interval DEF Backup
<1>3. IsFiniteSet(S)
  BY <1>2, FS_Subset
<1>4. IsWellFoundedOn(StrictSubsetOrdering(S), SUBSET S)
  BY <1>3, FS_StrictSubsetOrderingWellFounded, FS_FiniteSubsetsOfFinite
<1>5. Sets \subseteq SUBSET S /\ Sets # {}
  OBVIOUS
<1>6. PICK T \in Sets : \A U \in Sets : ~(<<U, T>> \in StrictSubsetOrdering(S))
  <2> HIDE DEF Sets
  <2> QED
    BY <1>4, <1>5, WFMin
<1>7. PICK least \in S : T = Below(least)
  BY <1>6
<1>8. ASSUME NEW b \in S, b < least PROVE FALSE
  <2>1. Below(b) \subseteq Below(least) /\ least \notin Below(b) /\ least \in Below(least)
    BY <1>1, <1>8
  <2>2. Below(b) \in SUBSET S /\ Below(least) \in SUBSET S
    OBVIOUS
  <2>3. <<Below(b), Below(least)>> \in StrictSubsetOrdering(S)
    <3> HIDE DEF Below
    <3> QED
      BY <2>1, <2>2 DEF StrictSubsetOrdering
  <2> QED
    BY <1>6, <1>7, <2>3
<1>9. \A b \in S : least <= b
  BY <1>1, <1>8
<1> QED
  BY <1>9 DEF Min

\* Parts are taken away in this order: the database first, the signature last.
LEMMA PartOrder ==
  ASSUME NEW S \in SUBSET Bundle, S # {}
  PROVE  /\ FirstPart(S) \in S /\ LastPart(S) \in S
         /\ "DATABASE" \in S => FirstPart(S) = "DATABASE"
         /\ FirstPart(S) = "SIGNATURE" => S = {"SIGNATURE"}
         /\ LastPart(S) = "DATABASE" => S = {"DATABASE"}
<1> DEFINE O(part) == MoveOrder(part)
<1>1. /\ O("DATABASE") = 1 /\ O("MANIFEST") = 2 /\ O("ADMIN_SECURITY") = 3 /\ O("SIGNATURE") = 4
  BY DEF MoveOrder
<1> HIDE DEF O
<1>0. \A part \in S : part \in {"DATABASE", "MANIFEST", "ADMIN_SECURITY", "SIGNATURE"}
  BY DEF Bundle
<1>2. \E part \in S : \A other \in S : O(part) <= O(other)
  <2>1. CASE "DATABASE" \in S
    <3>1. \A other \in S : O("DATABASE") <= O(other)
      BY <1>0, <1>1, <2>1
    <3> QED
      BY <2>1, <3>1
  <2>2. CASE "MANIFEST" \in S /\ "DATABASE" \notin S
    <3>1. \A other \in S : O("MANIFEST") <= O(other)
      BY <1>0, <1>1, <2>2
    <3> QED
      BY <2>2, <3>1
  <2>3. CASE "ADMIN_SECURITY" \in S /\ "DATABASE" \notin S /\ "MANIFEST" \notin S
    <3>1. \A other \in S : O("ADMIN_SECURITY") <= O(other)
      BY <1>0, <1>1, <2>3
    <3> QED
      BY <2>3, <3>1
  <2>4. CASE "SIGNATURE" \in S /\ "DATABASE" \notin S /\ "MANIFEST" \notin S /\ "ADMIN_SECURITY" \notin S
    <3>1. \A other \in S : O("SIGNATURE") <= O(other)
      BY <1>0, <1>1, <2>4
    <3> QED
      BY <2>4, <3>1
  <2> QED
    BY <1>0, <2>1, <2>2, <2>3, <2>4
<1>3. \E part \in S : \A other \in S : O(part) >= O(other)
  <2>1. CASE "SIGNATURE" \in S
    <3>1. \A other \in S : O("SIGNATURE") >= O(other)
      BY <1>0, <1>1, <2>1
    <3> QED
      BY <2>1, <3>1
  <2>2. CASE "ADMIN_SECURITY" \in S /\ "SIGNATURE" \notin S
    <3>1. \A other \in S : O("ADMIN_SECURITY") >= O(other)
      BY <1>0, <1>1, <2>2
    <3> QED
      BY <2>2, <3>1
  <2>3. CASE "MANIFEST" \in S /\ "SIGNATURE" \notin S /\ "ADMIN_SECURITY" \notin S
    <3>1. \A other \in S : O("MANIFEST") >= O(other)
      BY <1>0, <1>1, <2>3
    <3> QED
      BY <2>3, <3>1
  <2>4. CASE "DATABASE" \in S /\ "SIGNATURE" \notin S /\ "ADMIN_SECURITY" \notin S /\ "MANIFEST" \notin S
    <3>1. \A other \in S : O("DATABASE") >= O(other)
      BY <1>0, <1>1, <2>4
    <3> QED
      BY <2>4, <3>1
  <2> QED
    BY <1>0, <2>1, <2>2, <2>3, <2>4
<1>4. FirstPart(S) \in S /\ \A other \in S : O(FirstPart(S)) <= O(other)
  <2>1. FirstPart(S) = CHOOSE part \in S : \A other \in S : O(part) <= O(other)
    BY DEF FirstPart, O
  <2> QED
    BY <1>2, <2>1
<1>5. LastPart(S) \in S /\ \A other \in S : O(LastPart(S)) >= O(other)
  <2>1. LastPart(S) = CHOOSE part \in S : \A other \in S : O(part) >= O(other)
    BY DEF LastPart, O
  <2> QED
    BY <1>3, <2>1
<1>7. "DATABASE" \in S => FirstPart(S) = "DATABASE"
  BY <1>0, <1>1, <1>4
<1>8. FirstPart(S) = "SIGNATURE" => \A part \in S : part = "SIGNATURE"
  BY <1>0, <1>1, <1>4
<1>9. LastPart(S) = "DATABASE" => \A part \in S : part = "DATABASE"
  BY <1>0, <1>1, <1>5
<1> QED
  BY <1>4, <1>5, <1>7, <1>8, <1>9

-----------------------------------------------------------------------------
(* What a step leaves to the passes that do not take it.                     *)

\* No old bundle gets a signature, the newer recovery bundles of a backup stay
\* enough, and one that could be recovered from can be, or has enough newer ones.
Calm(fs, fs2, old, ok) ==
  /\ \A b \in Backup : b <= old /\ "SIGNATURE" \in fs2[b] => "SIGNATURE" \in fs[b]
  /\ \A b \in Backup : Floor(b, fs, ok) => Floor(b, fs2, ok)
  /\ \A b \in Valid(fs, ok) : b \in Valid(fs2, ok) \/ Floor(b, fs2, ok)

\* More newer bundles are not fewer.
LEMMA FloorRises ==
  ASSUME NEW fs, NEW fs2, NEW ok \in SUBSET Backup, NEW b \in Backup, NEW c \in Backup,
         Floor(b, fs, ok),
         {d \in Valid(fs, ok) : d > b} \subseteq {d \in Valid(fs2, ok) : d > c}
  PROVE  Floor(c, fs2, ok)
<1> DEFINE few == {d \in Valid(fs, ok) : d > b}
           many == {d \in Valid(fs2, ok) : d > c}
<1>1. IsFiniteSet(Backup)
  BY RetentionAssumption, FS_Interval DEF Backup
<1>2. many \subseteq Backup
  BY DEF Valid
<1>3. IsFiniteSet(many)
  BY <1>1, <1>2, FS_Subset
<1>4. IsFiniteSet(few) /\ Cardinality(few) <= Cardinality(many)
  BY <1>3, FS_Subset
<1>5. Cardinality(few) \in Nat /\ Cardinality(many) \in Nat
  BY <1>3, <1>4, FS_CardinalityType
<1>6. MinimumRecent <= Cardinality(few)
  BY DEF Floor
<1>7. MinimumRecent <= Cardinality(many)
  <2> HIDE DEF few, many
  <2> QED
    BY <1>4, <1>5, <1>6, RetentionAssumption
<1> QED
  BY <1>7 DEF Floor

\* Taking at most one bundle away is calm when enough newer ones were there.
LEMMA CalmStep ==
  ASSUME NEW fs, NEW fs2, NEW old \in Nat, NEW ok \in SUBSET Backup, NEW t \in Backup,
         \A b \in Backup : b <= old /\ "SIGNATURE" \in fs2[b] => "SIGNATURE" \in fs[b],
         \A b \in Valid(fs, ok) : b \in Valid(fs2, ok) \/ b = t,
         t \in Valid(fs, ok) => t \in Valid(fs2, ok) \/ Floor(t, fs, ok)
  PROVE  Calm(fs, fs2, old, ok)
<1>1. \A b \in Backup : b \in Int
  BY RetentionAssumption DEF Backup
<1>2. Valid(fs, ok) \subseteq Backup
  BY DEF Valid
<1>3. ASSUME NEW b \in Backup, Floor(b, fs, ok) PROVE Floor(b, fs2, ok)
  <2>1. CASE t \in Valid(fs, ok) /\ t \notin Valid(fs2, ok) /\ t > b
    <3>1. {d \in Valid(fs, ok) : d > t} \subseteq {d \in Valid(fs2, ok) : d > b}
      BY <1>1, <1>2, <2>1
    <3>2. Floor(t, fs, ok)
      BY <2>1
    <3> QED
      BY <3>1, <3>2, FloorRises
  <2>2. CASE ~(t \in Valid(fs, ok) /\ t \notin Valid(fs2, ok) /\ t > b)
    <3>1. {d \in Valid(fs, ok) : d > b} \subseteq {d \in Valid(fs2, ok) : d > b}
      BY <2>2
    <3> QED
      BY <1>3, <3>1, FloorRises
  <2> QED
    BY <2>1, <2>2
<1>4. \A b \in Valid(fs, ok) : b \in Valid(fs2, ok) \/ Floor(b, fs2, ok)
  BY <1>3
<1> QED
  BY <1>3, <1>4 DEF Calm

\* A scan stays true over a calm step.
LEMMA ScanKept ==
  ASSUME NEW p \in Pass, NEW fs, NEW fs2, NEW old \in Nat, NEW ok,
         ScanIsTrue(p, fs, old, ok), Calm(fs, fs2, old, ok)
  PROVE  ScanIsTrue(p, fs2, old, ok)
<1> SUFFICES ASSUME p \in Scanning PROVE ScanIsTrue(p, fs2, old, ok)
  BY DEF ScanIsTrue
<1>1. p.now \in Nat /\ p.now <= old
  BY DEF Scanning, ScanIsTrue
<1>2. ASSUME NEW b \in Backup PROVE ViewIsTrue(p, b, fs2, ok)
  <2>1. ViewIsTrue(p, b, fs, ok) /\ b \in Int
    BY RetentionAssumption DEF ScanIsTrue, Backup
  <2>2. b <= p.now => b <= old
    BY <1>1, <2>1
  <2>3. "SIGNATURE" \in fs2[b] /\ b <= p.now => "SIGNATURE" \in fs[b]
    BY <2>2 DEF Calm
  <2>4. b \in Valid(fs, ok) \/ Floor(b, fs, ok) => b \in Valid(fs2, ok) \/ Floor(b, fs2, ok)
    BY DEF Calm
  <2> QED
    BY <2>1, <2>3, <2>4, Zenon DEF ViewIsTrue
<1> QED
  BY <1>2 DEF ScanIsTrue

\* What is doomed deserves it after a calm step.
LEMMA DeletionKept ==
  ASSUME NEW p \in Pass, NEW fs, NEW fs2, NEW old \in Nat, NEW ok,
         DeletionIsSafe(p, fs, old, ok), Calm(fs, fs2, old, ok)
  PROVE  DeletionIsSafe(p, fs2, old, ok)
<1> SUFFICES ASSUME p \in Deleting PROVE DeletionIsSafe(p, fs2, old, ok)
  BY DEF DeletionIsSafe
<1>1. ASSUME NEW b \in p.doomed PROVE DoomIsDeserved(p, b, fs2, old, ok)
  <2>1. b \in Backup
    BY DEF Deleting
  <2>2. DoomIsDeserved(p, b, fs, old, ok)
    BY DEF DeletionIsSafe
  <2> QED
    BY <2>1, <2>2 DEF DoomIsDeserved, Calm
<1> QED
  BY <1>1 DEF DeletionIsSafe

\* The step does not disturb what a pass makes or has moved away.
Untouched(q, fs, fs2, old, trn) ==
  /\ q # NoPass => \/ fs2[q.own] = fs[q.own]
                   \/ q.own <= old /\ "SIGNATURE" \notin fs2[q.own]
  /\ \A b \in Backup \ trn : IsMoving(q, b) =>
       \/ fs2[b] = fs[b]
       \/ "SIGNATURE" \notin fs2[b] /\ "DATABASE" \notin fs2[b]

LEMMA OtherPassKept ==
  ASSUME NEW q \in Pass, NEW fs, NEW fs2, NEW old \in Nat, NEW last \in Nat, NEW last2 \in Nat, last <= last2,
         NEW rep, NEW ok, NEW trn, NEW trn2, trn \subseteq trn2,
         PassIsSound(q, fs, old, last, rep, ok, trn),
         Calm(fs, fs2, old, ok), Untouched(q, fs, fs2, old, trn2)
  PROVE  PassIsSound(q, fs2, old, last2, rep, ok, trn2)
<1>1. ScanIsTrue(q, fs2, old, ok)
  BY ScanKept DEF PassIsSound
<1>2. DeletionIsSafe(q, fs2, old, ok)
  BY DeletionKept DEF PassIsSound
<1>3. OwnIsGrowing(q, fs2, old, last2, rep)
  <2> SUFFICES ASSUME q # NoPass PROVE OwnIsGrowing(q, fs2, old, last2, rep)
    BY DEF OwnIsGrowing
  <2>1. q.own \in Nat
    BY RetentionAssumption DEF Pass, Making, Scanning, Deleting, Backup
  <2>2. /\ q.own <= last /\ q.own \notin rep /\ "SIGNATURE" \notin fs[q.own]
        /\ q.own > old => Done(q.at) \subseteq fs[q.own]
    BY DEF PassIsSound, OwnIsGrowing
  <2>3. q.own <= last2
    BY <2>1, <2>2
  <2>4. CASE fs2[q.own] = fs[q.own]
    BY <2>2, <2>3, <2>4 DEF OwnIsGrowing
  <2>5. CASE q.own <= old /\ "SIGNATURE" \notin fs2[q.own]
    <3>1. ~(q.own > old)
      BY <2>1, <2>5
    <3> QED
      BY <2>2, <2>3, <2>5, <3>1 DEF OwnIsGrowing
  <2> QED
    BY <2>4, <2>5 DEF Untouched
<1>4. MovedIsKept(q, fs2, trn2)
  <2> SUFFICES ASSUME NEW b \in Backup \ trn2, IsMoving(q, b)
               PROVE  /\ "DATABASE" \in q.moved /\ "DATABASE" \notin fs2[b]
                      /\ "SIGNATURE" \in fs2[b] => fs2[b] \cup q.moved = Bundle
    BY DEF MovedIsKept
  <2>1. b \in Backup \ trn
    OBVIOUS
  <2>2. /\ "DATABASE" \in q.moved /\ "DATABASE" \notin fs[b]
        /\ "SIGNATURE" \in fs[b] => fs[b] \cup q.moved = Bundle
    BY <2>1 DEF PassIsSound, MovedIsKept
  <2>3. fs2[b] = fs[b] \/ ("SIGNATURE" \notin fs2[b] /\ "DATABASE" \notin fs2[b])
    BY DEF Untouched
  <2> QED
    BY <2>2, <2>3
<1> QED
  BY <1>1, <1>2, <1>3, <1>4 DEF PassIsSound

\* A step of a pass keeps the invariant when its own pass and the files stay sound,
\* and the others are left in peace.
LEMMA PassGoesOn ==
  ASSUME RetentionInv, NEW v \in Verifier, NEW p \in Pass,
         passes' = [passes EXCEPT ![v] = p],
         RetentionShape',
         UNCHANGED <<aged, anchored, broken, reported>>, made <= made', torn \subseteq torn',
         Calm(files, files', aged, Trusted),
         \A b \in Backup : FileIsSound(b, files', made', torn'),
         \A b \in reported : b > aged => Unsigned \subseteq files'[b],
         PassIsSound(p, files', aged, made', reported, Trusted, torn'),
         \A w \in Verifier \ {v} : /\ Untouched(passes[w], files, files', aged, torn')
                                   /\ Apart(p, passes[w], torn')
  PROVE  RetentionInv'
<1> USE DEF RetentionInv
<1>1. made \in Nat /\ made' \in Nat /\ aged \in Nat /\ torn' \subseteq Backup
  BY RetentionAssumption DEF RetentionShape
<1>2. Trusted' = Trusted
  BY DEF Trusted
<1>3. passes \in [Verifier -> Pass]
  BY DEF RetentionShape
<1>4. passes'[v] = p /\ \A w \in Verifier \ {v} : passes'[w] = passes[w]
  BY <1>3
<1>5. \A b \in reported' : ReportIsKept(b, files', aged', made')
  <2> SUFFICES ASSUME NEW b \in reported PROVE ReportIsKept(b, files', aged', made')
    OBVIOUS
  <2>1. b \in Nat /\ b <= made
    BY RetentionAssumption DEF RetentionShape, Backup, ReportIsKept
  <2>2. b <= made'
    BY <1>1, <2>1
  <2> QED
    BY <2>2 DEF ReportIsKept
<1>6. \A w \in Verifier \ {v} : PassIsSound(passes[w], files', aged, made', reported, Trusted, torn')
  <2> TAKE w \in Verifier \ {v}
  <2>1. passes[w] \in Pass /\ PassIsSound(passes[w], files, aged, made, reported, Trusted, torn)
    BY <1>3
  <2>2. Untouched(passes[w], files, files', aged, torn')
    OBVIOUS
  <2> QED
    BY <1>1, <2>1, <2>2, OtherPassKept
<1>7. \A w \in Verifier : PassIsSound(passes'[w], files', aged', made', reported', Trusted', torn')
  BY <1>2, <1>4, <1>6
<1>8. ASSUME NEW x \in Verifier, NEW y \in Verifier, x # y PROVE Apart(passes'[x], passes'[y], torn')
  <2>1. CASE x = v
    BY <1>4, <1>8, <2>1
  <2>2. CASE y = v
    <3>1. Apart(p, passes[x], torn')
      BY <1>8, <2>2
    <3> QED
      BY <1>4, <1>8, <2>2, <3>1 DEF Apart
  <2>3. CASE x # v /\ y # v
    <3>1. Apart(passes[x], passes[y], torn)
      BY <1>8
    <3> QED
      BY <1>4, <2>3, <3>1 DEF Apart
  <2> QED
    BY <2>1, <2>2, <2>3
<1> QED
  BY <1>5, <1>7, <1>8

\* A step that changes no file and nothing but the pass, which keeps its backup.
LEMMA QuietStep ==
  ASSUME RetentionInv, NEW v \in Verifier, NEW p \in Pass,
         passes' = [passes EXCEPT ![v] = p],
         UNCHANGED <<files, renewed, made, aged, anchored, broken, reported>>,
         torn \subseteq torn', torn' \subseteq Backup, retentionFaults' \in 0..MaxRetentionFaults,
         p # NoPass => passes[v] # NoPass /\ p.own = passes[v].own,
         \A b \in Backup \ torn' : IsMoving(p, b) => IsMoving(passes[v], b),
         PassIsSound(p, files, aged, made, reported, Trusted, torn')
  PROVE  RetentionInv'
<1>0. /\ RetentionShape
      /\ \A b \in Backup : FileIsSound(b, files, made, torn)
      /\ \A b \in reported : ReportIsKept(b, files, aged, made)
      /\ \A w \in Verifier : PassIsSound(passes[w], files, aged, made, reported, Trusted, torn)
      /\ \A x, y \in Verifier : x # y => Apart(passes[x], passes[y], torn)
  BY DEF RetentionInv
<1>1. RetentionShape'
  BY <1>0 DEF RetentionShape
<1>2. made <= made'
  BY <1>0, RetentionAssumption DEF RetentionShape
<1>3. Calm(files, files', aged, Trusted)
  BY DEF Calm
<1>4. \A b \in Backup : FileIsSound(b, files', made', torn')
  BY <1>0 DEF FileIsSound
<1>5. \A b \in reported : b > aged => Unsigned \subseteq files'[b]
  BY <1>0 DEF ReportIsKept
<1>6. ASSUME NEW w \in Verifier \ {v}
      PROVE  Untouched(passes[w], files, files', aged, torn') /\ Apart(p, passes[w], torn')
  <2>1. Untouched(passes[w], files, files', aged, torn')
    BY DEF Untouched
  <2>2. Apart(passes[v], passes[w], torn)
    BY <1>0
  <2>3. Apart(p, passes[w], torn')
    BY <2>2 DEF Apart
  <2> QED
    BY <2>1, <2>3
<1>7. PassIsSound(p, files', aged, made', reported, Trusted, torn')
  OBVIOUS
<1> QED
  BY <1>1, <1>2, <1>3, <1>4, <1>5, <1>6, <1>7, PassGoesOn

-----------------------------------------------------------------------------
(* The steps that change no file.                                            *)

\* The place of a pass tells its shape.
LEMMA PassKinds ==
  ASSUME NEW p \in Pass
  PROVE  /\ p = NoPass <=> p.at = "NONE"
         /\ p \in Making <=> p.at \in {"SNAPSHOT", "MANIFEST", "LIST", "DISCARD"}
         /\ p \in Scanning <=> p.at \in {"INSPECT", "SIDECARS", "SIGNATURE"}
         /\ p \in Deleting <=> p.at \in {"DELETE", "MOVE", "ROLLBACK"}
         /\ p # NoPass => p.own \in Backup
<1>1. p = NoPass => p.at = "NONE"
  BY DEF NoPass
<1>2. p \in Making => p.at \in {"SNAPSHOT", "MANIFEST", "LIST", "DISCARD"} /\ p.own \in Backup
  BY DEF Making
<1>3. p \in Scanning => p.at \in {"INSPECT", "SIDECARS", "SIGNATURE"} /\ p.own \in Backup
  BY DEF Scanning
<1>4. p \in Deleting => p.at \in {"DELETE", "MOVE", "ROLLBACK"} /\ p.own \in Backup
  BY DEF Deleting
<1>5. p = NoPass \/ p \in Making \/ p \in Scanning \/ p \in Deleting
  BY DEF Pass
<1> QED
  BY <1>1, <1>2, <1>3, <1>4, <1>5

\* A pass that makes or discards its backup has nothing else to answer for.
LEMMA MakingIsSound ==
  ASSUME NEW p \in Making, NEW fs, NEW old, NEW last, NEW rep, NEW ok, NEW trn,
         OwnIsGrowing(p, fs, old, last, rep)
  PROVE  PassIsSound(p, fs, old, last, rep, ok, trn) /\ \A b : ~IsMoving(p, b)
<1>1. p \notin Scanning /\ p \notin Deleting
  BY PassKinds DEF Pass
<1> QED
  BY <1>1 DEF PassIsSound, ScanIsTrue, DeletionIsSafe, MovedIsKept, IsMoving

LEMMA NoPassIsSound ==
  ASSUME NEW fs, NEW old, NEW last, NEW rep, NEW ok, NEW trn
  PROVE  NoPass \in Pass /\ PassIsSound(NoPass, fs, old, last, rep, ok, trn) /\ \A b : ~IsMoving(NoPass, b)
<1>1. NoPass \in Pass
  BY DEF Pass
<1>2. NoPass \notin Scanning /\ NoPass \notin Deleting
  BY <1>1, PassKinds DEF NoPass
<1> QED
  BY <1>1, <1>2 DEF PassIsSound, OwnIsGrowing, ScanIsTrue, DeletionIsSafe, MovedIsKept, IsMoving

\* What the invariant says of the pass that takes a step.
LEMMA OwnPass ==
  ASSUME RetentionInv, NEW v \in Verifier
  PROVE  /\ passes[v] \in Pass
         /\ PassIsSound(passes[v], files, aged, made, reported, Trusted, torn)
         /\ files \in [Backup -> SUBSET Bundle]
         /\ made \in Nat /\ aged \in Nat /\ aged <= made /\ made <= LastBackup
         /\ retentionFaults \in 0..MaxRetentionFaults
         /\ torn \subseteq Backup /\ Trusted \subseteq Backup
  BY RetentionAssumption DEF RetentionInv, RetentionShape, Trusted

\* Another fault.
LEMMA FaultsStay ==
  ASSUME RetentionInv, retentionFaults < MaxRetentionFaults
  PROVE  retentionFaults + 1 \in 0..MaxRetentionFaults
  BY RetentionAssumption DEF RetentionInv, RetentionShape

LEMMA TakeBackKeeps ==
  ASSUME RetentionInv, NEW v \in Verifier, passes[v] # NoPass, TakeBack(v),
         UNCHANGED <<files, renewed, made, aged, anchored, broken, reported, torn>>,
         retentionFaults' \in 0..MaxRetentionFaults
  PROVE  RetentionInv'
<1> DEFINE p == [at |-> "DISCARD", own |-> passes[v].own]
<1>1. passes[v] \in Pass /\ PassIsSound(passes[v], files, aged, made, reported, Trusted, torn)
  BY OwnPass
<1>2. passes[v].own \in Backup
  BY <1>1, PassKinds
<1>3. p \in Making
  BY <1>2 DEF Making
<1>4. p.own = passes[v].own /\ p.at = "DISCARD"
  OBVIOUS
<1>5. passes' = [passes EXCEPT ![v] = p]
  BY DEF TakeBack, PassGoes
<1> HIDE DEF p
<1>6. Done(p.at) = {}
  BY <1>4 DEF Done
<1>7. OwnIsGrowing(p, files, aged, made, reported)
  BY <1>1, <1>4, <1>6 DEF PassIsSound, OwnIsGrowing
<1>8. PassIsSound(p, files, aged, made, reported, Trusted, torn') /\ \A b : ~IsMoving(p, b)
  BY <1>3, <1>7, MakingIsSound
<1>9. p \in Pass
  BY <1>3 DEF Pass
<1> QED
  BY <1>4, <1>5, <1>8, <1>9, OwnPass, QuietStep

LEMMA EndKeeps ==
  ASSUME RetentionInv, NEW v \in Verifier, PassGoes(v, NoPass),
         UNCHANGED <<files, renewed, made, aged, anchored, broken, reported, torn>>,
         retentionFaults' \in 0..MaxRetentionFaults
  PROVE  RetentionInv'
<1>1. passes' = [passes EXCEPT ![v] = NoPass]
  BY DEF PassGoes
<1>2. NoPass \in Pass /\ PassIsSound(NoPass, files, aged, made, reported, Trusted, torn') /\ \A b : ~IsMoving(NoPass, b)
  BY NoPassIsSound
<1> QED
  BY <1>1, <1>2, OwnPass, QuietStep

\* The backups that are listed are still to be seen.
LEMMA ListKeeps ==
  ASSUME RetentionInv, NEW v \in Verifier, ListBackups(v)
  PROVE  RetentionInv'
<1> DEFINE q == passes[v]
           p == [at |-> "INSPECT", own |-> q.own, now |-> aged, looking |-> 0,
                 names |-> {b \in Backup : "DATABASE" \in files[b]} \ {q.own},
                 seen |-> [b \in Backup |-> Absent]]
<1>1. q \in Pass /\ PassIsSound(q, files, aged, made, reported, Trusted, torn) /\ q.at = "LIST"
  BY OwnPass DEF ListBackups, PassAt
<1>2. q # NoPass /\ q.own \in Backup
  BY <1>1, PassKinds
<1>3. aged \in Nat
  BY OwnPass
<1>4. Absent \in View /\ Absent.parts = {}
  BY DEF Absent, View
<1>5. p \in Scanning
  <2>1. [b \in Backup |-> Absent] \in [Backup -> View]
    BY <1>4
  <2> QED
    BY <1>2, <1>3, <2>1 DEF Scanning
<1>6. /\ p.at = "INSPECT" /\ p.own = q.own /\ p.now = aged
      /\ \A b \in Backup : p.seen[b].parts = {}
  BY <1>4
<1>7. passes' = [passes EXCEPT ![v] = p]
  BY DEF ListBackups, PassGoes
<1> HIDE DEF p, q
<1>8. p \in Pass /\ p \notin Deleting /\ p # NoPass
  BY <1>5, <1>6, PassKinds DEF Pass
<1>9. OwnIsGrowing(p, files, aged, made, reported)
  <2>1. Done(p.at) = Done(q.at)
    BY <1>1, <1>6 DEF Done
  <2> QED
    BY <1>1, <1>2, <1>6, <2>1 DEF PassIsSound, OwnIsGrowing
<1>10. ScanIsTrue(p, files, aged, Trusted)
  BY <1>3, <1>6 DEF ScanIsTrue, ViewIsTrue
<1>11. PassIsSound(p, files, aged, made, reported, Trusted, torn')
  BY <1>8, <1>9, <1>10 DEF PassIsSound, DeletionIsSafe, MovedIsKept, IsMoving
<1>12. UNCHANGED <<files, renewed, made, aged, anchored, broken, reported, torn, retentionFaults>>
  BY DEF ListBackups
<1>13. q = passes[v]
  BY DEF q
<1> QED
  BY <1>2, <1>6, <1>7, <1>8, <1>11, <1>12, <1>13, OwnPass, QuietStep DEF IsMoving

\* A scan that goes on keeps the invariant when what it has seen is true.
LEMMA ScanGoesOn ==
  ASSUME RetentionInv, NEW v \in Verifier, passes[v] \in Scanning, NEW p \in Scanning,
         passes' = [passes EXCEPT ![v] = p], p.own = passes[v].own, p.now = passes[v].now,
         p.at # "INSPECT" => p.looking \in Backup,
         \A b \in Backup : ViewIsTrue(p, b, files, Trusted),
         UNCHANGED <<files, renewed, made, aged, anchored, broken, reported, torn, retentionFaults>>
  PROVE  RetentionInv'
<1> DEFINE q == passes[v]
<1>1. q \in Pass /\ PassIsSound(q, files, aged, made, reported, Trusted, torn)
  BY OwnPass
<1>2. q # NoPass /\ q.at \in {"INSPECT", "SIDECARS", "SIGNATURE"}
  BY <1>1, PassKinds
<1>3. p \in Pass /\ p.at \in {"INSPECT", "SIDECARS", "SIGNATURE"}
  BY DEF Pass, Scanning
<1>4. p # NoPass /\ p \notin Deleting
  BY <1>3, PassKinds
<1>5. OwnIsGrowing(p, files, aged, made, reported)
  <2>1. Done(p.at) = Done(q.at)
    BY <1>2, <1>3 DEF Done
  <2> QED
    BY <1>1, <1>2, <2>1 DEF PassIsSound, OwnIsGrowing
<1>6. ScanIsTrue(p, files, aged, Trusted)
  BY <1>1 DEF PassIsSound, ScanIsTrue
<1>7. PassIsSound(p, files, aged, made, reported, Trusted, torn')
  BY <1>4, <1>5, <1>6 DEF PassIsSound, DeletionIsSafe, MovedIsKept, IsMoving
<1> QED
  BY <1>2, <1>3, <1>4, <1>7, OwnPass, QuietStep DEF IsMoving

\* The facts about a scan that its next step relies on.
LEMMA OwnScan ==
  ASSUME RetentionInv, NEW v \in Verifier, passes[v].at \in {"INSPECT", "SIDECARS", "SIGNATURE"}
  PROVE  /\ passes[v] \in Scanning /\ passes[v] # NoPass
         /\ passes[v].now \in Nat /\ passes[v].now <= aged
         /\ passes[v].at # "INSPECT" => passes[v].looking \in Backup
         /\ \A b \in Backup : ViewIsTrue(passes[v], b, files, Trusted)
<1>1. passes[v] \in Pass /\ PassIsSound(passes[v], files, aged, made, reported, Trusted, torn)
  BY OwnPass
<1>2. passes[v] \in Scanning /\ passes[v] # NoPass
  BY <1>1, PassKinds
<1> QED
  BY <1>1, <1>2 DEF PassIsSound, ScanIsTrue, Scanning

LEMMA DatabaseKeeps ==
  ASSUME RetentionInv, NEW v \in Verifier, InspectDatabase(v)
  PROVE  RetentionInv'
<1> DEFINE q == passes[v]
<1>1. q.at = "INSPECT"
  BY DEF InspectDatabase, PassAt
<1>2. UNCHANGED <<files, renewed, made, aged, anchored, broken, reported, torn, retentionFaults>>
  BY DEF InspectDatabase
<1>3. /\ q \in Scanning /\ q # NoPass
      /\ \A b \in Backup : ViewIsTrue(q, b, files, Trusted)
  BY <1>1, OwnScan
<1>4. CASE TakeBack(v)
  BY <1>2, <1>3, <1>4, OwnPass, TakeBackKeeps
<1>5. ASSUME NEW b \in q.names, PassGoes(v, [q EXCEPT !.at = "SIDECARS", !.looking = b, !.names = @ \ {b}])
      PROVE  RetentionInv'
  <2> DEFINE p == [q EXCEPT !.at = "SIDECARS", !.looking = b, !.names = @ \ {b}]
  <2>1. b \in Backup /\ b \in Nat
    BY <1>3, RetentionAssumption DEF Scanning, Backup
  <2>2. /\ p \in Scanning /\ p.at = "SIDECARS" /\ p.own = q.own /\ p.now = q.now /\ p.looking = b /\ p.seen = q.seen
    BY <1>3, <2>1 DEF Scanning
  <2>3. passes' = [passes EXCEPT ![v] = p]
    BY <1>5 DEF PassGoes
  <2> HIDE DEF p, q
  <2>4. ASSUME NEW c \in Backup PROVE ViewIsTrue(p, c, files, Trusted)
    <3>1. ViewIsTrue(q, c, files, Trusted)
      BY <1>3
    <3> QED
      BY <1>1, <2>2, <3>1 DEF ViewIsTrue
  <2>5. q = passes[v]
    BY DEF q
  <2> QED
    BY <1>2, <1>3, <2>1, <2>2, <2>3, <2>4, <2>5, ScanGoesOn
<1> QED
  BY <1>4, <1>5 DEF InspectDatabase

LEMMA SidecarsKeep ==
  ASSUME RetentionInv, NEW v \in Verifier, InspectSidecars(v)
  PROVE  RetentionInv'
<1> DEFINE q == passes[v]
           named == q.looking
           view == [parts |-> {"DATABASE"} \union (files[named] \intersect Unsigned), renewed |-> renewed[named]]
           p == [q EXCEPT !.at = "SIGNATURE", !.seen[named] = view]
<1>1. q.at = "SIDECARS"
  BY DEF InspectSidecars, PassAt
<1>2. UNCHANGED <<files, renewed, made, aged, anchored, broken, reported, torn, retentionFaults>>
  BY DEF InspectSidecars
<1>3. /\ q \in Scanning /\ named \in Backup
      /\ \A b \in Backup : ViewIsTrue(q, b, files, Trusted)
  BY <1>1, OwnScan
<1>4. passes' = [passes EXCEPT ![v] = p]
  BY DEF InspectSidecars, PassGoes
<1>5. /\ view \in View /\ "DATABASE" \in view.parts /\ view.parts # Bundle
  <2>1. renewed[named] \in Nat /\ files[named] \subseteq Bundle
    BY <1>3 DEF RetentionInv, RetentionShape
  <2>2. view \in View
    BY <2>1 DEF View, Bundle, Unsigned
  <2>3. "SIGNATURE" \notin view.parts
    BY DEF Unsigned
  <2> QED
    BY <2>2, <2>3 DEF Bundle
<1>6. q = passes[v]
  OBVIOUS
<1> HIDE DEF view, named, q
<1>7. /\ p \in Scanning /\ p.at = "SIGNATURE" /\ p.own = q.own /\ p.now = q.now /\ p.looking = q.looking
      /\ p.seen = [q.seen EXCEPT ![named] = view]
  BY <1>3, <1>5 DEF Scanning
<1>8. named = q.looking
  BY DEF named
<1>9. q.seen \in [Backup -> View]
  BY <1>3 DEF Scanning
<1> HIDE DEF p
<1>10. ASSUME NEW b \in Backup PROVE ViewIsTrue(p, b, files, Trusted)
  <2>1. CASE b = named
    <3>1. p.seen[b] = view
      BY <1>7, <1>9, <2>1
    <3> QED
      BY <1>5, <1>7, <1>8, <2>1, <3>1 DEF ViewIsTrue
  <2>2. CASE b # named
    <3>1. p.seen[b] = q.seen[b]
      BY <1>7, <1>9, <2>2
    <3>2. ViewIsTrue(q, b, files, Trusted)
      BY <1>3
    <3> QED
      BY <1>1, <1>7, <3>1, <3>2 DEF ViewIsTrue
  <2> QED
    BY <2>1, <2>2
<1> QED
  BY <1>2, <1>3, <1>4, <1>6, <1>7, <1>8, <1>10, ScanGoesOn

LEMMA SignatureKeeps ==
  ASSUME RetentionInv, NEW v \in Verifier, InspectSignature(v)
  PROVE  RetentionInv'
<1> DEFINE q == passes[v]
           named == q.looking
<1>1. q.at = "SIGNATURE"
  BY DEF InspectSignature, PassAt
<1>2. UNCHANGED <<files, renewed, made, aged, anchored, broken, reported, torn, retentionFaults>>
  BY DEF InspectSignature
<1>3. /\ q \in Scanning /\ q # NoPass /\ named \in Backup
      /\ \A b \in Backup : ViewIsTrue(q, b, files, Trusted)
  BY <1>1, OwnScan
<1>4. CASE TakeBack(v)
  BY <1>2, <1>3, <1>4, OwnPass, TakeBackKeeps
<1>5. CASE /\ "SIGNATURE" \notin files[named]
           /\ PassGoes(v, [q EXCEPT !.at = "INSPECT", !.looking = 0])
  <2> DEFINE p == [q EXCEPT !.at = "INSPECT", !.looking = 0]
  <2>1. passes' = [passes EXCEPT ![v] = p]
    BY <1>5 DEF PassGoes
  <2>2. /\ p \in Scanning /\ p.at = "INSPECT" /\ p.own = q.own /\ p.now = q.now /\ p.seen = q.seen
    BY <1>3 DEF Scanning
  <2> HIDE DEF p
  <2>3. ASSUME NEW b \in Backup PROVE ViewIsTrue(p, b, files, Trusted)
    <3>1. ViewIsTrue(q, b, files, Trusted)
      BY <1>3
    <3>2. CASE b = named
      BY <1>5, <2>2, <3>1, <3>2 DEF ViewIsTrue
    <3>3. CASE b # named
      BY <2>2, <3>1, <3>3 DEF ViewIsTrue
    <3> QED
      BY <3>2, <3>3
  <2> QED
    BY <1>2, <1>3, <2>1, <2>2, <2>3, ScanGoesOn
<1>6. CASE /\ "SIGNATURE" \in files[named] /\ Validates(named)
           /\ PassGoes(v, [q EXCEPT !.at = "INSPECT", !.looking = 0, !.seen[named].parts = Bundle])
  <2> DEFINE view == [q.seen[named] EXCEPT !.parts = Bundle]
             p == [q EXCEPT !.at = "INSPECT", !.looking = 0, !.seen[named].parts = Bundle]
  <2>1. passes' = [passes EXCEPT ![v] = p]
    BY <1>6 DEF PassGoes
  <2>2. q.seen \in [Backup -> View] /\ q.seen[named] \in View
    BY <1>3 DEF Scanning
  <2>3. view \in View /\ view.parts = Bundle
    BY <2>2 DEF View
  <2>4. /\ p \in Scanning /\ p.at = "INSPECT" /\ p.own = q.own /\ p.now = q.now
        /\ p.seen = [q.seen EXCEPT ![named] = view]
    <3>1. [q.seen EXCEPT ![named] = view] \in [Backup -> View]
      BY <2>2, <2>3
    <3> QED
      BY <1>3, <3>1 DEF Scanning
  <2>5. named \in Valid(files, Trusted)
    BY <1>3, <1>6 DEF Validates, Valid, Trusted
  <2> HIDE DEF p, view
  <2>6. ASSUME NEW b \in Backup PROVE ViewIsTrue(p, b, files, Trusted)
    <3>1. CASE b = named
      <4>1. p.seen[b].parts = Bundle /\ "DATABASE" \in p.seen[b].parts
        BY <2>2, <2>3, <2>4, <3>1 DEF Bundle
      <4> QED
        BY <2>5, <3>1, <4>1 DEF ViewIsTrue
    <3>2. CASE b # named
      <4>1. p.seen[b] = q.seen[b]
        BY <2>2, <2>4, <3>2
      <4>2. ViewIsTrue(q, b, files, Trusted)
        BY <1>3
      <4> QED
        BY <2>4, <3>2, <4>1, <4>2 DEF ViewIsTrue
    <3> QED
      BY <3>1, <3>2
  <2> QED
    BY <1>2, <1>3, <2>1, <2>4, <2>6, ScanGoesOn
<1> QED
  BY <1>4, <1>5, <1>6 DEF InspectSignature

\* A deletion that goes on without changing a file.
LEMMA DeletionGoesOn ==
  ASSUME RetentionInv, NEW v \in Verifier, passes[v] \in Scanning \/ passes[v] \in Deleting, NEW p \in Deleting,
         passes' = [passes EXCEPT ![v] = p], p.own = passes[v].own,
         UNCHANGED <<files, renewed, made, aged, anchored, broken, reported>>,
         torn \subseteq torn', torn' \subseteq Backup, retentionFaults' \in 0..MaxRetentionFaults,
         DeletionIsSafe(p, files, aged, Trusted),
         \A b \in Backup \ torn' : IsMoving(p, b) => IsMoving(passes[v], b) /\ p.moved = passes[v].moved
  PROVE  RetentionInv'
<1> DEFINE q == passes[v]
<1>1. q \in Pass /\ PassIsSound(q, files, aged, made, reported, Trusted, torn)
  BY OwnPass
<1>2. q # NoPass /\ q.at \in {"INSPECT", "SIDECARS", "SIGNATURE", "DELETE", "MOVE", "ROLLBACK"}
  BY <1>1, PassKinds
<1>3. p \in Pass /\ p.at \in {"DELETE", "MOVE", "ROLLBACK"}
  BY DEF Pass, Deleting
<1>4. p # NoPass /\ p \notin Scanning
  BY <1>3, PassKinds
<1>5. OwnIsGrowing(p, files, aged, made, reported)
  <2>1. Done(p.at) = Done(q.at)
    BY <1>2, <1>3 DEF Done
  <2> QED
    BY <1>1, <1>2, <2>1 DEF PassIsSound, OwnIsGrowing
<1>6. MovedIsKept(p, files, torn')
  <2> SUFFICES ASSUME NEW b \in Backup \ torn', IsMoving(p, b)
               PROVE  /\ "DATABASE" \in p.moved /\ "DATABASE" \notin files[b]
                      /\ "SIGNATURE" \in files[b] => files[b] \cup p.moved = Bundle
    BY DEF MovedIsKept
  <2>1. IsMoving(q, b) /\ p.moved = q.moved /\ b \in Backup \ torn
    OBVIOUS
  <2> QED
    BY <1>1, <2>1 DEF PassIsSound, MovedIsKept
<1>7. PassIsSound(p, files, aged, made, reported, Trusted, torn')
  BY <1>4, <1>5, <1>6 DEF PassIsSound, ScanIsTrue
<1> QED
  BY <1>2, <1>3, <1>4, <1>7, OwnPass, QuietStep

\* So many newer bundles are enough.
LEMMA FloorOfMany ==
  ASSUME NEW fs, NEW ok \in SUBSET Backup, NEW b \in Backup, NEW S \in SUBSET Valid(fs, ok),
         \A c \in S : c > b, MinimumRecent <= Cardinality(S)
  PROVE  Floor(b, fs, ok)
<1> DEFINE many == {d \in Valid(fs, ok) : d > b}
<1>1. IsFiniteSet(Backup)
  BY RetentionAssumption, FS_Interval DEF Backup
<1>2. S \subseteq many /\ many \subseteq Backup
  BY DEF Valid
<1>3. IsFiniteSet(many)
  BY <1>1, <1>2, FS_Subset
<1>4. IsFiniteSet(S) /\ Cardinality(S) <= Cardinality(many)
  BY <1>2, <1>3, FS_Subset
<1>5. Cardinality(S) \in Nat /\ Cardinality(many) \in Nat
  BY <1>3, <1>4, FS_CardinalityType
<1>6. MinimumRecent <= Cardinality(many)
  <2> HIDE DEF many
  <2> QED
    BY <1>4, <1>5, RetentionAssumption
<1> QED
  BY <1>6 DEF Floor

\* An old bundle that is signed was seen whole, and the scan protects the newest of
\* those: the doomed one has enough newer ones, now.
LEMMA JudgeKeeps ==
  ASSUME RetentionInv, NEW v \in Verifier, Judge(v)
  PROVE  RetentionInv'
<1> DEFINE q == passes[v]
           doomed == Doomed(q)
           p == [at |-> "DELETE", own |-> q.own, doomed |-> doomed, moved |-> {},
                 seen |-> [b \in Backup |-> IF b \in doomed THEN q.seen[b] ELSE Absent]]
           grade == RecoveryGrade(q)
<1>1. q.at = "INSPECT"
  BY DEF Judge, PassAt
<1>2. UNCHANGED <<files, renewed, made, aged, anchored, broken, reported, torn, retentionFaults>>
  BY DEF Judge
<1>3. /\ q \in Scanning /\ q # NoPass /\ q.now \in Nat /\ q.now <= aged
      /\ \A b \in Backup : ViewIsTrue(q, b, files, Trusted)
  BY <1>1, OwnScan
<1>4. passes' = [passes EXCEPT ![v] = p]
  BY DEF Judge, PassGoes
<1>5. /\ doomed \subseteq Backup
      /\ \A b \in doomed : b \in Inspected(q) /\ b \notin Newest(MinimumRecent, grade) /\ b <= q.now
  BY DEF Doomed, Oldest, Protected, Inspected
<1>6. p \in Deleting
  <2>1. q.seen \in [Backup -> View] /\ q.own \in Backup
    BY <1>3 DEF Scanning
  <2>2. Absent \in View
    BY DEF Absent, View
  <2>3. [b \in Backup |-> IF b \in doomed THEN q.seen[b] ELSE Absent] \in [Backup -> View]
    BY <2>1, <2>2
  <2> QED
    BY <1>5, <2>1, <2>3 DEF Deleting
<1>7. /\ p.at = "DELETE" /\ p.own = q.own /\ p.moved = {} /\ p.doomed = doomed
      /\ \A b \in doomed : p.seen[b] = q.seen[b]
  BY <1>5
<1>8. q = passes[v]
  OBVIOUS
<1> HIDE DEF p, q, doomed
<1>9. aged \in Nat /\ Trusted \in SUBSET Backup /\ \A b \in Backup : b \in Nat
  BY OwnPass, RetentionAssumption DEF Backup
<1>10. /\ grade \subseteq Backup
       /\ \A b \in Backup : b \in grade <=> q.seen[b].parts # {} /\ q.seen[b].parts = Bundle
       /\ \A b \in Backup : b \in Inspected(q) <=> q.seen[b].parts # {}
  BY DEF RecoveryGrade, Inspected
<1> HIDE DEF grade
<1>11. ASSUME NEW b \in doomed, "SIGNATURE" \in files[b] PROVE Floor(b, files, Trusted)
  <2> DEFINE newer == {c \in grade : c > b}
  <2>1. b \in Backup /\ q.seen[b].parts # {} /\ b <= q.now /\ b \notin Newest(MinimumRecent, grade)
    BY <1>5, <1>10
  <2>2. b \in grade
    BY <1>1, <1>3, <1>10, <1>11, <2>1 DEF ViewIsTrue
  <2>3. ~(Cardinality(newer) < MinimumRecent)
    BY <2>1, <2>2 DEF Newest
  <2>4. MinimumRecent <= Cardinality(newer)
    <3>1. IsFiniteSet(Backup)
      BY RetentionAssumption, FS_Interval DEF Backup
    <3>2. newer \subseteq Backup
      BY <1>10
    <3>3. Cardinality(newer) \in Nat
      BY <3>1, <3>2, FS_Subset, FS_CardinalityType
    <3> HIDE DEF newer
    <3> QED
      BY <2>3, <3>3, RetentionAssumption
  <2>5. ASSUME NEW c \in newer PROVE c \in Valid(files, Trusted) \/ Floor(c, files, Trusted)
    <3>1. c \in Backup /\ q.seen[c].parts # {} /\ q.seen[c].parts = Bundle
      BY <1>10
    <3> QED
      BY <1>3, <3>1 DEF ViewIsTrue
  <2>6. CASE newer \subseteq Valid(files, Trusted)
    <3>1. \A c \in newer : c > b
      OBVIOUS
    <3> HIDE DEF newer
    <3> QED
      BY <1>9, <2>1, <2>4, <2>6, <3>1, FloorOfMany
  <2>7. ASSUME NEW c \in newer, Floor(c, files, Trusted) PROVE Floor(b, files, Trusted)
    <3>1. c \in Backup /\ c > b
      BY <1>10
    <3>2. Valid(files, Trusted) \subseteq Backup
      BY <1>9 DEF Valid
    <3>3. {d \in Valid(files, Trusted) : d > c} \subseteq {d \in Valid(files, Trusted) : d > b}
      BY <1>9, <2>1, <3>1, <3>2
    <3> QED
      BY <1>9, <2>1, <2>7, <3>1, <3>3, FloorRises
  <2> QED
    BY <2>5, <2>6, <2>7
<1>12. ASSUME NEW b \in p.doomed PROVE DoomIsDeserved(p, b, files, aged, Trusted)
  <2>1. b \in doomed /\ b \in Backup /\ b \in Nat /\ b <= q.now /\ q.seen[b].parts # {} /\ p.seen[b] = q.seen[b]
    BY <1>5, <1>7, <1>9, <1>10
  <2>2. b <= aged
    BY <1>3, <1>9, <2>1
  <2>3. "DATABASE" \in q.seen[b].parts
    BY <1>3, <2>1 DEF ViewIsTrue
  <2> QED
    BY <1>11, <2>1, <2>2, <2>3 DEF DoomIsDeserved
<1>13. DeletionIsSafe(p, files, aged, Trusted)
  BY <1>7, <1>12 DEF DeletionIsSafe
<1>14. \A b : ~IsMoving(p, b)
  BY <1>7 DEF IsMoving
<1> QED
  BY <1>2, <1>3, <1>4, <1>6, <1>7, <1>8, <1>13, <1>14, OwnPass, DeletionGoesOn

\* The facts about a deletion that its next step relies on.
LEMMA OwnDeletion ==
  ASSUME RetentionInv, NEW v \in Verifier, passes[v].at \in {"DELETE", "MOVE", "ROLLBACK"}
  PROVE  /\ passes[v] \in Deleting /\ passes[v] # NoPass
         /\ DeletionIsSafe(passes[v], files, aged, Trusted)
         /\ MovedIsKept(passes[v], files, torn)
         /\ \A b \in passes[v].doomed : DoomIsDeserved(passes[v], b, files, aged, Trusted)
         /\ passes[v].doomed # {} =>
              Target(v) \in passes[v].doomed /\ Target(v) \in Backup /\ Target(v) = Min(passes[v].doomed)
<1>1. passes[v] \in Pass /\ PassIsSound(passes[v], files, aged, made, reported, Trusted, torn)
  BY OwnPass
<1>2. passes[v] \in Deleting /\ passes[v] # NoPass
  BY <1>1, PassKinds
<1>3. passes[v].doomed \in SUBSET Backup
  BY <1>2 DEF Deleting
<1>4. passes[v].doomed # {} => Min(passes[v].doomed) \in passes[v].doomed
  BY <1>3, LeastBackup
<1> QED
  BY <1>1, <1>2, <1>3, <1>4 DEF PassIsSound, DeletionIsSafe, Target

\* A deletion that goes to another place, and changes nothing else.
LEMMA PlaceKeeps ==
  ASSUME RetentionInv, NEW v \in Verifier, passes[v] \in Deleting, NEW place \in {"MOVE", "ROLLBACK"},
         PassMoves(v, place), passes[v].doomed # {},
         passes[v].at = "DELETE" \/ passes[v].moved = {} \/ "SIGNATURE" \notin passes[v].moved,
         UNCHANGED <<files, renewed, made, aged, anchored, broken, reported, torn>>,
         retentionFaults' \in 0..MaxRetentionFaults
  PROVE  RetentionInv'
<1> DEFINE q == passes[v]
           p == [q EXCEPT !.at = place]
<1>1. passes' = [passes EXCEPT ![v] = p]
  BY DEF PassMoves, PassGoes
<1>2. /\ p \in Deleting /\ p.at = place /\ p.own = q.own /\ p.doomed = q.doomed
      /\ p.moved = q.moved /\ p.seen = q.seen
  BY DEF Deleting
<1>3. q \in Pass /\ q.at \in {"DELETE", "MOVE", "ROLLBACK"}
  BY PassKinds DEF Pass
<1>4. DeletionIsSafe(q, files, aged, Trusted) /\ q \in Deleting /\ q.doomed # {}
  BY <1>3, OwnDeletion
<1>5. q.at = "DELETE" \/ q.moved = {} \/ "SIGNATURE" \notin q.moved
  OBVIOUS
<1>6. q = passes[v]
  OBVIOUS
<1> HIDE DEF p, q
<1>7. "SIGNATURE" \notin p.moved
  BY <1>2, <1>4, <1>5 DEF DeletionIsSafe
<1>8. \A b \in p.doomed : DoomIsDeserved(p, b, files, aged, Trusted)
  BY <1>2, <1>4 DEF DeletionIsSafe, DoomIsDeserved
<1>9. DeletionIsSafe(p, files, aged, Trusted)
  BY <1>2, <1>4, <1>7, <1>8 DEF DeletionIsSafe
<1>10. \A b : IsMoving(p, b) => IsMoving(q, b) /\ p.moved = q.moved
  BY <1>2, <1>4 DEF IsMoving
<1> QED
  BY <1>1, <1>2, <1>4, <1>6, <1>9, <1>10, OwnPass, DeletionGoesOn

LEMMA VerifyKeeps ==
  ASSUME RetentionInv, NEW v \in Verifier, VerifyIdentity(v)
  PROVE  RetentionInv'
<1>1. passes[v].at = "DELETE" /\ passes[v].doomed # {}
  BY DEF VerifyIdentity, PassAt
<1>2. passes[v] \in Deleting /\ passes[v] # NoPass
  BY <1>1, OwnDeletion
<1>3. UNCHANGED <<files, renewed, made, aged, anchored, broken, reported, torn, retentionFaults>>
  BY DEF VerifyIdentity
<1>4. CASE PassMoves(v, "MOVE")
  BY <1>1, <1>2, <1>3, <1>4, OwnPass, PlaceKeeps
<1>5. CASE TakeBack(v)
  BY <1>2, <1>3, <1>5, OwnPass, TakeBackKeeps
<1> QED
  BY <1>4, <1>5 DEF VerifyIdentity

\* The candidate is gone: the others are still doomed.
LEMMA UnlinkKeeps ==
  ASSUME RetentionInv, NEW v \in Verifier, Unlink(v)
  PROVE  RetentionInv'
<1> DEFINE q == passes[v]
           target == Target(v)
           p == [q EXCEPT !.at = "DELETE", !.moved = {}, !.doomed = @ \ {target}, !.seen[target] = Absent]
<1>1. q.at = "MOVE"
  BY DEF Unlink, PassAt
<1>2. q \in Deleting /\ q # NoPass /\ DeletionIsSafe(q, files, aged, Trusted)
  BY <1>1, OwnDeletion
<1>3. UNCHANGED <<files, renewed, made, aged, anchored, broken, reported, torn>>
  BY DEF Unlink
<1>4. CASE TakeBack(v) /\ retentionFaults < MaxRetentionFaults /\ retentionFaults' = retentionFaults + 1
  BY <1>2, <1>3, <1>4, FaultsStay, TakeBackKeeps
<1>5. CASE PassGoes(v, p) /\ UNCHANGED retentionFaults
  <2>1. passes' = [passes EXCEPT ![v] = p]
    BY <1>5 DEF PassGoes
  <2>2. q.seen \in [Backup -> View] /\ q.doomed \subseteq Backup
    BY <1>2 DEF Deleting
  <2>3. [q.seen EXCEPT ![target] = Absent] \in [Backup -> View]
    <3>1. Absent \in View
      BY DEF Absent, View
    <3> QED
      BY <2>2, <3>1
  <2>4. /\ p \in Deleting /\ p.at = "DELETE" /\ p.own = q.own /\ p.doomed = q.doomed \ {target}
        /\ p.moved = {} /\ p.seen = [q.seen EXCEPT ![target] = Absent]
    BY <1>2, <2>3 DEF Deleting
  <2> HIDE DEF p
  <2>5. ASSUME NEW b \in p.doomed PROVE DoomIsDeserved(p, b, files, aged, Trusted)
    <3>1. b \in q.doomed /\ b # target /\ b \in Backup
      BY <2>2, <2>4
    <3>2. p.seen[b] = q.seen[b]
      BY <2>2, <2>4, <3>1
    <3>3. DoomIsDeserved(q, b, files, aged, Trusted)
      BY <1>2, <3>1 DEF DeletionIsSafe
    <3> QED
      BY <3>2, <3>3 DEF DoomIsDeserved
  <2>6. DeletionIsSafe(p, files, aged, Trusted)
    BY <2>4, <2>5 DEF DeletionIsSafe
  <2>7. \A b : ~IsMoving(p, b)
    BY <2>4 DEF IsMoving
  <2> QED
    BY <1>2, <1>3, <1>5, <2>1, <2>4, <2>6, <2>7, OwnPass, DeletionGoesOn
<1> QED
  BY <1>4, <1>5 DEF Unlink

-----------------------------------------------------------------------------
(* The steps that change files.                                              *)

\* A step that takes a part of the candidate away, or puts one back.
LEMMA TargetChanges ==
  ASSUME RetentionInv, NEW v \in Verifier, passes[v] \in Deleting, passes[v].doomed # {},
         NEW new \in SUBSET Bundle, files' = [files EXCEPT ![Target(v)] = new],
         NEW p \in Deleting, passes' = [passes EXCEPT ![v] = p],
         p.own = passes[v].own, p.doomed = passes[v].doomed,
         UNCHANGED <<made, aged, anchored, broken, reported, torn>>,
         renewed' \in [Backup -> Nat], retentionFaults' \in 0..MaxRetentionFaults,
         "SIGNATURE" \in new => "SIGNATURE" \in files[Target(v)],
         {"DATABASE", "SIGNATURE"} \subseteq new => new = Bundle \/ Target(v) \in torn,
         DeletionIsSafe(p, files, aged, Trusted),
         MovedIsKept(p, files', torn),
         Target(v) \notin torn => \A w \in Verifier \ {v} : ~IsMoving(passes[w], Target(v))
  PROVE  RetentionInv'
<1> DEFINE q == passes[v]
           t == Target(v)
<1>0. /\ RetentionShape
      /\ \A b \in Backup : FileIsSound(b, files, made, torn)
      /\ \A b \in reported : ReportIsKept(b, files, aged, made)
      /\ \A w \in Verifier : PassIsSound(passes[w], files, aged, made, reported, Trusted, torn)
      /\ \A x, y \in Verifier : x # y => Apart(passes[x], passes[y], torn)
  BY DEF RetentionInv
<1>1. /\ q \in Pass /\ PassIsSound(q, files, aged, made, reported, Trusted, torn)
      /\ files \in [Backup -> SUBSET Bundle]
      /\ made \in Nat /\ aged \in Nat /\ aged <= made
      /\ Trusted \in SUBSET Backup /\ \A b \in Backup : b \in Nat
  BY OwnPass, RetentionAssumption DEF Backup
<1>2. q.at \in {"DELETE", "MOVE", "ROLLBACK"} /\ q # NoPass /\ q.own \in Backup
  BY <1>1, PassKinds
<1>3. t \in Backup /\ DoomIsDeserved(q, t, files, aged, Trusted) /\ t = Min(q.doomed)
  BY <1>2, OwnDeletion
<1>4. t <= aged /\ ("SIGNATURE" \in files[t] => Floor(t, files, Trusted))
  BY <1>3 DEF DoomIsDeserved
<1>5. p \in Pass /\ p.at \in {"DELETE", "MOVE", "ROLLBACK"}
  BY DEF Pass, Deleting
<1>6. p # NoPass /\ p \notin Scanning
  BY <1>5, PassKinds
<1>7. files'[t] = new /\ \A b \in Backup \ {t} : files'[b] = files[b]
  BY <1>1, <1>3
<1>8. "SIGNATURE" \in new => "SIGNATURE" \in files[t]
  OBVIOUS
<1>9. {"DATABASE", "SIGNATURE"} \subseteq new => new = Bundle \/ t \in torn
  OBVIOUS
<1>10. t \notin torn => \A w \in Verifier \ {v} : ~IsMoving(passes[w], t)
  OBVIOUS
<1>11. RetentionShape'
  <2>1. files' \in [Backup -> SUBSET Bundle]
    BY <1>1, <1>3
  <2>2. passes' \in [Verifier -> Pass]
    BY <1>0, <1>5 DEF RetentionShape
  <2> QED
    BY <1>0, <2>1, <2>2 DEF RetentionShape
<1> HIDE DEF t
<1>12. Calm(files, files', aged, Trusted)
  <2>1. \A b \in Backup : b <= aged /\ "SIGNATURE" \in files'[b] => "SIGNATURE" \in files[b]
    BY <1>7, <1>8
  <2>2. \A b \in Valid(files, Trusted) : b \in Valid(files', Trusted) \/ b = t
    BY <1>1, <1>7 DEF Valid
  <2>3. t \in Valid(files, Trusted) => Floor(t, files, Trusted)
    BY <1>4 DEF Valid, Bundle
  <2> QED
    BY <1>1, <1>3, <2>1, <2>2, <2>3, CalmStep
<1>13. \A b \in Backup : FileIsSound(b, files', made', torn')
  <2> SUFFICES ASSUME NEW b \in Backup PROVE FileIsSound(b, files', made, torn)
    OBVIOUS
  <2>1. CASE b = t
    <3>1. ~(b > made)
      BY <1>1, <1>4, <2>1
    <3> QED
      BY <1>7, <1>9, <2>1, <3>1 DEF FileIsSound
  <2>2. CASE b # t
    <3>1. FileIsSound(b, files, made, torn)
      BY <1>0
    <3> QED
      BY <1>7, <2>2, <3>1 DEF FileIsSound
  <2> QED
    BY <2>1, <2>2
<1>14. \A b \in reported : b > aged => Unsigned \subseteq files'[b]
  <2> SUFFICES ASSUME NEW b \in reported, b > aged PROVE Unsigned \subseteq files'[b]
    OBVIOUS
  <2>1. b \in Backup /\ Unsigned \subseteq files[b]
    BY <1>0 DEF RetentionShape, ReportIsKept
  <2>2. b # t
    BY <1>1, <1>3, <1>4, <2>1
  <2> QED
    BY <1>7, <2>1, <2>2
<1>15. ASSUME NEW w \in Verifier, passes[w] # NoPass
       PROVE  \/ files'[passes[w].own] = files[passes[w].own]
              \/ passes[w].own <= aged /\ "SIGNATURE" \notin files'[passes[w].own]
  <2>1. passes[w].own \in Backup /\ "SIGNATURE" \notin files[passes[w].own]
    <3>1. passes[w] \in Pass
      BY <1>0 DEF RetentionShape
    <3>2. OwnIsGrowing(passes[w], files, aged, made, reported)
      BY <1>0 DEF PassIsSound
    <3> QED
      BY <1>15, <3>1, <3>2, PassKinds DEF OwnIsGrowing
  <2>2. CASE passes[w].own = t
    BY <1>4, <1>7, <1>8, <2>1, <2>2
  <2>3. CASE passes[w].own # t
    BY <1>7, <2>1, <2>3
  <2> QED
    BY <2>2, <2>3
<1>16. ASSUME NEW w \in Verifier \ {v}
       PROVE  Untouched(passes[w], files, files', aged, torn') /\ Apart(p, passes[w], torn')
  <2>1. \A b \in Backup \ torn' : IsMoving(passes[w], b) => b # t
    BY <1>10
  <2>2. Untouched(passes[w], files, files', aged, torn')
    BY <1>7, <1>15, <2>1 DEF Untouched
  <2>3. \A b : IsMoving(p, b) => b = t
    BY <1>3 DEF IsMoving
  <2>4. q # NoPass /\ passes[w] # NoPass => q.own # passes[w].own
    <3>1. Apart(q, passes[w], torn)
      BY <1>0
    <3> QED
      BY <3>1 DEF Apart
  <2>5. Apart(p, passes[w], torn')
    BY <1>2, <2>1, <2>3, <2>4 DEF Apart
  <2> QED
    BY <2>2, <2>5
<1>17. PassIsSound(p, files', aged, made', reported, Trusted, torn')
  <2>1. Done(p.at) = Done(q.at)
    BY <1>2, <1>5 DEF Done
  <2>2. OwnIsGrowing(q, files, aged, made, reported)
    BY <1>1 DEF PassIsSound
  <2>3. \/ files'[q.own] = files[q.own]
        \/ q.own <= aged /\ "SIGNATURE" \notin files'[q.own]
    BY <1>2, <1>15
  <2>4. q.own \in Nat /\ p.own = q.own
    BY <1>1, <1>2
  <2>5. OwnIsGrowing(p, files', aged, made', reported)
    BY <1>1, <1>2, <2>1, <2>2, <2>3, <2>4 DEF OwnIsGrowing
  <2>6. DeletionIsSafe(p, files', aged, Trusted)
    BY <1>1, <1>5, <1>12, DeletionKept
  <2> QED
    BY <1>6, <2>5, <2>6 DEF PassIsSound, ScanIsTrue
<1>18. made <= made' /\ torn \subseteq torn'
  BY <1>1
<1> QED
  BY <1>5, <1>11, <1>12, <1>13, <1>14, <1>16, <1>17, <1>18, PassGoesOn

\* The database goes first, so what is left of a signed bundle is no database.
LEMMA MoveKeeps ==
  ASSUME RetentionInv, NEW v \in Verifier, MovePart(v)
  PROVE  RetentionInv'
<1> DEFINE q == passes[v]
           t == Target(v)
           part == FirstPart(ToMove(v))
           p == [q EXCEPT !.moved = @ \union {part}]
<1>1. q.at = "MOVE" /\ ToMove(v) # {}
  BY DEF MovePart, PassAt
<1>2. /\ q \in Deleting /\ q # NoPass /\ DeletionIsSafe(q, files, aged, Trusted)
      /\ MovedIsKept(q, files, torn)
  BY <1>1, OwnDeletion
<1>3. q.doomed # {}
  BY <1>1, <1>2 DEF DeletionIsSafe
<1>4. t \in Backup /\ DoomIsDeserved(q, t, files, aged, Trusted) /\ t = Min(q.doomed)
  BY <1>1, <1>3, OwnDeletion
<1>5. UNCHANGED <<renewed, made, aged, anchored, broken, reported, torn>>
  BY DEF MovePart
<1>6. /\ q.seen[t].parts \subseteq Bundle /\ q.moved \subseteq Bundle
      /\ ToMove(v) = q.seen[t].parts \ q.moved
      /\ "DATABASE" \in q.seen[t].parts
  <2>1. q.seen[t] \in View /\ q.moved \subseteq Bundle
    BY <1>2, <1>4 DEF Deleting
  <2> QED
    BY <1>4, <2>1 DEF View, ToMove, DoomIsDeserved
<1>7. "SIGNATURE" \notin q.moved
  BY <1>1, <1>2, <1>4, <1>6 DEF DeletionIsSafe
<1>8. /\ part \in ToMove(v) /\ part \in Bundle
      /\ "DATABASE" \in ToMove(v) => part = "DATABASE"
      /\ part = "SIGNATURE" => ToMove(v) = {"SIGNATURE"}
  BY <1>1, <1>6, PartOrder
<1>9. CASE /\ PassMoves(v, "ROLLBACK") /\ UNCHANGED files
           /\ retentionFaults' \in 0..MaxRetentionFaults
  BY <1>2, <1>3, <1>5, <1>7, <1>9, PlaceKeeps
<1>10. CASE /\ part \in files[t] /\ files' = [files EXCEPT ![t] = @ \ {part}]
            /\ PassGoes(v, p) /\ UNCHANGED retentionFaults
  <2> DEFINE new == files[t] \ {part}
  <2>1. new \in SUBSET Bundle /\ files' = [files EXCEPT ![t] = new] /\ files'[t] = new
    BY <1>4, <1>10, OwnPass
  <2>2. passes' = [passes EXCEPT ![v] = p]
    BY <1>10 DEF PassGoes
  <2>3. /\ p \in Deleting /\ p.at = "MOVE" /\ p.own = q.own /\ p.doomed = q.doomed
        /\ p.moved = q.moved \union {part} /\ p.seen = q.seen
    BY <1>1, <1>2, <1>6, <1>8 DEF Deleting
  <2>4. renewed' \in [Backup -> Nat] /\ retentionFaults' \in 0..MaxRetentionFaults
    BY <1>5, <1>10 DEF RetentionInv, RetentionShape
  <2>5. part = "DATABASE" <=> q.moved = {} \/ "DATABASE" \notin q.moved
    BY <1>6, <1>8
  <2>6. t \notin torn /\ q.moved # {} =>
          /\ "DATABASE" \in q.moved /\ "DATABASE" \notin files[t]
          /\ "SIGNATURE" \in files[t] => files[t] \cup q.moved = Bundle
    BY <1>2, <1>4 DEF MovedIsKept, IsMoving
  <2>7. FileIsSound(t, files, made, torn)
    BY <1>4 DEF RetentionInv
  <2>8. {"DATABASE", "SIGNATURE"} \subseteq new => new = Bundle \/ t \in torn
    BY <2>5, <2>6
  <2>9. "SIGNATURE" \in p.moved => q.seen[t].parts \subseteq p.moved
    BY <1>6, <1>7, <1>8, <2>3
  <2> HIDE DEF p, part
  <2>10. DeletionIsSafe(p, files, aged, Trusted)
    <3>1. \A b \in p.doomed : DoomIsDeserved(p, b, files, aged, Trusted)
      BY <1>2, <2>3 DEF DeletionIsSafe, DoomIsDeserved
    <3> QED
      BY <1>3, <1>4, <2>3, <2>9, <3>1 DEF DeletionIsSafe
  <2>11. MovedIsKept(p, files', torn)
    <3> SUFFICES ASSUME t \notin torn
                 PROVE  /\ "DATABASE" \in p.moved /\ "DATABASE" \notin files'[t]
                        /\ "SIGNATURE" \in files'[t] => files'[t] \cup p.moved = Bundle
      BY <1>4, <2>3 DEF MovedIsKept, IsMoving
    <3>1. CASE q.moved = {}
      <4>1. part = "DATABASE"
        BY <2>5, <3>1
      <4>2. "SIGNATURE" \in files'[t] => files[t] = Bundle
        BY <1>10, <2>1, <2>7, <4>1 DEF FileIsSound
      <4> QED
        BY <1>8, <2>1, <2>3, <3>1, <4>1, <4>2
    <3>2. CASE q.moved # {}
      BY <1>10, <2>1, <2>3, <2>6, <3>2
    <3> QED
      BY <3>1, <3>2
  <2>12. ASSUME t \notin torn, NEW w \in Verifier \ {v}, IsMoving(passes[w], t) PROVE FALSE
    <3>1. CASE q.moved = {}
      <4>1. "DATABASE" \in files[t]
        BY <1>10, <2>5, <3>1
      <4>2. MovedIsKept(passes[w], files, torn)
        BY DEF RetentionInv, PassIsSound
      <4> QED
        BY <1>4, <2>12, <4>1, <4>2 DEF MovedIsKept
    <3>2. CASE q.moved # {}
      <4>1. IsMoving(q, t)
        BY <1>2, <1>4, <3>2 DEF IsMoving
      <4>2. Apart(q, passes[w], torn)
        BY DEF RetentionInv
      <4> QED
        BY <1>4, <2>12, <4>1, <4>2 DEF Apart
    <3> QED
      BY <3>1, <3>2
  <2>13. "SIGNATURE" \in new => "SIGNATURE" \in files[t]
    OBVIOUS
  <2> HIDE DEF new
  <2> QED
    BY <1>2, <1>3, <1>5, <2>1, <2>2, <2>3, <2>4, <2>8, <2>10, <2>11, <2>12, <2>13, TargetChanges
<1>11. retentionFaults < MaxRetentionFaults => retentionFaults + 1 \in 0..MaxRetentionFaults
  BY FaultsStay
<1>12. retentionFaults \in 0..MaxRetentionFaults
  BY OwnPass
<1> QED
  BY <1>9, <1>10, <1>11, <1>12 DEF MovePart

\* What is put back is never the signature, and the database is put back last.
LEMMA PutBackKeeps ==
  ASSUME RetentionInv, NEW v \in Verifier, PutBack(v)
  PROVE  RetentionInv'
<1> DEFINE q == passes[v]
           t == Target(v)
           part == LastPart(q.moved)
           p == [q EXCEPT !.moved = @ \ {part}]
<1>1. q.at = "ROLLBACK" /\ q.moved # {}
  BY DEF PutBack, PassAt
<1>2. /\ q \in Deleting /\ q # NoPass /\ DeletionIsSafe(q, files, aged, Trusted)
      /\ MovedIsKept(q, files, torn)
  BY <1>1, OwnDeletion
<1>3. q.doomed # {}
  BY <1>1, <1>2 DEF DeletionIsSafe
<1>4. t \in Backup /\ t = Min(q.doomed)
  BY <1>1, <1>3, OwnDeletion
<1>5. UNCHANGED <<made, aged, anchored, broken, reported>>
  BY DEF PutBack
<1>6. q.moved \in SUBSET Bundle /\ "SIGNATURE" \notin q.moved
  BY <1>1, <1>2 DEF Deleting, DeletionIsSafe
<1>7. /\ part \in q.moved /\ part \in Bundle /\ part # "SIGNATURE"
      /\ part = "DATABASE" => q.moved = {"DATABASE"}
  BY <1>1, <1>6, PartOrder
<1>8. passes' = [passes EXCEPT ![v] = p]
  BY DEF PutBack, PassGoes
<1>9. /\ p \in Deleting /\ p.at = "ROLLBACK" /\ p.own = q.own /\ p.doomed = q.doomed
      /\ p.moved = q.moved \ {part} /\ p.seen = q.seen
  BY <1>1, <1>2, <1>6 DEF Deleting
<1>10. q = passes[v] /\ t = Target(v)
  OBVIOUS
<1> HIDE DEF p
<1>11. DeletionIsSafe(p, files, aged, Trusted)
  <2>1. \A b \in p.doomed : DoomIsDeserved(p, b, files, aged, Trusted)
    BY <1>2, <1>9 DEF DeletionIsSafe, DoomIsDeserved
  <2> QED
    BY <1>3, <1>6, <1>9, <2>1 DEF DeletionIsSafe
<1>12. \A b : IsMoving(p, b) => b = t
  BY <1>4, <1>9 DEF IsMoving
<1>13. CASE /\ retentionFaults < MaxRetentionFaults /\ retentionFaults' = retentionFaults + 1
            /\ torn' = torn \union {t} /\ UNCHANGED <<files, renewed>>
  <2>1. torn \subseteq torn' /\ torn' \subseteq Backup /\ retentionFaults' \in 0..MaxRetentionFaults
    BY <1>4, <1>13, FaultsStay, OwnPass
  <2>2. \A b \in Backup \ torn' : ~IsMoving(p, b)
    BY <1>12, <1>13
  <2> HIDE DEF t, part
  <2> QED
    BY <1>2, <1>5, <1>8, <1>9, <1>11, <1>13, <2>1, <2>2, DeletionGoesOn
<1>14. CASE /\ files' = [files EXCEPT ![t] = @ \union {part}]
            /\ renewed' = [renewed EXCEPT ![t] = IF part \in Sidecars THEN @ + 1 ELSE @]
            /\ UNCHANGED <<torn, retentionFaults>>
  <2> DEFINE new == files[t] \union {part}
  <2>1. new \in SUBSET Bundle /\ files' = [files EXCEPT ![t] = new] /\ files'[t] = new
    BY <1>4, <1>7, <1>14, OwnPass
  <2>2. renewed' \in [Backup -> Nat] /\ retentionFaults' \in 0..MaxRetentionFaults
    <3>1. renewed \in [Backup -> Nat] /\ retentionFaults \in 0..MaxRetentionFaults
      BY DEF RetentionInv, RetentionShape
    <3> QED
      BY <1>4, <1>14, <3>1
  <2>3. IsMoving(q, t)
    BY <1>1, <1>2, <1>4 DEF IsMoving
  <2>4. t \notin torn =>
          /\ "DATABASE" \in q.moved /\ "DATABASE" \notin files[t]
          /\ "SIGNATURE" \in files[t] => files[t] \cup q.moved = Bundle
    BY <1>2, <1>4, <2>3 DEF MovedIsKept
  <2>5. "SIGNATURE" \in new => "SIGNATURE" \in files[t]
    BY <1>7
  <2>6. {"DATABASE", "SIGNATURE"} \subseteq new => new = Bundle \/ t \in torn
    <3> SUFFICES ASSUME "DATABASE" \in new, "SIGNATURE" \in new, t \notin torn PROVE new = Bundle
      OBVIOUS
    <3>1. part = "DATABASE"
      BY <2>4
    <3> QED
      BY <1>7, <2>4, <2>5, <3>1
  <2>7. MovedIsKept(p, files', torn)
    <3> SUFFICES ASSUME t \notin torn, p.moved # {}
                 PROVE  /\ "DATABASE" \in p.moved /\ "DATABASE" \notin files'[t]
                        /\ "SIGNATURE" \in files'[t] => files'[t] \cup p.moved = Bundle
      BY <1>12 DEF MovedIsKept, IsMoving
    <3>1. part # "DATABASE"
      BY <1>7, <1>9
    <3>2. "DATABASE" \in p.moved /\ "DATABASE" \notin files'[t]
      BY <1>9, <2>1, <2>4, <3>1
    <3>3. files'[t] \cup p.moved = files[t] \cup q.moved
      BY <1>7, <1>9, <2>1
    <3> QED
      BY <2>1, <2>4, <2>5, <3>2, <3>3
  <2>8. ASSUME t \notin torn, NEW w \in Verifier \ {v}, IsMoving(passes[w], t) PROVE FALSE
    <3>1. Apart(q, passes[w], torn)
      BY DEF RetentionInv
    <3> QED
      BY <1>4, <2>3, <2>8, <3>1 DEF Apart
  <2>9. UNCHANGED torn
    BY <1>14
  <2> HIDE DEF new, part
  <2> QED
    BY <1>2, <1>3, <1>5, <1>8, <1>9, <1>11, <2>1, <2>2, <2>5, <2>6, <2>7, <2>8, <2>9, TargetChanges
<1> QED
  BY <1>13, <1>14 DEF PutBack

\* A step that changes what a pass has made of its own backup, which is not signed
\* and not reported.
LEMMA OwnChanges ==
  ASSUME RetentionInv, NEW v \in Verifier, NEW p \in Making, NEW new \in SUBSET Bundle,
         files' = [files EXCEPT ![p.own] = new], passes' = [passes EXCEPT ![v] = p],
         UNCHANGED <<renewed, aged, anchored, broken, reported, torn, retentionFaults>>,
         made' \in Nat, made <= made', made' <= LastBackup,
         "SIGNATURE" \notin files[p.own], "SIGNATURE" \notin new,
         "DATABASE" \in new => "DATABASE" \in files[p.own] \/ p.own > aged,
         OwnIsGrowing(p, files', aged, made', reported),
         \A w \in Verifier \ {v} : passes[w] # NoPass => passes[w].own # p.own
  PROVE  RetentionInv'
<1> DEFINE o == p.own
<1>0. /\ RetentionShape
      /\ \A b \in Backup : FileIsSound(b, files, made, torn)
      /\ \A b \in reported : ReportIsKept(b, files, aged, made)
      /\ \A w \in Verifier : PassIsSound(passes[w], files, aged, made, reported, Trusted, torn)
      /\ \A x, y \in Verifier : x # y => Apart(passes[x], passes[y], torn)
  BY DEF RetentionInv
<1>1. /\ files \in [Backup -> SUBSET Bundle]
      /\ made \in Nat /\ made' \in Nat /\ aged \in Nat /\ aged <= made /\ made <= made'
      /\ Trusted \in SUBSET Backup /\ \A b \in Backup : b \in Nat
  BY OwnPass, RetentionAssumption DEF Backup
<1>2. p \in Pass /\ p # NoPass /\ o \in Backup
  BY PassKinds DEF Pass, Making
<1>3. o <= made' /\ o \notin reported
  BY <1>2 DEF OwnIsGrowing
<1>4. PassIsSound(p, files', aged, made', reported, Trusted, torn') /\ \A b : ~IsMoving(p, b)
  BY MakingIsSound
<1>5. files'[o] = new /\ \A b \in Backup \ {o} : files'[b] = files[b]
  BY <1>1, <1>2
<1>6. /\ passes' = [passes EXCEPT ![v] = p] /\ files' = [files EXCEPT ![o] = new]
      /\ "SIGNATURE" \notin files[o]
      /\ "DATABASE" \in new => "DATABASE" \in files[o] \/ o > aged
      /\ \A w \in Verifier \ {v} : passes[w] # NoPass => passes[w].own # o
      /\ o = p.own
  OBVIOUS
<1> HIDE DEF o
<1>7. RetentionShape'
  <2>1. files' \in [Backup -> SUBSET Bundle]
    BY <1>1, <1>2, <1>6
  <2>2. passes' \in [Verifier -> Pass]
    BY <1>0, <1>2, <1>6 DEF RetentionShape
  <2>3. made' \in Existing..LastBackup /\ aged \in 0..made'
    BY <1>0, <1>1, RetentionAssumption DEF RetentionShape
  <2> QED
    BY <1>0, <2>1, <2>2, <2>3 DEF RetentionShape
<1>8. Calm(files, files', aged, Trusted)
  <2>1. \A b \in Backup : b <= aged /\ "SIGNATURE" \in files'[b] => "SIGNATURE" \in files[b]
    BY <1>5
  <2>2. \A b \in Valid(files, Trusted) : b \in Valid(files', Trusted) \/ b = o
    BY <1>1, <1>5 DEF Valid
  <2>3. o \notin Valid(files, Trusted)
    <3>1. "SIGNATURE" \notin files[o]
      BY <1>6
    <3> QED
      BY <3>1 DEF Valid, Bundle
  <2> QED
    BY <1>1, <1>2, <2>1, <2>2, <2>3, CalmStep
<1>9. ASSUME NEW b \in Backup PROVE FileIsSound(b, files', made', torn')
  <2>1. CASE b = o
    <3>1. ~(b > made')
      BY <1>1, <1>3, <2>1
    <3> QED
      BY <1>5, <2>1, <3>1 DEF FileIsSound
  <2>2. CASE b # o
    <3>1. FileIsSound(b, files, made, torn) /\ (b > made' => b > made)
      BY <1>0, <1>1
    <3> QED
      BY <1>5, <2>2, <3>1 DEF FileIsSound
  <2> QED
    BY <2>1, <2>2
<1>10. ASSUME NEW b \in reported PROVE b > aged => Unsigned \subseteq files'[b]
  <2>1. b \in Backup /\ b # o /\ (b > aged => Unsigned \subseteq files[b])
    BY <1>0, <1>3 DEF RetentionShape, ReportIsKept
  <2> QED
    BY <1>5, <2>1
<1>11. ASSUME NEW w \in Verifier \ {v}
      PROVE  Untouched(passes[w], files, files', aged, torn') /\ Apart(p, passes[w], torn')
  <2>1. passes[w] \in Pass
    BY <1>0 DEF RetentionShape
  <2>2. passes[w] # NoPass => files'[passes[w].own] = files[passes[w].own]
    BY <1>5, <1>6, <2>1, PassKinds
  <2>3. ASSUME NEW b \in Backup \ torn, IsMoving(passes[w], b)
        PROVE  files'[b] = files[b] \/ ("SIGNATURE" \notin files'[b] /\ "DATABASE" \notin files'[b])
    <3>1. "DATABASE" \notin files[b]
      BY <1>0, <2>3 DEF PassIsSound, MovedIsKept
    <3>2. passes[w].at \in {"DELETE", "MOVE", "ROLLBACK"}
      BY <2>1, <2>3, PassKinds DEF IsMoving
    <3>3. b <= aged
      <4>1. passes[w].doomed # {} /\ b = Min(passes[w].doomed)
        BY <1>0, <2>3, <3>2 DEF PassIsSound, DeletionIsSafe, IsMoving
      <4>2. b \in passes[w].doomed /\ DoomIsDeserved(passes[w], b, files, aged, Trusted)
        BY <3>2, <4>1, OwnDeletion
      <4> QED
        BY <4>2 DEF DoomIsDeserved
    <3>4. CASE b = o
      <4>1. ~(o > aged)
        BY <1>1, <3>3, <3>4
      <4> QED
        BY <1>5, <1>6, <3>1, <3>4, <4>1
    <3>5. CASE b # o
      BY <1>5, <3>5
    <3> QED
      BY <3>4, <3>5
  <2>4. Untouched(passes[w], files, files', aged, torn')
    BY <2>2, <2>3 DEF Untouched
  <2>5. Apart(p, passes[w], torn')
    BY <1>4, <1>6 DEF Apart
  <2> QED
    BY <2>4, <2>5
<1>12. PassIsSound(p, files', aged, made', reported, Trusted, torn') /\ torn \subseteq torn'
  BY <1>4
<1> QED
  BY <1>2, <1>6, <1>1, <1>7, <1>8, <1>9, <1>10, <1>11, <1>12, PassGoesOn

LEMMA MakeKeeps ==
  ASSUME RetentionInv, NEW v \in Verifier, MakeBackup(v)
  PROVE  RetentionInv'
<1> DEFINE o == made + 1
           p == [at |-> "SNAPSHOT", own |-> o]
<1>1. passes[v].at = "NONE" /\ made < LastBackup /\ made' = o /\ files' = [files EXCEPT ![o] = {"DATABASE"}]
  BY DEF MakeBackup, PassAt
<1>2. made \in Nat /\ aged \in Nat /\ aged <= made /\ files \in [Backup -> SUBSET Bundle]
  BY OwnPass
<1>3. o \in Backup /\ o > made /\ o > aged /\ o <= made' /\ made' \in Nat /\ made <= made' /\ made' <= LastBackup
  BY <1>1, <1>2, RetentionAssumption DEF Backup
<1>4. passes' = [passes EXCEPT ![v] = p]
  BY DEF MakeBackup, PassGoes
<1>5. UNCHANGED <<renewed, aged, anchored, broken, reported, torn, retentionFaults>>
  BY DEF MakeBackup
<1>6. p \in Making /\ p.at = "SNAPSHOT" /\ p.own = o
  BY <1>3 DEF Making
<1> HIDE DEF p
<1>7. files[o] = {}
  BY <1>3 DEF RetentionInv, FileIsSound
<1>8. o \notin reported
  <2> SUFFICES ASSUME o \in reported PROVE FALSE
    OBVIOUS
  <2>1. o <= made
    BY DEF RetentionInv, ReportIsKept
  <2> QED
    BY <1>2, <2>1
<1>9. ASSUME NEW w \in Verifier \ {v}, passes[w] # NoPass PROVE passes[w].own # o
  <2>1. passes[w].own <= made
    BY <1>9 DEF RetentionInv, PassIsSound, OwnIsGrowing
  <2> QED
    BY <1>2, <2>1
<1>10. files'[o] = {"DATABASE"}
  BY <1>1, <1>2, <1>3
<1>11. OwnIsGrowing(p, files', aged, made', reported)
  BY <1>3, <1>6, <1>8, <1>10 DEF OwnIsGrowing, Done
<1>12. {"DATABASE"} \in SUBSET Bundle /\ "SIGNATURE" \notin {"DATABASE"} /\ "SIGNATURE" \notin files[o]
  BY <1>7 DEF Bundle
<1>13. p.own > aged /\ files' = [files EXCEPT ![p.own] = {"DATABASE"}] /\ "SIGNATURE" \notin files[p.own]
  BY <1>1, <1>3, <1>6, <1>12
<1>14. \A w \in Verifier \ {v} : passes[w] # NoPass => passes[w].own # p.own
  BY <1>6, <1>9
<1> HIDE DEF o
<1> QED
  BY <1>3, <1>4, <1>5, <1>6, <1>11, <1>12, <1>13, <1>14, OwnChanges

\* What a pass that makes its backup, or removes it, relies on.
LEMMA OwnMaking ==
  ASSUME RetentionInv, NEW v \in Verifier, passes[v].at \in {"SNAPSHOT", "MANIFEST", "LIST", "DISCARD"}
  PROVE  /\ passes[v] \in Making /\ passes[v] # NoPass /\ passes[v].own \in Backup
         /\ OwnIsGrowing(passes[v], files, aged, made, reported)
         /\ \A w \in Verifier \ {v} : passes[w] # NoPass => passes[w].own # passes[v].own
<1>1. passes[v] \in Pass /\ PassIsSound(passes[v], files, aged, made, reported, Trusted, torn)
  BY OwnPass
<1>2. passes[v] \in Making /\ passes[v] # NoPass /\ passes[v].own \in Backup
  BY <1>1, PassKinds
<1>3. ASSUME NEW w \in Verifier \ {v}, passes[w] # NoPass PROVE passes[w].own # passes[v].own
  <2>1. Apart(passes[v], passes[w], torn)
    BY DEF RetentionInv
  <2> QED
    BY <1>2, <1>3, <2>1 DEF Apart
<1> QED
  BY <1>1, <1>2, <1>3 DEF PassIsSound

\* A pass that makes its backup puts a part in its place, or takes one away.
LEMMA PartChanges ==
  ASSUME RetentionInv, NEW v \in Verifier, passes[v].at \in {"SNAPSHOT", "MANIFEST", "LIST", "DISCARD"},
         NEW new \in SUBSET Bundle, files' = [files EXCEPT ![passes[v].own] = new],
         NEW place \in {"MANIFEST", "LIST", "DISCARD"},
         passes' = [passes EXCEPT ![v] = [passes[v] EXCEPT !.at = place]],
         UNCHANGED <<renewed, made, aged, anchored, broken, reported, torn, retentionFaults>>,
         "SIGNATURE" \notin new, "DATABASE" \in new => "DATABASE" \in files[passes[v].own],
         passes[v].own > aged => Done(place) \subseteq new
  PROVE  RetentionInv'
<1> DEFINE q == passes[v]
           o == q.own
           p == [q EXCEPT !.at = place]
<1>1. /\ q \in Making /\ q # NoPass /\ o \in Backup
      /\ OwnIsGrowing(q, files, aged, made, reported)
      /\ \A w \in Verifier \ {v} : passes[w] # NoPass => passes[w].own # o
  BY OwnMaking
<1>2. /\ made \in Nat /\ aged \in Nat /\ made <= LastBackup /\ files \in [Backup -> SUBSET Bundle]
  BY OwnPass
<1>3. p \in Making /\ p.at = place /\ p.own = o
  BY <1>1 DEF Making
<1>4. o <= made /\ o \notin reported /\ "SIGNATURE" \notin files[o]
  BY <1>1 DEF OwnIsGrowing
<1>5. files'[o] = new /\ made' = made
  BY <1>1, <1>2
<1>6. made' \in Nat /\ made <= made' /\ made' <= LastBackup /\ o <= made'
  BY <1>2, <1>4, <1>5
<1>7. passes' = [passes EXCEPT ![v] = p] /\ files' = [files EXCEPT ![o] = new]
  OBVIOUS
<1>8. /\ "DATABASE" \in new => "DATABASE" \in files[o]
      /\ o > aged => Done(place) \subseteq new
  OBVIOUS
<1> HIDE DEF p, o
<1>9. OwnIsGrowing(p, files', aged, made', reported)
  BY <1>3, <1>4, <1>5, <1>8 DEF OwnIsGrowing
<1>10. /\ files' = [files EXCEPT ![p.own] = new] /\ "SIGNATURE" \notin files[p.own]
       /\ "DATABASE" \in new => "DATABASE" \in files[p.own]
       /\ \A w \in Verifier \ {v} : passes[w] # NoPass => passes[w].own # p.own
  BY <1>1, <1>3, <1>4, <1>7, <1>8
<1> QED
  BY <1>3, <1>6, <1>7, <1>9, <1>10, OwnChanges

LEMMA AddKeeps ==
  ASSUME RetentionInv, NEW v \in Verifier, AddPart(v)
  PROVE  RetentionInv'
<1> DEFINE o == passes[v].own
<1>1. passes[v].at \in {"SNAPSHOT", "MANIFEST"}
  BY DEF AddPart, PassAt
<1>2. o \in Backup /\ passes[v] # NoPass /\ OwnIsGrowing(passes[v], files, aged, made, reported)
  BY <1>1, OwnMaking
<1>3. files[o] \subseteq Bundle /\ "SIGNATURE" \notin files[o]
  BY <1>2, OwnPass DEF OwnIsGrowing
<1>4. o > aged => Done(passes[v].at) \subseteq files[o]
  BY <1>2 DEF OwnIsGrowing
<1>5. CASE /\ passes[v].at = "SNAPSHOT"
           /\ files' = [files EXCEPT ![o] = @ \union {"ADMIN_SECURITY"}] /\ PassMoves(v, "MANIFEST")
           /\ UNCHANGED <<renewed, made, aged, anchored, broken, reported, torn, retentionFaults>>
  <2> DEFINE new == files[o] \union {"ADMIN_SECURITY"}
  <2>1. new \in SUBSET Bundle /\ files' = [files EXCEPT ![o] = new]
    BY <1>2, <1>3, <1>5, OwnPass DEF Bundle
  <2>2. "SIGNATURE" \notin new /\ ("DATABASE" \in new => "DATABASE" \in files[o])
    BY <1>3
  <2>3. o > aged => Done("MANIFEST") \subseteq new
    BY <1>4, <1>5 DEF Done
  <2>4. passes' = [passes EXCEPT ![v] = [passes[v] EXCEPT !.at = "MANIFEST"]]
    BY <1>5 DEF PassMoves, PassGoes
  <2> HIDE DEF new
  <2> QED
    BY <1>5, <2>1, <2>2, <2>3, <2>4, PartChanges
<1>6. CASE /\ passes[v].at = "MANIFEST"
           /\ files' = [files EXCEPT ![o] = @ \union {"MANIFEST"}] /\ PassMoves(v, "LIST")
           /\ UNCHANGED <<renewed, made, aged, anchored, broken, reported, torn, retentionFaults>>
  <2> DEFINE new == files[o] \union {"MANIFEST"}
  <2>1. new \in SUBSET Bundle /\ files' = [files EXCEPT ![o] = new]
    BY <1>2, <1>3, <1>6, OwnPass DEF Bundle
  <2>2. "SIGNATURE" \notin new /\ ("DATABASE" \in new => "DATABASE" \in files[o])
    BY <1>3
  <2>3. o > aged => Done("LIST") \subseteq new
    BY <1>4, <1>6 DEF Done, Unsigned, Bundle
  <2>4. passes' = [passes EXCEPT ![v] = [passes[v] EXCEPT !.at = "LIST"]]
    BY <1>6 DEF PassMoves, PassGoes
  <2> HIDE DEF new
  <2> QED
    BY <1>6, <2>1, <2>2, <2>3, <2>4, PartChanges
<1> QED
  BY <1>5, <1>6 DEF AddPart, PassAt

LEMMA DiscardKeeps ==
  ASSUME RetentionInv, NEW v \in Verifier, DiscardPart(v)
  PROVE  RetentionInv'
<1> DEFINE o == passes[v].own
<1>1. passes[v].at = "DISCARD"
  BY DEF DiscardPart, PassAt
<1>2. UNCHANGED <<renewed, made, aged, anchored, broken, reported, torn, retentionFaults>>
  BY DEF DiscardPart
<1>3. o \in Backup /\ passes[v] # NoPass /\ passes[v] \in Making /\ OwnIsGrowing(passes[v], files, aged, made, reported)
  BY <1>1, OwnMaking
<1>4. CASE PassGoes(v, NoPass) /\ UNCHANGED files
  BY <1>2, <1>4, EndKeeps, OwnPass
<1>5. ASSUME NEW part \in files[o], files' = [files EXCEPT ![o] = @ \ {part}], UNCHANGED passes
      PROVE  RetentionInv'
  <2> DEFINE new == files[o] \ {part}
  <2>1. new \in SUBSET Bundle /\ files' = [files EXCEPT ![o] = new]
    BY <1>3, <1>5, OwnPass
  <2>2. "SIGNATURE" \notin new /\ ("DATABASE" \in new => "DATABASE" \in files[o])
    BY <1>3 DEF OwnIsGrowing
  <2>3. Done("DISCARD") \subseteq new
    BY DEF Done
  <2>4. [passes[v] EXCEPT !.at = "DISCARD"] = passes[v]
    BY <1>1, <1>3 DEF Making
  <2>5. passes' = [passes EXCEPT ![v] = [passes[v] EXCEPT !.at = "DISCARD"]]
    BY <1>5, <2>4 DEF RetentionInv, RetentionShape
  <2> HIDE DEF new
  <2> QED
    BY <1>1, <1>2, <2>1, <2>2, <2>3, <2>5, PartChanges
<1> QED
  BY <1>4, <1>5 DEF DiscardPart

\* The host signs a young bundle that no pass works on.
LEMMA SignKeeps ==
  ASSUME RetentionInv, NEW o \in Backup, HostSigns(o)
  PROVE  RetentionInv'
<1>0. /\ RetentionShape
      /\ \A b \in Backup : FileIsSound(b, files, made, torn)
      /\ \A b \in reported : ReportIsKept(b, files, aged, made)
      /\ \A w \in Verifier : PassIsSound(passes[w], files, aged, made, reported, Trusted, torn)
      /\ \A x, y \in Verifier : x # y => Apart(passes[x], passes[y], torn)
  BY DEF RetentionInv
<1>1. /\ o \in reported /\ o > aged /\ files[o] = Unsigned /\ files' = [files EXCEPT ![o] = Bundle]
      /\ UNCHANGED <<renewed, made, aged, anchored, broken, passes, reported, torn, retentionFaults>>
  BY DEF HostSigns
<1>2. /\ files \in [Backup -> SUBSET Bundle] /\ passes \in [Verifier -> Pass]
      /\ made \in Nat /\ aged \in Nat /\ Trusted \in SUBSET Backup /\ \A b \in Backup : b \in Nat
  BY <1>0, RetentionAssumption DEF RetentionShape, Backup, Trusted
<1>3. files'[o] = Bundle /\ \A b \in Backup \ {o} : files'[b] = files[b]
  BY <1>1, <1>2
<1>4. RetentionShape'
  <2>1. files' \in [Backup -> SUBSET Bundle]
    BY <1>1, <1>2
  <2> QED
    BY <1>0, <1>1, <2>1 DEF RetentionShape
<1>5. Calm(files, files', aged, Trusted)
  <2>1. \A b \in Backup : b <= aged /\ "SIGNATURE" \in files'[b] => "SIGNATURE" \in files[b]
    BY <1>1, <1>2, <1>3
  <2>2. \A b \in Valid(files, Trusted) : b \in Valid(files', Trusted)
    BY <1>2, <1>3 DEF Valid
  <2> QED
    BY <1>2, <2>1, <2>2, CalmStep
<1>6. \A b \in Backup : FileIsSound(b, files', made, torn)
  <2> SUFFICES ASSUME NEW b \in Backup PROVE FileIsSound(b, files', made, torn)
    OBVIOUS
  <2>1. FileIsSound(b, files, made, torn) /\ ~(o > made)
    <3>1. o <= made
      BY <1>0, <1>1 DEF ReportIsKept
    <3> QED
      BY <1>0, <1>2, <3>1
  <2>2. CASE b = o
    BY <1>3, <2>1, <2>2 DEF FileIsSound
  <2>3. CASE b # o
    BY <1>3, <2>1, <2>3 DEF FileIsSound
  <2> QED
    BY <2>2, <2>3
<1>7. \A b \in reported : ReportIsKept(b, files', aged, made)
  <2> SUFFICES ASSUME NEW b \in reported PROVE ReportIsKept(b, files', aged, made)
    OBVIOUS
  <2>1. b \in Backup /\ ReportIsKept(b, files, aged, made)
    BY <1>0 DEF RetentionShape
  <2> QED
    BY <1>3, <2>1 DEF ReportIsKept, Unsigned
<1>8. ASSUME NEW w \in Verifier PROVE PassIsSound(passes[w], files', aged, made, reported, Trusted, torn)
  <2>1. passes[w] \in Pass /\ PassIsSound(passes[w], files, aged, made, reported, Trusted, torn)
    BY <1>0, <1>2
  <2>2. passes[w] # NoPass => files'[passes[w].own] = files[passes[w].own]
    BY <1>1, <1>3, <2>1, PassKinds DEF PassIsSound, OwnIsGrowing
  <2>3. ASSUME NEW b \in Backup \ torn, IsMoving(passes[w], b) PROVE files'[b] = files[b]
    <3>1. "DATABASE" \notin files[b]
      BY <2>1, <2>3 DEF PassIsSound, MovedIsKept
    <3>2. "DATABASE" \in Unsigned
      BY DEF Unsigned, Bundle
    <3> QED
      BY <1>1, <1>3, <3>1, <3>2
  <2>4. Untouched(passes[w], files, files', aged, torn)
    BY <2>2, <2>3 DEF Untouched
  <2>5. made <= made
    BY <1>2
  <2> QED
    BY <1>2, <1>5, <2>1, <2>4, <2>5, OtherPassKept
<1>9. Trusted' = Trusted
  BY <1>1 DEF Trusted
<1> QED
  BY <1>0, <1>1, <1>4, <1>6, <1>7, <1>8, <1>9 DEF RetentionInv

\* What is promised of the young is promised of fewer.
LEMMA GrowOldKeeps ==
  ASSUME RetentionInv, GrowOld
  PROVE  RetentionInv'
<1>0. /\ RetentionShape
      /\ \A b \in Backup : FileIsSound(b, files, made, torn)
      /\ \A b \in reported : ReportIsKept(b, files, aged, made)
      /\ \A w \in Verifier : PassIsSound(passes[w], files, aged, made, reported, Trusted, torn)
      /\ \A x, y \in Verifier : x # y => Apart(passes[x], passes[y], torn)
  BY DEF RetentionInv
<1>1. /\ aged < made /\ aged' = aged + 1
      /\ UNCHANGED <<files, renewed, made, anchored, broken, passes, reported, torn, retentionFaults>>
  BY DEF GrowOld
<1>2. /\ made \in Nat /\ aged \in Nat /\ aged' \in Nat /\ passes \in [Verifier -> Pass]
      /\ \A b \in Backup : b \in Nat
  BY <1>0, <1>1, RetentionAssumption DEF RetentionShape, Backup
<1>3. \A n \in Nat : (n <= aged => n <= aged') /\ (n > aged' => n > aged)
  BY <1>1, <1>2
<1>4. RetentionShape'
  <2>1. aged' \in 0..made'
    BY <1>1, <1>2
  <2> QED
    BY <1>0, <1>1, <2>1 DEF RetentionShape
<1>5. \A b \in reported : ReportIsKept(b, files, aged', made)
  BY <1>0, <1>2, <1>3 DEF RetentionShape, ReportIsKept
<1>6. ASSUME NEW w \in Verifier PROVE PassIsSound(passes[w], files, aged', made, reported, Trusted, torn)
  <2> DEFINE q == passes[w]
  <2>1. q \in Pass /\ PassIsSound(q, files, aged, made, reported, Trusted, torn)
    BY <1>0, <1>2
  <2>2. OwnIsGrowing(q, files, aged', made, reported)
    <3>1. q # NoPass => q.own \in Nat
      BY <1>2, <2>1, PassKinds
    <3> QED
      BY <1>3, <2>1, <3>1 DEF PassIsSound, OwnIsGrowing
  <2>3. ScanIsTrue(q, files, aged', Trusted)
    <3>1. q \in Scanning => q.now \in Nat
      BY DEF Scanning
    <3> QED
      BY <1>3, <2>1, <3>1 DEF PassIsSound, ScanIsTrue
  <2>4. DeletionIsSafe(q, files, aged', Trusted)
    <3>1. q \in Deleting => q.doomed \subseteq Backup
      BY DEF Deleting
    <3>2. q \in Deleting => \A b \in q.doomed : DoomIsDeserved(q, b, files, aged', Trusted)
      BY <1>2, <1>3, <2>1, <3>1 DEF PassIsSound, DeletionIsSafe, DoomIsDeserved
    <3> QED
      BY <2>1, <3>2 DEF PassIsSound, DeletionIsSafe
  <2> QED
    BY <2>1, <2>2, <2>3, <2>4 DEF PassIsSound
<1>7. Trusted' = Trusted
  BY <1>1 DEF Trusted
<1> QED
  BY <1>0, <1>1, <1>4, <1>5, <1>6, <1>7 DEF RetentionInv

\* The pass ends well: it has added all that a backup is made of.
LEMMA ReportKeeps ==
  ASSUME RetentionInv, NEW v \in Verifier, PassEnds(v)
  PROVE  RetentionInv'
<1>0. /\ RetentionShape
      /\ \A b \in Backup : FileIsSound(b, files, made, torn)
      /\ \A b \in reported : ReportIsKept(b, files, aged, made)
      /\ \A w \in Verifier : PassIsSound(passes[w], files, aged, made, reported, Trusted, torn)
      /\ \A x, y \in Verifier : x # y => Apart(passes[x], passes[y], torn)
  BY DEF RetentionInv
<1> DEFINE own == passes[v].own
<1>1. /\ passes[v].at = "DELETE" /\ passes' = [passes EXCEPT ![v] = NoPass]
      /\ reported' = reported \union {own}
      /\ UNCHANGED <<files, renewed, made, aged, anchored, broken, torn, retentionFaults>>
  BY DEF PassEnds, PassAt, PassGoes
<1>2. passes[v] \in Pass /\ passes \in [Verifier -> Pass]
  BY <1>0 DEF RetentionShape
<1>3. passes[v] # NoPass /\ own \in Backup
  BY <1>1, <1>2, PassKinds
<1>4. OwnIsGrowing(passes[v], files, aged, made, reported)
  BY <1>0 DEF PassIsSound
<1>5. ReportIsKept(own, files, aged, made)
  <2>1. Done(passes[v].at) = Unsigned
    BY <1>1 DEF Done
  <2> QED
    BY <1>3, <1>4, <2>1 DEF OwnIsGrowing, ReportIsKept
<1>6. passes'[v] = NoPass /\ \A w \in Verifier \ {v} : passes'[w] = passes[w]
  BY <1>1, <1>2
<1>7. RetentionShape'
  <2>1. NoPass \in Pass
    BY DEF Pass
  <2>2. passes' \in [Verifier -> Pass]
    BY <1>1, <1>2, <2>1
  <2>3. reported' \subseteq Backup
    BY <1>0, <1>1, <1>3 DEF RetentionShape
  <2> QED
    BY <1>0, <1>1, <2>2, <2>3 DEF RetentionShape
<1>8. \A b \in reported' : ReportIsKept(b, files, aged, made)
  BY <1>0, <1>1, <1>5
<1>9. ASSUME NEW w \in Verifier PROVE PassIsSound(passes'[w], files, aged, made, reported', Trusted, torn)
  <2>1. CASE w = v
    BY <1>6, <2>1, NoPassIsSound
  <2>2. CASE w # v
    <3>1. PassIsSound(passes[w], files, aged, made, reported, Trusted, torn) /\ Apart(passes[v], passes[w], torn)
      BY <1>0, <2>2
    <3>2. passes[w] # NoPass => passes[w].own # own
      BY <1>3, <3>1 DEF Apart
    <3>3. OwnIsGrowing(passes[w], files, aged, made, reported')
      BY <1>1, <3>1, <3>2 DEF PassIsSound, OwnIsGrowing
    <3> QED
      BY <1>6, <2>2, <3>1, <3>3 DEF PassIsSound
  <2> QED
    BY <2>1, <2>2
<1>10. ASSUME NEW x \in Verifier, NEW y \in Verifier, x # y PROVE Apart(passes'[x], passes'[y], torn)
  <2>1. \A b : ~IsMoving(NoPass, b)
    BY NoPassIsSound
  <2>2. CASE x = v \/ y = v
    BY <1>6, <1>10, <2>1, <2>2 DEF Apart
  <2>3. CASE x # v /\ y # v
    BY <1>0, <1>6, <1>10, <2>3
  <2> QED
    BY <2>2, <2>3
<1>11. Trusted' = Trusted
  BY <1>1 DEF Trusted
<1> QED
  BY <1>0, <1>1, <1>7, <1>8, <1>9, <1>10, <1>11 DEF RetentionInv

LEMMA InitKeeps == RetentionInit => RetentionInv
<1> SUFFICES ASSUME RetentionInit PROVE RetentionInv
  OBVIOUS
<1>1. /\ files \in [Backup -> {{}, Unsigned, Bundle}] /\ \A b \in Backup : files[b] = {} <=> b > Existing
      /\ made = Existing /\ aged = 0 /\ anchored \in BOOLEAN
      /\ renewed = [b \in Backup |-> 0] /\ passes = [v \in Verifier |-> NoPass]
      /\ reported = {} /\ torn = {} /\ retentionFaults = 0
  BY DEF RetentionInit
<1>2. broken \subseteq Backup
  BY DEF RetentionInit
<1>3. \A fs, rep, trn, ok : NoPass \in Pass /\ PassIsSound(NoPass, fs, aged, made, rep, ok, trn) /\ \A b : ~IsMoving(NoPass, b)
  BY NoPassIsSound
<1>4. RetentionShape
  <2>1. files \in [Backup -> SUBSET Bundle]
    <3>1. \A b \in Backup : files[b] \in SUBSET Bundle
      BY <1>1 DEF Unsigned
    <3> QED
      BY <1>1, <3>1
  <2>2. passes \in [Verifier -> Pass]
    BY <1>1, <1>3
  <2>3. made \in Existing..LastBackup /\ aged \in 0..made /\ retentionFaults \in 0..MaxRetentionFaults
    BY <1>1, RetentionAssumption
  <2> QED
    BY <1>1, <1>2, <2>1, <2>2, <2>3 DEF RetentionShape
<1>5. ASSUME NEW b \in Backup PROVE FileIsSound(b, files, made, torn)
  <2>1. files[b] = {} \/ files[b] = Unsigned \/ files[b] = Bundle
    BY <1>1
  <2> QED
    BY <1>1, <2>1 DEF FileIsSound, Unsigned
<1>6. \A v \in Verifier : PassIsSound(passes[v], files, aged, made, reported, Trusted, torn)
  BY <1>1, <1>3
<1>7. \A v, w \in Verifier : v # w => Apart(passes[v], passes[w], torn)
  BY <1>1, <1>3 DEF Apart
<1> QED
  BY <1>1, <1>4, <1>5, <1>6, <1>7 DEF RetentionInv

LEMMA RetentionStep ==
  ASSUME RetentionInv, [RetentionNext]_retentionVars
  PROVE  RetentionInv'
<1>1. CASE UNCHANGED retentionVars
  BY <1>1 DEF retentionVars, RetentionInv, RetentionShape, Trusted
<1>2. CASE GrowOld
  BY <1>2, GrowOldKeeps
<1>3. ASSUME NEW b \in Backup, HostSigns(b) PROVE RetentionInv'
  BY <1>3, SignKeeps
<1>4. ASSUME NEW v \in Verifier, MakeBackup(v) \/ AddPart(v) \/ DiscardPart(v) \/ PassEnds(v) PROVE RetentionInv'
  BY <1>4, MakeKeeps, AddKeeps, DiscardKeeps, ReportKeeps
<1>5. ASSUME NEW v \in Verifier, PassFails(v) \/ RollbackEnds(v) PROVE RetentionInv'
  <2>1. passes[v].at # "NONE" /\ TakeBack(v)
    BY <1>5 DEF PassFails, RollbackEnds, PassAt
  <2>2. UNCHANGED <<files, renewed, made, aged, anchored, broken, reported, torn>>
    BY <1>5 DEF PassFails, RollbackEnds
  <2>3. retentionFaults' \in 0..MaxRetentionFaults
    BY <1>5, FaultsStay, OwnPass DEF PassFails, RollbackEnds
  <2>4. passes[v] # NoPass
    BY <2>1 DEF NoPass
  <2> QED
    BY <2>1, <2>2, <2>3, <2>4, TakeBackKeeps
<1>6. ASSUME NEW v \in Verifier, PassDies(v) PROVE RetentionInv'
  <2>1. PassGoes(v, NoPass) /\ UNCHANGED <<files, renewed, made, aged, anchored, broken, reported, torn>>
    BY <1>6 DEF PassDies, PassGoes
  <2>2. retentionFaults' \in 0..MaxRetentionFaults
    BY <1>6, FaultsStay DEF PassDies
  <2> QED
    BY <2>1, <2>2, EndKeeps
<1>7. ASSUME NEW v \in Verifier, ListBackups(v) \/ InspectDatabase(v) \/ InspectSidecars(v) \/ InspectSignature(v)
      PROVE  RetentionInv'
  BY <1>7, ListKeeps, DatabaseKeeps, SidecarsKeep, SignatureKeeps
<1>8. ASSUME NEW v \in Verifier,
             Judge(v) \/ VerifyIdentity(v) \/ MovePart(v) \/ PutBack(v) \/ Unlink(v)
      PROVE  RetentionInv'
  BY <1>8, JudgeKeeps, VerifyKeeps, MoveKeeps, PutBackKeeps, UnlinkKeeps
<1> QED
  BY <1>1, <1>2, <1>3, <1>4, <1>5, <1>6, <1>7, <1>8 DEF RetentionNext

\* The shape of the state, the files, the reports and the passes stay sound.
THEOREM RetentionInvariant == RetentionSpec => []RetentionInv
<1>1. RetentionInit => RetentionInv
  BY InitKeeps
<1>2. RetentionInv /\ [RetentionNext]_retentionVars => RetentionInv'
  BY RetentionStep
<1> QED
  BY <1>1, <1>2, PTL DEF RetentionSpec

-----------------------------------------------------------------------------
(* What the invariant gives.                                                 *)

LEMMA WholeBundles == RetentionInv => BundlesAreWhole
  BY DEF RetentionInv, BundlesAreWhole, FileIsSound, ReportIsKept

\* A step takes a recovery bundle away only by moving a part of an old one that has
\* enough newer ones, which it leaves.
LEMMA FloorHolds ==
  ASSUME RetentionInv, [RetentionNext]_retentionVars, NEW b \in Backup, Validates(b), ~Validates(b)'
  PROVE  b <= aged /\ Cardinality({c \in Backup : c > b /\ Validates(c)'}) >= MinimumRecent
<1>1. anchored /\ files[b] = Bundle /\ b \notin broken
  BY DEF Validates
<1>2. UNCHANGED <<anchored, broken>>
  BY DEF RetentionNext, retentionVars, GrowOld, HostSigns, MakeBackup, AddPart, PassFails, DiscardPart, PassDies,
         ListBackups, InspectDatabase, InspectSidecars, InspectSignature, Judge, VerifyIdentity, MovePart, PutBack,
         RollbackEnds, Unlink, PassEnds
<1>3. files'[b] # Bundle
  BY <1>1, <1>2 DEF Validates
<1>4. /\ files \in [Backup -> SUBSET Bundle] /\ made \in Nat /\ aged \in Nat /\ aged <= made
      /\ \A c \in Backup : c \in Nat
      /\ \A c \in Backup : FileIsSound(c, files, made, torn)
  BY RetentionAssumption DEF RetentionInv, RetentionShape, Backup
<1>5. "SIGNATURE" \in files[b]
  BY <1>1 DEF Bundle
<1>6. PICK v \in Verifier, part \in Bundle :
        /\ MovePart(v) /\ b = Target(v) /\ files' = [files EXCEPT ![b] = @ \ {part}]
  <2>1. CASE UNCHANGED files
    BY <1>1, <1>3, <2>1
  <2>2. ASSUME NEW c \in Backup, HostSigns(c) PROVE FALSE
    BY <1>1, <1>3, <1>4, <2>2 DEF HostSigns
  <2>3. ASSUME NEW v \in Verifier, MakeBackup(v) PROVE FALSE
    <3>1. made + 1 \in Backup /\ files[made + 1] = {}
      <4>1. made < LastBackup
        BY <2>3 DEF MakeBackup
      <4>2. made + 1 \in Backup
        BY <1>4, <4>1, RetentionAssumption DEF Backup
      <4> QED
        BY <1>4, <4>2 DEF FileIsSound
    <3>2. files' = [files EXCEPT ![made + 1] = {"DATABASE"}]
      BY <2>3 DEF MakeBackup
    <3> QED
      BY <1>1, <1>3, <1>4, <1>5, <3>1, <3>2
  <2>4. ASSUME NEW v \in Verifier, AddPart(v) PROVE FALSE
    <3>1. passes[v].at \in {"SNAPSHOT", "MANIFEST"}
      BY <2>4 DEF AddPart, PassAt
    <3>2. passes[v].own \in Backup /\ "SIGNATURE" \notin files[passes[v].own]
      BY <3>1, OwnMaking DEF OwnIsGrowing
    <3>3. passes[v].own # b
      BY <1>5, <3>2
    <3>4. files'[b] = files[b]
      BY <1>4, <2>4, <3>3 DEF AddPart
    <3> QED
      BY <1>1, <1>3, <3>4
  <2>5. ASSUME NEW v \in Verifier, DiscardPart(v) PROVE FALSE
    <3>1. passes[v].at = "DISCARD"
      BY <2>5 DEF DiscardPart, PassAt
    <3>2. passes[v].own \in Backup /\ "SIGNATURE" \notin files[passes[v].own]
      BY <3>1, OwnMaking DEF OwnIsGrowing
    <3>3. passes[v].own # b
      BY <1>5, <3>2
    <3>4. files'[b] = files[b]
      BY <1>4, <2>5, <3>3 DEF DiscardPart
    <3> QED
      BY <1>1, <1>3, <3>4
  <2>6. ASSUME NEW v \in Verifier, PutBack(v) PROVE FALSE
    <3>1. files' = [files EXCEPT ![Target(v)] = @ \union {LastPart(passes[v].moved)}] \/ files' = files
      BY <2>6 DEF PutBack
    <3>2. files'[b] \in SUBSET Bundle
      <4>1. RetentionInv'
        BY RetentionStep
      <4> QED
        BY <4>1 DEF RetentionInv, RetentionShape
    <3>3. files[b] \subseteq files'[b]
      BY <1>4, <3>1
    <3> QED
      BY <1>1, <1>3, <3>2, <3>3
  <2>7. ASSUME NEW v \in Verifier, MovePart(v)
        PROVE  \E part \in Bundle : b = Target(v) /\ files' = [files EXCEPT ![b] = @ \ {part}]
    <3> DEFINE part == FirstPart(ToMove(v))
    <3>1. \/ files' = [files EXCEPT ![Target(v)] = @ \ {part}] /\ part \in files[Target(v)]
          \/ files' = files
      BY <2>7 DEF MovePart
    <3> HIDE DEF part
    <3>2. files' = [files EXCEPT ![Target(v)] = @ \ {part}] /\ part \in files[Target(v)]
      BY <1>1, <1>3, <3>1
    <3>3. b = Target(v)
      BY <1>1, <1>3, <1>4, <3>2
    <3>4. part \in Bundle
      BY <1>4, <3>2, <3>3
    <3> QED
      BY <3>2, <3>3, <3>4
  <2>8. \/ UNCHANGED files
        \/ \E c \in Backup : HostSigns(c)
        \/ \E v \in Verifier : MakeBackup(v) \/ AddPart(v) \/ DiscardPart(v) \/ PutBack(v) \/ MovePart(v)
    BY DEF RetentionNext, retentionVars, GrowOld, PassFails, PassDies, ListBackups, InspectDatabase, InspectSidecars,
           InspectSignature, Judge, VerifyIdentity, RollbackEnds, Unlink, PassEnds
  <2> QED
    BY <2>1, <2>2, <2>3, <2>4, <2>5, <2>6, <2>7, <2>8
<1>7. b <= aged /\ Floor(b, files, Trusted)
  <2>1. passes[v].at = "MOVE"
    BY <1>6 DEF MovePart, PassAt
  <2>2. passes[v].doomed # {} /\ b \in passes[v].doomed
    BY <1>6, <2>1, OwnDeletion DEF DeletionIsSafe
  <2> QED
    BY <1>5, <2>1, <2>2, OwnDeletion DEF DoomIsDeserved
<1>8. {c \in Valid(files, Trusted) : c > b} \subseteq {c \in Valid(files', Trusted) : c > b}
  <2> SUFFICES ASSUME NEW c \in Valid(files, Trusted), c > b PROVE c \in Valid(files', Trusted)
    OBVIOUS
  <2>1. c \in Backup /\ c # b /\ files[c] = Bundle /\ c \in Trusted
    BY <1>4, OwnPass, <1>6 DEF Valid
  <2>2. files'[c] = files[c]
    BY <1>4, <1>6, <2>1
  <2> QED
    BY <2>1, <2>2 DEF Valid
<1>9. Floor(b, files', Trusted)
  <2>1. Trusted \in SUBSET Backup
    BY <1>6, OwnPass
  <2> QED
    BY <1>7, <1>8, <2>1, FloorRises
<1>10. {c \in Backup : c > b /\ Validates(c)'} = {c \in Valid(files', Trusted) : c > b}
  BY <1>1, <1>2 DEF Validates, Valid, Trusted
<1>11. MinimumRecent <= Cardinality({c \in Backup : c > b /\ Validates(c)'})
  BY <1>9, <1>10 DEF Floor
<1> QED
  BY <1>7, <1>11, RetentionAssumption

\* The retention takes nothing that a recovery needs: a reported backup stays until
\* it is old, a signed database stays beside its whole bundle, and a bundle that a
\* recovery could be made from goes only when it is old and enough newer ones stay.
THEOREM BackupsAreKeptHolds == RetentionSpec => BackupsAreKept
<1>1. RetentionInv /\ [RetentionNext]_retentionVars =>
        [\A b \in Backup : Validates(b) /\ ~Validates(b)' =>
           b <= aged /\ Cardinality({c \in Backup : c > b /\ Validates(c)'}) >= MinimumRecent]_retentionVars
  BY FloorHolds
<1>2. RetentionSpec => []BundlesAreWhole
  BY RetentionInvariant, WholeBundles, PTL
<1>3. RetentionSpec => RecoveryFloor
  BY <1>1, RetentionInvariant, PTL DEF RetentionSpec, RecoveryFloor
<1> QED
  BY <1>2, <1>3 DEF BackupsAreKept

================================================================================
