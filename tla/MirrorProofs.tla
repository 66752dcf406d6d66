---------------------------- MODULE MirrorProofs ----------------------------
(***************************************************************************)
(* Theorems about the pairing of moved files (module Moves) and the mirror *)
(* that acts on it (module Mirror), for every tree and every set of        *)
(* faults, and about what survives those faults.                           *)
(***************************************************************************)
EXTENDS Mirror, FiniteSetTheorems, TLAPS

OneToOne(pairs) == \A j, k \in pairs : j[1] = k[1] \/ j[2] = k[2] => j = k

\* A pair is unambiguous if neither half occurs in another (moves.rs:148-166).
LEMMA UnambiguousPairs ==
  ASSUME NEW pairs
  PROVE  Unambiguous(pairs) \subseteq pairs /\ OneToOne(Unambiguous(pairs))
BY DEF Unambiguous, OneToOne

\* A later pass adds nothing that shares a half with what earlier ones took
\* (moves.rs:168-177).
LEMMA LaterPass ==
  ASSUME NEW done, OneToOne(done), NEW pairs
  PROVE  OneToOne(done \union Unambiguous(StillOpen(pairs, done)))
<1> DEFINE more == Unambiguous(StillOpen(pairs, done))
<1>1. more \subseteq StillOpen(pairs, done) /\ OneToOne(more)
  BY UnambiguousPairs
<1>2. \A j \in done, k \in more : j[1] # k[1] /\ j[2] # k[2]
  BY <1>1 DEF StillOpen
<1> QED BY <1>1, <1>2 DEF OneToOne

\* The three passes together pair each orphan with one new file at most, and
\* each new file with one orphan (pair, moves.rs:85-186).
LEMMA PairingIsOneToOne ==
  ASSUME NEW src, NEW dst, NEW known, NEW now
  PROVE  OneToOne(Pairing(src, dst, known, now))
<1> DEFINE one == ByIdentity(src, dst, known, now)
           two == one \union ByName(src, dst, one)
<1>1. OneToOne(one)
  BY UnambiguousPairs DEF ByIdentity
<1>2. OneToOne(two)
  BY <1>1, LaterPass DEF ByName
<1>3. OneToOne(two \union ByTime(src, dst, two))
  BY <1>2, LaterPass DEF ByTime
<1> QED BY <1>3 DEF Pairing

\* No pairs, and fewer pairs, are one to one.
LEMMA FewerPairs ==
  ASSUME NEW pairs, OneToOne(pairs)
  PROVE  OneToOne({}) /\ \A k : OneToOne(pairs \ {k})
BY DEF OneToOne

\* What a pass sets out to move, in either direction.
LEMMA MovesFoundOneToOne == OneToOne(MovesFound)
BY PairingIsOneToOne, FewerPairs DEF MovesFound, OneToOne

LEMMA MovesBackOneToOne ==
  ASSUME NEW src, NEW dst
  PROVE  OneToOne(MovesBack(src, dst))
BY PairingIsOneToOne DEF MovesBack, OneToOne

\* A file of the following side is moved once, to where nothing else is moved:
\* the passes of the pairing never disagree, and nothing is added to what they
\* found while it is acted on (moves.rs:126, mirror.rs:169-208).
THEOREM MovesStayOneToOne == Spec => []MovesOneToOne
<1> USE DEF MovesOneToOne, OneToOne
<1>1. Init => MovesOneToOne
  BY DEF Init
<1>2. MovesOneToOne /\ [Next]_vars => MovesOneToOne'
  <2> SUFFICES ASSUME MovesOneToOne, [Next]_vars
               PROVE  MovesOneToOne'
    OBVIOUS
  <2>1. CASE User \/ UNCHANGED vars
    BY <2>1 DEF User, VaultWrite, VaultDelete, DriveWrite, DriveDelete, VaultRename,
                DriveRename, VaultRenameDir, Edit, work, vars
  <2>2. CASE BeginPass
    BY <2>2, MovesFoundOneToOne DEF BeginPass
  <2>3. CASE MoveDoc
    BY <2>3, FewerPairs DEF MoveDoc
  <2>4. CASE LeadOn \/ ReadNote \/ WriteDoc \/ DropDocs
    BY <2>4 DEF LeadOn, ReadNote, WriteDoc, DropDocs
  <2>5. CASE Pull
    BY <2>5, MovesBackOneToOne DEF Pull
  <2>6. CASE MoveNote
    BY <2>6, FewerPairs DEF MoveNote
  <2>7. CASE FollowOn \/ ReadDoc \/ WriteNote \/ DropNotes
    BY <2>7 DEF FollowOn, ReadDoc, WriteNote, DropNotes
  <2>8. CASE FollowMoves
    BY <2>8, MovesFoundOneToOne, FewerPairs DEF FollowMoves
  <2>9. CASE \/ TakeEvents \/ FollowRename \/ LookAtPath \/ DropRemoved
            \/ PullWaits \/ PullFails \/ Resync \/ ConversionFails
    BY <2>9 DEF TakeEvents, FollowRename, LookAtPath, DropRemoved, PullWaits, PullFails,
                Resync, ConversionFails, work
  <2>10. CASE Restart
    BY <2>10 DEF Restart
  <2> QED BY <2>1, <2>2, <2>3, <2>4, <2>5, <2>6, <2>7, <2>8, <2>9, <2>10
          DEF Next, NotesLead, DocsLead, Events
<1> QED BY <1>1, <1>2, PTL DEF Spec

-----------------------------------------------------------------------------
(***************************************************************************)
(* The shape of the state.                                                 *)
(***************************************************************************)

LEMMA FiniteFiles ==
  /\ IsFiniteSet(Files) /\ Cardinality(Files) \in Nat
  /\ Newest \in Nat /\ Cardinality(Files) <= Newest
<1>1. IsFiniteSet(Files)
  BY TreeAssumption, FS_Product DEF Files
<1>2. Cardinality(Files) \in Nat
  BY <1>1, FS_CardinalityType
<1> QED BY <1>1, <1>2, MirrorAssumption DEF Newest

\* There is always an identity that neither the vault nor the snapshot uses
\* (FileId, ids.rs:21).
LEMMA UnusedExists ==
  ASSUME ids \in [Files -> Nat], snap \in [Files -> Nat]
  PROVE  Unused \in Nat \ {NoFile}
<1> DEFINE inVault == {ids[f] : f \in Files}
           inSnap == {snap[f] : f \in Files}
           some == 1..(2 * Cardinality(Files) + 1)
<1>1. IsFiniteSet(inVault) /\ Cardinality(inVault) <= Cardinality(Files)
  <2>1. ids \in Surjection(Files, inVault)
    BY DEF Surjection
  <2> QED BY <2>1, FiniteFiles, FS_Surjection
<1>2. IsFiniteSet(inSnap) /\ Cardinality(inSnap) <= Cardinality(Files)
  <2>1. snap \in Surjection(Files, inSnap)
    BY DEF Surjection
  <2> QED BY <2>1, FiniteFiles, FS_Surjection
<1>3. /\ IsFiniteSet(inVault \union inSnap)
      /\ Cardinality(inVault \union inSnap) <= 2 * Cardinality(Files)
  <2> HIDE DEF inVault, inSnap
  <2>1. /\ Cardinality(inVault) \in Nat /\ Cardinality(inSnap) \in Nat
        /\ Cardinality(inVault \cap inSnap) \in Nat
    BY <1>1, <1>2, FS_CardinalityType, FS_Intersection
  <2>2. /\ IsFiniteSet(inVault \union inSnap)
        /\ Cardinality(inVault \union inSnap) =
             Cardinality(inVault) + Cardinality(inSnap) - Cardinality(inVault \cap inSnap)
    BY <1>1, <1>2, FS_Union
  <2> QED BY <1>1, <1>2, <2>1, <2>2, FiniteFiles
<1>4. IsFiniteSet(some) /\ Cardinality(some) = 2 * Cardinality(Files) + 1
  <2> DEFINE top == 2 * Cardinality(Files) + 1
  <2>1. top \in Int /\ top >= 1
    BY FiniteFiles
  <2> HIDE DEF top
  <2>2. IsFiniteSet(1..top) /\ Cardinality(1..top) = top
    BY <2>1, FS_Interval
  <2> QED BY <2>2 DEF top
<1>5. ~(some \subseteq inVault \union inSnap)
  <2> HIDE DEF some, inVault, inSnap
  <2>1. Cardinality(inVault \union inSnap) \in Nat
    BY <1>3, FS_CardinalityType
  <2> QED BY <1>3, <1>4, <2>1, FS_Subset, FiniteFiles
<1>6. \E n \in some : \A f \in Files : ids[f] # n /\ snap[f] # n
  BY <1>5
<1>7. Unused \in some
  BY <1>6 DEF Unused
<1> QED BY <1>7, FiniteFiles, MirrorAssumption

LEMMA RebasedFile ==
  ASSUME NEW f \in Files, NEW d \in Dirs
  PROVE  Rebase(f, d) \in Under(d) /\ Rebase(f, d) \in Files
BY DEF Rebase, Files, Dirs, Under

LEMMA AbsentIsVersion == Absent \in Versions
BY FiniteFiles DEF Absent, Versions

\* A file renamed, and a folder of files (mirror.rs:184-188, pair.rs:630-634),
\* and their identities with them.
LEMMA MovedVersions ==
  ASSUME NEW side \in [Files -> Versions], NEW f \in Files, NEW g \in Files, f # g
  PROVE  /\ Moved(side, Absent, f, g) \in [Files -> Versions]
         /\ \A h \in Files : Moved(side, Absent, f, g)[h] =
              IF h = f THEN Absent ELSE IF h = g THEN side[f] ELSE side[h]
BY AbsentIsVersion DEF Moved

LEMMA MovedIds ==
  ASSUME NEW side \in [Files -> Nat], NEW f \in Files, NEW g \in Files, f # g
  PROVE  /\ Moved(side, NoFile, f, g) \in [Files -> Nat]
         /\ \A h \in Files : Moved(side, NoFile, f, g)[h] =
              IF h = f THEN NoFile ELSE IF h = g THEN side[f] ELSE side[h]
BY MirrorAssumption DEF Moved

LEMMA MovedDirVersions ==
  ASSUME NEW side \in [Files -> Versions], NEW d \in Dirs, NEW e \in Dirs
  PROVE  /\ MovedDir(side, Absent, d, e) \in [Files -> Versions]
         /\ \A h \in Files : MovedDir(side, Absent, d, e)[h] =
              IF h \in Under(e) THEN side[Rebase(h, d)]
              ELSE IF h \in Under(d) THEN Absent ELSE side[h]
BY RebasedFile, AbsentIsVersion DEF MovedDir

LEMMA MovedDirIds ==
  ASSUME NEW side \in [Files -> Nat], NEW d \in Dirs, NEW e \in Dirs
  PROVE  /\ MovedDir(side, NoFile, d, e) \in [Files -> Nat]
         /\ \A h \in Files : MovedDir(side, NoFile, d, e)[h] =
              IF h \in Under(e) THEN side[Rebase(h, d)]
              ELSE IF h \in Under(d) THEN NoFile ELSE side[h]
BY RebasedFile, MirrorAssumption DEF MovedDir

\* What is there has a text; no conversion makes a file that is not there.
Texted(side) == \A f \in Files : side[f] # Absent => side[f].text > 0
Genuine ==
  /\ Texted(note) /\ Texted(doc) /\ Texted(remote) /\ Texted(base)
  /\ held # Nobody => held[2].text > 0

\* An edit writes a version like any other.
LEMMA TextIsVersion ==
  ASSUME TypeOK, Genuine, clock < Newest, NEW v \in Versions
  PROVE  /\ Text(LineOf(v)) \in Versions
         /\ Text(LineOf(v)).text > 0 /\ Text(LineOf(v)) # Absent
<1>1. clock + 1 \in 1..Newest
  BY FiniteFiles DEF TypeOK
<1>2. LineOf(v) \in 0..Newest
  BY <1>1, FiniteFiles DEF LineOf, Versions
<1>3. Text(LineOf(v)) = [line |-> LineOf(v), text |-> clock + 1, time |-> clock + 1]
  BY DEF Text
<1>4. Text(LineOf(v)).text = clock + 1 /\ Absent.text = 0
  BY <1>3 DEF Absent
<1>5. Text(LineOf(v)) \in Versions
  BY <1>1, <1>2, <1>3 DEF Versions
<1> QED BY <1>1, <1>4, <1>5

LEMMA OwedStaysTyped ==
  ASSUME TypeOK, clock < Newest, NEW v \in Versions
  PROVE  /\ Superseded(v) \in [1..Newest -> 0..Newest]
         /\ Discarded(v) \in [1..Newest -> 0..Newest]
<1>1. clock + 1 \in 0..Newest /\ owed \in [1..Newest -> 0..Newest]
  BY FiniteFiles DEF TypeOK
<1>2. Superseded(v) \in [1..Newest -> 0..Newest]
  BY <1>1 DEF Superseded
<1>3. 0 \in 0..Newest
  BY FiniteFiles
<1>4. \A l \in 1..Newest : Discarded(v)[l] =
        IF l = v.line /\ owed[l] = v.text THEN 0 ELSE owed[l]
  BY <1>1 DEF Discarded
<1>5. Discarded(v) = [l \in 1..Newest |-> Discarded(v)[l]]
  BY <1>1 DEF Discarded
<1>6. \A l \in 1..Newest : Discarded(v)[l] \in 0..Newest
  BY <1>1, <1>3, <1>4
<1> QED BY <1>2, <1>5, <1>6

LEMMA TypeInit == Init => TypeOK /\ Genuine
<1> SUFFICES ASSUME Init PROVE TypeOK /\ Genuine
  OBVIOUS
<1>1. \A S : /\ Holding(S) \in [Files -> Versions] /\ Texted(Holding(S))
             /\ \A f \in Files : Holding(S)[f] = Absent <=> f \notin S
  BY FiniteFiles, MirrorAssumption DEF Holding, Versions, Texted, Absent
<1>2. /\ note \in [Files -> Versions] /\ doc \in [Files -> Versions]
      /\ remote \in [Files -> Versions] /\ base \in [Files -> Versions]
      /\ Texted(note) /\ Texted(doc) /\ Texted(remote) /\ Texted(base)
  BY <1>1 DEF Init
<1>3. /\ ids \in [Files -> Nat] /\ snap \in [Files -> Nat]
      /\ \A f \in Files : ids[f] = NoFile <=> note[f] = Absent
  BY FiniteFiles, MirrorAssumption DEF Init
<1>4. owed \in [1..Newest -> 0..Newest] /\ clock \in 0..Newest
  BY FiniteFiles DEF Init
<1>5. renames \in Seq(Renames) /\ taken \in Seq(Renames)
  BY DEF Init
<1>6. /\ dirty \subseteq Locs /\ pc \in Phases
      /\ batch \subseteq Locs /\ removed \subseteq Locs \X Files
      /\ moves \subseteq Files \X Files /\ todo \subseteq Files
      /\ held = Nobody /\ hands \subseteq {"vault", "drive"}
  BY DEF Init, Phases
<1>7. calm \in BOOLEAN
  BY DEF Init
<1> QED BY <1>2, <1>3, <1>4, <1>5, <1>6, <1>7 DEF TypeOK, Genuine

LEMMA ReportedTyped ==
  ASSUME TypeOK
  PROVE  /\ \A paths \in SUBSET Locs : Reported(paths) => dirty' \subseteq Locs
         /\ \A r \in Renames : ReportedRename(r[1], r[2]) =>
              dirty' \subseteq Locs /\ renames' \in Seq(Renames)
<1>1. ASSUME NEW r \in Renames, ReportedRename(r[1], r[2])
      PROVE  dirty' \subseteq Locs /\ renames' \in Seq(Renames)
  <2>1. r = <<r[1], r[2]>> /\ r[1] \in Locs /\ r[2] \in Locs
    BY DEF Renames, Locs
  <2>2. Append(renames, r) \in Seq(Renames)
    BY DEF TypeOK
  <2> QED BY <1>1, <2>1, <2>2 DEF ReportedRename, TypeOK
<1> QED BY <1>1 DEF Reported, TypeOK

\* Edits.
LEMMA TypeEdit ==
  ASSUME TypeOK, Genuine, NEW op, NEW hand \in {"vault", "drive"}, Edit(op, hand)
  PROVE  /\ clock < Newest /\ clock' \in 0..Newest /\ clock' = clock + 1
         /\ calm' \in BOOLEAN /\ hands' \subseteq {"vault", "drive"}
         /\ pc' \in Phases /\ taken' \in Seq(Renames)
         /\ batch' \subseteq Locs /\ removed' \subseteq Locs \X Files
         /\ moves' \subseteq Files \X Files /\ todo' \subseteq Files
         /\ held' = Nobody \/ held' \in Files \X Versions
         /\ held' # Nobody => held'[2].text > 0
         /\ doc' = doc /\ snap' = snap /\ base' = base
<1>1. clock < Newest /\ clock' = clock + 1 /\ clock' \in 0..Newest
  BY FiniteFiles DEF Edit, TypeOK
<1>2. hands' \subseteq {"vault", "drive"}
  BY DEF Edit, TypeOK
<1> QED BY <1>1, <1>2 DEF Edit, TypeOK, Genuine, work, gathered

LEMMA TypeVaultWrite ==
  ASSUME TypeOK, Genuine, NEW f \in Files, VaultWrite(f)
  PROVE  TypeOK' /\ Genuine'
<1> DEFINE op == IF note[f] = Absent THEN "create" ELSE "write"
<1>1. Edit(op, "vault")
  BY DEF VaultWrite
<1> HIDE DEF op
<1> DEFINE new == Text(LineOf(note[f]))
<1>2. note[f] \in Versions
  BY DEF TypeOK
<1>3. clock < Newest
  BY <1>1, TypeEdit
<1>4. new \in Versions /\ new.text > 0 /\ new # Absent
  BY <1>2, <1>3, TextIsVersion
<1>5. note' = [note EXCEPT ![f] = new] /\ owed' = Superseded(note[f])
  BY DEF VaultWrite
<1>6. ids' = [ids EXCEPT ![f] = Unused] \/ (note[f] # Absent /\ ids' = ids)
  BY DEF VaultWrite
<1>7. Reported({f}) /\ remote' = remote /\ renames' = renames
  BY DEF VaultWrite
<1> HIDE DEF new
<1>8. note' \in [Files -> Versions] /\ Texted(note')
  BY <1>4, <1>5 DEF TypeOK, Texted, Genuine
<1>9. ids' \in [Files -> Nat] /\ \A g \in Files : ids'[g] = NoFile <=> note'[g] = Absent
  BY <1>4, <1>5, <1>6, UnusedExists DEF TypeOK
<1>10. owed' \in [1..Newest -> 0..Newest]
  BY <1>2, <1>3, <1>5, OwedStaysTyped
<1>11. dirty' \subseteq Locs
  BY <1>7, ReportedTyped DEF Locs
<1> QED BY <1>1, <1>7, <1>8, <1>9, <1>10, <1>11, TypeEdit DEF TypeOK, Genuine, Texted

\* What one edit leaves to show, once the trees and the events are seen to.
LEMMA TypeByEdit ==
  ASSUME TypeOK, Genuine, NEW op, NEW hand \in {"vault", "drive"}, Edit(op, hand),
         note' \in [Files -> Versions], Texted(note'),
         remote' \in [Files -> Versions], Texted(remote'),
         ids' \in [Files -> Nat],
         \A g \in Files : ids'[g] = NoFile <=> note'[g] = Absent,
         owed' \in [1..Newest -> 0..Newest],
         dirty' \subseteq Locs, renames' \in Seq(Renames)
  PROVE  TypeOK' /\ Genuine'
<1>1. /\ clock' \in 0..Newest /\ calm' \in BOOLEAN /\ hands' \subseteq {"vault", "drive"}
      /\ pc' \in Phases /\ taken' \in Seq(Renames)
      /\ batch' \subseteq Locs /\ removed' \subseteq Locs \X Files
      /\ moves' \subseteq Files \X Files /\ todo' \subseteq Files
      /\ held' = Nobody \/ held' \in Files \X Versions
      /\ held' # Nobody => held'[2].text > 0
      /\ doc' = doc /\ snap' = snap /\ base' = base
  BY TypeEdit
<1>2. /\ doc' \in [Files -> Versions] /\ Texted(doc')
      /\ base' \in [Files -> Versions] /\ Texted(base')
      /\ snap' \in [Files -> Nat]
  BY <1>1 DEF TypeOK, Genuine, Texted
<1>3. TypeOK'
  BY <1>1, <1>2 DEF TypeOK
<1> QED BY <1>1, <1>2, <1>3 DEF Genuine, Texted

LEMMA TypeVaultDelete ==
  ASSUME TypeOK, Genuine, NEW f \in Files, VaultDelete(f)
  PROVE  TypeOK' /\ Genuine'
<1> DEFINE op == Removal(f, note, doc)
<1>1. Edit(op, "vault")
  BY DEF VaultDelete
<1> HIDE DEF op
<1>2. note[f] \in Versions /\ clock < Newest
  BY <1>1, TypeEdit DEF TypeOK
<1>3. /\ note' = [note EXCEPT ![f] = Absent] /\ ids' = [ids EXCEPT ![f] = NoFile]
      /\ owed' = Discarded(note[f])
      /\ Reported({f}) /\ remote' = remote /\ renames' = renames
  BY DEF VaultDelete
<1>4. note' \in [Files -> Versions] /\ Texted(note')
  BY <1>3, AbsentIsVersion DEF TypeOK, Texted, Genuine
<1>5. ids' \in [Files -> Nat] /\ \A g \in Files : ids'[g] = NoFile <=> note'[g] = Absent
  BY <1>3, MirrorAssumption DEF TypeOK
<1>6. owed' \in [1..Newest -> 0..Newest]
  BY <1>2, <1>3, OwedStaysTyped
<1>7. dirty' \subseteq Locs
  BY <1>3, ReportedTyped DEF Locs
<1> QED BY <1>1, <1>3, <1>4, <1>5, <1>6, <1>7, TypeByEdit DEF TypeOK, Genuine, Texted

LEMMA TypeVaultRename ==
  ASSUME TypeOK, Genuine, NEW f \in Files, NEW g \in Files, VaultRename(f, g)
  PROVE  TypeOK' /\ Genuine'
<1>0. /\ note \in [Files -> Versions] /\ remote \in [Files -> Versions]
      /\ ids \in [Files -> Nat]
  BY DEF TypeOK
<1> DEFINE op == Way(f, g)
<1>1. Edit(op, "vault")
  BY DEF VaultRename
<1> HIDE DEF op
<1>2. note[g] \in Versions /\ clock < Newest
  BY <1>1, TypeEdit DEF TypeOK
<1>3. /\ note[f] # Absent /\ f # g
      /\ note' = Moved(note, Absent, f, g) /\ ids' = Moved(ids, NoFile, f, g)
      /\ owed' = owed \/ owed' = Discarded(note[g])
      /\ ReportedRename(f, g) /\ remote' = remote
  BY DEF VaultRename
<1>4. /\ note' \in [Files -> Versions]
      /\ \A h \in Files : note'[h] =
           IF h = f THEN Absent ELSE IF h = g THEN note[f] ELSE note[h]
  BY <1>0, <1>3, MovedVersions
<1>5. /\ ids' \in [Files -> Nat]
      /\ \A h \in Files : ids'[h] =
           IF h = f THEN NoFile ELSE IF h = g THEN ids[f] ELSE ids[h]
  BY <1>0, <1>3, MovedIds
<1>6. Texted(note') /\ \A h \in Files : ids'[h] = NoFile <=> note'[h] = Absent
  BY <1>4, <1>5 DEF TypeOK, Texted, Genuine
<1>7. owed' \in [1..Newest -> 0..Newest]
  BY <1>2, <1>3, OwedStaysTyped DEF TypeOK
<1>8. dirty' \subseteq Locs /\ renames' \in Seq(Renames)
  <2>1. <<f, g>> \in Renames
    BY DEF Renames
  <2> QED BY <1>3, <2>1, ReportedTyped
<1> QED BY <1>1, <1>3, <1>4, <1>5, <1>6, <1>7, <1>8, TypeByEdit
        DEF TypeOK, Genuine, Texted

LEMMA TypeVaultRenameDir ==
  ASSUME TypeOK, Genuine, NEW d \in Dirs, NEW e \in Dirs, VaultRenameDir(d, e)
  PROVE  TypeOK' /\ Genuine'
<1>0. /\ note \in [Files -> Versions] /\ remote \in [Files -> Versions]
      /\ ids \in [Files -> Nat]
  BY DEF TypeOK
<1> DEFINE op == IF Within(doc, e) = {} THEN "renamedir" ELSE "replace"
<1>1. Edit(op, "vault")
  BY DEF VaultRenameDir
<1> HIDE DEF op
<1>3. /\ note' = MovedDir(note, Absent, d, e) /\ ids' = MovedDir(ids, NoFile, d, e)
      /\ owed' = owed /\ ReportedRename(d, e) /\ remote' = remote
  BY DEF VaultRenameDir
<1>4. /\ note' \in [Files -> Versions]
      /\ \A h \in Files : note'[h] =
           IF h \in Under(e) THEN note[Rebase(h, d)]
           ELSE IF h \in Under(d) THEN Absent ELSE note[h]
  BY <1>0, <1>3, MovedDirVersions
<1>5. /\ ids' \in [Files -> Nat]
      /\ \A h \in Files : ids'[h] =
           IF h \in Under(e) THEN ids[Rebase(h, d)]
           ELSE IF h \in Under(d) THEN NoFile ELSE ids[h]
  BY <1>0, <1>3, MovedDirIds
<1>6. Texted(note') /\ \A h \in Files : ids'[h] = NoFile <=> note'[h] = Absent
  BY <1>4, <1>5, RebasedFile DEF TypeOK, Texted, Genuine
<1>8. dirty' \subseteq Locs /\ renames' \in Seq(Renames)
  <2>1. <<d, e>> \in Renames
    BY DEF Renames
  <2> QED BY <1>3, <2>1, ReportedTyped
<1> QED BY <1>1, <1>3, <1>4, <1>5, <1>6, <1>8, TypeByEdit
        DEF TypeOK, Genuine, Texted

LEMMA TypeDriveWrite ==
  ASSUME TypeOK, Genuine, NEW f \in Files, DriveWrite(f)
  PROVE  TypeOK' /\ Genuine'
<1> DEFINE op == IF remote[f] = Absent THEN "drive-create" ELSE "drive-write"
<1>1. Edit(op, "drive")
  BY DEF DriveWrite
<1> HIDE DEF op
<1> DEFINE new == Text(LineOf(remote[f]))
<1>2. remote[f] \in Versions /\ clock < Newest
  BY <1>1, TypeEdit DEF TypeOK
<1>3. new \in Versions /\ new.text > 0
  BY <1>2, TextIsVersion
<1>4. /\ remote' = [remote EXCEPT ![f] = new] /\ owed' = Superseded(remote[f])
      /\ note' = note /\ ids' = ids /\ dirty' = dirty /\ renames' = renames
  BY DEF DriveWrite, events
<1> HIDE DEF new
<1>5. remote' \in [Files -> Versions] /\ Texted(remote')
  BY <1>3, <1>4 DEF TypeOK, Texted, Genuine
<1>6. owed' \in [1..Newest -> 0..Newest]
  BY <1>2, <1>4, OwedStaysTyped
<1> QED BY <1>1, <1>4, <1>5, <1>6, TypeByEdit DEF TypeOK, Genuine, Texted

LEMMA TypeDriveDelete ==
  ASSUME TypeOK, Genuine, NEW f \in Files, DriveDelete(f)
  PROVE  TypeOK' /\ Genuine'
<1> DEFINE op == OnDrive[Removal(f, remote, note)]
<1>1. Edit(op, "drive")
  BY DEF DriveDelete
<1> HIDE DEF op
<1>2. remote[f] \in Versions /\ clock < Newest
  BY <1>1, TypeEdit DEF TypeOK
<1>4. /\ remote' = [remote EXCEPT ![f] = Absent] /\ owed' = Discarded(remote[f])
      /\ note' = note /\ ids' = ids /\ dirty' = dirty /\ renames' = renames
  BY DEF DriveDelete, events
<1>5. remote' \in [Files -> Versions] /\ Texted(remote')
  BY <1>4, AbsentIsVersion DEF TypeOK, Texted, Genuine
<1>6. owed' \in [1..Newest -> 0..Newest]
  BY <1>2, <1>4, OwedStaysTyped
<1> QED BY <1>1, <1>4, <1>5, <1>6, TypeByEdit DEF TypeOK, Genuine, Texted

LEMMA TypeDriveRename ==
  ASSUME TypeOK, Genuine, NEW f \in Files, NEW g \in Files, DriveRename(f, g)
  PROVE  TypeOK' /\ Genuine'
<1>0. /\ note \in [Files -> Versions] /\ remote \in [Files -> Versions]
      /\ ids \in [Files -> Nat]
  BY DEF TypeOK
<1> DEFINE op == OnDrive[Way(f, g)]
<1>1. Edit(op, "drive")
  BY DEF DriveRename
<1> HIDE DEF op
<1>4. /\ f # g /\ remote' = Moved(remote, Absent, f, g)
      /\ note' = note /\ ids' = ids /\ owed' = owed
      /\ dirty' = dirty /\ renames' = renames
  BY DEF DriveRename, events
<1>5. /\ remote' \in [Files -> Versions]
      /\ \A h \in Files : remote'[h] =
           IF h = f THEN Absent ELSE IF h = g THEN remote[f] ELSE remote[h]
  BY <1>0, <1>4, MovedVersions
<1>6. Texted(remote')
  BY <1>5 DEF TypeOK, Texted, Genuine
<1> QED BY <1>1, <1>4, <1>5, <1>6, TypeByEdit DEF TypeOK, Genuine, Texted

\* The pass, and the events.
LEMMA PairsAreFiles ==
  /\ MovesFound \subseteq Files \X Files
  /\ \A src, dst : MovesBack(src, dst) \subseteq Files \X Files
<1>1. \A src, dst : Candidates(src, dst) \subseteq Files \X Files
  BY DEF Candidates, Orphans, Fresh, Has
<1>2. \A src, dst, known, now : Pairing(src, dst, known, now) \subseteq Files \X Files
  <2> SUFFICES ASSUME NEW src, NEW dst, NEW known, NEW now
               PROVE  Pairing(src, dst, known, now) \subseteq Files \X Files
    OBVIOUS
  <2>1. \A done : /\ ByName(src, dst, done) \subseteq Files \X Files
                    /\ ByTime(src, dst, done) \subseteq Files \X Files
    BY <1>1 DEF ByName, ByTime, Unambiguous, StillOpen
  <2>2. ByIdentity(src, dst, known, now) \subseteq Files \X Files
    BY <1>1 DEF ByIdentity, Unambiguous
  <2> QED BY <2>1, <2>2 DEF Pairing
<1> QED BY <1>2 DEF MovesFound, MovesBack

LEMMA ClearedSide ==
  ASSUME NEW gone
  PROVE  /\ \A side \in [Files -> Versions] :
              /\ Cleared(side, Absent, gone) \in [Files -> Versions]
              /\ Texted(side) => Texted(Cleared(side, Absent, gone))
         /\ \A side \in [Files -> Nat] : Cleared(side, NoFile, gone) \in [Files -> Nat]
BY AbsentIsVersion, MirrorAssumption DEF Cleared, Texted

\* A file converted is what was read of the one side with the time of the other.
LEMMA ConvertedIsVersion ==
  ASSUME TypeOK, Genuine, held # Nobody, NEW lead \in [Files -> Versions]
  PROVE  /\ held[1] \in Files /\ WrittenNow(lead) \in Versions
         /\ WrittenNow(lead).text > 0 /\ WrittenNow(lead) # Absent
<1>1. held[1] \in Files /\ held[2] \in Versions /\ held[2].text > 0
  BY DEF TypeOK, Genuine
<1>2. lead[held[1]] \in Versions
  BY <1>1
<1>3. WrittenNow(lead) \in Versions /\ WrittenNow(lead).text = held[2].text
  BY <1>1, <1>2 DEF WrittenNow, Versions
<1> QED BY <1>1, <1>3 DEF Absent

LEMMA TypeTake ==
  ASSUME TypeOK, Genuine, NEW f \in Files, NEW lead \in [Files -> Versions], Texted(lead),
         NEW other, Take(f, lead, other)
  PROVE  /\ todo' \subseteq Files
         /\ held' = Nobody \/ held' \in Files \X Versions
         /\ held' # Nobody => held'[2].text > 0
<1>1. CASE NewerThan(lead[f], other[f])
  <2>1. held' = <<f, lead[f]>> /\ lead[f] # Absent
    BY <1>1 DEF Take, NewerThan
  <2> QED BY <2>1 DEF Take, TypeOK, Texted
<1>2. CASE ~NewerThan(lead[f], other[f])
  BY <1>2 DEF Take, TypeOK
<1> QED BY <1>1, <1>2

LEMMA TypeNotesLead ==
  ASSUME TypeOK, Genuine, NotesLead
  PROVE  TypeOK' /\ Genuine'
<1> USE DEF sides, events, gathered, history
<1>0. /\ note \in [Files -> Versions] /\ doc \in [Files -> Versions]
      /\ Texted(note) /\ Texted(doc)
  BY DEF TypeOK, Genuine
<1>1. CASE BeginPass
  BY <1>1, PairsAreFiles DEF BeginPass, TypeOK, Genuine, Texted, Phases
<1>2. CASE MoveDoc
  <2> PICK k \in moves :
        /\ moves' = moves \ {k}
        /\ doc' = IF doc[k[1]] # Absent /\ doc[k[2]] = Absent
                  THEN Moved(doc, Absent, k[1], k[2]) ELSE doc
    BY <1>2 DEF MoveDoc
  <2>1. k[1] \in Files /\ k[2] \in Files
    BY DEF TypeOK
  <2>2. doc' \in [Files -> Versions] /\ Texted(doc')
    <3>1. CASE doc[k[1]] # Absent /\ doc[k[2]] = Absent
      <4>1. /\ doc' = Moved(doc, Absent, k[1], k[2]) /\ k[1] # k[2]
        BY <3>1
      <4>2. /\ doc' \in [Files -> Versions]
            /\ \A h \in Files : doc'[h] =
                 IF h = k[1] THEN Absent ELSE IF h = k[2] THEN doc[k[1]] ELSE doc[h]
        BY <1>0, <2>1, <4>1, MovedVersions
      <4> QED BY <1>0, <2>1, <4>2 DEF Texted
    <3>2. CASE ~(doc[k[1]] # Absent /\ doc[k[2]] = Absent)
      BY <1>0, <3>2
    <3> QED BY <3>1, <3>2
  <2> QED BY <1>2, <2>2 DEF MoveDoc, TypeOK, Genuine, Texted
<1>3. CASE LeadOn
  BY <1>3 DEF LeadOn, TypeOK, Genuine, Texted, Phases, Has
<1>4. CASE ReadNote
  <2>1. PICK f \in todo : Take(f, note, doc)
    BY <1>4 DEF ReadNote
  <2>2. /\ todo' \subseteq Files
        /\ held' = Nobody \/ held' \in Files \X Versions
        /\ held' # Nobody => held'[2].text > 0
    BY <1>0, <2>1, TypeTake DEF TypeOK
  <2> QED BY <1>4, <2>2 DEF ReadNote, TypeOK, Genuine, Texted
<1>5. CASE WriteDoc
  <2>1. /\ held[1] \in Files /\ WrittenNow(note) \in Versions
        /\ WrittenNow(note).text > 0
    BY <1>0, <1>5, ConvertedIsVersion DEF WriteDoc
  <2>2. doc' = [doc EXCEPT ![held[1]] = WrittenNow(note)] /\ held' = Nobody
    BY <1>5 DEF WriteDoc
  <2>3. doc' \in [Files -> Versions] /\ Texted(doc')
    BY <1>0, <2>1, <2>2 DEF Texted
  <2> QED BY <1>5, <2>2, <2>3 DEF WriteDoc, TypeOK, Genuine, Texted
<1>6. CASE DropDocs
  <2>1. doc' = Cleared(doc, Absent, Dropped(note, doc)) /\ snap' \in {snap, ids}
    BY <1>6 DEF DropDocs, SaveIds
  <2>2. doc' \in [Files -> Versions] /\ Texted(doc')
    BY <1>0, <2>1, ClearedSide
  <2> QED BY <1>6, <2>1, <2>2 DEF DropDocs, TypeOK, Genuine, Texted, Phases
<1> QED BY <1>1, <1>2, <1>3, <1>4, <1>5, <1>6 DEF NotesLead

\* What a pull that ends early, or a resync, leaves of two sides is of one of them.
LEMMA OfEither ==
  ASSUME TypeOK, Genuine, NEW side, NEW f \in Files,
         side[f] \in {doc[f], remote[f], base[f]}
  PROVE  side[f] \in Versions /\ (side[f] # Absent => side[f].text > 0)
<1>1. /\ doc[f] \in Versions /\ remote[f] \in Versions /\ base[f] \in Versions
  BY DEF TypeOK
<1>2. /\ doc[f] # Absent => doc[f].text > 0
      /\ remote[f] # Absent => remote[f].text > 0
      /\ base[f] # Absent => base[f].text > 0
  BY DEF Genuine, Texted
<1> QED BY <1>1, <1>2

LEMMA TypePartly ==
  ASSUME TypeOK, Genuine, PartlyMerged
  PROVE  /\ doc' \in [Files -> Versions] /\ Texted(doc')
         /\ remote' \in [Files -> Versions] /\ Texted(remote')
         /\ base' \in [Files -> Versions] /\ Texted(base')
         /\ owed' \in [1..Newest -> 0..Newest]
<1> PICK done \in SUBSET Files : \E noted \in SUBSET done :
      /\ doc' = MergedIn(doc, done) /\ remote' = MergedIn(remote, done)
      /\ base' = MergedIn(base, noted)
      /\ owed' = [l \in 1..Newest |-> IF l \in Beaten(done) THEN 0 ELSE owed[l]]
  BY DEF PartlyMerged
<1> PICK noted \in SUBSET done :
      /\ doc' = MergedIn(doc, done) /\ remote' = MergedIn(remote, done)
      /\ base' = MergedIn(base, noted)
      /\ owed' = [l \in 1..Newest |-> IF l \in Beaten(done) THEN 0 ELSE owed[l]]
  OBVIOUS
<1>1. \A f \in Files : Merged[f] \in {doc[f], remote[f]}
  BY DEF Merged, MergedAt
<1>2. \A some : \A side \in {doc, remote, base} : \A f \in Files :
        MergedIn(side, some)[f] \in {doc[f], remote[f], base[f]}
  BY <1>1 DEF MergedIn
<1>3. \A some : \A side \in {doc, remote, base} :
        MergedIn(side, some) \in [Files -> Versions] /\ Texted(MergedIn(side, some))
  <2> SUFFICES ASSUME NEW some, NEW side \in {doc, remote, base}
               PROVE  /\ MergedIn(side, some) \in [Files -> Versions]
                      /\ Texted(MergedIn(side, some))
    OBVIOUS
  <2> DEFINE then == MergedIn(side, some)
  <2>1. then = [f \in Files |-> then[f]]
    BY DEF MergedIn
  <2>2. \A f \in Files : then[f] \in {doc[f], remote[f], base[f]}
    BY <1>2
  <2> HIDE DEF then
  <2>3. \A f \in Files : then[f] \in Versions /\ (then[f] # Absent => then[f].text > 0)
    BY <2>2, OfEither
  <2>4. then \in [Files -> Versions] /\ Texted(then)
    BY <2>1, <2>3 DEF Texted
  <2> QED BY <2>4 DEF then
<1>4. owed' \in [1..Newest -> 0..Newest]
  BY FiniteFiles DEF TypeOK
<1> QED BY <1>3, <1>4

LEMMA TypePull ==
  ASSUME TypeOK, Genuine, Pull \/ PullWaits \/ PullFails \/ Resync
  PROVE  TypeOK' /\ Genuine'
<1> USE DEF sides, events, gathered, history
<1>1. CASE Pull
  <2>1. \A f \in Files : Merged[f] \in {doc[f], remote[f]}
    BY DEF Merged, MergedAt
  <2>2. Merged \in [Files -> Versions] /\ Texted(Merged)
    <3>1. Merged = [f \in Files |-> Merged[f]]
      BY DEF Merged
    <3> QED BY <2>1, <3>1 DEF TypeOK, Genuine, Texted
  <2>3. /\ doc' = Merged /\ remote' = Merged /\ base' = Merged
        /\ moves' = MovesBack(Merged, note)
        /\ owed' = [l \in 1..Newest |-> IF l \in Beaten(Files) THEN 0 ELSE owed[l]]
    BY <1>1 DEF Pull
  <2> HIDE DEF Merged
  <2>4. owed' \in [1..Newest -> 0..Newest]
    BY <2>3, FiniteFiles DEF TypeOK
  <2>5. moves' \subseteq Files \X Files
    BY <2>3, PairsAreFiles
  <2> QED BY <1>1, <2>2, <2>3, <2>4, <2>5 DEF Pull, TypeOK, Genuine, Texted, Phases
<1>2. CASE PullWaits
  BY <1>2 DEF PullWaits, TypeOK, Genuine, Texted, Phases
<1>3. CASE PullFails
  BY <1>3, TypePartly DEF PullFails, TypeOK, Genuine, Texted, Phases
<1>4. CASE Resync
  <2> DEFINE newest == [f \in Files |-> NewerOf(f)]
  <2>1. /\ doc' = newest /\ remote' = newest /\ base' = newest
        /\ owed' = [l \in 1..Newest |-> IF l \in Outdone THEN 0 ELSE owed[l]]
    BY <1>4 DEF Resync
  <2>2. \A f \in Files : newest[f] \in {doc[f], remote[f], base[f]}
    BY DEF NewerOf
  <2>3. newest = [f \in Files |-> newest[f]]
    OBVIOUS
  <2> HIDE DEF newest
  <2>4. \A f \in Files : newest[f] \in Versions /\ (newest[f] # Absent => newest[f].text > 0)
    BY <2>2, OfEither
  <2>5. newest \in [Files -> Versions] /\ Texted(newest)
    BY <2>3, <2>4 DEF Texted
  <2>6. owed' \in [1..Newest -> 0..Newest]
    BY <2>1, FiniteFiles DEF TypeOK
  <2> QED BY <1>4, <2>1, <2>5, <2>6 DEF Resync, work, TypeOK, Genuine, Texted, Phases
<1> QED BY <1>1, <1>2, <1>3, <1>4

LEMMA TypeDocsLead ==
  ASSUME TypeOK, Genuine, DocsLead
  PROVE  TypeOK' /\ Genuine'
<1> USE DEF sides, gathered, history
<1>0. /\ note \in [Files -> Versions] /\ doc \in [Files -> Versions]
      /\ Texted(note) /\ Texted(doc)
      /\ ids \in [Files -> Nat] /\ \A f \in Files : ids[f] = NoFile <=> note[f] = Absent
  BY DEF TypeOK, Genuine
<1>1. CASE MoveNote
  <2> PICK k \in moves :
        /\ moves' = moves \ {k}
        /\ IF note[k[1]] # Absent /\ note[k[2]] = Absent
           THEN /\ note' = Moved(note, Absent, k[1], k[2])
                /\ ids' = Moved(ids, NoFile, k[1], k[2])
                /\ ReportedRename(k[1], k[2])
           ELSE UNCHANGED <<note, ids, events>>
    BY <1>1 DEF MoveNote
  <2>1. k[1] \in Files /\ k[2] \in Files
    BY DEF TypeOK
  <2>2. /\ note' \in [Files -> Versions] /\ Texted(note')
        /\ ids' \in [Files -> Nat] /\ \A f \in Files : ids'[f] = NoFile <=> note'[f] = Absent
        /\ dirty' \subseteq Locs /\ renames' \in Seq(Renames)
    <3>1. CASE note[k[1]] # Absent /\ note[k[2]] = Absent
      <4>1. /\ note' = Moved(note, Absent, k[1], k[2]) /\ k[1] # k[2]
            /\ ids' = Moved(ids, NoFile, k[1], k[2])
            /\ ReportedRename(k[1], k[2])
        BY <3>1
      <4>2. /\ note' \in [Files -> Versions]
            /\ \A h \in Files : note'[h] =
                 IF h = k[1] THEN Absent ELSE IF h = k[2] THEN note[k[1]] ELSE note[h]
        BY <1>0, <2>1, <4>1, MovedVersions
      <4>3. /\ ids' \in [Files -> Nat]
            /\ \A h \in Files : ids'[h] =
                 IF h = k[1] THEN NoFile ELSE IF h = k[2] THEN ids[k[1]] ELSE ids[h]
        BY <1>0, <2>1, <4>1, MovedIds
      <4>4. <<k[1], k[2]>> \in Renames
        BY <2>1 DEF Renames
      <4>5. dirty' \subseteq Locs /\ renames' \in Seq(Renames)
        BY <4>1, <4>4, ReportedTyped
      <4>6. Texted(note')
        BY <1>0, <2>1, <4>2 DEF Texted
      <4>7. \A f \in Files : ids'[f] = NoFile <=> note'[f] = Absent
        BY <1>0, <2>1, <4>2, <4>3
      <4> QED BY <4>2, <4>3, <4>5, <4>6, <4>7
    <3>2. CASE ~(note[k[1]] # Absent /\ note[k[2]] = Absent)
      BY <1>0, <3>2 DEF events, TypeOK
    <3> QED BY <3>1, <3>2
  <2> QED BY <1>1, <2>2 DEF MoveNote, TypeOK, Genuine, Texted
<1>2. CASE FollowOn
  BY <1>2 DEF FollowOn, TypeOK, Genuine, Texted, Phases, Has, events
<1>3. CASE ReadDoc
  <2>1. PICK f \in todo : Take(f, doc, note)
    BY <1>3 DEF ReadDoc
  <2>2. /\ todo' \subseteq Files
        /\ held' = Nobody \/ held' \in Files \X Versions
        /\ held' # Nobody => held'[2].text > 0
    BY <1>0, <2>1, TypeTake DEF TypeOK
  <2> QED BY <1>3, <2>2 DEF ReadDoc, TypeOK, Genuine, Texted, events
<1>4. CASE WriteNote
  <2>1. /\ held[1] \in Files /\ WrittenNow(doc) \in Versions
        /\ WrittenNow(doc).text > 0 /\ WrittenNow(doc) # Absent
    BY <1>0, <1>4, ConvertedIsVersion DEF WriteNote
  <2>2. /\ note' = [note EXCEPT ![held[1]] = WrittenNow(doc)] /\ held' = Nobody
        /\ ids' = [ids EXCEPT ![held[1]] = Unused]
        /\ Reported({held[1]}) /\ renames' = renames
    BY <1>4 DEF WriteNote
  <2>3. note' \in [Files -> Versions] /\ Texted(note')
    BY <1>0, <2>1, <2>2 DEF Texted
  <2>4. Unused \in Nat \ {NoFile}
    BY UnusedExists DEF TypeOK
  <2>5. ids' \in [Files -> Nat] /\ \A f \in Files : ids'[f] = NoFile <=> note'[f] = Absent
    BY <1>0, <2>1, <2>2, <2>4
  <2>6. dirty' \subseteq Locs
    <3>1. {held[1]} \in SUBSET Locs
      BY <2>1 DEF Locs
    <3> QED BY <2>2, <3>1, ReportedTyped
  <2> QED BY <1>4, <2>2, <2>3, <2>5, <2>6 DEF WriteNote, TypeOK, Genuine, Texted
<1>5. CASE DropNotes
  <2> DEFINE gone == Dropped(doc, note)
  <2>1. /\ note' = Cleared(note, Absent, gone) /\ ids' = Cleared(ids, NoFile, gone)
        /\ Reported(gone) /\ snap' \in {snap, ids'} /\ renames' = renames
        /\ hands' \in {{}, hands}
    BY <1>5 DEF DropNotes, SaveIds
  <2>2. gone \subseteq Locs
    BY DEF Dropped, Has, Locs
  <2> HIDE DEF gone
  <2>3. note' \in [Files -> Versions] /\ Texted(note') /\ ids' \in [Files -> Nat]
    BY <1>0, <2>1, ClearedSide
  <2>4. \A f \in Files : ids'[f] = NoFile <=> note'[f] = Absent
    BY <1>0, <2>1 DEF Cleared
  <2>5. dirty' \subseteq Locs
    BY <2>1, <2>2, ReportedTyped
  <2> QED BY <1>5, <2>1, <2>3, <2>4, <2>5 DEF DropNotes, TypeOK, Genuine, Texted, Phases
<1> QED BY <1>1, <1>2, <1>3, <1>4, <1>5 DEF DocsLead

LEMMA TypeEvents ==
  ASSUME TypeOK, Genuine, Events
  PROVE  TypeOK' /\ Genuine'
<1> USE DEF sides, events, history
<1>0. doc \in [Files -> Versions] /\ Texted(doc)
  BY DEF TypeOK, Genuine
<1>1. CASE TakeEvents
  <2>1. <<>> \in Seq(Renames)
    OBVIOUS
  <2> QED BY <1>1, <2>1 DEF TakeEvents, TypeOK, Genuine, Texted, Phases
<1>2. CASE FollowRename
  <2> DEFINE r == Head(taken)
  <2>1. taken \in Seq(Renames) /\ taken # <<>>
    BY <1>2 DEF FollowRename, TypeOK
  <2>2. r \in Renames /\ Tail(taken) \in Seq(Renames)
    BY <2>1
  <2>3. /\ taken' = Tail(taken)
        /\ doc' = doc \/ (CanFollow(r) /\ doc' = Followed(r))
        /\ batch' \in {batch \union {r[2]}, batch \union {r[1], r[2]}}
    BY <1>2 DEF FollowRename
  <2> HIDE DEF r
  <2>4. \/ r[1] \in Files /\ r[2] \in Files
        \/ r[1] \in Dirs /\ r[2] \in Dirs /\ r[1] \notin Files
    BY <2>2, TreeAssumption DEF Renames
  <2>5. batch' \subseteq Locs
    BY <2>3, <2>4 DEF Locs, TypeOK
  <2>6. doc' \in [Files -> Versions] /\ Texted(doc')
    <3>1. CASE doc' = doc
      BY <1>0, <3>1
    <3>2. CASE CanFollow(r) /\ r[1] \in Files /\ doc' = Followed(r)
      <4>1. r[2] \in Files /\ doc' = Moved(doc, Absent, r[1], r[2]) /\ r[1] # r[2]
        BY <2>4, <3>2, TreeAssumption DEF Followed, CanFollow
      <4>2. /\ doc' \in [Files -> Versions]
            /\ \A h \in Files : doc'[h] =
                 IF h = r[1] THEN Absent ELSE IF h = r[2] THEN doc[r[1]] ELSE doc[h]
        BY <1>0, <3>2, <4>1, MovedVersions
      <4> QED BY <1>0, <3>2, <4>2 DEF Texted
    <3>3. CASE r[1] \in Dirs /\ r[1] \notin Files /\ doc' = Followed(r)
      <4>1. r[2] \in Dirs /\ doc' = MovedDir(doc, Absent, r[1], r[2])
        BY <2>4, <3>3 DEF Followed
      <4>2. /\ doc' \in [Files -> Versions]
            /\ \A h \in Files : doc'[h] =
                 IF h \in Under(r[2]) THEN doc[Rebase(h, r[1])]
                 ELSE IF h \in Under(r[1]) THEN Absent ELSE doc[h]
        BY <1>0, <3>3, <4>1, MovedDirVersions
      <4> QED BY <1>0, <3>3, <4>2, RebasedFile DEF Texted
    <3> QED BY <2>3, <2>4, <3>1, <3>2, <3>3
  <2> QED BY <1>2, <2>2, <2>3, <2>5, <2>6 DEF r, FollowRename, TypeOK, Genuine, Texted
<1>3. CASE FollowMoves
  BY <1>3, PairsAreFiles DEF FollowMoves, gathered, TypeOK, Genuine, Texted, Phases
<1>4. CASE LookAtPath
  <2> PICK p \in batch : /\ batch' = batch \ {p}
                         /\ todo' = NotesAt(p)
                         /\ removed' = removed \union GoneNotes(p)
    BY <1>4 DEF LookAtPath
  <2>1. p \in Locs
    BY DEF TypeOK
  <2>2. todo' \subseteq Files /\ batch' \subseteq Locs
    BY DEF NotesAt, Has, TypeOK
  <2>3. removed' \subseteq Locs \X Files
    BY <2>1 DEF GoneNotes, TypeOK
  <2> QED BY <1>4, <2>2, <2>3 DEF LookAtPath, TypeOK, Genuine, Texted, Phases
<1>5. CASE DropRemoved
  <2>1. doc' = Cleared(doc, Absent, RemovedDocs) /\ snap' \in {snap, ids} /\ removed' = {}
    BY <1>5 DEF DropRemoved, SaveIds
  <2>2. doc' \in [Files -> Versions] /\ Texted(doc')
    BY <1>0, <2>1, ClearedSide
  <2> QED BY <1>5, <2>1, <2>2 DEF DropRemoved, gathered, TypeOK, Genuine, Texted, Phases
<1> QED BY <1>1, <1>2, <1>3, <1>4, <1>5 DEF Events

LEMMA TypeRestart ==
  ASSUME TypeOK, Genuine, Restart \/ ConversionFails
  PROVE  TypeOK' /\ Genuine'
<1>1. <<>> \in Seq(Renames)
  OBVIOUS
<1>2. CASE Restart
  <2>1. /\ doc' \in [Files -> Versions] /\ Texted(doc')
        /\ remote' \in [Files -> Versions] /\ Texted(remote')
        /\ base' \in [Files -> Versions] /\ Texted(base')
        /\ owed' \in [1..Newest -> 0..Newest]
    BY <1>2, TypePartly DEF Restart, TypeOK, Genuine
  <2>2. TypeOK'
    BY <1>1, <1>2, <2>1 DEF Restart, TypeOK, Phases
  <2>3. Genuine'
    BY <1>2, <2>1 DEF Restart, Genuine, Texted
  <2> QED BY <2>2, <2>3
<1>3. CASE ConversionFails
  <2>1. TypeOK'
    BY <1>3 DEF ConversionFails, TypeOK, sides, events, gathered
  <2>2. Genuine'
    BY <1>3 DEF ConversionFails, Genuine, Texted, sides
  <2> QED BY <2>1, <2>2
<1> QED BY <1>2, <1>3

LEMMA TypeNext ==
  ASSUME TypeOK, Genuine, [Next]_vars
  PROVE  TypeOK' /\ Genuine'
<1>1. CASE User
  BY <1>1, TypeVaultWrite, TypeVaultDelete, TypeVaultRename, TypeVaultRenameDir,
     TypeDriveWrite, TypeDriveDelete, TypeDriveRename DEF User
<1>2. CASE NotesLead \/ Pull \/ PullWaits \/ PullFails \/ Resync \/ DocsLead
  BY <1>2, TypeNotesLead, TypePull, TypeDocsLead
<1>3. CASE Events \/ ConversionFails \/ Restart
  BY <1>3, TypeEvents, TypeRestart
<1>4. CASE UNCHANGED vars
  <2>1. TypeOK'
    BY <1>4 DEF TypeOK, vars, sides, events, work, gathered, history
  <2>2. Genuine'
    BY <1>4 DEF Genuine, Texted, vars, sides, work, gathered
  <2> QED BY <2>1, <2>2
<1> QED BY <1>1, <1>2, <1>3, <1>4 DEF Next

\* The state keeps its shape.  The part that takes an argument is the vault:
\* each note there is has an identity and nothing else has one, since a note
\* moves with its own, a note made anew gets one that neither the vault nor
\* the snapshot holds, and what is converted always has a text (ids.rs:21-49).
THEOREM TypeCorrect == Spec => []TypeOK
<1>1. Init => TypeOK /\ Genuine
  BY TypeInit
<1>2. TypeOK /\ Genuine /\ [Next]_vars => (TypeOK /\ Genuine)'
  BY TypeNext
<1>3. Spec => [](TypeOK /\ Genuine)
  BY <1>1, <1>2, PTL DEF Spec
<1>4. TypeOK /\ Genuine => TypeOK
  OBVIOUS
<1> QED BY <1>3, <1>4, PTL

-----------------------------------------------------------------------------
(***************************************************************************)
(* What survives everything: edits of the files both sides have.  Pulls    *)
(* may fail part-way or succeed unheard, conversions fail, the daemon die  *)
(* at any moment and a resync be asked for, with the default options or    *)
(* any others; only an edit that falls between the reading and the writing *)
(* of one conversion is left out.                                          *)
(***************************************************************************)
Enduring == UserOps \subseteq {"write", "drive-write"} /\ "race" \notin Faults

\* What the four trees hold at a path.
At(f) == {note[f], doc[f], remote[f], base[f]}

\* A path has one line, its versions are known by their time, none is newer than
\* what is owed, and base is nowhere ahead of the two sides it was taken from.
Dated ==
  \A f \in Files : \A u \in At(f) : u # Absent =>
    u.line = FirstText[f] /\ u.time = u.text /\ u.time <= owed[FirstText[f]]
Agreed ==
  \A f \in Files : base[f].time <= doc[f].time /\ base[f].time <= remote[f].time
OwedThere ==
  \A l \in 1..Newest : owed[l] # 0 =>
    \E f \in Files : l = FirstText[f] /\ owed[l] \in {note[f].time, doc[f].time, remote[f].time}
OwedPast == \A l \in 1..Newest : owed[l] <= clock

\* All trees have the same paths, or there is only one path in all of them.
EmptyAt(f) == \A u \in At(f) : u = Absent
FullAt(f) == \A u \in At(f) : u # Absent
Matched ==
  \/ \A f \in Files : EmptyAt(f) \/ FullAt(f)
  \/ \E g \in Files : \A f \in Files : f # g => EmptyAt(f)

\* What was read is there still, and the newer of the two.
ReadWell ==
  held # Nobody =>
    /\ pc \in {"to-docs", "changed", "to-notes"} /\ held[1] \in Files
    /\ IF pc = "to-notes"
       THEN held[2] = doc[held[1]] /\ NewerThan(doc[held[1]], note[held[1]])
       ELSE held[2] = note[held[1]] /\ NewerThan(note[held[1]], doc[held[1]])
NoneMoves == moves = {} /\ renames = <<>> /\ taken = <<>>

Lasting == Dated /\ Agreed /\ OwedThere /\ OwedPast /\ Matched
Endures == TypeOK /\ Genuine /\ Lasting /\ ReadWell /\ NoneMoves

LEMMA TimesAt ==
  ASSUME TypeOK, NEW f \in Files
  PROVE  /\ \A u \in At(f) : u \in Versions /\ u.time \in Nat
         /\ FirstText[f] \in 1..Newest /\ owed[FirstText[f]] \in Nat
         /\ Absent.time = 0
<1>1. \A u \in At(f) : u \in Versions
  BY DEF TypeOK, At
<1>2. \A u \in Versions : u.time \in Nat
  BY FiniteFiles DEF Versions
<1>3. FirstText[f] \in 1..Newest
  BY FiniteFiles, MirrorAssumption
<1>4. owed[FirstText[f]] \in Nat
  BY <1>3, FiniteFiles DEF TypeOK
<1> QED BY <1>1, <1>2, <1>3, <1>4 DEF Absent

\* A step in which what a path holds only gets newer, and comes from the other
\* trees at that path.
LEMMA LastingStep ==
  ASSUME TypeOK, Genuine, Lasting, TypeOK', owed' = owed, clock' = clock,
         \A f \in Files :
           /\ {note'[f], doc'[f], remote'[f], base'[f]} \subseteq At(f)
           /\ note'[f].time >= note[f].time
           /\ doc'[f].time >= doc[f].time /\ remote'[f].time >= remote[f].time
           /\ base'[f].time <= doc'[f].time /\ base'[f].time <= remote'[f].time
  PROVE  Lasting'
<1>1. \A f \in Files : At(f)' \subseteq At(f)
  BY DEF At
<1>2. Dated'
  BY <1>1 DEF Lasting, Dated
<1>3. Agreed' /\ OwedPast'
  BY DEF Lasting, Agreed, OwedPast
<1>4. OwedThere'
  <2> SUFFICES ASSUME NEW l \in 1..Newest, owed[l] # 0
               PROVE  \E f \in Files : l = FirstText[f] /\
                        owed[l] \in {note'[f].time, doc'[f].time, remote'[f].time}
    BY DEF OwedThere
  <2>1. PICK f \in Files : /\ l = FirstText[f]
                           /\ owed[l] \in {note[f].time, doc[f].time, remote[f].time}
    BY DEF Lasting, OwedThere
  <2>2. owed[l] \in Nat /\ owed[l] > 0
    BY <2>1, TimesAt
  <2>3. \A u \in At(f) : u.time \in Nat /\ u.time <= owed[l]
    BY <2>1, <2>2, TimesAt DEF Lasting, Dated
  <2>4. /\ note'[f] \in At(f) /\ doc'[f] \in At(f) /\ remote'[f] \in At(f)
        /\ note[f] \in At(f) /\ doc[f] \in At(f) /\ remote[f] \in At(f)
    BY DEF At
  <2>5. \/ note'[f].time = owed[l] \/ doc'[f].time = owed[l] \/ remote'[f].time = owed[l]
    BY <2>1, <2>2, <2>3, <2>4
  <2> QED BY <2>1, <2>5
<1>5. Matched'
  <2>1. \A f \in Files : EmptyAt(f) => EmptyAt(f)'
    BY <1>1 DEF EmptyAt
  <2>2. \A f \in Files : FullAt(f) => FullAt(f)'
    BY <1>1 DEF FullAt
  <2> QED BY <2>1, <2>2 DEF Lasting, Matched
<1> QED BY <1>2, <1>3, <1>4, <1>5 DEF Lasting

\* Nothing is taken for moved, and no orphan is left to drop.
LEMMA NoCandidates ==
  ASSUME NEW src, NEW dst,
         \/ Has(src) = Has(dst)
         \/ \E g \in Files : Has(src) \subseteq {g} /\ Has(dst) \subseteq {g}
  PROVE  \A known, now : Pairing(src, dst, known, now) = {}
<1>1. Candidates(src, dst) = {}
  BY DEF Candidates, Orphans, Fresh, Has
<1> SUFFICES ASSUME NEW known, NEW now PROVE Pairing(src, dst, known, now) = {}
  OBVIOUS
<1>2. ByIdentity(src, dst, known, now) = {}
  BY <1>1 DEF ByIdentity, Unambiguous
<1>3. \A done : ByName(src, dst, done) = {} /\ ByTime(src, dst, done) = {}
  BY <1>1 DEF ByName, ByTime, Unambiguous, StillOpen
<1> QED BY <1>2, <1>3 DEF Pairing

LEMMA SamePaths ==
  ASSUME Matched
  PROVE  \/ Has(note) = Has(doc)
         \/ \E g \in Files : Has(note) \subseteq {g} /\ Has(doc) \subseteq {g}
<1>1. CASE \A f \in Files : EmptyAt(f) \/ FullAt(f)
  <2>1. \A f \in Files : note[f] # Absent <=> doc[f] # Absent
    BY <1>1 DEF EmptyAt, FullAt, At
  <2> QED BY <2>1 DEF Has
<1>2. CASE \E g \in Files : \A f \in Files : f # g => EmptyAt(f)
  <2> PICK g \in Files : \A f \in Files : f # g => EmptyAt(f)
    BY <1>2
  <2>1. Has(note) \subseteq {g} /\ Has(doc) \subseteq {g}
    BY DEF Has, EmptyAt, At
  <2> QED BY <2>1
<1> QED BY <1>1, <1>2 DEF Matched

\* The same after a step.
LEMMA SamePathsNext ==
  ASSUME Matched'
  PROVE  \/ Has(note') = Has(doc')
         \/ \E g \in Files : Has(note') \subseteq {g} /\ Has(doc') \subseteq {g}
<1>1. CASE \A f \in Files : EmptyAt(f)' \/ FullAt(f)'
  <2>1. \A f \in Files : note'[f] # Absent <=> doc'[f] # Absent
    BY <1>1 DEF EmptyAt, FullAt, At
  <2> QED BY <2>1 DEF Has
<1>2. CASE \E g \in Files : \A f \in Files : f # g => EmptyAt(f)'
  <2> PICK g \in Files : \A f \in Files : f # g => EmptyAt(f)'
    BY <1>2
  <2>1. Has(note') \subseteq {g} /\ Has(doc') \subseteq {g}
    BY DEF Has, EmptyAt, At
  <2> QED BY <2>1
<1> QED BY <1>1, <1>2 DEF Matched

LEMMA NothingDropped ==
  ASSUME Matched
  PROVE  /\ MovesFound = {} /\ MovesBack(doc, note) = {}
         /\ Dropped(note, doc) = {} /\ Dropped(doc, note) = {}
         /\ \A f \in RemovedDocs : doc[f] = Absent
<1>1. MovesFound = {} /\ MovesBack(doc, note) = {}
  BY SamePaths, NoCandidates DEF MovesFound, MovesBack
<1>2. \A A, B : A = B \/ (\E g : A \subseteq {g} /\ B \subseteq {g}) =>
        B \ A = {} \/ A = {}
  OBVIOUS
<1>3. Dropped(note, doc) = {} /\ Dropped(doc, note) = {}
  <2>1. Has(doc) \ Has(note) = {} \/ Has(note) = {}
    BY <1>2, SamePaths
  <2>2. Has(note) \ Has(doc) = {} \/ Has(doc) = {}
    BY <1>2, SamePaths
  <2> QED BY <2>1, <2>2 DEF Dropped
<1>4. \A f \in RemovedDocs : doc[f] = Absent
  <2> SUFFICES ASSUME NEW f \in RemovedDocs, doc[f] # Absent PROVE FALSE
    OBVIOUS
  <2>1. f \in Files /\ note[f] = Absent /\ Has(note) # {}
    BY DEF RemovedDocs, NoteRemoved
  <2>2. f \in Has(doc) /\ f \notin Has(note)
    BY <2>1 DEF Has
  <2> QED BY <1>2, <2>1, <2>2, SamePaths
<1> QED BY <1>1, <1>3, <1>4

\* No two lines meet at a path, so none is beaten.
LEMMA NoneBeaten ==
  ASSUME TypeOK, Dated
  PROVE  /\ \A some : [l \in 1..Newest |-> IF l \in Beaten(some) THEN 0 ELSE owed[l]] = owed
         /\ [l \in 1..Newest |-> IF l \in Outdone THEN 0 ELSE owed[l]] = owed
<1>1. Apart = {}
  BY DEF Apart, Has, Dated, At
<1>2. (\A some : Beaten(some) = {}) /\ Outdone = {}
  BY <1>1 DEF Beaten, Outdone
<1> QED BY <1>2 DEF TypeOK

\* What comes out of a merge, or a resync, is no older than either side.
LEMMA MergedUp ==
  ASSUME TypeOK, Agreed, NEW f \in Files
  PROVE  \A v \in {Merged[f], NewerOf(f)} :
           v \in {doc[f], remote[f]} /\ v.time >= doc[f].time /\ v.time >= remote[f].time
<1>1. /\ doc[f].time \in Nat /\ remote[f].time \in Nat /\ base[f].time \in Nat
      /\ Absent.time = 0
  BY TimesAt DEF At
<1>2. base[f].time <= doc[f].time /\ base[f].time <= remote[f].time
  BY DEF Agreed
<1>3. Merged[f] = MergedAt(doc[f], remote[f], base[f])
  BY DEF Merged
<1>4. /\ NewerThan(remote[f], doc[f]) => remote[f].time >= doc[f].time
      /\ ~NewerThan(remote[f], doc[f]) => doc[f].time >= remote[f].time
  BY <1>1 DEF NewerThan
<1> QED BY <1>1, <1>2, <1>3, <1>4 DEF MergedAt, NewerOf

LEMMA EnduresPartly ==
  ASSUME Endures, TypeOK', PartlyMerged, note' = note, clock' = clock
  PROVE  Lasting'
<1>0. TypeOK /\ Genuine /\ Lasting /\ Dated /\ Agreed
  BY DEF Endures, Lasting
<1> PICK done \in SUBSET Files : \E noted \in SUBSET done :
      /\ doc' = MergedIn(doc, done) /\ remote' = MergedIn(remote, done)
      /\ base' = MergedIn(base, noted)
      /\ owed' = [l \in 1..Newest |-> IF l \in Beaten(done) THEN 0 ELSE owed[l]]
  BY DEF PartlyMerged
<1> PICK noted \in SUBSET done :
      /\ doc' = MergedIn(doc, done) /\ remote' = MergedIn(remote, done)
      /\ base' = MergedIn(base, noted)
      /\ owed' = [l \in 1..Newest |-> IF l \in Beaten(done) THEN 0 ELSE owed[l]]
  OBVIOUS
<1>1. owed' = owed
  BY <1>0, NoneBeaten
<1>2. ASSUME NEW f \in Files
      PROVE  /\ {note'[f], doc'[f], remote'[f], base'[f]} \subseteq At(f)
             /\ note'[f].time >= note[f].time
             /\ doc'[f].time >= doc[f].time /\ remote'[f].time >= remote[f].time
             /\ base'[f].time <= doc'[f].time /\ base'[f].time <= remote'[f].time
  <2>1. /\ doc'[f] = IF f \in done THEN Merged[f] ELSE doc[f]
        /\ remote'[f] = IF f \in done THEN Merged[f] ELSE remote[f]
        /\ base'[f] = IF f \in noted THEN Merged[f] ELSE base[f]
    BY DEF MergedIn
  <2>2. /\ Merged[f] \in {doc[f], remote[f]}
        /\ Merged[f].time >= doc[f].time /\ Merged[f].time >= remote[f].time
    BY <1>0, MergedUp
  <2>3. base[f].time <= doc[f].time /\ base[f].time <= remote[f].time
    BY <1>0 DEF Agreed
  <2>4. /\ note[f].time \in Nat /\ doc[f].time \in Nat /\ remote[f].time \in Nat
        /\ base[f].time \in Nat /\ Merged[f].time \in Nat
    BY <1>0, <2>2, TimesAt DEF At
  <2>5. {note'[f], doc'[f], remote'[f], base'[f]} \subseteq At(f)
    BY <2>1, <2>2 DEF At
  <2>6. f \in noted => f \in done
    OBVIOUS
  <2> HIDE DEF Merged
  <2> QED BY <2>1, <2>2, <2>3, <2>4, <2>5, <2>6
<1> QED BY <1>0, <1>1, <1>2, LastingStep

\* A pull, one that ends early, or a resync.
LEMMA EnduresPull ==
  ASSUME Enduring, Endures, TypeOK', Pull \/ PullWaits \/ PullFails \/ Resync
  PROVE  Lasting' /\ ReadWell' /\ NoneMoves'
<1> USE DEF sides, events, gathered, history, work
<1>0. /\ TypeOK /\ Genuine /\ Lasting /\ Dated /\ Agreed /\ Matched
      /\ ReadWell /\ NoneMoves
  BY DEF Endures, Lasting
<1>1. note' = note /\ clock' = clock /\ renames' = <<>> /\ taken' = <<>>
  BY <1>0 DEF Pull, PullWaits, PullFails, Resync, NoneMoves
<1>2. held' = Nobody
  BY <1>0 DEF Pull, PullWaits, PullFails, Resync, ReadWell
<1>3. Lasting'
  <2>1. CASE Pull \/ Resync
    <3>1. owed' = owed
      <4>1. /\ [l \in 1..Newest |-> IF l \in Beaten(Files) THEN 0 ELSE owed[l]] = owed
            /\ [l \in 1..Newest |-> IF l \in Outdone THEN 0 ELSE owed[l]] = owed
        BY <1>0, NoneBeaten
      <4>2. CASE Pull
        BY <4>1, <4>2 DEF Pull
      <4>3. CASE Resync
        BY <4>1, <4>3 DEF Resync
      <4> QED BY <2>1, <4>2, <4>3
    <3>2. ASSUME NEW f \in Files
          PROVE  /\ doc'[f] \in {Merged[f], NewerOf(f)}
                 /\ remote'[f] = doc'[f] /\ base'[f] = doc'[f]
      BY <2>1, <3>2 DEF Pull, Resync
    <3>3. ASSUME NEW f \in Files
          PROVE  /\ {note'[f], doc'[f], remote'[f], base'[f]} \subseteq At(f)
                 /\ note'[f].time >= note[f].time
                 /\ doc'[f].time >= doc[f].time /\ remote'[f].time >= remote[f].time
                 /\ base'[f].time <= doc'[f].time /\ base'[f].time <= remote'[f].time
      <4>1. doc'[f] \in {doc[f], remote[f]}
            /\ doc'[f].time >= doc[f].time /\ doc'[f].time >= remote[f].time
        BY <1>0, <3>2, <3>3, MergedUp
      <4>2. note[f].time \in Nat /\ doc'[f].time \in Nat
        BY <1>0, <3>3, <4>1, TimesAt DEF At
      <4> QED BY <1>1, <3>2, <3>3, <4>1, <4>2 DEF At
    <3> QED BY <1>0, <1>1, <3>1, <3>3, LastingStep
  <2>2. CASE PullWaits
    <3>1. UNCHANGED <<note, doc, remote, base, owed, clock>>
      BY <2>2 DEF PullWaits
    <3> QED BY <1>0, <3>1 DEF Lasting, Dated, Agreed, OwedThere, OwedPast, Matched,
               EmptyAt, FullAt, At
  <2>3. CASE PullFails
    BY <1>1, <2>3, EnduresPartly DEF PullFails
  <2> QED BY <2>1, <2>2, <2>3
<1>4. moves' = {}
  <2>1. CASE Pull
    <3>1. moves' = MovesBack(doc', note')
      BY <1>1, <2>1 DEF Pull
    <3>2. Matched'
      BY <1>3 DEF Lasting
    <3>3. (\/ Has(note) = Has(doc)
           \/ \E g \in Files : Has(note) \subseteq {g} /\ Has(doc) \subseteq {g})'
      BY <3>2, SamePathsNext
    <3> QED BY <3>1, <3>3, NoCandidates DEF MovesBack
  <2>2. CASE ~Pull
    BY <1>0, <2>2 DEF PullWaits, PullFails, Resync, NoneMoves
  <2> QED BY <2>1, <2>2
<1> QED BY <1>1, <1>2, <1>3, <1>4 DEF ReadWell, NoneMoves

\* An edit of a file that is there, in the vault or on the drive.
LEMMA EnduresWrite ==
  ASSUME Endures, TypeOK', NEW f \in Files, NEW v,
         v.line = FirstText[f], v.text = clock + 1, v.time = clock + 1,
         owed' = [owed EXCEPT ![FirstText[f]] = clock + 1],
         clock' = clock + 1, doc' = doc, base' = base,
         \/ note[f] # Absent /\ note' = [note EXCEPT ![f] = v] /\ remote' = remote
         \/ remote[f] # Absent /\ remote' = [remote EXCEPT ![f] = v] /\ note' = note
  PROVE  Lasting'
<1>0. /\ TypeOK /\ Genuine /\ Dated /\ Agreed /\ OwedThere /\ OwedPast /\ Matched
  BY DEF Endures, Lasting
<1>12. clock \in Nat /\ owed \in [1..Newest -> 0..Newest]
  BY <1>0 DEF TypeOK
<1>13. \A l \in 1..Newest : owed[l] \in Nat
  BY <1>12, FiniteFiles
<1>1. v # Absent
  BY <1>12 DEF Absent
<1>2. /\ \A g \in Files : g # f => FirstText[g] # FirstText[f]
      /\ \A g \in Files : FirstText[g] \in 1..Newest
  BY MirrorAssumption, FiniteFiles
<1>3. /\ \A l \in 1..Newest : l # FirstText[f] => owed'[l] = owed[l]
      /\ owed'[FirstText[f]] = clock + 1
  BY <1>12, <1>2
<1>4. ASSUME NEW g \in Files, g # f
      PROVE  /\ note'[g] = note[g] /\ remote'[g] = remote[g]
             /\ owed'[FirstText[g]] = owed[FirstText[g]]
  BY <1>0, <1>2, <1>3, <1>4 DEF TypeOK
<1>5. \/ note'[f] = v /\ remote'[f] = remote[f]
      \/ remote'[f] = v /\ note'[f] = note[f]
  BY <1>0 DEF TypeOK
<1>6. \A u \in At(f) : u.time \in Nat /\ u.time <= clock
  <2> SUFFICES ASSUME NEW u \in At(f) PROVE u.time \in Nat /\ u.time <= clock
    OBVIOUS
  <2>1. u.time \in Nat /\ owed[FirstText[f]] \in Nat /\ Absent.time = 0
    BY <1>0, TimesAt
  <2>2. owed[FirstText[f]] <= clock
    BY <1>0, <1>2 DEF OwedPast
  <2>3. u # Absent => u.time <= owed[FirstText[f]]
    BY <1>0 DEF Dated
  <2> QED BY <1>12, <2>1, <2>2, <2>3
<1>7. Dated'
  <2> SUFFICES ASSUME NEW g \in Files, NEW u \in At(g)', u # Absent
               PROVE  /\ u.line = FirstText[g] /\ u.time = u.text
                      /\ u.time <= owed'[FirstText[g]]
    BY DEF Dated
  <2>1. CASE g # f
    <3>1. u \in At(g)
      BY <1>4, <2>1 DEF At
    <3> QED BY <1>0, <1>4, <2>1, <3>1 DEF Dated
  <2>2. CASE g = f /\ u = v
    BY <1>12, <1>3, <2>2
  <2>3. CASE g = f /\ u # v
    <3>1. u \in At(f)
      BY <1>5, <2>3 DEF At
    <3> QED BY <1>0, <1>12, <1>3, <1>6, <2>3, <3>1 DEF Dated
  <2> QED BY <2>1, <2>2, <2>3
<1>8. Agreed'
  <2> SUFFICES ASSUME NEW g \in Files
               PROVE  base[g].time <= doc[g].time /\ base[g].time <= remote'[g].time
    BY DEF Agreed
  <2>1. base[g].time <= doc[g].time /\ base[g].time <= remote[g].time
    BY <1>0 DEF Agreed
  <2>2. g = f => base[g].time \in Nat /\ base[g].time <= clock
    BY <1>6 DEF At
  <2> QED BY <1>12, <1>4, <1>5, <2>1, <2>2
<1>9. OwedThere'
  <2> SUFFICES ASSUME NEW l \in 1..Newest, owed'[l] # 0
               PROVE  \E g \in Files : l = FirstText[g] /\
                        owed'[l] \in {note'[g].time, doc[g].time, remote'[g].time}
    BY DEF OwedThere
  <2>1. CASE l = FirstText[f]
    BY <1>3, <1>5, <2>1
  <2>2. CASE l # FirstText[f]
    <3>1. PICK g \in Files : /\ l = FirstText[g]
                             /\ owed[l] \in {note[g].time, doc[g].time, remote[g].time}
      BY <1>0, <1>3, <2>2 DEF OwedThere
    <3> QED BY <1>3, <1>4, <2>2, <3>1
  <2> QED BY <2>1, <2>2
<1>10. OwedPast'
  <2> SUFFICES ASSUME NEW l \in 1..Newest PROVE owed'[l] <= clock + 1
    BY DEF OwedPast
  <2>1. owed[l] \in Nat /\ owed[l] <= clock
    BY <1>0, <1>13 DEF OwedPast
  <2> QED BY <1>12, <1>3, <2>1
<1>11. Matched'
  <2>1. \A g \in Files : EmptyAt(g) => EmptyAt(g)'
    BY <1>4 DEF EmptyAt, At
  <2>2. \A g \in Files : FullAt(g) => FullAt(g)'
    BY <1>1, <1>4, <1>5 DEF FullAt, At
  <2> QED BY <1>0, <2>1, <2>2 DEF Matched
<1> QED BY <1>7, <1>8, <1>9, <1>10, <1>11 DEF Lasting

LEMMA SameLineWritten ==
  ASSUME Endures, NEW f \in Files, NEW u \in {note[f], remote[f]}, u # Absent
  PROVE  /\ LineOf(u) = FirstText[f]
         /\ Text(LineOf(u)).line = FirstText[f] /\ Text(LineOf(u)).text = clock + 1
         /\ Text(LineOf(u)).time = clock + 1
         /\ Superseded(u) = [owed EXCEPT ![FirstText[f]] = clock + 1]
<1>1. u \in At(f) /\ TypeOK /\ Genuine /\ Dated
  BY DEF Endures, Lasting, At
<1>2. u.line = FirstText[f] /\ u.time = u.text /\ u.time <= owed[FirstText[f]]
  BY <1>1 DEF Dated
<1>3. u.text > 0
  BY <1>1 DEF Genuine, Texted
<1>4. owed[FirstText[f]] # 0
  BY <1>1, <1>2, <1>3, TimesAt
<1>5. LineOf(u) = FirstText[f]
  BY <1>2, <1>4 DEF LineOf
<1> QED BY <1>5 DEF Text, Superseded

LEMMA EnduresUser ==
  ASSUME Enduring, Endures, TypeOK', User
  PROVE  Lasting' /\ ReadWell' /\ NoneMoves'
<1>0. NoneMoves
  BY DEF Endures
<1>1. ASSUME NEW op, NEW hand, Edit(op, hand)
      PROVE  /\ op \in {"write", "drive-write"} /\ held = Nobody
             /\ clock' = clock + 1 /\ doc' = doc /\ base' = base
             /\ held' = Nobody /\ moves' = {} /\ taken' = <<>>
  BY <1>0, <1>1 DEF Enduring, Edit, work, gathered, NoneMoves
<1>2. ASSUME NEW f \in Files, VaultWrite(f)
      PROVE  Lasting' /\ ReadWell' /\ NoneMoves'
  <2>1. /\ note[f] # Absent
        /\ clock' = clock + 1 /\ doc' = doc /\ base' = base
        /\ held' = Nobody /\ moves' = {} /\ taken' = <<>>
    BY <1>1, <1>2 DEF VaultWrite
  <2>2. /\ note' = [note EXCEPT ![f] = Text(LineOf(note[f]))] /\ remote' = remote
        /\ owed' = Superseded(note[f]) /\ renames' = renames
    BY <1>2 DEF VaultWrite
  <2>3. Lasting'
    BY <2>1, <2>2, SameLineWritten, EnduresWrite
  <2> QED BY <1>0, <2>1, <2>2, <2>3 DEF ReadWell, NoneMoves
<1>3. ASSUME NEW f \in Files, DriveWrite(f)
      PROVE  Lasting' /\ ReadWell' /\ NoneMoves'
  <2>1. /\ remote[f] # Absent
        /\ clock' = clock + 1 /\ doc' = doc /\ base' = base
        /\ held' = Nobody /\ moves' = {} /\ taken' = <<>>
    BY <1>1, <1>3 DEF DriveWrite
  <2>2. /\ remote' = [remote EXCEPT ![f] = Text(LineOf(remote[f]))] /\ note' = note
        /\ owed' = Superseded(remote[f]) /\ renames' = renames
    BY <1>3 DEF DriveWrite, events
  <2>3. Lasting'
    BY <2>1, <2>2, SameLineWritten, EnduresWrite
  <2> QED BY <1>0, <2>1, <2>2, <2>3 DEF ReadWell, NoneMoves
<1>4. \A f \in Files : ~VaultDelete(f) /\ ~DriveDelete(f)
  BY <1>1 DEF VaultDelete, DriveDelete, Removal, OnDrive
<1>5. \A f, g \in Files : ~VaultRename(f, g) /\ ~DriveRename(f, g)
  BY <1>1 DEF VaultRename, DriveRename, Way, OnDrive
<1>6. \A d, e \in Dirs : ~VaultRenameDir(d, e)
  BY <1>1 DEF VaultRenameDir
<1> QED BY <1>2, <1>3, <1>4, <1>5, <1>6 DEF User

\* Everything but a merge leaves the trees alone, or copies the newer of two.
LEMMA EnduresStill ==
  ASSUME Endures, UNCHANGED <<note, doc, remote, base, owed, clock>>
  PROVE  Lasting'
BY DEF Endures, Lasting, Dated, Agreed, OwedThere, OwedPast, Matched, EmptyAt, FullAt, At

LEMMA EnduresConversion ==
  ASSUME Endures, TypeOK', WriteDoc \/ WriteNote
  PROVE  Lasting' /\ ReadWell' /\ NoneMoves'
<1> USE DEF gathered, history
<1>0. /\ TypeOK /\ Genuine /\ Lasting /\ Agreed /\ ReadWell /\ NoneMoves
  BY DEF Endures, Lasting
<1> DEFINE f == held[1]
<1>1. f \in Files /\ held # Nobody
  BY <1>0 DEF WriteDoc, WriteNote, ReadWell
<1>2. /\ \A u \in Versions : [u EXCEPT !.time = u.time] = u
      /\ note[f] \in Versions /\ doc[f] \in Versions
  BY <1>0, <1>1 DEF Versions, TypeOK
<1>3. CASE WriteDoc
  <2>1. held[2] = note[f] /\ NewerThan(note[f], doc[f])
    BY <1>0, <1>1, <1>3 DEF WriteDoc, ReadWell
  <2>2. WrittenNow(note) = note[f]
    BY <1>2, <2>1 DEF WrittenNow
  <2>3. /\ doc' = [doc EXCEPT ![f] = note[f]] /\ held' = Nobody
        /\ UNCHANGED <<note, remote, base, owed, clock, renames, taken, moves>>
    BY <1>3, <2>2 DEF WriteDoc, events
  <2>4. note[f].time >= doc[f].time
    BY <1>0, <1>1, <2>1, TimesAt DEF NewerThan, At
  <2>5. ASSUME NEW g \in Files
        PROVE  /\ {note'[g], doc'[g], remote'[g], base'[g]} \subseteq At(g)
               /\ note'[g].time >= note[g].time
               /\ doc'[g].time >= doc[g].time /\ remote'[g].time >= remote[g].time
               /\ base'[g].time <= doc'[g].time /\ base'[g].time <= remote'[g].time
    <3>1. doc'[g] = IF g = f THEN note[f] ELSE doc[g]
      BY <1>0, <1>1, <2>3 DEF TypeOK
    <3>2. /\ note[g].time \in Nat /\ doc[g].time \in Nat /\ remote[g].time \in Nat
          /\ base[g].time \in Nat
      BY <1>0, TimesAt DEF At
    <3>3. base[g].time <= doc[g].time /\ base[g].time <= remote[g].time
      BY <1>0 DEF Agreed
    <3>4. {note'[g], doc'[g], remote'[g], base'[g]} \subseteq At(g)
      BY <2>3, <3>1 DEF At
    <3> HIDE DEF f
    <3> QED BY <2>3, <2>4, <3>1, <3>2, <3>3, <3>4
  <2>6. Lasting'
    BY <1>0, <2>3, <2>5, LastingStep
  <2> QED BY <1>0, <2>3, <2>6 DEF ReadWell, NoneMoves
<1>4. CASE WriteNote
  <2>1. held[2] = doc[f] /\ NewerThan(doc[f], note[f])
    BY <1>0, <1>1, <1>4 DEF WriteNote, ReadWell
  <2>2. WrittenNow(doc) = doc[f]
    BY <1>2, <2>1 DEF WrittenNow
  <2>3. /\ note' = [note EXCEPT ![f] = doc[f]] /\ held' = Nobody
        /\ UNCHANGED <<doc, remote, base, owed, clock, renames, taken, moves>>
    BY <1>4, <2>2 DEF WriteNote
  <2>4. doc[f].time >= note[f].time
    BY <1>0, <1>1, <2>1, TimesAt DEF NewerThan, At
  <2>5. ASSUME NEW g \in Files
        PROVE  /\ {note'[g], doc'[g], remote'[g], base'[g]} \subseteq At(g)
               /\ note'[g].time >= note[g].time
               /\ doc'[g].time >= doc[g].time /\ remote'[g].time >= remote[g].time
               /\ base'[g].time <= doc'[g].time /\ base'[g].time <= remote'[g].time
    <3>1. note'[g] = IF g = f THEN doc[f] ELSE note[g]
      BY <1>0, <1>1, <2>3 DEF TypeOK
    <3>2. /\ note[g].time \in Nat /\ doc[g].time \in Nat /\ remote[g].time \in Nat
          /\ base[g].time \in Nat
      BY <1>0, TimesAt DEF At
    <3>3. base[g].time <= doc[g].time /\ base[g].time <= remote[g].time
      BY <1>0 DEF Agreed
    <3>4. {note'[g], doc'[g], remote'[g], base'[g]} \subseteq At(g)
      BY <2>3, <3>1 DEF At
    <3> HIDE DEF f
    <3> QED BY <2>3, <2>4, <3>1, <3>2, <3>3, <3>4
  <2>6. Lasting'
    BY <1>0, <2>3, <2>5, LastingStep
  <2> QED BY <1>0, <2>3, <2>6 DEF ReadWell, NoneMoves
<1> QED BY <1>3, <1>4

\* Clearing a side of what is not there leaves it as it is.
LEMMA ClearedOfNothing ==
  ASSUME NEW side \in [Files -> Versions], NEW gone, \A f \in gone : side[f] = Absent
  PROVE  Cleared(side, Absent, gone) = side
<1>1. \A f \in Files : Cleared(side, Absent, gone)[f] = side[f]
  BY DEF Cleared
<1>2. Cleared(side, Absent, gone) = [f \in Files |-> Cleared(side, Absent, gone)[f]]
  BY DEF Cleared
<1> QED BY <1>1, <1>2

\* The steps of a pass and of a batch of events that convert nothing.
LEMMA EnduresQuiet ==
  ASSUME Endures, TypeOK',
         \/ BeginPass \/ MoveDoc \/ LeadOn \/ ReadNote \/ DropDocs
         \/ MoveNote \/ FollowOn \/ ReadDoc \/ DropNotes
         \/ Events \/ ConversionFails
  PROVE  Lasting' /\ ReadWell' /\ NoneMoves'
<1> USE DEF sides, events, gathered, history
<1>0. /\ TypeOK /\ Matched /\ ReadWell /\ NoneMoves /\ Lasting
      /\ note \in [Files -> Versions] /\ doc \in [Files -> Versions]
  BY DEF Endures, Lasting, TypeOK
<1>1. ASSUME UNCHANGED <<note, doc, remote, base, owed, clock, renames, taken>>, moves' = {},
             held' = Nobody \/ (held' = held /\ pc' = pc)
      PROVE  Lasting' /\ ReadWell' /\ NoneMoves'
  BY <1>0, <1>1, EnduresStill DEF ReadWell, NoneMoves
<1>2. ~MoveDoc /\ ~MoveNote /\ ~FollowRename
  BY <1>0 DEF MoveDoc, MoveNote, FollowRename, NoneMoves
<1>3. CASE BeginPass
  BY <1>0, <1>1, <1>3, NothingDropped DEF BeginPass, ReadWell, NoneMoves
<1>4. CASE LeadOn \/ FollowOn
  BY <1>0, <1>1, <1>4 DEF LeadOn, FollowOn, ReadWell, NoneMoves
<1>5. CASE ReadNote
  <2> PICK f \in todo : Take(f, note, doc)
    BY <1>5 DEF ReadNote
  <2>1. /\ f \in Files /\ pc \in {"to-docs", "changed"} /\ pc' = pc
        /\ UNCHANGED <<note, doc, remote, base, owed, clock, renames, taken, moves>>
    BY <1>0, <1>5 DEF ReadNote, TypeOK
  <2>2. \/ held' = Nobody
        \/ held' = <<f, note[f]>> /\ NewerThan(note[f], doc[f])
    BY DEF Take
  <2>3. Lasting' /\ NoneMoves'
    BY <1>0, <2>1, EnduresStill DEF NoneMoves
  <2>4. ReadWell'
    BY <2>1, <2>2 DEF ReadWell
  <2> QED BY <2>3, <2>4
<1>6. CASE ReadDoc
  <2> PICK f \in todo : Take(f, doc, note)
    BY <1>6 DEF ReadDoc
  <2>1. /\ f \in Files /\ pc = "to-notes" /\ pc' = pc
        /\ UNCHANGED <<note, doc, remote, base, owed, clock, renames, taken, moves>>
    BY <1>0, <1>6 DEF ReadDoc, TypeOK
  <2>2. \/ held' = Nobody
        \/ held' = <<f, doc[f]>> /\ NewerThan(doc[f], note[f])
    BY DEF Take
  <2>3. Lasting' /\ NoneMoves'
    BY <1>0, <2>1, EnduresStill DEF NoneMoves
  <2>4. ReadWell'
    BY <2>1, <2>2 DEF ReadWell
  <2> QED BY <2>3, <2>4
<1>7. CASE DropDocs
  <2>1. doc' = doc
    BY <1>0, <1>7, NothingDropped, ClearedOfNothing DEF DropDocs
  <2> QED BY <1>0, <1>1, <1>7, <2>1 DEF DropDocs, NoneMoves
<1>8. CASE DropNotes
  <2>1. note' = note
    BY <1>0, <1>8, NothingDropped, ClearedOfNothing DEF DropNotes
  <2> QED BY <1>0, <1>1, <1>8, <2>1 DEF DropNotes, NoneMoves
<1>9. CASE DropRemoved
  <2>1. doc' = doc
    BY <1>0, <1>9, NothingDropped, ClearedOfNothing DEF DropRemoved
  <2> QED BY <1>0, <1>1, <1>9, <2>1 DEF DropRemoved, NoneMoves
<1>10. CASE TakeEvents
  <2>1. held = Nobody
    BY <1>0, <1>10 DEF TakeEvents, ReadWell
  <2> QED BY <1>0, <1>1, <1>10, <2>1 DEF TakeEvents, NoneMoves
<1>11. CASE FollowMoves
  <2>1. held = Nobody /\ moves' = {}
    BY <1>0, <1>11, NothingDropped DEF FollowMoves, ReadWell
  <2> QED BY <1>0, <1>1, <1>11, <2>1 DEF FollowMoves, NoneMoves
<1>12. CASE LookAtPath
  BY <1>0, <1>1, <1>12 DEF LookAtPath, NoneMoves
<1>13. CASE ConversionFails
  BY <1>0, <1>1, <1>13 DEF ConversionFails, NoneMoves
<1> QED BY <1>2, <1>3, <1>4, <1>5, <1>6, <1>7, <1>8, <1>9, <1>10, <1>11, <1>12, <1>13
        DEF Events

LEMMA EnduresRestart ==
  ASSUME Endures, TypeOK', Restart
  PROVE  Lasting' /\ ReadWell' /\ NoneMoves'
<1>1. note' = note /\ clock' = clock /\ held' = Nobody
      /\ renames' = <<>> /\ taken' = <<>> /\ moves' = {}
  BY DEF Restart
<1>2. Lasting'
  BY <1>1, EnduresStill, EnduresPartly DEF Restart
<1> QED BY <1>1, <1>2 DEF ReadWell, NoneMoves

LEMMA EnduresNext ==
  ASSUME Enduring, Endures, [Next]_vars
  PROVE  Endures'
<1>1. TypeOK' /\ Genuine'
  BY TypeNext DEF Endures
<1>2. CASE User
  BY <1>1, <1>2, EnduresUser DEF Endures
<1>3. CASE Pull \/ PullWaits \/ PullFails \/ Resync
  BY <1>1, <1>3, EnduresPull DEF Endures
<1>4. CASE NotesLead \/ DocsLead \/ Events \/ ConversionFails
  <2>1. Lasting' /\ ReadWell' /\ NoneMoves'
    BY <1>1, <1>4, EnduresConversion, EnduresQuiet DEF NotesLead, DocsLead
  <2> QED BY <1>1, <2>1 DEF Endures
<1>5. CASE Restart
  BY <1>1, <1>5, EnduresRestart DEF Endures
<1>6. CASE UNCHANGED vars
  <2>1. Lasting'
    BY <1>6, EnduresStill DEF vars, sides, history
  <2>2. ReadWell' /\ NoneMoves'
    BY <1>6 DEF Endures, ReadWell, NoneMoves, vars, sides, events, work, gathered
  <2> QED BY <1>1, <2>1, <2>2 DEF Endures
<1> QED BY <1>2, <1>3, <1>4, <1>5, <1>6 DEF Next

LEMMA EnduresInit == Init => Endures
<1> SUFFICES ASSUME Init PROVE Endures
  OBVIOUS
<1>0. TypeOK /\ Genuine
  BY TypeInit
<1> PICK both \in SUBSET Files : \E alone \in SUBSET Files :
      /\ alone # {} => both = {} /\ Cardinality(alone) = 1
      /\ doc = Holding(both) /\ base = doc
      /\ \/ note = Holding(both \union alone) /\ remote = doc
         \/ alone # {} /\ note = doc /\ remote = Holding(both \union alone)
      /\ owed = [l \in 1..Newest |->
                    IF \E f \in both \union alone : FirstText[f] = l THEN l ELSE 0]
  BY DEF Init
<1> PICK alone \in SUBSET Files :
      /\ alone # {} => both = {} /\ Cardinality(alone) = 1
      /\ doc = Holding(both) /\ base = doc
      /\ \/ note = Holding(both \union alone) /\ remote = doc
         \/ alone # {} /\ note = doc /\ remote = Holding(both \union alone)
      /\ owed = [l \in 1..Newest |->
                    IF \E f \in both \union alone : FirstText[f] = l THEN l ELSE 0]
  OBVIOUS
<1> DEFINE S == both \union alone
<1>1. /\ clock = Cardinality(Files) /\ clock \in Nat
      /\ held = Nobody /\ moves = {} /\ renames = <<>> /\ taken = <<>>
  BY FiniteFiles DEF Init
<1>2. /\ \A f \in Files : FirstText[f] \in 1..clock /\ FirstText[f] \in 1..Newest
      /\ Absent.time = 0
  BY <1>1, FiniteFiles, MirrorAssumption DEF Absent
<1>3. \A f \in S : owed[FirstText[f]] = FirstText[f]
  BY <1>2
<1>4. \A T \in SUBSET Files : \A f \in Files :
        /\ f \in T => /\ Holding(T)[f].line = FirstText[f]
                      /\ Holding(T)[f].text = FirstText[f]
                      /\ Holding(T)[f].time = FirstText[f]
                      /\ Holding(T)[f] # Absent
        /\ f \notin T => Holding(T)[f] = Absent
  BY <1>2 DEF Holding, Absent
<1>5. \A f \in Files : \A u \in At(f) : \E T \in {both, S} : u = Holding(T)[f]
  BY DEF At
<1>6. Dated
  <2> SUFFICES ASSUME NEW f \in Files, NEW u \in At(f), u # Absent
               PROVE  /\ u.line = FirstText[f] /\ u.time = u.text
                      /\ u.time <= owed[FirstText[f]]
    BY DEF Dated
  <2> PICK T \in {both, S} : u = Holding(T)[f]
    BY <1>5
  <2>1. T \in SUBSET Files /\ T \subseteq S
    OBVIOUS
  <2>2. f \in T
    BY <1>4, <2>1
  <2>3. u.line = FirstText[f] /\ u.text = FirstText[f] /\ u.time = FirstText[f]
    BY <1>4, <2>1, <2>2
  <2>4. owed[FirstText[f]] = FirstText[f]
    BY <1>3, <2>1, <2>2
  <2> QED BY <1>2, <2>3, <2>4
<1>7. Agreed
  <2> SUFFICES ASSUME NEW f \in Files
               PROVE  base[f].time <= doc[f].time /\ base[f].time <= remote[f].time
    BY DEF Agreed
  <2>1. doc[f].time \in Nat /\ remote[f].time \in Nat
    BY <1>0, TimesAt DEF At
  <2>2. base = doc
    OBVIOUS
  <2>3. CASE remote = doc
    BY <2>1, <2>2, <2>3
  <2>4. CASE both = {}
    BY <1>2, <1>4, <2>1, <2>2, <2>4
  <2> QED BY <2>3, <2>4
<1>8. OwedThere
  <2> SUFFICES ASSUME NEW l \in 1..Newest, owed[l] # 0
               PROVE  \E f \in Files : l = FirstText[f] /\
                        owed[l] \in {note[f].time, doc[f].time, remote[f].time}
    BY DEF OwedThere
  <2>1. PICK f \in S : FirstText[f] = l
    OBVIOUS
  <2>2. owed[l] = FirstText[f] /\ f \in Files
    BY <1>3, <2>1
  <2>3. note = Holding(S) \/ remote = Holding(S)
    OBVIOUS
  <2>4. Holding(S)[f].time = FirstText[f]
    BY <1>4
  <2> QED BY <2>1, <2>2, <2>3, <2>4
<1>9. OwedPast
  <2> SUFFICES ASSUME NEW l \in 1..Newest PROVE owed[l] <= clock
    BY DEF OwedPast
  <2>1. CASE \E f \in S : FirstText[f] = l
    BY <1>1, <1>2, <1>3, <2>1
  <2>2. CASE ~\E f \in S : FirstText[f] = l
    <3>1. owed[l] = 0
      BY <2>2
    <3> QED BY <1>1, <3>1
  <2> QED BY <2>1, <2>2
<1>10. Matched
  <2>1. CASE alone = {}
    <3>1. \A f \in Files : \A u \in At(f) : u = Holding(both)[f]
      BY <1>5, <2>1
    <3>2. \A f \in Files : EmptyAt(f) \/ FullAt(f)
      BY <1>4, <3>1 DEF EmptyAt, FullAt
    <3> QED BY <3>2 DEF Matched
  <2>2. CASE alone # {}
    <3>1. both = {} /\ Cardinality(alone) = 1 /\ IsFiniteSet(alone)
      BY <2>2, FiniteFiles, FS_Subset
    <3>2. PICK g : alone = {g}
      BY <3>1, FS_Singleton
    <3>3. g \in Files /\ S = {g}
      BY <3>1, <3>2
    <3>4. \A f \in Files : f # g => EmptyAt(f)
      <4> SUFFICES ASSUME NEW f \in Files, f # g, NEW u \in At(f) PROVE u = Absent
        BY DEF EmptyAt
      <4>1. PICK T \in {both, S} : u = Holding(T)[f]
        BY <1>5
      <4> QED BY <1>4, <3>1, <3>3, <4>1
    <3> QED BY <3>3, <3>4 DEF Matched
  <2> QED BY <2>1, <2>2
<1> QED BY <1>0, <1>1, <1>6, <1>7, <1>8, <1>9, <1>10
        DEF Endures, Lasting, ReadWell, NoneMoves

\* An edit of a file both sides have is never lost (mirror.rs:114-160, 401): with
\* the default options or any others, and whatever fails, part-way or unheard, or
\* dies, or is resynced, the newest text of every file is a note, a document or
\* on the drive.  Nobody makes, deletes or renames a file here: what a document
\* without a note may suffer is another matter (README.md:226-227).
THEOREM EditsSurvive == ASSUME Enduring PROVE Spec => []NothingLost
<1>1. Endures /\ [Next]_vars => Endures'
  BY EnduresNext
<1>2. Endures => NothingLost
  <2> SUFFICES ASSUME Endures, NEW l \in 1..Newest, owed[l] # 0
               PROVE  owed[l] \in Texts(note) \union Texts(doc) \union Texts(remote)
    BY DEF NothingLost
  <2>1. PICK f \in Files : /\ l = FirstText[f]
                           /\ owed[l] \in {note[f].time, doc[f].time, remote[f].time}
    BY DEF Endures, Lasting, OwedThere
  <2>2. \A u \in At(f) : u # Absent => u.time = u.text
    BY DEF Endures, Lasting, Dated
  <2>3. PICK u \in {note[f], doc[f], remote[f]} : owed[l] = u.time
    BY <2>1
  <2>4. u # Absent
    BY <2>3 DEF Absent
  <2>5. owed[l] = u.text
    BY <2>2, <2>3, <2>4 DEF At
  <2> QED BY <2>5 DEF Texts
<1> QED BY <1>1, <1>2, EnduresInit, PTL DEF Spec
=============================================================================
