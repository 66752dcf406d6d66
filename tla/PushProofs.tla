----------------------------- MODULE PushProofs -----------------------------
(***************************************************************************)
(* Theorems about the push engine (module Push), for every tree, filter,   *)
(* bound and choice of edits:                                              *)
(*                                                                         *)
(*   TypeCorrect     every variable keeps its type;                        *)
(*   RemoteIsTracked the engine knows of all the remote holds, so long as  *)
(*                   no answer is lost, the listings can be written and    *)
(*                   the daemon is not killed in the middle of a batch;    *)
(*   MovesAreSafe    under the same conditions, and where no file is       *)
(*                   excluded, a move never overwrites;                    *)
(*   FilesStayCurrent  what a restart reads back is what it would forget;  *)
(*   ExcludedIsLeftAlone  nothing excluded is written on the remote, where *)
(*                   the filter takes folders whole or none is renamed.    *)
(***************************************************************************)
EXTENDS Push, FiniteSetTheorems, TLAPS

-----------------------------------------------------------------------------
(***************************************************************************)
(* The operators on sides, listings and changes return what they should.   *)
(***************************************************************************)
Side == [Locs -> Nat]
Ids == [Files -> FileIds \union {NoId}]

\* Writing to a side, and deleting from it, gives a side (Tree).
LEMMA PutType ==
  ASSUME NEW s \in Side, NEW p \in Locs, NEW v \in Nat
  PROVE  Put(s, p, v) \in Side
BY DEF Put, Side

LEMMA WithoutType ==
  ASSUME NEW s \in Side, NEW S
  PROVE  Without(s, S) \in Side
BY DEF Without, Side

\* A file path under another folder is a file path of the tree (Tree).
LEMMA RebaseType ==
  ASSUME NEW p \in Files, NEW d \in Places
  PROVE  Rebase(p, d) \in Files
BY DEF Rebase, Files

\* Renaming a folder of a side gives a side (Tree).
LEMMA RelocateType ==
  ASSUME NEW s \in Side, NEW d \in Dirs, NEW e \in Dirs
  PROVE  Relocate(s, d, e) \in Side
<1>1. \A x \in Under(e) : Rebase(x, d) \in Locs
  BY RebaseType DEF Under, Dirs, Locs
<1> QED BY <1>1 DEF Relocate, Side

\* Patching a listing gives a listing (listing.rs: rename, rename_dirs, remove).
LEMMA ListingTypes ==
  ASSUME NEW s \in Side, NEW k1 \in Locs, NEW k2 \in Locs
  PROVE  /\ RenameEntry(s, k1, k2) \in Side
         /\ RenameDirEntry(s, k1, k2) \in Side
         /\ RemoveEntry(s, k1) \in Side
BY DEF RenameEntry, RenameDirEntry, RemoveEntry, Side

LEMMA RemoveEntryType ==
  ASSUME NEW s \in Side, NEW k \in Locs
  PROVE  RemoveEntry(s, k) \in Side
BY ListingTypes

\* A pass leaves sides and a listing (Bisync).
LEMMA PassTypes ==
  ASSUME NEW s1 \in Side, NEW w1 \in Side, NEW s2 \in Side, NEW w2 \in Side
  PROVE  MergedTree(s1, w1, s2, w2) \in Side
<1>1. \A x \in Locs : MergedAt(x, s1[x], w1[x], s2[x], w2[x]) \in Nat
  BY DEF MergedAt, Newer, Side
<1> QED BY <1>1 DEF MergedTree, Side

LEMMA AppliedTypes ==
  ASSUME NEW s \in Side, NEW m \in Side
  PROVE  Applied(s, m) \in Side /\ Listed(m) \in Side
BY DEF Applied, Listed, Side

LEMMA NothingType == Nothing \in Side
BY DEF Nothing, Side

\* The identities a scan records are identities (identity.rs, Snapshot).
LEMMA ScannedType ==
  ASSUME NEW f \in Ids
  PROVE  Scanned(f) \in Ids
BY DEF Scanned, Ids

\* Batches of changes are put together from changes.
LEMMA ChangeTypes ==
  /\ NoChange \in Change
  /\ \A S \in SUBSET Locs : Dirty(S) \in Change
  /\ \A k \in Renames : Rename(k) \in Change
  /\ \A c, d \in Change : Merge(c, d) \in Change
<1>1. NoChange \in Change
  BY DEF NoChange, Change
<1>2. \A S \in SUBSET Locs : Dirty(S) \in Change
  BY DEF Dirty, Change
<1>3. \A k \in Renames : Rename(k) \in Change
  BY DEF Rename, Change
<1>4. \A c, d \in Change : Merge(c, d) \in Change
  BY DEF Merge, Change
<1> QED BY <1>1, <1>2, <1>3, <1>4

-----------------------------------------------------------------------------
(***************************************************************************)
(* Type correctness.                                                       *)
(***************************************************************************)
\* The program starts well typed.
LEMMA TypeInit == Init => TypeOK
<1> SUFFICES ASSUME Init PROVE TypeOK
  OBVIOUS
<1>1. PICK synced \in SUBSET (Files \intersect Kept) :
        /\ local = [x \in Locs |->
                     IF x \in synced THEN FirstVersion[x]
                     ELSE IF \E p \in synced : x = p[1] THEN 1 ELSE 0]
        /\ ino = [p \in Files |-> IF p \in synced THEN Born(p, 0) ELSE NoId]
  BY DEF Init
<1>2. \A x \in synced : FirstVersion[x] \in Nat
  BY PushAssumption
<1>3. local \in Side
  BY <1>1, <1>2 DEF Side
<1>4. ino \in Ids
  BY <1>1 DEF Ids, Born, FileIds
<1>5. Scanned(ino) \in Ids /\ Listed(local) \in Side
  BY <1>3, <1>4, ScannedType, AppliedTypes
<1>6. /\ remote \in Side /\ lst1 \in Side /\ lst2 \in Side
      /\ l1 \in Side /\ l2 \in Side /\ ids \in Ids
  BY <1>3, <1>5 DEF Init
<1>7. /\ events \in Change /\ retry \in Change /\ pending \in Change
      /\ again \in Change
  BY ChangeTypes DEF Init
<1> QED
  BY <1>3, <1>4, <1>6, <1>7 DEF Init, TypeOK, Side, Ids, Phases

\* There are finitely many files.
LEMMA FilesFinite == IsFiniteSet(Files) /\ Cardinality(Files) \in Nat
BY TreeAssumption, FS_Product, FS_CardinalityType DEF Files

\* No edit of the user's breaks a type.
LEMMA TypeUser == TypeOK /\ User => TypeOK'
<1> SUFFICES ASSUME TypeOK, User PROVE TypeOK'
  OBVIOUS
<1>1. local \in Side /\ ino \in Ids /\ clock \in Nat /\ events \in Change
  BY DEF TypeOK, Side, Ids
<1>2. \A p \in Files : Appeared(p) \in SUBSET Locs
  BY DEF Appeared, Locs
<1>3. FreshVersion \in Nat
  BY <1>1, FilesFinite DEF FreshVersion
<1>4. \A p \in Files : Born(p, clock + 1) \in FileIds
  BY <1>1 DEF Born, FileIds
<1>5. ASSUME NEW c \in Change, Edit(c), local' \in Side, ino' \in Ids
      PROVE  TypeOK'
  <2>1. events' \in Change
    BY <1>1, <1>5, ChangeTypes DEF Edit
  <2>2. clock' \in Nat
    BY <1>1, <1>5 DEF Edit
  <2> QED
    BY <1>5, <2>1, <2>2 DEF TypeOK, Edit, disk, memory, batch, Side, Ids
<1>6. ASSUME NEW p \in Files, NEW v \in Nat, UserWrite(p, v) PROVE TypeOK'
  <2>1. local' \in Side
    BY <1>1, <1>6, PutType DEF UserWrite, Locs
  <2>2. ino' \in Ids
    BY <1>1, <1>4, <1>6 DEF UserWrite, Ids
  <2>3. Dirty(Appeared(p)) \in Change
    BY <1>2, ChangeTypes
  <2> QED BY <1>5, <1>6, <2>1, <2>2, <2>3 DEF UserWrite
<1>7. ASSUME NEW p \in Files, UserDelete(p) PROVE TypeOK'
  <2>1. local' \in Side
    BY <1>1, <1>7, WithoutType DEF UserDelete
  <2>2. ino' \in Ids
    BY <1>1, <1>7 DEF UserDelete, Ids
  <2>3. Dirty({p}) \in Change
    BY ChangeTypes DEF Locs
  <2> QED BY <1>5, <1>7, <2>1, <2>2, <2>3 DEF UserDelete
<1>8. ASSUME NEW p \in Files, NEW q \in Files, UserRename(p, q) PROVE TypeOK'
  <2>1. local' \in Side
    <3>1. local[p] \in Nat /\ q \in Locs
      BY <1>1 DEF Side, Locs
    <3> QED BY <1>1, <1>8, <3>1, WithoutType, PutType DEF UserRename
  <2>2. ino' \in Ids
    BY <1>1, <1>8 DEF UserRename, Ids
  <2>3. Rename(<<p, q>>) \in Change
    BY ChangeTypes DEF Renames
  <2>4. Dirty({p} \union Appeared(q)) \in Change
    <3>1. {p} \union Appeared(q) \in SUBSET Locs
      BY <1>2 DEF Locs
    <3> QED BY <3>1, ChangeTypes
  <2> QED BY <1>5, <1>8, <2>1, <2>2, <2>3, <2>4 DEF UserRename
<1>9. ASSUME NEW d \in Dirs, NEW e \in Dirs, UserRenameDir(d, e) PROVE TypeOK'
  <2>1. local' \in Side
    BY <1>1, <1>9, RelocateType DEF UserRenameDir
  <2>2. ino' \in Ids
    <3>1. \A p \in Files : Rebase(p, d) \in Files
      BY RebaseType DEF Dirs
    <3> QED BY <1>1, <1>9, <3>1 DEF UserRenameDir, Ids
  <2>3. Rename(<<d, e>>) \in Change
    BY ChangeTypes DEF Renames
  <2>4. Dirty({d, e}) \in Change
    <3>1. {d, e} \in SUBSET Locs
      BY DEF Locs
    <3> QED BY <3>1, ChangeTypes
  <2> QED BY <1>5, <1>9, <2>1, <2>2, <2>3, <2>4 DEF UserRenameDir
<1>10. ASSUME NEW d \in Dirs, UserRemoveDir(d) PROVE TypeOK'
  <2>1. local' \in Side
    BY <1>1, <1>10, WithoutType DEF UserRemoveDir
  <2>2. ino' \in Ids
    BY <1>1, <1>10 DEF UserRemoveDir, Ids
  <2>3. Dirty({d} \union {p \in Under(d) : local[p] # 0}) \in Change
    <3>1. {d} \union {p \in Under(d) : local[p] # 0} \in SUBSET Locs
      BY DEF Locs, Under
    <3> QED BY <3>1, ChangeTypes
  <2> QED BY <1>5, <1>10, <2>1, <2>2, <2>3 DEF UserRemoveDir
<1>11. \A v \in 1..(FreshVersion - 1) : v \in Nat
  BY <1>3
<1> QED
  BY <1>3, <1>6, <1>7, <1>8, <1>9, <1>10, <1>11 DEF User

\* Taking changes keeps the types (Pair::push_changes).
LEMMA TypePushChanges == TypeOK /\ PushChanges => TypeOK'
<1> SUFFICES ASSUME TypeOK, PushChanges PROVE TypeOK'
  OBVIOUS
<1>1. PICK taken \in {events, NoChange} :
        LET c == Merge(retry, taken)
        IN  /\ events' = IF taken = events THEN NoChange ELSE events
            /\ OnlyEchoes(c) \/ NeverSynced \/ NothingListed \/ BeginPush(c)
  BY DEF PushChanges
<1> DEFINE c == Merge(retry, taken)
<1>2. c \in Change /\ events' \in Change /\ retry' \in Change
  BY <1>1, ChangeTypes DEF TypeOK, PushChanges
<1>3. NotEchoes(c) \in Change
  BY <1>2 DEF NotEchoes, Change
<1>4. /\ (local \in Side /\ remote \in Side)' /\ (ino \in Ids)' /\ (clock \in Nat)'
      /\ (lst1 \in Side)' /\ (lst2 \in Side)' /\ (listed \in BOOLEAN)'
      /\ (located \in BOOLEAN)' /\ (knownFile \in SUBSET Files)'
      /\ (known \in SUBSET Files)' /\ (ids \in Ids)'
      /\ (failing \in SUBSET Renames)' /\ (expired \in SUBSET failing)'
      /\ (givenUp \in SUBSET Renames)'
  BY DEF TypeOK, PushChanges, Side, Ids
<1> HIDE DEF c
<1>5. CASE OnlyEchoes(c) \/ NeverSynced
  BY <1>2, <1>4, <1>5 DEF TypeOK, OnlyEchoes, NeverSynced, batch, Side, Ids
<1>6. CASE NothingListed
  BY <1>2, <1>4, <1>6, ChangeTypes DEF TypeOK, NothingListed, batch, Side, Ids
<1>7. CASE BeginPush(c)
  BY <1>2, <1>3, <1>4, <1>7, ChangeTypes
     DEF TypeOK, BeginPush, Side, Ids, Phases, Change
<1> QED BY <1>1, <1>5, <1>6, <1>7 DEF c

\* What the steps of a batch leave alone keeps its type.
Untouched ==
  /\ local \in Side /\ ino \in Ids /\ events \in Change /\ clock \in Nat
  /\ lst1 \in Side /\ lst2 \in Side
  /\ listed \in BOOLEAN /\ located \in BOOLEAN
  /\ knownFile \in SUBSET Files /\ pendingFile \in Seq(Renames)
  /\ retry \in Change /\ pending \in Change
LEMMA UntouchedStays ==
  TypeOK /\ UNCHANGED <<local, ino, events, clock, disk, retry, pending, located>>
    => Untouched'
BY DEF TypeOK, Untouched, disk, Side, Ids

\* The first element of a nonempty queue of renames, and the others.
LEMMA RenamesType ==
  /\ \A k \in Renames : k[1] \in Locs /\ k[2] \in Locs
  /\ \A s \in Seq(Renames) : s # <<>> => Head(s) \in Renames /\ Tail(s) \in Seq(Renames)
<1>1. \A k \in Renames : k[1] \in Locs /\ k[2] \in Locs
  BY DEF Renames, Locs
<1>2. \A s \in Seq(Renames) : s # <<>> => Head(s) \in Renames /\ Tail(s) \in Seq(Renames)
  OBVIOUS
<1> QED BY <1>1, <1>2

\* Beginning to follow a rename keeps the types (push.rs, rename).
LEMMA TypeBeginRename == TypeOK /\ BeginRename => TypeOK'
<1> SUFFICES ASSUME TypeOK, BeginRename PROVE TypeOK'
  OBVIOUS
<1> DEFINE k == Head(todo)
<1>1. k \in Renames /\ todo' \in Seq(Renames) /\ k[1] \in Locs /\ k[2] \in Locs
  BY RenamesType DEF TypeOK, BeginRename
<1>2. /\ moves' \in SUBSET Renames
      /\ current' \in (Dirs \X Dirs) \union {NoRename}
      /\ dirty' \in SUBSET Locs
  <2>1. CASE FollowedAs(k) = "excluded"
    BY <1>1, <2>1 DEF TypeOK, BeginRename
  <2>2. CASE FollowedAs(k) = "folder"
    <3>1. k \in Dirs \X Dirs
      <4>1. k[2] \in Dirs
        BY <2>2 DEF FollowedAs
      <4> QED BY <1>1, <4>1, TreeAssumption DEF Renames
    <3>2. Members(k[1], k[2]) \in SUBSET Renames
      BY <3>1, RebaseType DEF Members, Under, Renames, Dirs
    <3> HIDE DEF k
    <3> QED BY <2>2, <3>1, <3>2 DEF TypeOK, BeginRename, k
  <2>3. CASE FollowedAs(k) = "file"
    BY <1>1, <2>3 DEF TypeOK, BeginRename
  <2> QED BY <2>1, <2>2, <2>3 DEF BeginRename
<1> HIDE DEF k
<1> QED BY <1>1, <1>2 DEF TypeOK, BeginRename, sides, disk, memory

\* And so does ending the rename of a folder.
LEMMA TypeEndDirRename == TypeOK /\ EndDirRename => TypeOK'
<1> SUFFICES ASSUME TypeOK, EndDirRename PROVE TypeOK'
  OBVIOUS
<1>1. current \in Dirs \X Dirs
  BY DEF TypeOK, EndDirRename
<1>2. current[1] \in Locs /\ current[2] \in Locs
  BY <1>1 DEF Locs
<1>3. l1' \in Side /\ l2' \in Side
  BY <1>2, ListingTypes DEF TypeOK, EndDirRename, Side
<1> QED BY <1>1, <1>2, <1>3 DEF TypeOK, EndDirRename, sides, disk, memory, Side

\* What move_one changes keeps its type, however the call ends.
MoveState ==
  /\ remote \in Side /\ l1 \in Side /\ l2 \in Side
  /\ known \in SUBSET Files /\ ids \in Ids
  /\ failing \in SUBSET Renames /\ expired \in SUBSET failing
  /\ givenUp \in SUBSET Renames
  /\ dirty \in SUBSET Locs /\ deletes \in SUBSET Files /\ prune \in SUBSET Dirs
  /\ again \in Change

\* A move the engine carries out is one of a file to a file.
LEMMA SafeMoveType ==
  TypeOK => \A k \in Renames : MoveIsSafe(k) => k[1] \in Files /\ k[2] \in Files
BY DEF TypeOK, MoveIsSafe, OnRemote, Contains

LEMMA TypeMove ==
  ASSUME TypeOK, NEW k \in Renames,
         MoveUnsafe(k) \/ \E o \in Outcomes : MoveCalled(k, o)
  PROVE  MoveState'
<1>1. k[1] \in Locs /\ k[2] \in Locs
  BY RenamesType
<1>2. MoveState
  BY DEF TypeOK, MoveState, Side, Ids
<1>3. FallBack(k) => (/\ l1 \in Side /\ l2 \in Side /\ known \in SUBSET Files
                      /\ ids \in Ids /\ dirty \in SUBSET Locs
                      /\ deletes \in SUBSET Files /\ prune \in SUBSET Dirs
                      /\ again \in Change)'
  BY <1>1, <1>2 DEF FallBack, MoveState
<1>4. TryAgain(k) => (/\ l1 \in Side /\ l2 \in Side /\ known \in SUBSET Files
                      /\ ids \in Ids /\ dirty \in SUBSET Locs
                      /\ deletes \in SUBSET Files /\ prune \in SUBSET Dirs
                      /\ again \in Change)'
  BY <1>2, ChangeTypes DEF TryAgain, MoveState
<1>5. Settle(k) => failing' \in SUBSET Renames /\ expired' \in SUBSET failing'
  BY <1>2 DEF Settle, MoveState
<1>6. CASE MoveUnsafe(k)
  BY <1>2, <1>3, <1>6 DEF MoveUnsafe, MoveState
<1>7. ASSUME NEW o \in Outcomes, MoveCalled(k, o) PROVE MoveState'
  <2>1. k[1] \in Files /\ k[2] \in Files
    BY <1>7, SafeMoveType DEF MoveCalled
  <2>2. remote' \in Side
    <3>1. remote[k[1]] \in Nat
      BY <1>1, <1>2 DEF MoveState, Side
    <3> QED BY <1>1, <1>2, <1>7, <3>1, PutType, WithoutType
            DEF MoveCalled, RemoteMoved, MoveState
  <2>3. CASE Moved(k)
    <3>1. l1' \in Side /\ l2' \in Side
      BY <1>1, <1>2, <2>3, ListingTypes DEF Moved, MoveState
    <3>2. known' \in SUBSET Files /\ ids' \in Ids
      BY <1>2, <2>1, <2>3 DEF Moved, KnownAfter, MoveState, Ids
    <3>3. prune' \in SUBSET Dirs
      BY <1>2, <2>1, <2>3 DEF Moved, ParentDirs, MoveState, Files, Dirs
    <3>4. dirty' \in SUBSET Locs /\ deletes' \in SUBSET Files
      BY <1>1, <1>2, <2>3 DEF Moved, MoveState
    <3> QED BY <1>2, <1>5, <2>2, <2>3, <3>1, <3>2, <3>3, <3>4 DEF Moved, MoveState
  <2>4. CASE MoveFoundNothing(k)
    <3>1. l1' \in Side /\ l2' \in Side
      BY <1>1, <1>2, <2>4, ListingTypes DEF MoveFoundNothing, MoveState
    <3> QED BY <1>1, <1>2, <1>5, <2>2, <2>4, <3>1 DEF MoveFoundNothing, MoveState
  <2>5. CASE MoveBusy(k)
    BY <1>2, <1>3, <1>4, <1>5, <2>2, <2>5 DEF MoveBusy, MoveState
  <2>6. CASE MoveUnreachable(k) \/ MoveRefused(k)
    BY <1>2, <1>3, <1>4, <2>2, <2>6 DEF MoveUnreachable, MoveRefused, MoveState
  <2> QED BY <1>7, <2>3, <2>4, <2>5, <2>6 DEF MoveCalled
<1> QED BY <1>6, <1>7

LEMMA TypeMoveOne == TypeOK /\ MoveOne => TypeOK'
<1> SUFFICES ASSUME TypeOK, MoveOne PROVE TypeOK'
  OBVIOUS
<1>1. PICK k \in moves :
        /\ moves' = moves \ {k}
        /\ MoveUnsafe(k) \/ \E o \in Outcomes : MoveCalled(k, o)
  BY DEF MoveOne
<1>2. MoveState'
  BY <1>1, TypeMove DEF TypeOK
<1>3. Untouched'
  BY UntouchedStays DEF MoveOne
<1>4. (/\ pc \in Phases /\ todo \in Seq(Renames) /\ moves \in SUBSET Renames
       /\ current \in (Dirs \X Dirs) \union {NoRename}
       /\ uploads \in SUBSET Files)'
  BY <1>1 DEF TypeOK, MoveOne
<1> QED BY <1>2, <1>3, <1>4 DEF TypeOK, MoveState, Untouched, Side, Ids

\* The steps that only turn a page, or save: classify, the ends of the loops,
\* the listings, the end of a batch, a deadline, a lockout.
LEMMA TypeSmallSteps ==
  ASSUME TypeOK,
         \/ Classify \/ BeginUploads \/ BeginDeletes \/ BeginPrune
         \/ SaveListing1 \/ SaveListing2 \/ SaveFails \/ NotePushed
         \/ DeadlinePasses \/ Lockout
  PROVE  TypeOK'
<1>1. CASE Classify
  <2>1. /\ uploads' \in SUBSET Files /\ deletes' \in SUBSET Files
        /\ moves' \in SUBSET Renames
    BY <1>1 DEF Classify, UploadsOf, DeletesOf, IdentityPairs, Renames
  <2> QED BY <1>1, <2>1 DEF TypeOK, Classify, sides, disk, memory, Phases
<1>2. CASE BeginUploads \/ BeginDeletes \/ BeginPrune
  BY <1>2 DEF TypeOK, BeginUploads, BeginDeletes, BeginPrune, sides, disk, memory, Phases
<1>3. CASE SaveListing1 \/ SaveListing2 \/ NotePushed
  BY <1>3 DEF TypeOK, SaveListing1, SaveListing2, NotePushed, sides, memory, Phases
<1>6. CASE SaveFails
  BY <1>6, ChangeTypes DEF TypeOK, SaveFails, sides, disk, memory, Phases
<1>4. CASE DeadlinePasses
  BY <1>4 DEF TypeOK, DeadlinePasses, sides, disk, batch
<1>5. CASE Lockout
  BY <1>5 DEF TypeOK, Lockout, sides, memory, batch
<1> QED BY <1>1, <1>2, <1>3, <1>4, <1>5, <1>6

LEMMA TypeEndPush == TypeOK /\ EndPush => TypeOK'
<1> SUFFICES ASSUME TypeOK, EndPush PROVE TypeOK'
  OBVIOUS
<1>1. again.renames \in Seq(Renames)
  BY DEF TypeOK, Change
<1>2. /\ retry' \in Change /\ pending' \in Change /\ again' \in Change
      /\ pendingFile' \in Seq(Renames)
  BY <1>1, ChangeTypes DEF TypeOK, EndPush, PendingSaved
<1> QED BY <1>2 DEF TypeOK, EndPush, sides, Phases

\* Uploading, deleting and pruning keep the types.
LEMMA TypeUpload == TypeOK /\ Upload => TypeOK'
<1> SUFFICES ASSUME TypeOK, Upload PROVE TypeOK'
  OBVIOUS
<1>1. PICK p \in uploads, o \in Outcomes :
        /\ uploads' = uploads \ {p}
        /\ remote' = Uploaded(p, o)
        /\ IF o = "ok" /\ local[p] # 0
           THEN known' = known \union {p} /\ ids' = [ids EXCEPT ![p] = ino[p]]
           ELSE UNCHANGED <<known, ids>>
        /\ again' = Retried(p, o)
  BY DEF Upload
<1>2. p \in Files /\ p \in Locs
  BY DEF TypeOK, Locs
<1>3. remote' \in Side
  BY <1>1, <1>2, PutType DEF TypeOK, Uploaded, Side
<1>4. known' \in SUBSET Files /\ ids' \in Ids /\ uploads' \in SUBSET Files
  BY <1>1, <1>2 DEF TypeOK, Ids
<1>5. again' \in Change
  BY <1>1, <1>2, ChangeTypes DEF TypeOK, Retried
<1> QED BY <1>3, <1>4, <1>5 DEF TypeOK, Upload, disk, Side, Ids

LEMMA TypeDelete == TypeOK /\ Delete => TypeOK'
<1> SUFFICES ASSUME TypeOK, Delete PROVE TypeOK'
  OBVIOUS
<1>1. PICK p \in deletes, o \in Outcomes :
        /\ deletes' = deletes \ {p}
        /\ remote' = IF CarriedOut(o) THEN Without(remote, {p}) ELSE remote
        /\ IF o = "ok" THEN ForgetFile(p)
           ELSE UNCHANGED <<l1, l2, known, ids, prune>>
        /\ again' = Retried(p, o)
  BY DEF Delete
<1>2. p \in Files /\ p \in Locs
  BY DEF TypeOK, Locs
<1>3. remote' \in Side /\ deletes' \in SUBSET Files
  BY <1>1, WithoutType DEF TypeOK, Side
<1>4. l1' \in Side /\ l2' \in Side
  <2>1. l1 \in Side /\ l2 \in Side
    BY DEF TypeOK, Side
  <2>2. RemoveEntry(l1, p) \in Side /\ RemoveEntry(l2, p) \in Side
    BY <1>2, <2>1, RemoveEntryType
  <2> QED BY <1>1, <2>1, <2>2 DEF ForgetFile
<1>5. known' \in SUBSET Files /\ ids' \in Ids /\ prune' \in SUBSET Dirs
  BY <1>1, <1>2 DEF TypeOK, ForgetFile, ParentDirs, Ids, Files, Dirs
<1>6. again' \in Change
  BY <1>1, <1>2, ChangeTypes DEF TypeOK, Retried
<1> QED BY <1>3, <1>4, <1>5, <1>6 DEF TypeOK, Delete, disk, Side, Ids

LEMMA TypePrune == TypeOK /\ Prune => TypeOK'
<1> SUFFICES ASSUME TypeOK, Prune PROVE TypeOK'
  OBVIOUS
<1>1. PICK d \in prune, o \in Outcomes :
        /\ prune' = prune \ {d}
        /\ remote' = IF CarriedOut(o) /\ EmptyOnRemote(d)
                     THEN Without(remote, {d}) ELSE remote
        /\ IF o = "ok" /\ EmptyOnRemote(d)
           THEN l1' = RemoveEntry(l1, d) /\ l2' = RemoveEntry(l2, d)
           ELSE UNCHANGED <<l1, l2>>
  BY DEF Prune
<1>2. d \in Locs
  BY DEF TypeOK, Locs
<1>3. remote' \in Side
  BY <1>1, WithoutType DEF TypeOK, Side
<1>4. l1' \in Side /\ l2' \in Side
  <2>1. l1 \in Side /\ l2 \in Side
    BY DEF TypeOK, Side
  <2>2. RemoveEntry(l1, d) \in Side /\ RemoveEntry(l2, d) \in Side
    BY <1>2, <2>1, RemoveEntryType
  <2> QED BY <1>1, <2>1, <2>2
<1>5. prune' \in SUBSET Dirs
  BY <1>1 DEF TypeOK
<1> QED BY <1>3, <1>4, <1>5 DEF TypeOK, Prune, sides, disk, memory, Side

\* A pass, whatever tree it merges the sides into, keeps the types.
LEMMA TypePass ==
  ASSUME TypeOK, NEW merged \in Side, PassLeaves(merged)
  PROVE  TypeOK'
<1> DEFINE tree == Applied(local, merged)
           written == {x \in Locs : tree[x] # local[x]}
           born == [p \in Files |-> IF p \notin written THEN ino[p]
                                    ELSE IF tree[p] = 0 THEN NoId
                                    ELSE Born(p, clock + 1)]
<1>1. /\ local' = tree /\ ino' = born /\ remote' = Applied(remote, merged)
      /\ events' = Merge(events, Dirty(written))
      /\ clock' = IF written = {} THEN clock ELSE clock + 1
      /\ lst1' = Listed(merged) /\ lst2' = Listed(merged)
      /\ l1' = Listed(merged) /\ l2' = Listed(merged)
      /\ known' = {} /\ knownFile' = {}
      /\ ids' = Scanned(born)
      /\ listed' = TRUE /\ located' = TRUE
      /\ UNCHANGED <<pendingFile, failing, expired, givenUp, retry, pending,
                     pc, todo, current, moves, dirty, uploads, deletes, prune, again>>
  BY Zenon DEF PassLeaves
<1>2. tree \in Side /\ Applied(remote, merged) \in Side /\ Listed(merged) \in Side
  BY AppliedTypes DEF TypeOK, Side
<1>3. born \in Ids
  BY DEF TypeOK, Ids, FileIds, Born
<1>4. Scanned(born) \in Ids
  BY <1>3, ScannedType
<1>5. Dirty(written) \in Change
  BY ChangeTypes
<1>6. events' \in Change /\ clock' \in Nat
  BY <1>1, <1>5, ChangeTypes DEF TypeOK
<1> HIDE DEF tree, written, born
<1> QED BY <1>1, <1>2, <1>3, <1>4, <1>6 DEF TypeOK, Side, Ids

LEMMA TypePullAndResync == TypeOK /\ (Pull \/ Resync) => TypeOK'
<1> SUFFICES ASSUME TypeOK, Pull \/ Resync PROVE TypeOK'
  OBVIOUS
<1>1. MergedTree(local, lst1, remote, lst2) \in Side
  BY PassTypes DEF TypeOK, Side
<1>2. ResyncedTree(local, remote) \in Side
  BY PassTypes, NothingType DEF TypeOK, Side, ResyncedTree
<1> QED BY <1>1, <1>2, TypePass DEF Pull, Resync

\* A restart keeps the types.
LEMMA TypeRestart == TypeOK /\ Restart => TypeOK'
<1> SUFFICES ASSUME TypeOK, Restart PROVE TypeOK'
  OBVIOUS
<1>1. ids' \in Ids
  BY ScannedType DEF TypeOK, Restart, Ids
<1>2. /\ events' \in Change /\ again' \in Change /\ retry' \in Change
      /\ pending' \in Change
  BY ChangeTypes DEF TypeOK, Restart, Change
<1> QED BY <1>1, <1>2 DEF TypeOK, Restart, disk, Phases, Ids

LEMMA TypeNext == TypeOK /\ [Next]_vars => TypeOK'
<1> SUFFICES ASSUME TypeOK, [Next]_vars PROVE TypeOK'
  OBVIOUS
<1>1. CASE UNCHANGED vars
  BY <1>1 DEF TypeOK, vars, sides, disk, memory, batch
<1>2. CASE Next
  BY <1>2, TypeUser, TypePushChanges, TypeBeginRename, TypeEndDirRename,
     TypeMoveOne, TypeSmallSteps, TypeEndPush, TypeUpload, TypeDelete,
     TypePrune, TypePullAndResync, TypeRestart DEF Next, Engine
<1> QED BY <1>1, <1>2

\* Every variable of the push engine keeps its type, in every behaviour: no
\* rename of a folder is ever taken for one of a file or the other way round,
\* nothing but a file is uploaded, moved or deleted, and only a deadline that
\* runs can expire.
THEOREM TypeCorrect == Spec => []TypeOK
<1>1. Init => TypeOK
  BY TypeInit
<1>2. TypeOK /\ [Next]_vars => TypeOK'
  BY TypeNext
<1> QED BY <1>1, <1>2, PTL DEF Spec

-----------------------------------------------------------------------------
(***************************************************************************)
(* What the remote holds, the engine knows of.                             *)
(*                                                                         *)
(* RemoteTracked is not inductive: a restart replaces the listing and the  *)
(* set of uploaded paths in memory by those on disk, so these must agree   *)
(* whenever a restart may happen, which without crashes is between         *)
(* batches; and it must hold while the listings are locked away, since     *)
(* that comes and goes.                                                    *)
(***************************************************************************)
HeldIsKnown == \A p \in Files \intersect Kept : remote[p] # 0 => OnRemote(p)

Saved ==
  /\ pc \in {"idle", "note", "noted"} => lst2 = l2
  /\ pc \in {"idle", "noted"} => knownFile = known

Tracked == HeldIsKnown /\ Saved

LEMMA TrackedInit == Init => Tracked
<1> SUFFICES ASSUME Init PROVE Tracked
  OBVIOUS
<1>1. \A p \in Files \intersect Kept : l2[p] = remote[p]
  BY DEF Init, Listed, Locs
<1>2. HeldIsKnown
  BY <1>1 DEF HeldIsKnown, OnRemote, Contains
<1>3. Saved
  BY DEF Init, Saved
<1> QED BY <1>2, <1>3 DEF Tracked

\* A step that changes neither the remote's files, nor the listing's, nor what
\* was uploaded.
LEMMA TrackedUnmoved ==
  ASSUME HeldIsKnown, known' = known,
         \A p \in Files : remote'[p] = remote[p] /\ l2'[p] = l2[p]
  PROVE  HeldIsKnown'
BY DEF HeldIsKnown, OnRemote, Contains

\* A file is not a folder.
LEMMA FilesAreNotDirs ==
  \A p \in Files : p \notin Dirs /\ p \in Locs /\ p # p[1]
<1>1. \A p \in Files : p \notin Dirs /\ p \in Locs
  BY TreeAssumption DEF Locs
<1>2. \A p \in Files : p[1] \in Dirs \/ p[1] = Top
  BY DEF Files, Dirs
<1> QED BY <1>1, <1>2, TreeAssumption

\* A move carried out takes the engine's knowledge with it, if its answer is
\* not lost.
LEMMA TrackedMove ==
  ASSUME "lost" \notin Outcomes, TypeOK, HeldIsKnown, NEW k \in Renames,
         MoveUnsafe(k) \/ \E o \in Outcomes : MoveCalled(k, o)
  PROVE  HeldIsKnown'
<1>1. CASE MoveUnsafe(k)
  BY <1>1, TrackedUnmoved DEF MoveUnsafe, FallBack
<1>2. ASSUME NEW o \in Outcomes, MoveCalled(k, o) PROVE HeldIsKnown'
  <2>1. /\ k[1] \in Files /\ k[2] \in Files /\ OnRemote(k[1]) /\ k[1] # k[2]
    BY <1>2, SafeMoveType DEF MoveCalled, MoveIsSafe
  <2>2. CASE o # "ok"
    <3>1. remote' = remote
      BY <1>2, <2>2 DEF MoveCalled, CarriedOut
    <3>2. UNCHANGED <<l2, known>>
      BY <1>2, <2>2 DEF MoveCalled, MoveBusy, MoveUnreachable, MoveRefused,
                        TryAgain, FallBack
    <3> QED BY <3>1, <3>2, TrackedUnmoved
  <2>3. CASE o = "ok" /\ Moved(k)
    <3>1. remote' = Put(Without(remote, {k[1]}), k[2], remote[k[1]])
      BY <1>2, <2>3 DEF MoveCalled, CarriedOut, RemoteMoved, Moved
    <3>2. \A p \in Files : p # k[2][1]
      <4>1. k[2][1] \in Dirs \/ k[2][1] = Top
        BY <2>1 DEF Files, Dirs
      <4> QED BY <4>1, FilesAreNotDirs, TreeAssumption
    <3>3. \A p \in Files \ {k[1], k[2]} : remote'[p] = remote[p]
      BY <3>1, <3>2, FilesAreNotDirs DEF Put, Without
    <3>4. remote'[k[1]] = 0
      BY <3>1, <3>2, <2>1, FilesAreNotDirs DEF Put, Without
    <3>5. \A p \in Files \ {k[1], k[2]} :
            (l2'[p] = l2[p]) /\ (p \in known' <=> p \in known)
      BY <2>1, <2>3 DEF Moved, KnownAfter, RenameEntry, TypeOK, Locs
    <3>6. OnRemote(k[2])'
      <4>1. CASE Contains(l2, k[1])
        BY <2>1, <2>3, <4>1 DEF Moved, RenameEntry, Contains, OnRemote, TypeOK, Locs
      <4>2. CASE k[1] \in known
        BY <2>3, <4>2 DEF Moved, KnownAfter, OnRemote
      <4> QED BY <2>1, <4>1, <4>2 DEF OnRemote
    <3> QED BY <3>3, <3>4, <3>5, <3>6 DEF HeldIsKnown, OnRemote, Contains
  <2>4. CASE o = "ok" /\ MoveFoundNothing(k)
    <3>1. remote' = remote /\ remote[k[1]] = 0
      BY <1>2, <2>4 DEF MoveCalled, CarriedOut, RemoteMoved, MoveFoundNothing
    <3>2. \A p \in Files \ {k[1]} :
            (l2'[p] = l2[p]) /\ (p \in known' <=> p \in known)
      BY <2>1, <2>4 DEF MoveFoundNothing, RemoveEntry, TypeOK, Locs
    <3> QED BY <3>1, <3>2 DEF HeldIsKnown, OnRemote, Contains
  <2> QED BY <1>2, <2>2, <2>3, <2>4 DEF MoveCalled
<1> QED BY <1>1, <1>2

\* So do an upload and a deletion.
LEMMA TrackedUpload ==
  ASSUME "lost" \notin Outcomes, TypeOK, HeldIsKnown, Upload
  PROVE  HeldIsKnown'
<1>1. PICK p \in uploads, o \in Outcomes :
        /\ remote' = Uploaded(p, o)
        /\ IF o = "ok" /\ local[p] # 0
           THEN known' = known \union {p}
           ELSE UNCHANGED known
  BY DEF Upload
<1>2. p \in Files /\ l2' = l2
  BY DEF TypeOK, Upload
<1>3. CASE o = "ok" /\ local[p] # 0
  <2>1. \A q \in Files \ {p} : remote'[q] = remote[q]
    <3>1. p[1] \in Dirs \/ p[1] = Top
      BY <1>2 DEF Files, Dirs
    <3>2. \A q \in Files : q # p[1]
      BY <3>1, FilesAreNotDirs, TreeAssumption
    <3> QED BY <1>1, <1>3, <3>2, FilesAreNotDirs DEF Uploaded, CarriedOut, Put
  <2> QED BY <1>1, <1>2, <1>3, <2>1 DEF HeldIsKnown, OnRemote, Contains
<1>4. CASE ~(o = "ok" /\ local[p] # 0)
  <2>1. UNCHANGED <<remote, known>>
    BY <1>1, <1>4 DEF Uploaded, CarriedOut
  <2> QED BY <1>2, <2>1, TrackedUnmoved
<1> QED BY <1>3, <1>4

LEMMA TrackedDelete ==
  ASSUME "lost" \notin Outcomes, TypeOK, HeldIsKnown, Delete
  PROVE  HeldIsKnown'
<1>1. PICK p \in deletes, o \in Outcomes :
        /\ remote' = IF CarriedOut(o) THEN Without(remote, {p}) ELSE remote
        /\ IF o = "ok" THEN ForgetFile(p) ELSE UNCHANGED <<l2, known>>
  BY DEF Delete
<1>2. p \in Files
  BY DEF TypeOK
<1>3. CASE o = "ok"
  <2>1. remote'[p] = 0 /\ \A q \in Files \ {p} : remote'[q] = remote[q]
    BY <1>1, <1>2, <1>3, FilesAreNotDirs DEF CarriedOut, Without
  <2>2. \A q \in Files \ {p} : l2'[q] = l2[q] /\ (q \in known' <=> q \in known)
    BY <1>1, <1>2, <1>3 DEF ForgetFile, RemoveEntry, TypeOK, Locs
  <2> QED BY <2>1, <2>2 DEF HeldIsKnown, OnRemote, Contains
<1>4. CASE o # "ok"
  <2>1. UNCHANGED <<remote, l2, known>>
    BY <1>1, <1>4 DEF CarriedOut
  <2> QED BY <2>1, TrackedUnmoved
<1> QED BY <1>3, <1>4

\* Steps that only touch folders on the remote and in the listing.
LEMMA TrackedFolders ==
  ASSUME TypeOK, HeldIsKnown, EndDirRename \/ Prune
  PROVE  HeldIsKnown'
<1>1. CASE EndDirRename
  <2>1. current[1] \in Dirs /\ current[2] \in Dirs
    BY <1>1 DEF TypeOK, EndDirRename
  <2>2. \A p \in Files : l2'[p] = l2[p]
    BY <1>1, <2>1, FilesAreNotDirs DEF TypeOK, EndDirRename, RenameDirEntry
  <2> QED BY <1>1, <2>2, TrackedUnmoved DEF EndDirRename, sides, memory
<1>2. CASE Prune
  <2>1. PICK d \in prune, o \in Outcomes :
          /\ remote' = IF CarriedOut(o) /\ EmptyOnRemote(d)
                       THEN Without(remote, {d}) ELSE remote
          /\ IF o = "ok" /\ EmptyOnRemote(d)
             THEN l2' = RemoveEntry(l2, d) ELSE UNCHANGED l2
    BY <1>2 DEF Prune
  <2>2. d \in Dirs
    BY DEF TypeOK
  <2>3. \A p \in Files : remote'[p] = remote[p] /\ l2'[p] = l2[p]
    BY <2>1, <2>2, FilesAreNotDirs DEF TypeOK, Without, RemoveEntry
  <2> QED BY <1>2, <2>3, TrackedUnmoved DEF Prune, memory
<1> QED BY <1>1, <1>2

\* After a pass the listing has all that the remote holds.
LEMMA TrackedPass ==
  ASSUME NEW merged, PassLeaves(merged)
  PROVE  HeldIsKnown'
<1>1. remote' = Applied(remote, merged) /\ l2' = Listed(merged)
  BY DEF PassLeaves
<1>2. \A p \in Files \intersect Kept : remote'[p] = merged[p] /\ l2'[p] = merged[p]
  BY <1>1, FilesAreNotDirs DEF Applied, Listed
<1> QED BY <1>2 DEF HeldIsKnown, OnRemote, Contains

\* The engine's view is saved before it is relied on.
LEMMA SavedNext ==
  ASSUME "crash" \notin Faults, Saved, [Next]_vars
  PROVE  Saved'
<1> USE DEF Saved
<1>1. CASE UNCHANGED vars
  BY <1>1 DEF vars, disk, memory, batch
<1>2. CASE User
  BY <1>2 DEF User, UserWrite, UserDelete, UserRename, UserRenameDir,
              UserRemoveDir, Edit, disk, memory, batch
<1>3. CASE PushChanges
  <2>1. UNCHANGED <<lst2, knownFile, known>>
    BY <1>3 DEF PushChanges
  <2>2. UNCHANGED batch \/ pc' = "rename"
    BY <1>3 DEF PushChanges, OnlyEchoes, NeverSynced, NothingListed, BeginPush
  <2> QED BY <2>1, <2>2 DEF batch
<1>4. CASE BeginRename \/ EndDirRename \/ MoveOne \/ Classify \/ BeginUploads
           \/ Upload \/ BeginDeletes \/ Delete \/ BeginPrune \/ Prune
  <2>1. pc' \notin {"idle", "note", "noted"}
    BY <1>4 DEF BeginRename, EndDirRename, MoveOne, Classify, BeginUploads,
                Upload, BeginDeletes, Delete, BeginPrune, Prune
  <2> QED BY <2>1
<1>5. CASE SaveListing1 \/ SaveListing2 \/ SaveFails \/ NotePushed \/ EndPush
  BY <1>5 DEF SaveListing1, SaveListing2, SaveFails, NotePushed, EndPush, memory, disk
<1>6. CASE DeadlinePasses
  BY <1>6 DEF DeadlinePasses, disk, batch
<1>7. CASE Pull \/ Resync
  BY <1>7 DEF Pull, Resync, PassLeaves
<1>8. CASE Lockout
  BY <1>8 DEF Lockout, memory, batch
<1>9. CASE Restart
  BY <1>9 DEF Restart, disk
<1> QED BY <1>1, <1>2, <1>3, <1>4, <1>5, <1>6, <1>7, <1>8, <1>9 DEF Next, Engine

LEMMA TrackedNext ==
  ASSUME "lost" \notin Outcomes, Faults \intersect {"crash", "unsaved"} = {},
         TypeOK, Tracked, [Next]_vars
  PROVE  Tracked'
<1>1. HeldIsKnown /\ Saved
  BY DEF Tracked
<1>2. Saved'
  BY <1>1, SavedNext
<1> SUFFICES HeldIsKnown'
  BY <1>2 DEF Tracked
<1>3. CASE UNCHANGED vars
  BY <1>1, <1>3, TrackedUnmoved DEF vars, sides, memory, batch
<1>4. CASE User
  <2>1. UNCHANGED <<remote, known, l2>>
    BY <1>4 DEF User, UserWrite, UserDelete, UserRename, UserRenameDir,
                UserRemoveDir, Edit, memory, batch
  <2> QED BY <1>1, <2>1, TrackedUnmoved
<1>5. CASE PushChanges
  <2>1. UNCHANGED <<remote, known>>
    BY <1>5 DEF PushChanges
  <2>2. l2' = l2
    BY <1>1, <1>5 DEF PushChanges, OnlyEchoes, NeverSynced, NothingListed,
                      BeginPush, batch, Saved
  <2> QED BY <1>1, <2>1, <2>2, TrackedUnmoved
<1>6. CASE MoveOne
  <2>1. PICK k \in moves : MoveUnsafe(k) \/ \E o \in Outcomes : MoveCalled(k, o)
    BY <1>6 DEF MoveOne
  <2>2. k \in Renames
    BY DEF TypeOK
  <2> QED BY <1>1, <2>1, <2>2, TrackedMove
<1>7. CASE Upload \/ Delete \/ EndDirRename \/ Prune
  BY <1>1, <1>7, TrackedUpload, TrackedDelete, TrackedFolders
<1>8. CASE BeginRename \/ Classify \/ BeginUploads \/ BeginDeletes \/ BeginPrune
           \/ SaveListing1 \/ SaveListing2 \/ SaveFails \/ NotePushed \/ EndPush
           \/ DeadlinePasses \/ Lockout
  <2>1. UNCHANGED <<remote, known, l2>>
    BY <1>8 DEF BeginRename, Classify, BeginUploads, BeginDeletes, BeginPrune,
                SaveListing1, SaveListing2, SaveFails, NotePushed, EndPush, DeadlinePasses, Lockout,
                sides, memory, batch
  <2> QED BY <1>1, <2>1, TrackedUnmoved
<1>9. CASE Pull \/ Resync
  BY <1>9, TrackedPass DEF Pull, Resync
<1>10. CASE Restart
  <2>1. pc = "idle"
    BY <1>10 DEF Restart
  <2>2. UNCHANGED <<remote, known, l2>>
    BY <1>1, <1>10, <2>1 DEF Restart, Saved
  <2> QED BY <1>1, <2>2, TrackedUnmoved
<1> QED
  BY <1>3, <1>4, <1>5, <1>6, <1>7, <1>8, <1>9, <1>10 DEF Next, Engine

\* Whatever the remote holds of the pair, the engine knows it to hold, so that
\* a file the user deletes or moves is deleted or moved there: as long as no
\* answer is lost on its way back, the listings can be written, and the daemon
\* is stopped between batches.  (All three are needed: README.md, section 4.)
THEOREM RemoteIsTracked ==
  ASSUME "lost" \notin Outcomes, Faults \intersect {"crash", "unsaved"} = {}
  PROVE  Spec => []RemoteTracked
<1>1. Init => TypeOK /\ Tracked
  BY TypeInit, TrackedInit
<1>2. TypeOK /\ Tracked /\ [Next]_vars => (TypeOK /\ Tracked)'
  BY TypeNext, TrackedNext
<1>3. TypeOK /\ Tracked => RemoteTracked
  BY DEF Tracked, HeldIsKnown, RemoteTracked
<1> QED BY <1>1, <1>2, <1>3, PTL DEF Spec

\* A move never lands on a file the remote holds, under the same conditions,
\* where nothing is excluded.  (An excluded file is in no listing, so the engine
\* cannot know of it, and the rename of a folder can move a file onto one.)
THEOREM MovesAreSafe ==
  ASSUME "lost" \notin Outcomes, Faults \intersect {"crash", "unsaved"} = {},
         Files \subseteq Kept
  PROVE  Spec => MovesNeverOverwrite
<1> DEFINE A == \A k \in moves : (k \notin moves' /\ remote'[k[2]] # remote[k[2]])
                                   => remote[k[2]] = 0
<1>1. Init => TypeOK /\ Tracked
  BY TypeInit, TrackedInit
<1>2. TypeOK /\ Tracked /\ [Next]_vars => (TypeOK /\ Tracked)'
  BY TypeNext, TrackedNext
<1>3. TypeOK /\ Tracked /\ [Next]_vars => [A]_vars
  <2> SUFFICES ASSUME TypeOK, Tracked, [Next]_vars, NEW k \in moves,
                      k \notin moves', remote'[k[2]] # remote[k[2]]
               PROVE  remote[k[2]] = 0
    OBVIOUS
  <2>1. remote' # remote /\ moves' # moves
    OBVIOUS
  <2>2. MoveOne
    <3>1. ~UNCHANGED vars
      BY <2>1 DEF vars, sides
    <3>2. ~User /\ ~DeadlinePasses /\ ~Lockout
      BY <2>1 DEF User, UserWrite, UserDelete, UserRename, UserRenameDir,
                  UserRemoveDir, Edit, DeadlinePasses, Lockout, sides, batch
    <3>3. ~PushChanges /\ ~BeginRename /\ ~EndDirRename /\ ~Classify
          /\ ~BeginUploads /\ ~BeginDeletes /\ ~BeginPrune
      BY <2>1 DEF PushChanges, BeginRename, EndDirRename, Classify,
                  BeginUploads, BeginDeletes, BeginPrune, sides
    <3>4. ~Upload /\ ~Delete /\ ~Prune /\ ~SaveListing1 /\ ~SaveListing2
          /\ ~SaveFails /\ ~NotePushed /\ ~EndPush
      BY <2>1 DEF Upload, Delete, Prune, SaveListing1, SaveListing2, SaveFails,
                  NotePushed, EndPush
    <3>5. ~Pull /\ ~Resync /\ ~Restart
      BY <2>1 DEF Pull, Resync, PassLeaves, Restart
    <3> QED BY <3>1, <3>2, <3>3, <3>4, <3>5 DEF Next, Engine
  <2>3. MoveIsSafe(k)
    BY <2>1, <2>2 DEF MoveOne, MoveUnsafe, MoveCalled
  <2>4. k[2] \in Files /\ ~OnRemote(k[2])
    BY <2>3 DEF MoveIsSafe
  <2> QED BY <2>4 DEF Tracked, HeldIsKnown
<1> QED BY <1>1, <1>2, <1>3, PTL DEF Spec, MovesNeverOverwrite

-----------------------------------------------------------------------------
(***************************************************************************)
(* What a restart needs is on disk between batches, even after a crash.    *)
(***************************************************************************)
Current ==
  /\ pc = "idle" => retry.renames \in {<<>>, pendingFile}
  /\ pc \in {"idle", "noted"} => knownFile = known

LEMMA CurrentNext == Current /\ [Next]_vars => Current'
<1> SUFFICES ASSUME Current, [Next]_vars PROVE Current'
  OBVIOUS
<1> USE DEF Current
<1>1. CASE UNCHANGED vars
  BY <1>1 DEF vars, disk, memory, batch
<1>2. CASE User
  BY <1>2 DEF User, UserWrite, UserDelete, UserRename, UserRenameDir,
              UserRemoveDir, Edit, disk, memory, batch
<1>3. CASE PushChanges
  <2>1. UNCHANGED <<knownFile, known>> /\ retry' = NoChange /\ pc = "idle"
    BY <1>3 DEF PushChanges
  <2>2. pc' \in {"idle", "rename"}
    BY <1>3, <2>1 DEF PushChanges, OnlyEchoes, NeverSynced, NothingListed,
                      BeginPush, batch
  <2> QED BY <2>1, <2>2 DEF NoChange
<1>4. CASE BeginRename \/ EndDirRename \/ MoveOne \/ Classify \/ BeginUploads
           \/ Upload \/ BeginDeletes \/ Delete \/ BeginPrune \/ Prune
           \/ SaveListing1 \/ SaveListing2 \/ SaveFails
  <2>1. pc' \notin {"idle", "noted"}
    BY <1>4 DEF BeginRename, EndDirRename, MoveOne, Classify, BeginUploads,
                Upload, BeginDeletes, Delete, BeginPrune, Prune,
                SaveListing1, SaveListing2, SaveFails
  <2> QED BY <2>1
<1>5. CASE NotePushed \/ EndPush
  BY <1>5 DEF NotePushed, EndPush, PendingSaved, memory
<1>6. CASE DeadlinePasses
  BY <1>6 DEF DeadlinePasses, disk, batch
<1>7. CASE Pull \/ Resync
  BY <1>7 DEF Pull, Resync, PassLeaves
<1>8. CASE Lockout
  BY <1>8 DEF Lockout, memory, batch
<1>9. CASE Restart
  BY <1>9 DEF Restart, disk
<1> QED BY <1>1, <1>2, <1>3, <1>4, <1>5, <1>6, <1>7, <1>8, <1>9 DEF Next, Engine

\* Between batches the two files hold what a restart reads back: every rename
\* still queued, and exactly the paths pushed since the last pull.  This needs
\* no condition on answers or crashes, or on the listings being written.
THEOREM FilesStayCurrent == Spec => []FilesCurrent
<1>1. Init => Current
  BY DEF Init, Current, NoChange
<1>2. Current => FilesCurrent
  BY DEF Current, FilesCurrent
<1> QED BY <1>1, <1>2, CurrentNext, PTL DEF Spec

-----------------------------------------------------------------------------
(***************************************************************************)
(* What is excluded.                                                       *)
(*                                                                         *)
(* Each call is for a path that was checked against the filter when the    *)
(* batch was put together; only the files of a folder that is renamed are  *)
(* not checked one by one.  They need not be where the filter keeps or     *)
(* excludes folders whole, and there are none where folders are not        *)
(* renamed: but a queue may bring such a rename back later, so that must   *)
(* be known of every queue.                                                *)
(***************************************************************************)
WholeFolders == \A p \in Files : p[1] \in Kept => p \in Kept

NoFolderRenames ==
  "renamedir" \notin UserOps =>
    /\ \A s \in {events.renames, retry.renames, again.renames, pendingFile, todo} :
         s \in Seq(Files \X Files)
    /\ moves \subseteq Files \X Files

Confined ==
  /\ uploads \subseteq Kept /\ deletes \subseteq Kept
  /\ \A k \in moves : k[1] \in Kept /\ k[2] \in Kept

\* A pair of files is not one of folders.
LEMMA FileRename == \A k \in Files \X Files : k[2] \notin Dirs
BY TreeAssumption

LEMMA NoFoldersInit == Init => NoFolderRenames
BY DEF Init, NoFolderRenames, NoChange

\* What the parts of a change are, and what queues are put together from.
LEMMA QueuesOf ==
  /\ NoChange.renames = <<>> /\ <<>> \in Seq(Files \X Files)
  /\ \A S : Dirty(S).renames = <<>>
  /\ \A k : Rename(k).renames = <<k>>
  /\ \A c, d : Merge(c, d).renames = c.renames \o d.renames
  /\ \A s, t \in Seq(Files \X Files) : s \o t \in Seq(Files \X Files)
  /\ \A k \in Files \X Files : <<k>> \in Seq(Files \X Files)
<1>1. NoChange.renames = <<>> /\ <<>> \in Seq(Files \X Files)
  BY DEF NoChange
<1>2. \A S : Dirty(S).renames = <<>>
  BY DEF Dirty
<1>3. \A k : Rename(k).renames = <<k>>
  BY DEF Rename
<1>4. \A c, d : Merge(c, d).renames = c.renames \o d.renames
  BY DEF Merge
<1>5. \A s, t \in Seq(Files \X Files) : s \o t \in Seq(Files \X Files)
  OBVIOUS
<1>6. \A k \in Files \X Files : <<k>> \in Seq(Files \X Files)
  OBVIOUS
<1> QED BY <1>1, <1>2, <1>3, <1>4, <1>5, <1>6

LEMMA NoFoldersNext == TypeOK /\ NoFolderRenames /\ [Next]_vars => NoFolderRenames'
<1> SUFFICES ASSUME TypeOK, NoFolderRenames, [Next]_vars, "renamedir" \notin UserOps
             PROVE  /\ events'.renames \in Seq(Files \X Files)
                    /\ retry'.renames \in Seq(Files \X Files)
                    /\ again'.renames \in Seq(Files \X Files)
                    /\ pendingFile' \in Seq(Files \X Files)
                    /\ todo' \in Seq(Files \X Files)
                    /\ moves' \subseteq Files \X Files
  BY DEF NoFolderRenames
<1>1. /\ events.renames \in Seq(Files \X Files) /\ retry.renames \in Seq(Files \X Files)
      /\ again.renames \in Seq(Files \X Files) /\ pendingFile \in Seq(Files \X Files)
      /\ todo \in Seq(Files \X Files) /\ moves \subseteq Files \X Files
  BY DEF NoFolderRenames
<1>2. /\ NoChange.renames = <<>> /\ <<>> \in Seq(Files \X Files)
      /\ \A S : Dirty(S).renames = <<>>
      /\ \A k : Rename(k).renames = <<k>>
      /\ \A c, d : Merge(c, d).renames = c.renames \o d.renames
      /\ \A s, t \in Seq(Files \X Files) : s \o t \in Seq(Files \X Files)
      /\ \A k \in Files \X Files : <<k>> \in Seq(Files \X Files)
  BY QueuesOf
<1>3. CASE UNCHANGED <<events, retry, again, pendingFile, todo, moves>>
  BY <1>1, <1>3
<1>4. CASE User
  <2>1. /\ \E c : Edit(c) /\ c.renames \in Seq(Files \X Files)
    <3>1. ASSUME NEW p \in Files, NEW v, UserWrite(p, v)
          PROVE  \E c : Edit(c) /\ c.renames \in Seq(Files \X Files)
      BY <1>2, <3>1 DEF UserWrite
    <3>2. ASSUME NEW p \in Files, UserDelete(p)
          PROVE  \E c : Edit(c) /\ c.renames \in Seq(Files \X Files)
      BY <1>2, <3>2 DEF UserDelete
    <3>3. ASSUME NEW p \in Files, NEW q \in Files, UserRename(p, q)
          PROVE  \E c : Edit(c) /\ c.renames \in Seq(Files \X Files)
      <4>1. <<p, q>> \in Files \X Files
        OBVIOUS
      <4>2. CASE Edit(Rename(<<p, q>>))
        BY <1>2, <4>1, <4>2
      <4>3. CASE Edit(Dirty({p} \union Appeared(q)))
        BY <1>2, <4>3
      <4> QED BY <3>3, <4>2, <4>3 DEF UserRename
    <3>4. ASSUME NEW d \in Dirs, UserRemoveDir(d)
          PROVE  \E c : Edit(c) /\ c.renames \in Seq(Files \X Files)
      BY <1>2, <3>4 DEF UserRemoveDir
    <3> QED BY <1>4, <3>1, <3>2, <3>3, <3>4 DEF User
  <2>2. PICK c : Edit(c) /\ c.renames \in Seq(Files \X Files)
    BY <2>1
  <2>3. events'.renames \in Seq(Files \X Files)
    BY <1>1, <1>2, <2>2 DEF Edit
  <2>4. UNCHANGED <<retry, again, pendingFile, todo, moves>>
    BY <2>2 DEF Edit, disk, memory, batch
  <2> QED BY <1>1, <2>3, <2>4
<1>5. CASE PushChanges
  <2>1. PICK taken \in {events, NoChange} :
          LET c == Merge(retry, taken)
          IN  /\ events' = IF taken = events THEN NoChange ELSE events
              /\ OnlyEchoes(c) \/ NeverSynced \/ NothingListed \/ BeginPush(c)
    BY <1>5 DEF PushChanges
  <2> DEFINE c == Merge(retry, taken)
  <2>2. c.renames \in Seq(Files \X Files) /\ NotEchoes(c).renames = c.renames
    <3>1. taken.renames \in Seq(Files \X Files)
      BY <1>1, <1>2
    <3>2. c.renames \in Seq(Files \X Files)
      BY <1>1, <1>2, <3>1
    <3>3. NotEchoes(c).renames = c.renames
      BY DEF NotEchoes, Merge
    <3> QED BY <3>2, <3>3
  <2>3. events'.renames \in Seq(Files \X Files) /\ retry' = NoChange
    BY <1>1, <1>2, <1>5, <2>1 DEF PushChanges
  <2> HIDE DEF c
  <2>4. /\ again'.renames \in Seq(Files \X Files) /\ pendingFile' \in Seq(Files \X Files)
        /\ todo' \in Seq(Files \X Files) /\ moves' = moves
    <3>1. CASE OnlyEchoes(c) \/ NeverSynced \/ NothingListed
      BY <1>1, <1>2, <3>1 DEF OnlyEchoes, NeverSynced, NothingListed, batch
    <3>2. CASE BeginPush(c)
      BY <1>1, <1>2, <2>2, <3>2 DEF BeginPush
    <3> QED BY <2>1, <3>1, <3>2 DEF c
  <2> QED BY <1>1, <1>2, <2>3, <2>4
<1>6. CASE BeginRename
  <2> DEFINE k == Head(todo)
  <2>1. k \in Files \X Files /\ todo' \in Seq(Files \X Files)
    BY <1>1, <1>6 DEF BeginRename
  <2>2. FollowedAs(k) # "folder"
    BY <2>1, FileRename DEF FollowedAs
  <2>3. moves' \subseteq Files \X Files
    BY <1>1, <1>6, <2>1, <2>2 DEF BeginRename
  <2> QED BY <1>1, <1>6, <2>1, <2>3 DEF BeginRename, sides, disk, memory
<1>7. CASE MoveOne
  <2>1. PICK k \in moves :
          /\ moves' = moves \ {k}
          /\ MoveUnsafe(k) \/ \E o \in Outcomes : MoveCalled(k, o)
    BY <1>7 DEF MoveOne
  <2>2. again' = again \/ again' = Merge(again, Rename(k))
    BY <2>1 DEF MoveUnsafe, MoveCalled, FallBack, Moved, MoveFoundNothing, MoveBusy,
                MoveUnreachable, MoveRefused, TryAgain
  <2>3. again'.renames \in Seq(Files \X Files)
    <3>1. k \in Files \X Files
      BY <1>1, <2>1
    <3>2. Rename(k).renames \in Seq(Files \X Files)
      BY <1>2, <3>1
    <3>3. CASE again' = Merge(again, Rename(k))
      BY <1>1, <1>2, <3>2, <3>3
    <3> QED BY <1>1, <2>2, <3>3
  <2> QED BY <1>1, <1>7, <2>1, <2>3 DEF MoveOne, disk
<1>8. CASE Classify
  BY <1>1, <1>8 DEF Classify, IdentityPairs, UploadsOf, DeletesOf, sides, disk, memory
<1>9. CASE Upload \/ Delete
  <2>1. again' = again \/ \E p : again' = Merge(again, Dirty({p}))
    BY <1>9 DEF Upload, Delete, Retried
  <2>2. again'.renames \in Seq(Files \X Files)
    <3>1. ASSUME NEW p, again' = Merge(again, Dirty({p}))
          PROVE  again'.renames \in Seq(Files \X Files)
      <4>1. again'.renames = again.renames \o Dirty({p}).renames
        BY <3>1, QueuesOf
      <4>2. Dirty({p}).renames = <<>>
        BY QueuesOf
      <4>3. again.renames \o Dirty({p}).renames \in Seq(Files \X Files)
        <5>1. Dirty({p}).renames \in Seq(Files \X Files)
          BY <4>2, QueuesOf
        <5> QED BY <1>1, <1>2, <5>1
      <4> QED BY <4>1, <4>3
    <3> QED BY <1>1, <2>1, <3>1
  <2> QED BY <1>1, <1>9, <2>2 DEF Upload, Delete, disk
<1>10. CASE EndPush \/ SaveFails
  BY <1>1, <1>2, <1>10 DEF EndPush, PendingSaved, SaveFails, sides, disk, memory
<1>11. CASE Pull \/ Resync
  <2>1. /\ \E S : events' = Merge(events, Dirty(S))
        /\ UNCHANGED <<retry, again, pendingFile, todo, moves>>
    BY <1>11 DEF Pull, Resync, PassLeaves
  <2> QED BY <1>1, <1>2, <2>1
<1>12. CASE Restart
  BY <1>1, <1>2, <1>12 DEF Restart, disk
<1>13. CASE EndDirRename \/ BeginUploads \/ BeginDeletes \/ BeginPrune \/ Prune
            \/ SaveListing1 \/ SaveListing2 \/ NotePushed \/ DeadlinePasses \/ Lockout
  BY <1>3, <1>13 DEF EndDirRename, BeginUploads, BeginDeletes, BeginPrune, Prune,
     SaveListing1, SaveListing2, NotePushed, DeadlinePasses, Lockout, sides, disk, memory, batch
<1> QED
  BY <1>3, <1>4, <1>5, <1>6, <1>7, <1>8, <1>9, <1>10, <1>11, <1>12, <1>13
     DEF Next, Engine, vars, sides, disk, memory, batch

LEMMA ConfinedNext ==
  ASSUME WholeFolders \/ "renamedir" \notin UserOps,
         TypeOK, NoFolderRenames, Confined, [Next]_vars
  PROVE  Confined'
<1> USE DEF Confined
<1>1. CASE UNCHANGED <<uploads, deletes, moves>>
  BY <1>1
<1>2. CASE BeginRename
  <2> DEFINE k == Head(todo)
  <2>1. k \in Renames
    BY <1>2, RenamesType DEF TypeOK, BeginRename
  <2>2. CASE FollowedAs(k) = "excluded"
    BY <1>2, <2>2 DEF BeginRename
  <2>3. CASE FollowedAs(k) = "folder"
    <3>1. k[1] \in Kept /\ k[2] \in Kept /\ k[2] \in Dirs
      BY <2>3 DEF FollowedAs
    <3>2. WholeFolders
      <4>1. "renamedir" \notin UserOps => k \in Files \X Files
        BY <1>2 DEF NoFolderRenames, BeginRename
      <4> QED BY <3>1, <4>1, FileRename
    <3>3. \A p \in Under(k[1]) : p \in Kept /\ Rebase(p, k[2]) \in Kept
      <4> SUFFICES ASSUME NEW p \in Under(k[1]) PROVE p \in Kept /\ Rebase(p, k[2]) \in Kept
        OBVIOUS
      <4>1. p \in Files /\ p[1] = k[1]
        BY DEF Under
      <4>2. Rebase(p, k[2]) \in Files /\ Rebase(p, k[2])[1] = k[2]
        BY <3>1, <4>1, RebaseType DEF Rebase, Dirs
      <4> QED BY <3>1, <3>2, <4>1, <4>2 DEF WholeFolders
    <3>4. moves' = Members(k[1], k[2])
      BY <1>2, <2>3 DEF BeginRename
    <3>5. \A m \in Members(k[1], k[2]) : m[1] \in Kept /\ m[2] \in Kept
      BY <3>3 DEF Members
    <3> QED BY <1>2, <3>4, <3>5 DEF BeginRename
  <2>4. CASE FollowedAs(k) = "file"
    <3>1. k[1] \in Kept /\ k[2] \in Kept
      BY <2>4 DEF FollowedAs
    <3> QED BY <1>2, <2>4, <3>1 DEF BeginRename
  <2> QED BY <1>2, <2>2, <2>3, <2>4 DEF BeginRename
<1>3. CASE MoveOne
  <2>1. PICK k \in moves :
          /\ moves' = moves \ {k}
          /\ MoveUnsafe(k) \/ \E o \in Outcomes : MoveCalled(k, o)
    BY <1>3 DEF MoveOne
  <2>2. deletes' \subseteq deletes
    BY <2>1 DEF MoveUnsafe, MoveCalled, FallBack, Moved, MoveFoundNothing, MoveBusy,
                MoveUnreachable, MoveRefused, TryAgain
  <2> QED BY <1>3, <2>1, <2>2 DEF MoveOne
<1>4. CASE Classify
  <2>1. UploadsOf(dirty) \subseteq Kept /\ DeletesOf(dirty) \subseteq Kept
    BY DEF UploadsOf, DeletesOf
  <2>2. \A k \in IdentityPairs(UploadsOf(dirty), DeletesOf(dirty)) :
          k[1] \in DeletesOf(dirty) /\ k[2] \in UploadsOf(dirty)
    BY DEF IdentityPairs
  <2> QED BY <1>4, <2>1, <2>2 DEF Classify
<1>5. CASE Upload \/ BeginDeletes \/ Delete
  BY <1>5 DEF Upload, BeginDeletes, Delete
<1>6. CASE Restart
  BY <1>6 DEF Restart
<1>7. CASE User \/ PushChanges
  BY <1>1, <1>7 DEF User, UserWrite, UserDelete, UserRename, UserRenameDir,
     UserRemoveDir, Edit, PushChanges, OnlyEchoes, NeverSynced, NothingListed,
     BeginPush, batch
<1>8. CASE EndDirRename \/ BeginUploads \/ BeginPrune \/ Prune \/ SaveListing1
           \/ SaveListing2 \/ SaveFails \/ NotePushed \/ EndPush
           \/ DeadlinePasses \/ Pull \/ Resync \/ Lockout
  BY <1>1, <1>8 DEF EndDirRename, BeginUploads, BeginPrune, Prune, SaveListing1,
     SaveListing2, SaveFails, NotePushed, EndPush, DeadlinePasses, Pull, Resync, PassLeaves, Lockout, batch
<1> QED
  BY <1>1, <1>2, <1>3, <1>4, <1>5, <1>6, <1>7, <1>8 DEF Next, Engine, vars, batch

\* A step touches no file of the remote but those its call is for.
LEMMA ExcludedStays ==
  ASSUME TypeOK, Confined, [Next]_vars, NEW p \in Files \ Kept
  PROVE  remote'[p] = remote[p]
<1>1. p \in Locs /\ p \notin Dirs
  BY FilesAreNotDirs
<1>2. \A q \in Files : p # q[1]
  <2>1. \A q \in Files : q[1] \in Dirs \/ q[1] = Top
    BY DEF Files, Dirs
  <2> QED BY <1>1, <2>1, TreeAssumption
<1>3. CASE UNCHANGED remote
  BY <1>3
<1>4. CASE MoveOne
  <2>1. PICK k \in moves : MoveUnsafe(k) \/ \E o \in Outcomes : MoveCalled(k, o)
    BY <1>4 DEF MoveOne
  <2>2. CASE MoveUnsafe(k)
    BY <2>2 DEF MoveUnsafe
  <2>3. ASSUME NEW o \in Outcomes, MoveCalled(k, o) PROVE remote'[p] = remote[p]
    <3>1. k[1] \in Kept /\ k[2] \in Kept /\ k[2] \in Files
      BY <2>3 DEF Confined, MoveCalled, MoveIsSafe
    <3>2. RemoteMoved(k)[p] = remote[p]
      BY <1>1, <1>2, <3>1 DEF RemoteMoved, Put, Without
    <3> QED BY <2>3, <3>2 DEF MoveCalled
  <2> QED BY <2>1, <2>2, <2>3
<1>5. CASE Upload
  BY <1>1, <1>2, <1>5 DEF Upload, Uploaded, Put, Confined, TypeOK
<1>6. CASE Delete
  BY <1>1, <1>6 DEF Delete, Without, Confined
<1>7. CASE Prune
  BY <1>1, <1>7 DEF Prune, Without, TypeOK
<1>8. CASE Pull \/ Resync
  <2>1. \E m : remote' = Applied(remote, m)
    BY <1>8 DEF Pull, Resync, PassLeaves
  <2> QED BY <1>1, <2>1 DEF Applied
<1>9. CASE User \/ PushChanges
  BY <1>3, <1>9 DEF User, UserWrite, UserDelete, UserRename, UserRenameDir,
     UserRemoveDir, Edit, PushChanges
<1>10. CASE BeginRename \/ EndDirRename \/ Classify \/ BeginUploads \/ BeginDeletes
            \/ BeginPrune \/ SaveListing1 \/ SaveListing2 \/ SaveFails
            \/ NotePushed \/ EndPush \/ DeadlinePasses \/ Lockout \/ Restart
  BY <1>3, <1>10 DEF BeginRename, EndDirRename, Classify, BeginUploads, BeginDeletes,
     BeginPrune, SaveListing1, SaveListing2, SaveFails, NotePushed, EndPush,
     DeadlinePasses, Lockout, Restart, sides
<1> QED
  BY <1>3, <1>4, <1>5, <1>6, <1>7, <1>8, <1>9, <1>10 DEF Next, Engine, vars, sides

\* Nothing excluded is ever written on the remote, moved over or deleted there,
\* through crashes, restarts and retries alike, where the filter takes folders
\* whole or no folder is renamed.  (One that does neither can be made to carry a
\* file to an excluded path, push.rs:378, as a run of the README shows.)
THEOREM ExcludedIsLeftAlone ==
  ASSUME WholeFolders \/ "renamedir" \notin UserOps
  PROVE  Spec => ExcludedUntouched
<1> DEFINE Inv == TypeOK /\ NoFolderRenames /\ Confined
           A == \A p \in Files \ Kept : remote'[p] = remote[p]
<1>1. Init => Inv
  <2>1. Init => Confined
    BY DEF Init, Confined
  <2> QED BY <2>1, TypeInit, NoFoldersInit
<1>2. Inv /\ [Next]_vars => Inv'
  BY TypeNext, NoFoldersNext, ConfinedNext
<1>3. Inv /\ [Next]_vars => [A]_vars
  BY ExcludedStays
<1> QED BY <1>1, <1>2, <1>3, PTL DEF Spec, ExcludedUntouched
=============================================================================
