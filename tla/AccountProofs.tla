---------------------------- MODULE AccountProofs ----------------------------
(***************************************************************************)
(* That the push engine accounts for every difference between the two      *)
(* sides (module Push), for every tree and filter:                         *)
(*                                                                         *)
(*   FilesAreAccounted    a pull, whenever it comes, brings the remote to  *)
(*                        what the user has, except of a file pushed since *)
(*                        the last one, and that is still in hand;         *)
(*   FoldersAreAccounted  the same of folders: none that the user emptied  *)
(*                        or removed is left behind.                       *)
(*                                                                         *)
(* They are claims about the quiet days of a pair, and Calm says which     *)
(* those are.                                                              *)
(***************************************************************************)
EXTENDS PushProofs, SequenceTheorems

(***************************************************************************)
(* The user writes, deletes and renames files and removes folders; calls   *)
(* are carried out, never reach the server or find it busy; bisync may     *)
(* lock its listings away; and no batch has deletions enough for a storm.  *)
(* What else the model has loses track of a difference until the next pull *)
(* or resync: README.md, section 4, has an instance for each, the last     *)
(* conjunct's among them (a rename tried again after its source was        *)
(* written anew).                                                          *)
(***************************************************************************)
Calm ==
  /\ UserOps \subseteq {"write", "delete", "removedir", "rename"}
  /\ Outcomes \subseteq {"ok", "unreachable", "busy"}
  /\ Faults \subseteq {"lockout"}
  /\ Cardinality(Files) < MinStorm
  /\ "rename" \in UserOps => Outcomes \subseteq {"ok"}

-----------------------------------------------------------------------------
(***************************************************************************)
(* The paths a change names, and those it says something has arrived at.   *)
(***************************************************************************)
From(s) == {k[1] : k \in Range(s)}
To(s) == {k[2] : k \in Range(s)}
Ends(s) == From(s) \union To(s)
Named(c) == c.dirty \union Ends(c.renames)

\* Queues put together, taken apart, and empty.
LEMMA EndsOfConcat ==
  ASSUME NEW S, NEW s \in Seq(S), NEW t \in Seq(S)
  PROVE  /\ To(s \o t) = To(s) \union To(t)
         /\ Ends(s \o t) = Ends(s) \union Ends(t)
BY RangeConcatenation DEF From, To, Ends

LEMMA EndsOfFew ==
  /\ Ends(<<>>) = {} /\ To(<<>>) = {}
  /\ \A k : Ends(<<k>>) = {k[1], k[2]} /\ To(<<k>>) = {k[2]}
<1>1. Range(<<>>) = {} /\ \A k : Range(<<k>>) = {k}
  BY DEF Range
<1> QED BY <1>1 DEF Ends, From, To

LEMMA EndsOfQueue ==
  ASSUME NEW S, NEW s \in Seq(S), s # <<>>
  PROVE  /\ Ends(s) = {Head(s)[1], Head(s)[2]} \union Ends(Tail(s))
         /\ To(s) = {Head(s)[2]} \union To(Tail(s))
<1> DEFINE h == <<Head(s)>>
           t == Tail(s)
<1>1. h \in Seq(S) /\ t \in Seq(S) /\ s = h \o t
  OBVIOUS
<1>2. Ends(h) = {Head(s)[1], Head(s)[2]} /\ To(h) = {Head(s)[2]}
  BY EndsOfFew
<1> HIDE DEF h, t
<1>3. Ends(h \o t) = Ends(h) \union Ends(t) /\ To(h \o t) = To(h) \union To(t)
  BY <1>1, EndsOfConcat
<1> QED BY <1>1, <1>2, <1>3 DEF t

\* And the same of changes.
LEMMA NamedBy ==
  /\ Named(NoChange) = {}
  /\ \A S : Named(Dirty(S)) = S
  /\ \A k : Named(Rename(k)) = {k[1], k[2]}
  /\ \A c, d \in Change : Named(Merge(c, d)) = Named(c) \union Named(d)
<1>1. Named(NoChange) = {}
  BY EndsOfFew DEF Named, NoChange
<1>2. \A S : Named(Dirty(S)) = S
  BY EndsOfFew DEF Named, Dirty
<1>3. \A k : Named(Rename(k)) = {k[1], k[2]}
  BY EndsOfFew DEF Named, Rename
<1>4. ASSUME NEW c \in Change, NEW d \in Change
      PROVE  Named(Merge(c, d)) = Named(c) \union Named(d)
  <2>1. c.renames \in Seq(Renames) /\ d.renames \in Seq(Renames)
    BY DEF Change
  <2>2. Ends(c.renames \o d.renames) = Ends(c.renames) \union Ends(d.renames)
    BY <2>1, EndsOfConcat
  <2>3. /\ Merge(c, d).dirty = c.dirty \union d.dirty
        /\ Merge(c, d).renames = c.renames \o d.renames
    BY DEF Merge
  <2> QED BY <2>2, <2>3 DEF Named
<1> QED BY <1>1, <1>2, <1>3, <1>4

-----------------------------------------------------------------------------
(***************************************************************************)
(* The parts of the inductive invariant that are about one thing each.     *)
(***************************************************************************)
\* Which phase has what in hand, and that a quiet pair queues no renames.
Staged ==
  /\ pc \notin {"pair", "upload"} => uploads = {}
  /\ pc \notin {"pair", "upload", "delete"} => deletes = {}
  /\ pc \notin {"rename", "pair"} => moves = {}
  /\ pc # "rename" => todo = <<>>
  /\ pc = "pair" => \A k \in moves : k[2] \in uploads
  /\ pc = "idle" => again = NoChange
  /\ pc # "idle" => listed /\ retry = NoChange
  /\ listed => located
  /\ current = NoRename
  /\ retry.renames = <<>> /\ again.renames = <<>>
  /\ Outcomes \subseteq {"ok"} => retry = NoChange /\ again = NoChange
  /\ "rename" \notin UserOps => events.renames = <<>> /\ todo = <<>> /\ moves = {}

\* Where no file is renamed, each keeps an identity of its own.
Own ==
  "rename" \notin UserOps =>
    \A p \in Files : /\ ino[p] # NoId => ino[p][1] = p
                     /\ ids[p] # NoId => ids[p][1] = p

\* The two listings are patched alike, and saved before they are relied on.
Agreed ==
  /\ l1 = l2
  /\ pc \in {"idle", "save", "note", "noted"} => lst1 = l1
  /\ pc \in {"idle", "note", "noted"} => lst2 = l2

\* The engine's idea of what the remote holds is exact.
Exact == \A p \in Files \intersect Kept : OnRemote(p) <=> remote[p] # 0

\* A file the remote has otherwise than the listings say was pushed since.
Pushed == \A p \in Files \intersect Kept : remote[p] = l2[p] \/ p \in known

\* A file is in a folder that is there.
Housed ==
  \A p \in Files \intersect Kept : local[p] # 0 /\ p[1] \in Dirs => local[p[1]] # 0

\* A version not yet given to any file is newer than all there are.
Aged ==
  \A p \in Files :
    local[p] < FreshVersion /\ remote[p] < FreshVersion /\ l1[p] < FreshVersion

\* A file to be uploaded that is no longer there was reported.
Reported == \A p \in uploads : local[p] # 0 \/ p \in Named(events)

-----------------------------------------------------------------------------
(***************************************************************************)
(* What the calls of a quiet pair come to.                                 *)
(***************************************************************************)
\* A rename put aside, as an upload and a delete.
Aside(k) ==
  /\ dirty' = dirty \union {k[1], k[2]}
  /\ UNCHANGED <<remote, l1, l2, known, ids, deletes, prune, again>>

\* A rename carried out: what was at its source is at its destination, on the
\* remote and in the listings.
Carried(k) ==
  LET source == k[1]
      target == k[2]
      moved(side) == [p \in Files |-> IF p = source THEN 0
                                      ELSE IF p = target THEN side[source]
                                      ELSE side[p]]
  IN  /\ source \in Files \intersect Kept /\ target \in Files \intersect Kept
      /\ source # target
      /\ remote[source] # 0 /\ remote[target] = 0 /\ local[target] # 0
      /\ \A p \in Files : /\ remote'[p] = moved(remote)[p]
                          /\ l1'[p] = moved(l1)[p] /\ l2'[p] = moved(l2)[p]
      /\ \A d \in Dirs : /\ remote'[d] = IF d = target[1] THEN 1 ELSE remote[d]
                         /\ l1'[d] = l1[d] /\ l2'[d] = l2[d]
      /\ l1' = l2'
      /\ known' = KnownAfter(k)
      /\ dirty' = dirty \union {target}
      /\ prune' = prune \union ParentDirs(source)
      /\ deletes' = IF pc = "pair" THEN deletes \ {source} ELSE deletes
      /\ again' = again

\* No path of a file is that of a folder or the root.
LEMMA NotAPlace == \A p, q \in Files : p # q[1]
<1>1. \A q \in Files : q[1] \in Dirs \/ q[1] = Top
  BY DEF Files, Dirs
<1> QED BY <1>1, FilesAreNotDirs, TreeAssumption

\* A listing with an entry moved from one file to another that it does not have.
LEMMA EntryMoved ==
  ASSUME NEW s \in Side, NEW p \in Files, NEW q \in Files, p # q, s[q] = 0
  PROVE  RenameEntry(s, p, q) = [x \in Locs |-> IF x = p THEN 0
                                                ELSE IF x = q THEN s[p] ELSE s[x]]
<1>1. p \in Locs /\ q \in Locs
  BY FilesAreNotDirs
<1>2. CASE s[p] = 0
  BY <1>1, <1>2 DEF RenameEntry, Contains, Side
<1>3. CASE s[p] # 0
  BY <1>1, <1>3 DEF RenameEntry, Contains, Side
<1> QED BY <1>2, <1>3

LEMMA QuietMove ==
  ASSUME Calm, TypeOK, NoFolderRenames, Confined, Staged, Agreed, Exact,
         NEW k \in moves, MoveUnsafe(k) \/ \E o \in Outcomes : MoveCalled(k, o)
  PROVE  /\ "rename" \in UserOps
         /\ k \in Files \X Files
         /\ Aside(k) \/ Carried(k)
<1>1. "rename" \in UserOps /\ Outcomes \subseteq {"ok"}
  BY DEF Staged, Calm
<1>2. k \in Files \X Files /\ k[1] \in Files /\ k[2] \in Files
  BY DEF NoFolderRenames, Calm
<1>3. CASE MoveUnsafe(k)
  BY <1>1, <1>2, <1>3 DEF MoveUnsafe, FallBack, Aside
<1>4. ASSUME MoveCalled(k, "ok") PROVE Carried(k)
  <2>1. /\ k[1] \in Kept /\ k[2] \in Kept
        /\ OnRemote(k[1]) /\ ~OnRemote(k[2]) /\ local[k[2]] # 0
    BY <1>4 DEF Confined, MoveCalled, MoveIsSafe
  <2>2. k[1] # k[2] /\ remote[k[1]] # 0 /\ remote[k[2]] = 0
    BY <1>2, <2>1 DEF Exact
  <2>3. Moved(k)
    BY <1>4, <2>2 DEF MoveCalled, MoveFoundNothing
  <2>4. l1 \in Side /\ l2 \in Side /\ l2[k[2]] = 0 /\ l1 = l2
    BY <1>2, <2>1 DEF TypeOK, Side, Agreed, OnRemote, Contains
  <2>5. /\ l1' = [x \in Locs |-> IF x = k[1] THEN 0
                                 ELSE IF x = k[2] THEN l1[k[1]] ELSE l1[x]]
        /\ l1' = l2'
    BY <1>2, <2>2, <2>3, <2>4, EntryMoved DEF Moved
  <2>6. remote' = Put(Without(remote, {k[1]}), k[2], remote[k[1]])
    BY <1>4, <2>2 DEF MoveCalled, CarriedOut, RemoteMoved
  <2>7. \A p \in Files : remote'[p] = IF p = k[1] THEN 0
                                      ELSE IF p = k[2] THEN remote[k[1]]
                                      ELSE remote[p]
    BY <1>2, <2>2, <2>6, NotAPlace, FilesAreNotDirs DEF Put, Without
  <2>8. \A d \in Dirs : remote'[d] = IF d = k[2][1] THEN 1 ELSE remote[d]
    BY <1>2, <2>6, FilesAreNotDirs DEF Put, Without, Locs
  <2>9. /\ \A d \in Dirs : l1'[d] = l1[d] /\ l2'[d] = l2[d]
        /\ \A p \in Files : /\ l1'[p] = IF p = k[1] THEN 0
                                        ELSE IF p = k[2] THEN l1[k[1]] ELSE l1[p]
                            /\ l2'[p] = IF p = k[1] THEN 0
                                        ELSE IF p = k[2] THEN l2[k[1]] ELSE l2[p]
    BY <1>2, <2>4, <2>5, FilesAreNotDirs DEF Locs
  <2>10. /\ known' = KnownAfter(k) /\ dirty' = dirty \union {k[2]}
         /\ prune' = prune \union ParentDirs(k[1]) /\ again' = again
         /\ deletes' = IF pc = "pair" THEN deletes \ {k[1]} ELSE deletes
    BY <2>3 DEF Moved
  <2> QED BY <1>2, <2>1, <2>2, <2>5, <2>7, <2>8, <2>9, <2>10 DEF Carried
<1> QED BY <1>1, <1>2, <1>3, <1>4

\* An upload that got through, with what is there now.
Sent(p) ==
  /\ local[p] # 0
  /\ \A q \in Files : remote'[q] = IF q = p THEN local[p] ELSE remote[q]
  /\ \A d \in Dirs : remote'[d] = IF d = p[1] THEN 1 ELSE remote[d]
  /\ known' = known \union {p}
  /\ ids' = [ids EXCEPT ![p] = ino[p]]
  /\ again' = again

\* An upload of what turned out to be gone.
Gone(p) == local[p] = 0 /\ UNCHANGED <<remote, known, ids, again>>

\* A call that did not get through.
Postponed(p) ==
  /\ "rename" \notin UserOps /\ ~(Outcomes \subseteq {"ok"})
  /\ again' = Merge(again, Dirty({p}))
  /\ UNCHANGED <<remote, known, ids>>

LEMMA QuietUpload ==
  ASSUME Calm, TypeOK, Upload
  PROVE  \E p \in uploads : /\ uploads' = uploads \ {p}
                            /\ Sent(p) \/ Gone(p) \/ Postponed(p)
<1>1. PICK p \in uploads, o \in Outcomes :
        /\ uploads' = uploads \ {p}
        /\ remote' = Uploaded(p, o)
        /\ IF o = "ok" /\ local[p] # 0
           THEN known' = known \union {p} /\ ids' = [ids EXCEPT ![p] = ino[p]]
           ELSE UNCHANGED <<known, ids>>
        /\ again' = Retried(p, o)
  BY DEF Upload
<1>2. p \in Files /\ o \in {"ok", "unreachable", "busy"}
  BY DEF TypeOK, Calm
<1>3. CASE o = "ok" /\ local[p] # 0
  <2>1. remote' = Put(remote, p, local[p]) /\ again' = again
    BY <1>1, <1>3 DEF Uploaded, CarriedOut, Retried, Transient
  <2>2. \A q \in Files : remote'[q] = IF q = p THEN local[p] ELSE remote[q]
    BY <1>2, <2>1, NotAPlace, FilesAreNotDirs DEF Put
  <2>3. \A d \in Dirs : remote'[d] = IF d = p[1] THEN 1 ELSE remote[d]
    BY <1>2, <2>1, FilesAreNotDirs DEF Put, Locs
  <2> QED BY <1>1, <1>3, <2>1, <2>2, <2>3 DEF Sent
<1>4. CASE o = "ok" /\ local[p] = 0
  BY <1>1, <1>4 DEF Gone, Uploaded, Retried, Transient
<1>5. CASE o # "ok"
  BY <1>1, <1>2, <1>5 DEF Postponed, Calm, Uploaded, CarriedOut, Retried, Transient
<1> QED BY <1>1, <1>3, <1>4, <1>5

\* A deletion that got through.
Forgotten(p) ==
  /\ p \in Files
  /\ \A q \in Files : /\ remote'[q] = IF q = p THEN 0 ELSE remote[q]
                      /\ l1'[q] = IF q = p THEN 0 ELSE l1[q]
                      /\ l2'[q] = IF q = p THEN 0 ELSE l2[q]
  /\ \A d \in Dirs : remote'[d] = remote[d] /\ l1'[d] = l1[d] /\ l2'[d] = l2[d]
  /\ known' = known \ {p}
  /\ ids' = [ids EXCEPT ![p] = NoId]
  /\ l1 = l2 => l1' = l2'
  /\ prune' = prune \union ParentDirs(p)
  /\ again' = again

LEMMA QuietDelete ==
  ASSUME Calm, TypeOK, Delete
  PROVE  \E p \in deletes :
           /\ deletes' = deletes \ {p}
           /\ Forgotten(p) \/ (Postponed(p) /\ UNCHANGED <<l1, l2, prune>>)
<1>1. PICK p \in deletes, o \in Outcomes :
        /\ deletes' = deletes \ {p}
        /\ remote' = IF CarriedOut(o) THEN Without(remote, {p}) ELSE remote
        /\ IF o = "ok" THEN ForgetFile(p)
           ELSE UNCHANGED <<l1, l2, known, ids, prune>>
        /\ again' = Retried(p, o)
  BY DEF Delete
<1>2. p \in Files /\ o \in {"ok", "unreachable", "busy"}
  BY DEF TypeOK, Calm
<1>3. CASE o = "ok"
  <2>1. /\ remote' = Without(remote, {p}) /\ again' = again
        /\ l1' = RemoveEntry(l1, p) /\ l2' = RemoveEntry(l2, p)
        /\ known' = known \ {p} /\ ids' = [ids EXCEPT ![p] = NoId]
        /\ prune' = prune \union ParentDirs(p)
    BY <1>1, <1>3 DEF CarriedOut, Retried, Transient, ForgetFile
  <2>2. \A q \in Files : /\ remote'[q] = IF q = p THEN 0 ELSE remote[q]
                         /\ l1'[q] = IF q = p THEN 0 ELSE l1[q]
                         /\ l2'[q] = IF q = p THEN 0 ELSE l2[q]
    BY <1>2, <2>1, FilesAreNotDirs DEF Without, RemoveEntry, TypeOK
  <2>3. \A d \in Dirs : /\ remote'[d] = remote[d]
                        /\ l1'[d] = l1[d] /\ l2'[d] = l2[d]
    BY <1>2, <2>1, FilesAreNotDirs DEF Without, RemoveEntry, TypeOK, Locs
  <2> QED BY <1>1, <1>2, <2>1, <2>2, <2>3 DEF Forgotten
<1>4. CASE o # "ok"
  BY <1>1, <1>2, <1>4 DEF Postponed, Calm, CarriedOut, Retried, Transient
<1> QED BY <1>1, <1>3, <1>4

\* What the user of a quiet pair does.
LEMMA QuietUser ==
  ASSUME Calm, User
  PROVE  \/ \E p \in Files : UserWrite(p, FreshVersion)
         \/ \E p \in Files : UserDelete(p)
         \/ /\ "rename" \in UserOps
            /\ \E p, q \in Files : /\ UserRename(p, q) /\ Appeared(q) = {q}
                                   /\ Edit(Rename(<<p, q>>))
         \/ \E d \in Dirs : UserRemoveDir(d)
BY DEF User, Calm, UserRename

LEMMA QuietEdit ==
  ASSUME Calm, TypeOK, User
  PROVE  \E c \in Change : /\ Edit(c)
                           /\ "rename" \in UserOps \/ c.renames = <<>>
<1>1. ASSUME NEW p \in Files, UserWrite(p, FreshVersion)
      PROVE  \E c \in Change : Edit(c) /\ c.renames = <<>>
  <2>1. Dirty(Appeared(p)) \in Change
    <3>1. Appeared(p) \in SUBSET Locs
      BY FilesAreNotDirs DEF Appeared, Locs
    <3> QED BY <3>1, ChangeTypes
  <2> QED BY <1>1, <2>1, QueuesOf DEF UserWrite
<1>2. ASSUME NEW p \in Files, UserDelete(p)
      PROVE  \E c \in Change : Edit(c) /\ c.renames = <<>>
  <2>1. Dirty({p}) \in Change
    BY FilesAreNotDirs, ChangeTypes
  <2> QED BY <1>2, <2>1, QueuesOf DEF UserDelete
<1>3. ASSUME NEW p \in Files, NEW q \in Files, Edit(Rename(<<p, q>>))
      PROVE  \E c \in Change : Edit(c)
  <2>1. Rename(<<p, q>>) \in Change
    BY ChangeTypes DEF Renames
  <2> QED BY <1>3, <2>1
<1>4. ASSUME NEW d \in Dirs, UserRemoveDir(d)
      PROVE  \E c \in Change : Edit(c) /\ c.renames = <<>>
  <2>1. Dirty({d} \union {p \in Under(d) : local[p] # 0}) \in Change
    <3>1. {d} \union {p \in Under(d) : local[p] # 0} \in SUBSET Locs
      BY DEF Under, Locs
    <3> QED BY <3>1, ChangeTypes
  <2> QED BY <1>4, <2>1, QueuesOf DEF UserRemoveDir
<1> QED BY <1>1, <1>2, <1>3, <1>4, QuietUser

\* A quiet pair is not restarted, and renames no folder.
LEMMA QuietNext ==
  ASSUME Calm, Staged, [Next]_vars
  PROVE  \/ UNCHANGED vars \/ User \/ PushChanges \/ BeginRename \/ MoveOne
         \/ Classify \/ BeginUploads \/ Upload \/ BeginDeletes \/ Delete
         \/ BeginPrune \/ Prune \/ SaveListing1 \/ SaveListing2 \/ NotePushed \/ EndPush
         \/ DeadlinePasses \/ Pull \/ Resync \/ Lockout
<1>1. ~Restart
  BY DEF Restart, Calm
<1>2. ~EndDirRename
  BY DEF EndDirRename, Staged
<1>3. ~SaveFails
  BY DEF SaveFails, Calm
<1> QED BY <1>1, <1>2, <1>3 DEF Next, Engine

\* The rename the engine begins with is followed as one of a file, or left aside.
LEMMA QuietBeginRename ==
  ASSUME Calm, TypeOK, NoFolderRenames, Staged, BeginRename
  PROVE  /\ "rename" \in UserOps
         /\ todo \in Seq(Files \X Files) /\ todo # <<>> /\ todo' = Tail(todo)
         /\ LET k == Head(todo)
            IN  /\ k \in Files \X Files
                /\ \/ dirty' = dirty \union {k[1], k[2]} /\ moves' = {}
                   \/ dirty' = dirty /\ moves' = {k}
         /\ UNCHANGED <<current, sides, disk, memory, pc, l1, l2, uploads, deletes,
                        prune, again>>
<1>1. "rename" \in UserOps
  BY DEF Staged, BeginRename
<1>2. todo \in Seq(Files \X Files) /\ todo # <<>> /\ todo' = Tail(todo)
  BY DEF NoFolderRenames, Calm, BeginRename
<1>3. Head(todo) \in Files \X Files
  BY <1>2
<1>4. FollowedAs(Head(todo)) # "folder"
  BY <1>3, FileRename DEF FollowedAs
<1>5. \/ dirty' = dirty \union {Head(todo)[1], Head(todo)[2]} /\ UNCHANGED <<moves, current>>
      \/ moves' = {Head(todo)} /\ UNCHANGED <<current, dirty>>
  BY <1>4 DEF BeginRename
<1>6. moves = {}
  BY DEF BeginRename
<1> QED BY <1>1, <1>2, <1>3, <1>5, <1>6 DEF BeginRename

\* What is taken, and what becomes of it.
LEMMA QuietPush ==
  ASSUME Calm, TypeOK, Staged, PushChanges
  PROVE  \E taken \in {events, NoChange} :
           LET c == Merge(retry, taken)
           IN  /\ c \in Change /\ c # NoChange /\ c.renames = taken.renames
               /\ c.dirty = retry.dirty \union taken.dirty
               /\ events' = IF taken = events THEN NoChange ELSE events
               /\ NotEchoes(c).renames = taken.renames
               /\ NotEchoes(c).dirty = {p \in c.dirty : ~Echo(p)}
               /\ \/ NotEchoes(c) = NoChange /\ UNCHANGED batch
                  \/ ~listed /\ UNCHANGED batch
                  \/ BeginPush(c)
<1>1. PICK taken \in {events, NoChange} :
        LET c == Merge(retry, taken)
        IN  /\ c # NoChange
            /\ events' = IF taken = events THEN NoChange ELSE events
            /\ OnlyEchoes(c) \/ NeverSynced \/ NothingListed \/ BeginPush(c)
  BY DEF PushChanges
<1> DEFINE c == Merge(retry, taken)
<1>2. taken \in Change /\ retry \in Change
  BY ChangeTypes DEF TypeOK
<1>3. c \in Change
  BY <1>2, ChangeTypes
<1>4. c.dirty = retry.dirty \union taken.dirty /\ c.renames = retry.renames \o taken.renames
  BY DEF Merge
<1>5. c.renames = taken.renames
  <2>1. taken.renames \in Seq(Renames) /\ retry.renames = <<>>
    BY <1>2 DEF Change, Staged
  <2> QED BY <1>4, <2>1
<1>6. /\ NotEchoes(c).renames = c.renames
      /\ NotEchoes(c).dirty = {p \in c.dirty : ~Echo(p)}
  BY <1>3 DEF NotEchoes, Change
<1>7. \/ NotEchoes(c) = NoChange /\ UNCHANGED batch
      \/ ~listed /\ UNCHANGED batch
      \/ BeginPush(c)
  <2>1. ~located => ~listed
    BY DEF Staged
  <2> HIDE DEF c
  <2> QED BY <1>1, <2>1 DEF OnlyEchoes, NeverSynced, NothingListed, c
<1> QED BY <1>1, <1>3, <1>4, <1>5, <1>6, <1>7

\* Nothing that vanished is taken for another file that appeared.
LEMMA NoPairs ==
  ASSUME Own, "rename" \notin UserOps
  PROVE  IdentityPairs(UploadsOf(dirty), DeletesOf(dirty)) = {}
<1> SUFFICES ASSUME NEW old \in DeletesOf(dirty), NEW new \in UploadsOf(dirty),
                    SameFile(old, new)
             PROVE  FALSE
  BY DEF IdentityPairs
<1>1. /\ old \in Files /\ new \in Files /\ local[old] = 0 /\ local[new] # 0
      /\ ids[old] # NoId /\ ids[old] = ino[new]
  BY DEF UploadsOf, DeletesOf, SameFile
<1>2. ids[old][1] = old /\ ino[new][1] = new
  BY <1>1 DEF Own
<1> QED BY <1>1, <1>2

LEMMA StagedNext ==
  ASSUME Calm, TypeOK, NoFolderRenames, Confined, Own, Agreed, Exact, Staged,
         [Next]_vars
  PROVE  Staged'
<1> USE DEF Staged
<1>1. CASE UNCHANGED vars
  BY <1>1 DEF vars, sides, disk, memory, batch
<1>2. CASE User
  <2>1. PICK c \in Change : Edit(c) /\ ("rename" \in UserOps \/ c.renames = <<>>)
    BY <1>2, QuietEdit
  <2>2. "rename" \notin UserOps => events'.renames = <<>>
    BY <2>1 DEF Edit, Merge
  <2>3. UNCHANGED <<disk, memory, batch>>
    BY <2>1 DEF Edit
  <2> QED BY <2>2, <2>3 DEF disk, memory, batch
<1>3. CASE PushChanges
  <2>1. PICK taken \in {events, NoChange} :
          LET c == Merge(retry, taken)
          IN  /\ events' = IF taken = events THEN NoChange ELSE events
              /\ NotEchoes(c).renames = taken.renames
              /\ \/ NotEchoes(c) = NoChange /\ UNCHANGED batch
                 \/ ~listed /\ UNCHANGED batch
                 \/ BeginPush(c)
    BY <1>3, QuietPush
  <2> DEFINE c == Merge(retry, taken)
  <2>2. /\ pc = "idle" /\ retry' = NoChange /\ listed' = listed /\ located' = located
        /\ again = NoChange
    BY <1>3 DEF PushChanges
  <2>3. NoChange.renames = <<>>
    BY QueuesOf
  <2>4. "rename" \notin UserOps => events'.renames = <<>> /\ NotEchoes(c).renames = <<>>
    BY <2>1, <2>3
  <2> HIDE DEF c
  <2>5. CASE UNCHANGED batch
    BY <2>2, <2>3, <2>4, <2>5 DEF batch
  <2>6. CASE BeginPush(c)
    BY <2>2, <2>3, <2>4, <2>6 DEF BeginPush
  <2> QED BY <2>1, <2>5, <2>6 DEF c
<1>4. CASE BeginRename
  <2>1. pc = "rename"
    BY <1>4 DEF BeginRename
  <2> QED BY <1>4, <2>1, QuietBeginRename DEF sides, disk, memory
<1>5. CASE MoveOne
  <2>1. PICK k \in moves : moves' = moves \ {k}
                           /\ (MoveUnsafe(k) \/ \E o \in Outcomes : MoveCalled(k, o))
    BY <1>5 DEF MoveOne
  <2>2. again' = again /\ (deletes' = deletes \/ pc = "pair")
    BY <2>1, QuietMove DEF Aside, Carried
  <2> QED BY <1>5, <2>1, <2>2 DEF MoveOne, disk
<1>6. CASE Classify
  <2>1. \A k \in IdentityPairs(UploadsOf(dirty), DeletesOf(dirty)) : k[2] \in UploadsOf(dirty)
    BY DEF IdentityPairs
  <2> QED BY <1>6, <2>1, NoPairs DEF Classify, sides, disk, memory
<1>7. CASE Upload
  <2>1. again'.renames = <<>> /\ (Outcomes \subseteq {"ok"} => again' = NoChange)
    BY <1>7, QuietUpload DEF Sent, Gone, Postponed, Merge, Dirty
  <2>2. pc = "upload" /\ uploads' \subseteq uploads
    BY <1>7 DEF Upload
  <2> QED BY <1>7, <2>1, <2>2 DEF Upload, disk
<1>8. CASE Delete
  <2>1. again'.renames = <<>> /\ (Outcomes \subseteq {"ok"} => again' = NoChange)
    BY <1>8, QuietDelete DEF Forgotten, Postponed, Merge, Dirty
  <2>2. pc = "delete" /\ deletes' \subseteq deletes
    BY <1>8 DEF Delete
  <2> QED BY <1>8, <2>1, <2>2 DEF Delete, disk
<1>9. CASE BeginUploads \/ BeginDeletes \/ BeginPrune
  BY <1>9 DEF BeginUploads, BeginDeletes, BeginPrune, sides, disk, memory
<1>10. CASE Prune \/ SaveListing1 \/ SaveListing2 \/ NotePushed
  BY <1>10 DEF Prune, SaveListing1, SaveListing2, NotePushed,
               sides, disk, memory
<1>11. CASE EndPush
  BY <1>11 DEF EndPush, sides
<1>12. CASE DeadlinePasses \/ Lockout
  BY <1>12 DEF DeadlinePasses, Lockout, sides, disk, memory, batch
<1>13. CASE Pull \/ Resync
  <2>1. PICK S : events' = Merge(events, Dirty(S))
    BY <1>13 DEF Pull, Resync, PassLeaves
  <2>2. "rename" \notin UserOps => events'.renames = <<>>
    BY <2>1 DEF Merge, Dirty
  <2> QED BY <1>13, <2>2 DEF Pull, Resync, PassLeaves
<1> QED
  BY <1>1, <1>2, <1>3, <1>4, <1>5, <1>6, <1>7, <1>8, <1>9, <1>10, <1>11, <1>12,
     <1>13, QuietNext

LEMMA OwnNext ==
  ASSUME Calm, TypeOK, Staged, Own, [Next]_vars
  PROVE  Own'
<1> SUFFICES ASSUME "rename" \notin UserOps, NEW p \in Files
             PROVE  /\ ino'[p] # NoId => ino'[p][1] = p
                    /\ ids'[p] # NoId => ids'[p][1] = p
  BY DEF Own
<1>1. /\ \A q \in Files : ino[q] # NoId => ino[q][1] = q
      /\ \A q \in Files : ids[q] # NoId => ids[q][1] = q
      /\ moves = {}
  BY DEF Own, Staged
<1>2. ino \in Ids /\ ids \in Ids
  BY DEF TypeOK, Ids
<1>3. \A q, n : Born(q, n)[1] = q
  BY DEF Born
<1>4. CASE UNCHANGED <<ino, ids>>
  BY <1>1, <1>4
<1>5. CASE User
  <2>1. ids' = ids
    BY <1>5, QuietEdit DEF Edit, memory
  <2>2. ASSUME NEW q \in Files, UserWrite(q, FreshVersion)
        PROVE  ino'[p] # NoId => ino'[p][1] = p
    BY <1>1, <1>2, <1>3, <2>2 DEF UserWrite, Ids
  <2>3. ASSUME NEW q \in Files, UserDelete(q)
        PROVE  ino'[p] # NoId => ino'[p][1] = p
    BY <1>1, <1>2, <2>3 DEF UserDelete, Ids
  <2>4. ASSUME NEW d \in Dirs, UserRemoveDir(d)
        PROVE  ino'[p] # NoId => ino'[p][1] = p
    BY <1>1, <2>4 DEF UserRemoveDir
  <2> QED BY <1>1, <1>5, <2>1, <2>2, <2>3, <2>4, QuietUser
<1>6. CASE MoveOne
  BY <1>1, <1>6 DEF MoveOne
<1>7. CASE Upload
  <2>1. ino' = ino
    BY <1>7 DEF Upload
  <2>2. PICK q \in uploads : ids' = [ids EXCEPT ![q] = ino[q]] \/ ids' = ids
    BY <1>7, QuietUpload DEF Sent, Gone, Postponed
  <2>3. q \in Files
    BY DEF TypeOK
  <2> QED BY <1>1, <1>2, <2>1, <2>2, <2>3 DEF Ids
<1>8. CASE Delete
  <2>1. ino' = ino
    BY <1>8 DEF Delete
  <2>2. PICK q : ids' = [ids EXCEPT ![q] = NoId] \/ ids' = ids
    BY <1>8, QuietDelete DEF Forgotten, Postponed
  <2> QED BY <1>1, <1>2, <2>1, <2>2 DEF Ids
<1>9. CASE Pull \/ Resync
  <2>1. PICK tree, written :
          /\ ino' = [q \in Files |-> IF q \notin written THEN ino[q]
                                     ELSE IF tree[q] = 0 THEN NoId
                                     ELSE Born(q, clock + 1)]
          /\ ids' = Scanned(ino')
    BY <1>9 DEF Pull, Resync, PassLeaves
  <2> QED BY <1>1, <1>3, <2>1 DEF Scanned
<1>10. CASE PushChanges \/ BeginRename \/ Classify \/ BeginUploads \/ BeginDeletes
            \/ BeginPrune \/ Prune
  BY <1>4, <1>10 DEF PushChanges, BeginRename, Classify, BeginUploads, BeginDeletes,
                     BeginPrune, Prune, sides, memory
<1>11. CASE SaveListing1 \/ SaveListing2 \/ NotePushed \/ EndPush \/ DeadlinePasses \/ Lockout
            \/ UNCHANGED vars
  BY <1>4, <1>11 DEF SaveListing1, SaveListing2, NotePushed, EndPush, DeadlinePasses, Lockout,
                     vars, sides, memory
<1> QED
  BY <1>5, <1>6, <1>7, <1>8, <1>9, <1>10, <1>11, QuietNext

LEMMA AgreedNext ==
  ASSUME Calm, TypeOK, NoFolderRenames, Confined, Staged, Exact, Agreed, [Next]_vars
  PROVE  Agreed'
<1>1. CASE UNCHANGED <<l1, l2, lst1, lst2, pc>>
  BY <1>1 DEF Agreed
<1>2. CASE User \/ DeadlinePasses \/ Lockout \/ UNCHANGED vars
  <2>1. UNCHANGED <<l1, l2, lst1, lst2, pc>>
    BY <1>2, QuietEdit DEF Edit, DeadlinePasses, Lockout, vars, disk, batch
  <2> QED BY <1>1, <2>1
<1>3. CASE PushChanges
  <2>1. pc = "idle" /\ UNCHANGED <<lst1, lst2>>
    BY <1>3 DEF PushChanges
  <2>2. UNCHANGED batch \/ (pc' = "rename" /\ l1' = lst1 /\ l2' = lst2)
    BY <1>3, QuietPush DEF BeginPush
  <2> QED BY <2>1, <2>2 DEF Agreed, batch
<1>4. CASE MoveOne
  <2>1. PICK k \in moves : MoveUnsafe(k) \/ \E o \in Outcomes : MoveCalled(k, o)
    BY <1>4 DEF MoveOne
  <2>2. Aside(k) \/ Carried(k)
    BY <2>1, QuietMove
  <2>3. l1' = l2'
    BY <2>2 DEF Aside, Carried, Agreed
  <2>4. pc' \in {"rename", "pair"}
    BY <1>4 DEF MoveOne
  <2> QED BY <2>3, <2>4 DEF Agreed
<1>5. CASE Upload \/ BeginRename \/ Classify \/ BeginUploads \/ BeginDeletes
            \/ BeginPrune
  <2>1. /\ UNCHANGED <<l1, l2>>
        /\ pc' \notin {"idle", "save", "note", "noted"}
    BY <1>5 DEF Upload, BeginRename, Classify, BeginUploads, BeginDeletes, BeginPrune
  <2> QED BY <2>1 DEF Agreed
<1>6. CASE Delete
  <2>1. l1' = l2'
    BY <1>6, QuietDelete DEF Forgotten, Agreed
  <2>2. pc' = "delete"
    BY <1>6 DEF Delete
  <2> QED BY <2>1, <2>2 DEF Agreed
<1>7. CASE Prune
  BY <1>7 DEF Prune, Agreed
<1>8. CASE SaveListing1 \/ SaveListing2 \/ NotePushed \/ EndPush
  BY <1>8 DEF SaveListing1, SaveListing2, NotePushed, EndPush, Agreed
<1>9. CASE Pull \/ Resync
  BY <1>9 DEF Pull, Resync, PassLeaves, Agreed
<1> QED BY <1>2, <1>3, <1>4, <1>5, <1>6, <1>7, <1>8, <1>9, QuietNext

\* A step that leaves the remote's files as they were, and what is known of them.
LEMMA ExactUnmoved ==
  ASSUME Exact, known' = known,
         \A p \in Files : remote'[p] = remote[p] /\ l2'[p] = l2[p]
  PROVE  Exact'
BY DEF Exact, OnRemote, Contains

\* What a pass makes of the files the filter keeps: on both sides the same, and
\* in the listings.
LEMMA PassFiles ==
  ASSUME NEW m, PassLeaves(m)
  PROVE  /\ \A x \in Locs \intersect Kept : /\ local'[x] = m[x] /\ remote'[x] = m[x]
                                            /\ l1'[x] = m[x] /\ l2'[x] = m[x]
         /\ \A x \in Locs \ Kept : /\ local'[x] = local[x] /\ remote'[x] = remote[x]
                                   /\ l1'[x] = 0 /\ l2'[x] = 0
         /\ known' = {} /\ listed' /\ pc' = pc
BY DEF PassLeaves, Applied, Listed

LEMMA ExactNext ==
  ASSUME Calm, TypeOK, NoFolderRenames, Confined, Staged, Agreed, Exact, [Next]_vars
  PROVE  Exact'
<1>1. CASE MoveOne
  <2>1. PICK k \in moves : MoveUnsafe(k) \/ \E o \in Outcomes : MoveCalled(k, o)
    BY <1>1 DEF MoveOne
  <2>2. Aside(k) \/ Carried(k)
    BY <2>1, QuietMove
  <2>3. CASE Aside(k)
    BY <2>3, ExactUnmoved DEF Aside
  <2>4. CASE Carried(k)
    <3>1. /\ k[1] \in Files \intersect Kept /\ k[2] \in Files \intersect Kept
          /\ k[1] # k[2] /\ remote[k[1]] # 0
          /\ known' = KnownAfter(k)
          /\ \A p \in Files : /\ remote'[p] = IF p = k[1] THEN 0
                                 ELSE IF p = k[2] THEN remote[k[1]] ELSE remote[p]
                              /\ l2'[p] = IF p = k[1] THEN 0
                                 ELSE IF p = k[2] THEN l2[k[1]] ELSE l2[p]
      BY <2>4 DEF Carried
    <3>2. OnRemote(k[1])
      BY <3>1 DEF Exact
    <3>3. k[1] \in known \/ l2[k[1]] # 0
      BY <3>2 DEF OnRemote, Contains
    <3>4. (k[2] \in known' \/ l2'[k[2]] # 0) /\ k[1] \notin known' /\ l2'[k[1]] = 0
      BY <3>1, <3>3 DEF KnownAfter
    <3>5. remote'[k[1]] = 0 /\ remote'[k[2]] # 0
      BY <3>1
    <3>6. \A p \in Files : p # k[1] /\ p # k[2] =>
            remote'[p] = remote[p] /\ l2'[p] = l2[p] /\ (p \in known' <=> p \in known)
      BY <3>1 DEF KnownAfter
    <3> QED BY <3>4, <3>5, <3>6 DEF Exact, OnRemote, Contains
  <2> QED BY <2>2, <2>3, <2>4
<1>2. CASE Upload
  <2>1. l2' = l2
    BY <1>2 DEF Upload
  <2>2. PICK p \in uploads : Sent(p) \/ Gone(p) \/ Postponed(p)
    BY <1>2, QuietUpload
  <2>3. CASE Sent(p)
    BY <2>1, <2>3 DEF Sent, Exact, OnRemote, Contains
  <2>4. CASE Gone(p) \/ Postponed(p)
    BY <2>1, <2>4, ExactUnmoved DEF Gone, Postponed
  <2> QED BY <2>2, <2>3, <2>4
<1>3. CASE Delete
  <2>1. PICK p \in deletes : Forgotten(p) \/ (Postponed(p) /\ UNCHANGED <<l1, l2>>)
    BY <1>3, QuietDelete
  <2>2. CASE Forgotten(p)
    BY <2>2 DEF Forgotten, Exact, OnRemote, Contains
  <2>3. CASE Postponed(p) /\ UNCHANGED <<l1, l2>>
    BY <2>3, ExactUnmoved DEF Postponed
  <2> QED BY <2>1, <2>2, <2>3
<1>4. CASE Prune
  <2>1. PICK d \in prune : /\ remote' = Without(remote, {d}) \/ remote' = remote
                           /\ l2' = RemoveEntry(l2, d) \/ l2' = l2
    BY <1>4 DEF Prune
  <2>2. d \in Dirs
    BY DEF TypeOK
  <2>3. \A p \in Files : remote'[p] = remote[p] /\ l2'[p] = l2[p]
    BY <2>1, <2>2, FilesAreNotDirs DEF TypeOK, Without, RemoveEntry
  <2> QED BY <1>4, <2>3, ExactUnmoved DEF Prune, memory
<1>5. CASE Pull \/ Resync
  <2>1. PICK m : PassLeaves(m)
    BY <1>5 DEF Pull, Resync
  <2> QED BY <2>1, PassFiles, FilesAreNotDirs DEF Exact, OnRemote, Contains
<1>6. CASE PushChanges
  <2>1. UNCHANGED <<remote, known>> /\ pc = "idle"
    BY <1>6 DEF PushChanges
  <2>2. l2' = l2
    BY <1>6, <2>1, QuietPush DEF Agreed, BeginPush, batch
  <2> QED BY <2>1, <2>2, ExactUnmoved
<1>7. CASE User \/ BeginRename \/ Classify \/ BeginUploads \/ BeginDeletes
           \/ BeginPrune \/ SaveListing1 \/ SaveListing2 \/ NotePushed \/ EndPush
           \/ DeadlinePasses \/ Lockout \/ UNCHANGED vars
  <2>1. UNCHANGED <<remote, known, l2>>
    BY <1>7, QuietEdit DEF Edit, BeginRename, Classify, BeginUploads, BeginDeletes,
       BeginPrune, SaveListing1, SaveListing2, NotePushed, EndPush, DeadlinePasses, Lockout,
       vars, sides, memory, batch
  <2> QED BY <2>1, ExactUnmoved
<1> QED BY <1>1, <1>2, <1>3, <1>4, <1>5, <1>6, <1>7, QuietNext

\* The same of how the listings and the remote agree.
LEMMA PushedUnmoved ==
  ASSUME Pushed, known \subseteq known',
         \A p \in Files : remote'[p] = remote[p] /\ l2'[p] = l2[p]
  PROVE  Pushed'
BY DEF Pushed

LEMMA PushedNext ==
  ASSUME Calm, TypeOK, NoFolderRenames, Confined, Staged, Agreed, Exact, Pushed,
         [Next]_vars
  PROVE  Pushed'
<1>1. CASE MoveOne
  <2>1. PICK k \in moves : MoveUnsafe(k) \/ \E o \in Outcomes : MoveCalled(k, o)
    BY <1>1 DEF MoveOne
  <2>2. Aside(k) \/ Carried(k)
    BY <2>1, QuietMove
  <2>3. CASE Aside(k)
    BY <2>3, PushedUnmoved DEF Aside
  <2>4. CASE Carried(k)
    BY <2>4 DEF Carried, KnownAfter, Pushed
  <2> QED BY <2>2, <2>3, <2>4
<1>2. CASE Upload
  <2>1. l2' = l2
    BY <1>2 DEF Upload
  <2>2. PICK p \in uploads : Sent(p) \/ Gone(p) \/ Postponed(p)
    BY <1>2, QuietUpload
  <2>3. CASE Sent(p)
    BY <2>1, <2>3 DEF Sent, Pushed
  <2>4. CASE Gone(p) \/ Postponed(p)
    BY <2>1, <2>4, PushedUnmoved DEF Gone, Postponed
  <2> QED BY <2>2, <2>3, <2>4
<1>3. CASE Delete
  <2>1. PICK p \in deletes : Forgotten(p) \/ (Postponed(p) /\ UNCHANGED <<l1, l2>>)
    BY <1>3, QuietDelete
  <2>2. CASE Forgotten(p)
    BY <2>2 DEF Forgotten, Pushed
  <2>3. CASE Postponed(p) /\ UNCHANGED <<l1, l2>>
    BY <2>3, PushedUnmoved DEF Postponed
  <2> QED BY <2>1, <2>2, <2>3
<1>4. CASE Prune
  <2>1. PICK d \in prune : /\ remote' = Without(remote, {d}) \/ remote' = remote
                           /\ l2' = RemoveEntry(l2, d) \/ l2' = l2
    BY <1>4 DEF Prune
  <2>2. d \in Dirs
    BY DEF TypeOK
  <2>3. \A p \in Files : remote'[p] = remote[p] /\ l2'[p] = l2[p]
    BY <2>1, <2>2, FilesAreNotDirs DEF TypeOK, Without, RemoveEntry
  <2> QED BY <1>4, <2>3, PushedUnmoved DEF Prune, memory
<1>5. CASE Pull \/ Resync
  <2>1. PICK m : PassLeaves(m)
    BY <1>5 DEF Pull, Resync
  <2> QED BY <2>1, PassFiles, FilesAreNotDirs DEF Pushed
<1>6. CASE PushChanges
  <2>1. UNCHANGED <<remote, known>> /\ pc = "idle"
    BY <1>6 DEF PushChanges
  <2>2. l2' = l2
    BY <1>6, <2>1, QuietPush DEF Agreed, BeginPush, batch
  <2> QED BY <2>1, <2>2, PushedUnmoved
<1>7. CASE User \/ BeginRename \/ Classify \/ BeginUploads \/ BeginDeletes
           \/ BeginPrune \/ SaveListing1 \/ SaveListing2 \/ NotePushed \/ EndPush
           \/ DeadlinePasses \/ Lockout \/ UNCHANGED vars
  <2>1. UNCHANGED <<remote, known, l2>>
    BY <1>7, QuietEdit DEF Edit, BeginRename, Classify, BeginUploads, BeginDeletes,
       BeginPrune, SaveListing1, SaveListing2, NotePushed, EndPush, DeadlinePasses,
       Lockout, vars, sides, memory, batch
  <2> QED BY <2>1, PushedUnmoved
<1> QED BY <1>1, <1>2, <1>3, <1>4, <1>5, <1>6, <1>7, QuietNext

\* Steps by which nothing local changes.
LEMMA OnlyUserAndPasses ==
  ASSUME Calm, Staged, [Next]_vars, ~User, ~Pull, ~Resync
  PROVE  local' = local /\ clock' = clock
<1>1. CASE UNCHANGED vars \/ PushChanges \/ BeginRename \/ MoveOne \/ Classify
           \/ BeginUploads \/ Upload \/ BeginDeletes \/ Delete
  BY <1>1 DEF vars, PushChanges, BeginRename, MoveOne, Classify, BeginUploads,
              Upload, BeginDeletes, Delete, sides
<1>2. CASE BeginPrune \/ Prune \/ SaveListing1 \/ SaveListing2 \/ NotePushed \/ EndPush
           \/ DeadlinePasses \/ Lockout
  BY <1>2 DEF BeginPrune, Prune, SaveListing1, SaveListing2, NotePushed, EndPush,
              DeadlinePasses, Lockout, sides
<1> QED BY <1>1, <1>2, QuietNext

\* What a pass settles on is one side's of a file, and a folder for each file.
LEMMA MergedFiles ==
  ASSUME NEW a, NEW was1, NEW b, NEW was2
  PROVE  /\ \A p \in Files : /\ MergedTree(a, was1, b, was2)[p] \in {a[p], b[p]}
                             /\ MergedTree(a, was1, b, was2)[p]
                                  = MergedAt(p, a[p], was1[p], b[p], was2[p])
         /\ \A p \in Files \intersect Kept :
              MergedTree(a, was1, b, was2)[p] # 0 /\ p[1] \in Dirs
                => MergedTree(a, was1, b, was2)[p[1]] = 1
<1> DEFINE m == MergedTree(a, was1, b, was2)
           at(x) == MergedAt(x, a[x], was1[x], b[x], was2[x])
<1>1. m = [x \in Locs |-> IF x \in Dirs /\ \E p \in Under(x) \intersect Kept : at(p) # 0
                          THEN 1 ELSE at(x)]
  BY DEF MergedTree
<1>2. \A x : at(x) \in {a[x], b[x]}
  BY DEF MergedAt, Newer
<1> HIDE DEF at, m
<1>3. \A p \in Files : m[p] = at(p)
  BY <1>1, FilesAreNotDirs
<1>4. \A p \in Files \intersect Kept : m[p] # 0 /\ p[1] \in Dirs => m[p[1]] = 1
  <2> SUFFICES ASSUME NEW p \in Files \intersect Kept, m[p] # 0, p[1] \in Dirs
               PROVE  m[p[1]] = 1
    OBVIOUS
  <2>1. p \in Under(p[1]) \intersect Kept /\ at(p) # 0 /\ p[1] \in Locs
    BY <1>3 DEF Under, Locs
  <2> QED BY <1>1, <2>1
<1> QED BY <1>2, <1>3, <1>4 DEF at, m

LEMMA HousedNext ==
  ASSUME Calm, TypeOK, Staged, Housed, [Next]_vars
  PROVE  Housed'
<1> SUFFICES ASSUME NEW q \in Files \intersect Kept, local'[q] # 0, q[1] \in Dirs
             PROVE  local'[q[1]] # 0
  BY DEF Housed
<1>1. /\ local[q] # 0 => local[q[1]] # 0
      /\ q[1] \in Locs /\ q \in Locs /\ q[1] \notin Files
  BY FilesAreNotDirs DEF Housed, Locs
<1>2. ASSUME NEW p \in Files, UserWrite(p, FreshVersion) PROVE local'[q[1]] # 0
  <2>1. local' = Put(local, p, FreshVersion)
    BY <1>2 DEF UserWrite
  <2> QED BY <1>1, <2>1, NotAPlace DEF Put
<1>3. ASSUME NEW p \in Files, UserDelete(p) PROVE local'[q[1]] # 0
  <2>1. local' = Without(local, {p})
    BY <1>3 DEF UserDelete
  <2> QED BY <1>1, <2>1 DEF Without
<1>4. ASSUME NEW p \in Files, NEW r \in Files, UserRename(p, r) PROVE local'[q[1]] # 0
  <2>1. local' = Put(Without(local, {p}), r, local[p])
    BY <1>4 DEF UserRename
  <2> QED BY <1>1, <2>1, NotAPlace DEF Put, Without
<1>5. ASSUME NEW d \in Dirs, UserRemoveDir(d) PROVE local'[q[1]] # 0
  <2>1. local' = Without(local, Under(d) \union {d})
    BY <1>5 DEF UserRemoveDir
  <2>2. q[1] # d /\ q[1] \notin Under(d) /\ local[q] # 0
    BY <1>1, <2>1 DEF Without, Under
  <2> QED BY <1>1, <2>1, <2>2 DEF Without
<1>6. ASSUME NEW a, NEW was1, NEW b, NEW was2,
             PassLeaves(MergedTree(a, was1, b, was2))
      PROVE  local'[q[1]] # 0
  <2> DEFINE m == MergedTree(a, was1, b, was2)
  <2>1. q[1] \in Kept
    BY <1>1, TreeAssumption DEF Locs
  <2>2. m[q] # 0 => m[q[1]] = 1
    BY MergedFiles
  <2> HIDE DEF m
  <2>3. local'[q] = m[q] /\ local'[q[1]] = m[q[1]]
    BY <1>1, <1>6, <2>1, PassFiles DEF m
  <2> QED BY <2>2, <2>3
<1>7. CASE Pull \/ Resync
  BY <1>6, <1>7 DEF Pull, Resync, ResyncedTree
<1>8. CASE ~User /\ ~Pull /\ ~Resync
  BY <1>1, <1>8, OnlyUserAndPasses
<1> QED BY <1>2, <1>3, <1>4, <1>5, <1>7, <1>8, QuietUser

LEMMA AgedNext ==
  ASSUME Calm, TypeOK, NoFolderRenames, Confined, Staged, Agreed, Exact, Aged, [Next]_vars
  PROVE  Aged'
<1> SUFFICES ASSUME NEW q \in Files
             PROVE  /\ local'[q] < FreshVersion' /\ remote'[q] < FreshVersion'
                    /\ l1'[q] < FreshVersion'
  BY DEF Aged
<1> DEFINE F == FreshVersion
<1>1. /\ F \in Nat /\ F > 0 /\ clock \in Nat
      /\ F' = Cardinality(Files) + clock' + 1 /\ F = Cardinality(Files) + clock + 1
      /\ Cardinality(Files) \in Nat
  BY FilesFinite DEF FreshVersion, TypeOK
<1>2. \A p \in Files : /\ local[p] < F /\ remote[p] < F /\ l1[p] < F
                       /\ local[p] \in Nat /\ remote[p] \in Nat /\ l1[p] \in Nat
  BY FilesAreNotDirs DEF Aged, TypeOK
<1> HIDE DEF F
<1>3. CASE User
  <2>1. /\ clock' = clock + 1 /\ UNCHANGED <<remote, l1>>
    BY <1>3, QuietEdit DEF Edit, batch
  <2>2. F' = F + 1
    BY <1>1, <2>1
  <2>3. ASSUME NEW p \in Files, UserWrite(p, F) PROVE local'[q] < F'
    <3>1. local'[q] = IF q = p THEN F ELSE local[q]
      BY <2>3, NotAPlace, FilesAreNotDirs DEF UserWrite, Put
    <3> QED BY <1>1, <1>2, <2>2, <3>1
  <2>4. ASSUME NEW p \in Files, UserDelete(p) PROVE local'[q] < F'
    <3>1. local'[q] = IF q = p THEN 0 ELSE local[q]
      BY <2>4, FilesAreNotDirs DEF UserDelete, Without
    <3> QED BY <1>1, <1>2, <2>2, <3>1
  <2>5. ASSUME NEW p \in Files, NEW r \in Files, UserRename(p, r) PROVE local'[q] < F'
    <3>1. local'[q] \in {0, local[p], local[q]}
      BY <2>5, NotAPlace, FilesAreNotDirs DEF UserRename, Put, Without
    <3> QED BY <1>1, <1>2, <2>2, <3>1
  <2>6. ASSUME NEW d \in Dirs, UserRemoveDir(d) PROVE local'[q] < F'
    <3>1. local'[q] \in {0, local[q]}
      BY <2>6, FilesAreNotDirs DEF UserRemoveDir, Without
    <3> QED BY <1>1, <1>2, <2>2, <3>1
  <2>7. local'[q] < F'
    BY <1>3, <2>3, <2>4, <2>5, <2>6, QuietUser DEF F
  <2>8. remote'[q] < F' /\ l1'[q] < F'
    BY <1>1, <1>2, <2>1, <2>2
  <2> QED BY <2>7, <2>8 DEF F
<1>4. CASE Pull \/ Resync
  <2>1. PICK was1, was2 : PassLeaves(MergedTree(local, was1, remote, was2))
    BY <1>4 DEF Pull, Resync, ResyncedTree
  <2> DEFINE m == MergedTree(local, was1, remote, was2)
  <2>2. m[q] \in {local[q], remote[q]}
    BY MergedFiles
  <2> HIDE DEF m
  <2>3. q \in Locs
    BY FilesAreNotDirs
  <2>4. /\ local'[q] \in {m[q], local[q]} /\ remote'[q] \in {m[q], remote[q]}
        /\ l1'[q] \in {m[q], 0}
    BY <2>1, <2>3, PassFiles DEF m
  <2>5. clock' = clock \/ clock' = clock + 1
    BY <2>1 DEF PassLeaves
  <2>6. F' = F \/ F' = F + 1
    BY <1>1, <2>5
  <2>7. local'[q] < F' /\ remote'[q] < F' /\ l1'[q] < F'
    BY <1>1, <1>2, <2>2, <2>4, <2>6
  <2> QED BY <2>7 DEF F
<1>5. CASE ~User /\ ~Pull /\ ~Resync
  <2>1. local' = local /\ F' = F
    BY <1>1, <1>5, OnlyUserAndPasses
  <2>2. remote'[q] < F /\ l1'[q] < F
    <3>1. CASE MoveOne
      <4>1. PICK k \in moves : MoveUnsafe(k) \/ \E o \in Outcomes : MoveCalled(k, o)
        BY <3>1 DEF MoveOne
      <4>2. Aside(k) \/ Carried(k)
        BY <4>1, QuietMove
      <4> QED BY <1>1, <1>2, <4>2 DEF Aside, Carried
    <3>2. CASE Upload
      <4>1. l1' = l1
        BY <3>2 DEF Upload
      <4>2. PICK p \in uploads : Sent(p) \/ Gone(p) \/ Postponed(p)
        BY <3>2, QuietUpload
      <4>3. p \in Files
        BY DEF TypeOK
      <4> QED BY <1>2, <4>1, <4>2, <4>3 DEF Sent, Gone, Postponed
    <3>3. CASE Delete
      BY <1>1, <1>2, <3>3, QuietDelete DEF Forgotten, Postponed
    <3>4. CASE Prune
      <4>1. PICK d \in prune : /\ remote' = Without(remote, {d}) \/ remote' = remote
                               /\ l1' = RemoveEntry(l1, d) \/ l1' = l1
        BY <3>4 DEF Prune
      <4>2. remote'[q] = remote[q] /\ l1'[q] = l1[q]
        BY <4>1, FilesAreNotDirs DEF TypeOK, Without, RemoveEntry
      <4> QED BY <1>2, <4>2
    <3>5. CASE PushChanges
      <4>1. remote' = remote /\ pc = "idle"
        BY <3>5 DEF PushChanges
      <4>2. l1' = l1
        BY <3>5, <4>1, QuietPush DEF Agreed, BeginPush, batch
      <4> QED BY <1>2, <4>1, <4>2
    <3>6. CASE BeginRename \/ Classify \/ BeginUploads \/ BeginDeletes
               \/ BeginPrune \/ SaveListing1 \/ SaveListing2 \/ NotePushed \/ EndPush
               \/ DeadlinePasses \/ Lockout \/ UNCHANGED vars
      <4>1. UNCHANGED <<remote, l1>>
        BY <3>6 DEF BeginRename, Classify, BeginUploads, BeginDeletes,
           BeginPrune, SaveListing1, SaveListing2, NotePushed, EndPush, DeadlinePasses, Lockout,
           vars, sides, batch
      <4> QED BY <1>2, <4>1
    <3> QED BY <1>5, <3>1, <3>2, <3>3, <3>4, <3>5, <3>6, QuietNext
  <2> QED BY <1>2, <2>1, <2>2 DEF F
<1> QED BY <1>3, <1>4, <1>5

\* What an edit changes, and what it reports: a file written in a folder that was
\* not there is reported as the folder.
LEMMA UserFiles ==
  ASSUME Calm, TypeOK, User
  PROVE  \E c \in Change :
           /\ Edit(c)
           /\ \A q \in Files :
                \/ local'[q] = local[q]
                \/ local'[q] = 0 /\ q \in Named(c)
                \/ /\ local'[q] = FreshVersion
                   /\ q \in Named(c) \/ (q[1] \in Dirs /\ local[q[1]] = 0)
                \/ "rename" \in UserOps /\ q \in To(c.renames) /\ q \in Named(c)
<1>1. ASSUME NEW p \in Files, UserWrite(p, FreshVersion)
      PROVE  \E c \in Change :
               /\ Edit(c)
               /\ \A q \in Files :
                    \/ local'[q] = local[q]
                    \/ /\ local'[q] = FreshVersion
                       /\ q \in Named(c) \/ (q[1] \in Dirs /\ local[q[1]] = 0)
  <2> DEFINE c == Dirty(Appeared(p))
  <2>1. c \in Change
    <3>1. Appeared(p) \in SUBSET Locs
      BY FilesAreNotDirs DEF Appeared, Locs
    <3> QED BY <3>1, ChangeTypes
  <2>2. Edit(c) /\ Named(c) = Appeared(p)
    BY <1>1, NamedBy DEF UserWrite
  <2> HIDE DEF c
  <2>3. \A q \in Files : local'[q] = IF q = p THEN FreshVersion ELSE local[q]
    BY <1>1, NotAPlace, FilesAreNotDirs DEF UserWrite, Put
  <2> QED BY <2>1, <2>2, <2>3 DEF Appeared
<1>2. ASSUME NEW p \in Files, UserDelete(p)
      PROVE  \E c \in Change :
               /\ Edit(c)
               /\ \A q \in Files : \/ local'[q] = local[q]
                                   \/ local'[q] = 0 /\ q \in Named(c)
  <2>1. Dirty({p}) \in Change /\ Edit(Dirty({p})) /\ Named(Dirty({p})) = {p}
    BY <1>2, FilesAreNotDirs, ChangeTypes, NamedBy DEF UserDelete
  <2>2. \A q \in Files : local'[q] = IF q = p THEN 0 ELSE local[q]
    BY <1>2, FilesAreNotDirs DEF UserDelete, Without
  <2> QED BY <2>1, <2>2
<1>3. ASSUME NEW p \in Files, NEW r \in Files, UserRename(p, r),
             Edit(Rename(<<p, r>>))
      PROVE  \E c \in Change :
               /\ Edit(c)
               /\ \A q \in Files : \/ local'[q] = local[q]
                                   \/ local'[q] = 0 /\ q \in Named(c)
                                   \/ q \in To(c.renames) /\ q \in Named(c)
  <2> DEFINE c == Rename(<<p, r>>)
  <2>1. c \in Change
    BY ChangeTypes DEF Renames
  <2>2. Named(c) = {p, r}
    BY NamedBy
  <2>3. c.renames = <<<<p, r>>>>
    BY QueuesOf
  <2>4. To(c.renames) = {r}
    BY <2>3, EndsOfFew
  <2>5. \A q \in Files : local'[q] = IF q = r THEN local[p]
                                     ELSE IF q = p THEN 0 ELSE local[q]
    BY <1>3, NotAPlace, FilesAreNotDirs DEF UserRename, Put, Without
  <2> QED BY <1>3, <2>1, <2>2, <2>4, <2>5
<1>4. ASSUME NEW d \in Dirs, UserRemoveDir(d)
      PROVE  \E c \in Change :
               /\ Edit(c)
               /\ \A q \in Files : \/ local'[q] = local[q]
                                   \/ local'[q] = 0 /\ q \in Named(c)
  <2> DEFINE S == {d} \union {p \in Under(d) : local[p] # 0}
  <2>1. S \in SUBSET Locs
    BY DEF Under, Locs
  <2>2. Dirty(S) \in Change /\ Edit(Dirty(S)) /\ Named(Dirty(S)) = S
    BY <1>4, <2>1, ChangeTypes, NamedBy DEF UserRemoveDir
  <2>3. \A q \in Files : \/ local'[q] = local[q]
                         \/ local'[q] = 0 /\ q \in S
    BY <1>4, FilesAreNotDirs DEF UserRemoveDir, Without
  <2> QED BY <2>2, <2>3
<1> QED BY <1>1, <1>2, <1>3, <1>4, QuietUser

LEMMA ReportedNext ==
  ASSUME Calm, TypeOK, Staged, Reported, [Next]_vars
  PROVE  Reported'
<1> SUFFICES ASSUME NEW q \in uploads' PROVE local'[q] # 0 \/ q \in Named(events')
  BY DEF Reported, Named, Ends, From, To
<1>1. CASE pc = "upload" \/ pc = "pair"
  <2>1. ~Pull /\ ~Resync /\ ~PushChanges /\ ~Classify
    BY <1>1 DEF Pull, Resync, PushChanges, Classify
  <2>2. CASE User
    <3>1. PICK c \in Change :
            /\ Edit(c)
            /\ \A p \in Files : \/ local'[p] = local[p]
                                \/ p \in Named(c)
                                \/ local'[p] = FreshVersion
      BY <2>2, UserFiles
    <3>2. q \in uploads /\ q \in Files
      BY <3>1 DEF Edit, batch, TypeOK
    <3>3. Named(events') = Named(events) \union Named(c)
      BY <3>1, NamedBy DEF TypeOK, Edit
    <3>4. FreshVersion # 0
      BY FilesFinite DEF FreshVersion, TypeOK
    <3> QED BY <3>1, <3>2, <3>3, <3>4 DEF Reported
  <2>3. CASE ~User
    <3>1. local' = local
      BY <2>1, <2>3, OnlyUserAndPasses
    <3>2. events' = events /\ uploads' \subseteq uploads
      <4>1. CASE UNCHANGED vars \/ BeginRename \/ MoveOne \/ BeginUploads \/ Upload
                 \/ BeginDeletes \/ Delete
        BY <4>1 DEF vars, BeginRename, MoveOne, BeginUploads, Upload, BeginDeletes,
                    Delete, sides, batch
      <4>2. CASE BeginPrune \/ Prune \/ SaveListing1 \/ SaveListing2 \/ NotePushed \/ EndPush
                 \/ DeadlinePasses \/ Lockout
        BY <4>2 DEF BeginPrune, Prune, SaveListing1, SaveListing2, NotePushed, EndPush,
                    DeadlinePasses, Lockout, sides, batch
      <4> QED BY <2>1, <2>3, <4>1, <4>2, QuietNext
    <3> QED BY <3>1, <3>2 DEF Reported
  <2> QED BY <2>2, <2>3
<1>2. CASE pc \notin {"upload", "pair"}
  <2>1. uploads = {}
    BY <1>2 DEF Staged
  <2>2. Classify
    <3>1. CASE UNCHANGED vars \/ User \/ PushChanges
      BY <2>1, <3>1, QuietEdit, QuietPush DEF vars, batch, Edit, BeginPush
    <3>2. CASE BeginRename \/ MoveOne \/ BeginUploads \/ Upload \/ BeginDeletes \/ Delete
      BY <2>1, <3>2 DEF BeginRename, MoveOne, BeginUploads, Upload, BeginDeletes, Delete
    <3>3. CASE BeginPrune \/ Prune \/ SaveListing1 \/ SaveListing2 \/ NotePushed \/ EndPush
               \/ DeadlinePasses \/ Lockout \/ Pull \/ Resync
      BY <2>1, <3>3 DEF BeginPrune, Prune, SaveListing1, SaveListing2, NotePushed, EndPush,
                        DeadlinePasses, Lockout, Pull, Resync, PassLeaves, batch
    <3> QED BY <3>1, <3>2, <3>3, QuietNext
  <2>3. local' = local /\ uploads' = UploadsOf(dirty)
    BY <2>2 DEF Classify, sides
  <2> QED BY <2>3 DEF UploadsOf
<1> QED BY <1>1, <1>2

-----------------------------------------------------------------------------
(***************************************************************************)
(* Every difference is spoken for.                                         *)
(*                                                                         *)
(* Spoken is what some report, queue or phase of the batch still has to    *)
(* look at.  (The paths left in dirty once they are classified do not      *)
(* count: nothing looks at them again.)  What the engine drops without a   *)
(* call, it drops as an echo, and that is right only if a file that is as  *)
(* the listing has it is as the remote has it too.  It may not be, when    *)
(* a rename brought it there; but then the rename is still Expected to be  *)
(* followed.                                                               *)
(***************************************************************************)
Sources(ms) == {k[1] : k \in ms}
Targets(ms) == {k[2] : k \in ms}

InBatch ==
  IF pc = "rename"
  THEN dirty \union Ends(todo) \union Sources(moves) \union Targets(moves)
  ELSE {}
Spoken ==
  Named(events) \union Named(retry) \union Named(again)
    \union uploads \union deletes \union InBatch

ExpectedInBatch ==
  IF pc = "rename" THEN dirty \union To(todo) \union Targets(moves) ELSE {}
Expected == To(events.renames) \union uploads \union ExpectedInBatch

Awaited ==
  listed => \A p \in Files \intersect Kept :
              remote[p] = 0 \/ InSync(p) \/ p \in Spoken

Arriving ==
  listed => \A p \in Files \intersect Kept :
              local[p] = l1[p] /\ local[p] # 0 /\ ~InSync(p)
                => "rename" \in UserOps /\ p \in Expected

Accounts == Awaited /\ Arriving

\* The whole invariant.
Quiet ==
  /\ TypeOK /\ NoFolderRenames /\ Confined
  /\ Staged /\ Own /\ Agreed /\ Exact /\ Pushed /\ Housed /\ Aged /\ Reported
  /\ Accounts

\* How a step may leave each file.
Spared(p) ==
  \/ local'[p] = local[p] /\ remote'[p] = remote[p] /\ (p \in Spoken => p \in Spoken')
  \/ remote'[p] = 0 \/ remote'[p] = local'[p]
  \/ p \in Spoken'
Welcome(p) ==
  \/ /\ local'[p] = local[p] /\ remote'[p] = remote[p] /\ l1'[p] = l1[p]
     /\ p \in Expected => p \in Expected'
  \/ local'[p] = 0 \/ local'[p] # l1'[p] \/ remote'[p] = local'[p]
  \/ "rename" \in UserOps /\ p \in Expected'

LEMMA AccountsKept ==
  ASSUME Accounts, listed' => listed,
         \A p \in Files \intersect Kept : Spared(p) /\ Welcome(p)
  PROVE  Accounts'
<1>1. Awaited'
  BY DEF Accounts, Awaited, Spared, InSync
<1>2. Arriving'
  BY DEF Accounts, Arriving, Welcome, InSync
<1> QED BY <1>1, <1>2 DEF Accounts

\* Steps that change no file and drop no path.
LEMMA AccountsUnmoved ==
  ASSUME Accounts, UNCHANGED <<local, remote, l1, listed>>,
         Spoken \subseteq Spoken', Expected \subseteq Expected'
  PROVE  Accounts'
BY AccountsKept DEF Spared, Welcome

LEMMA AccountsUser ==
  ASSUME Calm, Quiet, User
  PROVE  Accounts'
<1> USE DEF Quiet
<1>1. PICK c \in Change :
        /\ Edit(c)
        /\ \A q \in Files :
             \/ local'[q] = local[q]
             \/ local'[q] = 0 /\ q \in Named(c)
             \/ /\ local'[q] = FreshVersion
                /\ q \in Named(c) \/ (q[1] \in Dirs /\ local[q[1]] = 0)
             \/ "rename" \in UserOps /\ q \in To(c.renames) /\ q \in Named(c)
  BY UserFiles
<1>2. UNCHANGED <<remote, disk, memory, batch>> /\ events' = Merge(events, c)
  BY <1>1 DEF Edit
<1>3. Named(events') = Named(events) \union Named(c)
  BY <1>2, NamedBy DEF TypeOK
<1>4. To(events'.renames) = To(events.renames) \union To(c.renames)
  <2>1. events.renames \in Seq(Renames) /\ c.renames \in Seq(Renames)
    BY DEF TypeOK, Change
  <2>2. events'.renames = events.renames \o c.renames
    BY <1>2 DEF Merge
  <2> QED BY <2>1, <2>2, EndsOfConcat
<1>5. Spoken' = Spoken \union Named(c)
  BY <1>2, <1>3 DEF Spoken, InBatch, memory, batch
<1>6. Expected' = Expected \union To(c.renames)
  BY <1>2, <1>4 DEF Expected, ExpectedInBatch, batch
<1>7. listed' = listed /\ l1' = l1 /\ remote' = remote
  BY <1>2 DEF disk, batch
<1>8. CASE ~listed
  BY <1>7, <1>8 DEF Accounts, Awaited, Arriving
<1>9. CASE listed
  <2> SUFFICES ASSUME NEW p \in Files \intersect Kept PROVE Spared(p) /\ Welcome(p)
    BY <1>7, AccountsKept
  <2>1. CASE local'[p] = local[p]
    BY <1>5, <1>6, <1>7, <2>1 DEF Spared, Welcome
  <2>2. CASE local'[p] = 0 /\ p \in Named(c)
    BY <1>5, <2>2 DEF Spared, Welcome
  <2>3. CASE local'[p] = FreshVersion /\ p \in Named(c)
    <3>1. local'[p] # l1'[p]
      BY <1>7, <2>3, FilesFinite DEF Aged, TypeOK, FreshVersion
    <3> QED BY <1>5, <2>3, <3>1 DEF Spared, Welcome
  <2>4. CASE local'[p] = FreshVersion /\ p[1] \in Dirs /\ local[p[1]] = 0
    <3>1. local'[p] # l1'[p]
      BY <1>7, <2>4, FilesFinite DEF Aged, TypeOK, FreshVersion
    <3>2. local[p] = 0
      BY <2>4 DEF Housed
    <3>3. remote[p] = 0 \/ p \in Spoken
      BY <1>9, <3>2 DEF Accounts, Awaited, InSync
    <3> QED BY <1>5, <1>7, <3>1, <3>3 DEF Spared, Welcome
  <2>5. CASE "rename" \in UserOps /\ p \in To(c.renames) /\ p \in Named(c)
    BY <1>5, <1>6, <2>5 DEF Spared, Welcome
  <2> QED BY <1>1, <2>1, <2>2, <2>3, <2>4, <2>5
<1> QED BY <1>8, <1>9

\* Taking changes drops nothing but what is in sync already.
LEMMA AccountsPush ==
  ASSUME Calm, Quiet, PushChanges
  PROVE  Accounts'
<1> USE DEF Quiet
<1>1. PICK taken \in {events, NoChange} :
        LET c == Merge(retry, taken)
        IN  /\ c.dirty = retry.dirty \union taken.dirty
            /\ events' = IF taken = events THEN NoChange ELSE events
            /\ NotEchoes(c).renames = taken.renames
            /\ NotEchoes(c).dirty = {p \in c.dirty : ~Echo(p)}
            /\ \/ NotEchoes(c) = NoChange /\ UNCHANGED batch
               \/ ~listed /\ UNCHANGED batch
               \/ BeginPush(c)
  BY QuietPush
<1> DEFINE c == Merge(retry, taken)
<1>2. /\ pc = "idle" /\ UNCHANGED <<local, remote, listed>> /\ retry' = NoChange
      /\ lst1 = l1
  BY DEF PushChanges, Agreed
<1>3. /\ retry.renames = <<>> /\ again = NoChange /\ todo = <<>>
      /\ moves = {} /\ uploads = {} /\ deletes = {}
  BY <1>2 DEF Staged
<1>4. /\ NoChange.dirty = {} /\ NoChange.renames = <<>>
      /\ Named(NoChange) = {} /\ Ends(<<>>) = {} /\ To(<<>>) = {}
  BY EndsOfFew, NamedBy DEF NoChange
<1>5. Spoken = Named(events) \union Named(retry) /\ Expected = To(events.renames)
  BY <1>2, <1>3, <1>4 DEF Spoken, InBatch, Expected, ExpectedInBatch
<1>6. Named(events) = events.dirty \union Ends(events.renames) /\ Named(retry) = retry.dirty
  BY <1>3, <1>4 DEF Named
<1>7. /\ Spoken' = Named(events') \union uploads' \union deletes' \union InBatch'
                     \union Named(again')
      /\ Expected' = To(events'.renames) \union uploads' \union ExpectedInBatch'
  BY <1>2, <1>4 DEF Spoken, Expected
<1>8. CASE ~listed
  BY <1>2, <1>8 DEF Accounts, Awaited, Arriving
<1>9. \A p \in Files \intersect Kept :
        listed /\ Echo(p) => InSync(p) \/ p \in To(events.renames)
  BY <1>2, <1>5 DEF Echo, Contains, Accounts, Arriving
<1>10. \A s : To(s) \subseteq Ends(s)
  BY DEF Ends
<1>11. CASE listed /\ NotEchoes(c) = NoChange /\ UNCHANGED batch
  <2>1. taken.renames = <<>> /\ \A p \in c.dirty : Echo(p)
    BY <1>1, <1>4, <1>11
  <2>2. l1' = l1 /\ uploads' = {} /\ deletes' = {} /\ InBatch' = {} /\ ExpectedInBatch' = {}
    BY <1>2, <1>3, <1>11 DEF batch, InBatch, ExpectedInBatch
  <2>3. To(events.renames) \subseteq To(events'.renames)
    BY <1>1, <1>4, <2>1
  <2> SUFFICES ASSUME NEW p \in Files \intersect Kept PROVE Spared(p) /\ Welcome(p)
    BY <1>2, AccountsKept
  <2>4. Welcome(p)
    BY <1>2, <1>5, <1>7, <2>2, <2>3 DEF Welcome
  <2>5. CASE p \in c.dirty
    <3>1. InSync(p) \/ p \in To(events.renames)
      BY <1>9, <1>11, <2>1, <2>5
    <3>2. p \in To(events.renames) => p \in Named(events')
      BY <1>10, <2>3 DEF Named
    <3> QED BY <1>2, <1>7, <2>4, <3>1, <3>2 DEF Spared, InSync
  <2>6. CASE p \notin c.dirty
    <3>1. p \in Spoken => p \in Named(events')
      BY <1>1, <1>4, <1>5, <1>6, <2>1, <2>6
    <3> QED BY <1>2, <1>7, <2>4, <3>1 DEF Spared
  <2> QED BY <2>5, <2>6
<1>12. CASE listed /\ BeginPush(c)
  <2>1. /\ pc' = "rename" /\ l1' = l1 /\ uploads' = {} /\ deletes' = {}
        /\ todo' = taken.renames /\ dirty' = {p \in c.dirty : ~Echo(p)}
        /\ again' = NoChange
    BY <1>1, <1>2, <1>3, <1>12 DEF BeginPush
  <2>2. dirty' \union Ends(todo') \subseteq InBatch' /\ To(todo') \subseteq ExpectedInBatch'
    BY <2>1 DEF InBatch, ExpectedInBatch
  <2>3. /\ To(events.renames) \subseteq To(events'.renames) \union To(todo')
        /\ Named(events) \subseteq Named(events') \union Ends(todo') \union taken.dirty
    BY <1>1, <1>6, <2>1
  <2> SUFFICES ASSUME NEW p \in Files \intersect Kept PROVE Spared(p) /\ Welcome(p)
    BY <1>2, AccountsKept
  <2>4. Welcome(p)
    BY <1>2, <1>5, <1>7, <2>1, <2>2, <2>3 DEF Welcome
  <2>5. CASE p \in c.dirty
    <3>1. CASE Echo(p)
      <4>1. InSync(p) \/ p \in To(events.renames)
        BY <1>9, <1>12, <3>1
      <4>2. p \in To(events.renames) => p \in Named(events') \/ p \in InBatch'
        BY <1>10, <2>2, <2>3 DEF Named
      <4> QED BY <1>2, <1>7, <2>4, <4>1, <4>2 DEF Spared, InSync
    <3>2. CASE ~Echo(p)
      BY <1>7, <2>1, <2>2, <2>4, <2>5, <3>2 DEF Spared
    <3> QED BY <3>1, <3>2
  <2>6. CASE p \notin c.dirty
    <3>1. p \in Spoken => p \in Named(events') \/ p \in InBatch'
      BY <1>1, <1>5, <1>6, <2>2, <2>3, <2>6
    <3> QED BY <1>2, <1>7, <2>4, <3>1 DEF Spared
  <2> QED BY <2>5, <2>6
<1> QED BY <1>1, <1>8, <1>11, <1>12

LEMMA AccountsBeginRename ==
  ASSUME Calm, Quiet, BeginRename
  PROVE  Accounts'
<1> USE DEF Quiet
<1> DEFINE k == Head(todo)
<1>1. /\ UNCHANGED <<sides, disk, memory, pc, l1, uploads, deletes, again>>
      /\ \/ dirty' = dirty \union {k[1], k[2]} /\ moves' = {}
         \/ dirty' = dirty /\ moves' = {k}
      /\ todo' = Tail(todo) /\ todo # <<>> /\ todo \in Seq(Files \X Files)
  BY QuietBeginRename
<1>2. pc = "rename" /\ moves = {}
  BY DEF BeginRename
<1>3. Ends(todo) = {k[1], k[2]} \union Ends(todo') /\ To(todo) = {k[2]} \union To(todo')
  BY <1>1, EndsOfQueue
<1> HIDE DEF k
<1>4. InBatch \subseteq InBatch' /\ ExpectedInBatch \subseteq ExpectedInBatch'
  BY <1>1, <1>2, <1>3 DEF InBatch, ExpectedInBatch, Sources, Targets
<1>5. Spoken \subseteq Spoken' /\ Expected \subseteq Expected'
  BY <1>1, <1>4 DEF Spoken, Expected, sides, memory
<1> QED BY <1>1, <1>5, AccountsUnmoved DEF sides, disk

LEMMA AccountsMove ==
  ASSUME Calm, Quiet, MoveOne
  PROVE  Accounts'
<1> USE DEF Quiet
<1>1. PICK k \in moves : /\ moves' = moves \ {k}
                         /\ MoveUnsafe(k) \/ \E o \in Outcomes : MoveCalled(k, o)
  BY DEF MoveOne
<1>2. "rename" \in UserOps /\ (Aside(k) \/ Carried(k))
  BY <1>1, QuietMove
<1>3. /\ UNCHANGED <<local, events, listed, retry, pc, todo, uploads>>
      /\ pc \in {"rename", "pair"} /\ (pc = "pair" => k[2] \in uploads)
  BY DEF MoveOne, disk, Staged
<1>4. again' = again
  BY <1>2 DEF Aside, Carried
<1>5. Sources(moves) \subseteq Sources(moves') \union {k[1]}
      /\ Targets(moves) \subseteq Targets(moves') \union {k[2]}
  BY <1>1 DEF Sources, Targets
<1>6. CASE Aside(k)
  <2>1. dirty' = dirty \union {k[1], k[2]} /\ UNCHANGED <<remote, l1, deletes>>
    BY <1>6 DEF Aside
  <2>2. InBatch \subseteq InBatch' /\ ExpectedInBatch \subseteq ExpectedInBatch'
    BY <1>3, <1>5, <2>1 DEF InBatch, ExpectedInBatch
  <2>3. Spoken \subseteq Spoken' /\ Expected \subseteq Expected'
    BY <1>3, <1>4, <2>1, <2>2 DEF Spoken, Expected
  <2> QED BY <1>3, <2>1, <2>3, AccountsUnmoved
<1>7. CASE Carried(k)
  <2>1. /\ \A p \in Files : /\ remote'[p] = IF p = k[1] THEN 0
                                            ELSE IF p = k[2] THEN remote[k[1]]
                                            ELSE remote[p]
                            /\ l1'[p] = IF p = k[1] THEN 0
                                        ELSE IF p = k[2] THEN l1[k[1]]
                                        ELSE l1[p]
        /\ dirty' = dirty \union {k[2]}
        /\ deletes \subseteq deletes' \union {k[1]}
    BY <1>7 DEF Carried
  <2>2. InBatch \subseteq InBatch' \union {k[1]} /\ ExpectedInBatch \subseteq ExpectedInBatch'
    BY <1>3, <1>5, <2>1 DEF InBatch, ExpectedInBatch
  <2>3. Spoken \subseteq Spoken' \union {k[1]} /\ Expected \subseteq Expected'
    BY <1>3, <1>4, <2>1, <2>2 DEF Spoken, Expected
  <2>4. k[2] \in Expected' /\ k[2] \in Spoken'
    BY <1>3, <2>1 DEF Spoken, InBatch, Expected, ExpectedInBatch
  <2> SUFFICES ASSUME NEW p \in Files \intersect Kept PROVE Spared(p) /\ Welcome(p)
    BY <1>3, AccountsKept
  <2>5. CASE p = k[1]
    BY <2>1, <2>5 DEF Spared, Welcome
  <2>6. CASE p = k[2]
    BY <1>2, <2>4, <2>6 DEF Spared, Welcome
  <2>7. CASE p # k[1] /\ p # k[2]
    BY <1>3, <2>1, <2>3, <2>7 DEF Spared, Welcome
  <2> QED BY <2>5, <2>6, <2>7
<1> QED BY <1>2, <1>6, <1>7

LEMMA AccountsClassify ==
  ASSUME Calm, Quiet, Classify
  PROVE  Accounts'
<1> USE DEF Quiet
<1>1. /\ UNCHANGED <<sides, disk, memory, l1, again>>
      /\ pc = "rename" /\ pc' = "pair" /\ todo = <<>> /\ moves = {}
      /\ uploads' = UploadsOf(dirty) /\ deletes' = DeletesOf(dirty)
  BY DEF Classify
<1>2. uploads = {} /\ deletes = {}
  BY <1>1 DEF Staged
<1>3. InBatch = dirty /\ ExpectedInBatch = dirty
  BY <1>1, EndsOfFew DEF InBatch, ExpectedInBatch, Sources, Targets
<1>4. /\ Spoken \subseteq Spoken' \union dirty
      /\ Expected \subseteq Expected' \union dirty
      /\ uploads' \union deletes' \subseteq Spoken' /\ uploads' \subseteq Expected'
  BY <1>1, <1>2, <1>3 DEF Spoken, Expected, sides, memory
<1> SUFFICES ASSUME NEW p \in Files \intersect Kept PROVE Spared(p) /\ Welcome(p)
  BY <1>1, AccountsKept DEF disk
<1>5. local' = local /\ remote' = remote /\ l1' = l1
  BY <1>1 DEF sides
<1>6. CASE p \notin dirty
  BY <1>4, <1>5, <1>6 DEF Spared, Welcome
<1>7. CASE p \in dirty /\ local[p] # 0
  <2>1. p \in uploads'
    BY <1>1, <1>7 DEF UploadsOf
  <2> QED BY <1>4, <1>5, <2>1 DEF Spared, Welcome
<1>8. CASE p \in dirty /\ local[p] = 0
  <2>1. remote[p] = 0 \/ p \in deletes'
    BY <1>1, <1>8 DEF DeletesOf, Exact
  <2> QED BY <1>4, <1>5, <1>8, <2>1 DEF Spared, Welcome
<1> QED BY <1>6, <1>7, <1>8

LEMMA AccountsUpload ==
  ASSUME Calm, Quiet, Upload
  PROVE  Accounts'
<1> USE DEF Quiet
<1>1. PICK p \in uploads : /\ uploads' = uploads \ {p}
                           /\ Sent(p) \/ Gone(p) \/ Postponed(p)
  BY QuietUpload
<1>2. /\ UNCHANGED <<local, events, listed, retry, pc, l1, todo, moves, dirty, deletes>>
      /\ pc = "upload" /\ listed
  BY DEF Upload, disk, Staged
<1>3. InBatch = {} /\ InBatch' = {} /\ ExpectedInBatch = {} /\ ExpectedInBatch' = {}
  BY <1>2 DEF InBatch, ExpectedInBatch
<1>4. Named(again) \subseteq Named(again')
  <2>1. Postponed(p) => Named(again') = Named(again) \union {p}
    <3>1. p \in Locs
      BY FilesAreNotDirs DEF TypeOK
    <3>2. Dirty({p}) \in Change /\ Named(Dirty({p})) = {p}
      BY <3>1, ChangeTypes, NamedBy
    <3> QED BY <3>2, NamedBy DEF Postponed, TypeOK
  <2> QED BY <1>1, <2>1 DEF Sent, Gone
<1>5. /\ Spoken \subseteq Spoken' \union {p} /\ Expected \subseteq Expected' \union {p}
      /\ Named(events) \union Named(again') \subseteq Spoken'
  BY <1>1, <1>2, <1>3, <1>4 DEF Spoken, Expected
<1> SUFFICES ASSUME NEW q \in Files \intersect Kept PROVE Spared(q) /\ Welcome(q)
  BY <1>2, AccountsKept
<1>6. CASE q # p
  <2>1. remote'[q] = remote[q]
    BY <1>1, <1>6 DEF Sent, Gone, Postponed
  <2> QED BY <1>2, <1>5, <1>6, <2>1 DEF Spared, Welcome
<1>7. CASE q = p
  <2>1. CASE Sent(p)
    BY <1>2, <1>7, <2>1 DEF Sent, Spared, Welcome
  <2>2. CASE Gone(p)
    BY <1>2, <1>5, <1>7, <2>2 DEF Gone, Reported, Spared, Welcome
  <2>3. CASE Postponed(p)
    <3>1. p \in Named(again')
      <4>1. p \in Locs
        BY <1>7, FilesAreNotDirs
      <4>2. Dirty({p}) \in Change /\ Named(Dirty({p})) = {p}
        BY <4>1, ChangeTypes, NamedBy
      <4> QED BY <2>3, <4>2, NamedBy DEF Postponed, TypeOK
    <3>2. local[p] # l1[p] \/ local[p] = 0 \/ remote[p] = local[p]
      BY <1>2, <1>7, <2>3 DEF Accounts, Arriving, InSync, Postponed
    <3> QED BY <1>2, <1>5, <1>7, <2>3, <3>1, <3>2 DEF Postponed, Spared, Welcome
  <2> QED BY <1>1, <2>1, <2>2, <2>3
<1> QED BY <1>6, <1>7

LEMMA AccountsDelete ==
  ASSUME Calm, Quiet, Delete
  PROVE  Accounts'
<1> USE DEF Quiet
<1>1. PICK p \in deletes :
        /\ deletes' = deletes \ {p}
        /\ Forgotten(p) \/ (Postponed(p) /\ UNCHANGED <<l1, l2, prune>>)
  BY QuietDelete
<1>2. /\ UNCHANGED <<local, events, listed, retry, pc, todo, moves, dirty, uploads>>
      /\ pc = "delete" /\ p \in Locs
  BY FilesAreNotDirs DEF Delete, disk, TypeOK
<1>3. InBatch = {} /\ InBatch' = {} /\ ExpectedInBatch = {} /\ ExpectedInBatch' = {}
  BY <1>2 DEF InBatch, ExpectedInBatch
<1>4. Postponed(p) => Named(again') = Named(again) \union {p}
  <2>1. Dirty({p}) \in Change /\ Named(Dirty({p})) = {p}
    BY <1>2, ChangeTypes, NamedBy
  <2> QED BY <2>1, NamedBy DEF Postponed, TypeOK
<1>5. Expected' = Expected
  BY <1>2, <1>3 DEF Expected
<1> SUFFICES ASSUME NEW q \in Files \intersect Kept PROVE Spared(q) /\ Welcome(q)
  BY <1>2, AccountsKept
<1>6. CASE Forgotten(p)
  <2>1. Spoken \subseteq Spoken' \union {p}
    BY <1>1, <1>2, <1>3, <1>6 DEF Spoken, Forgotten
  <2> QED BY <1>2, <1>5, <1>6, <2>1 DEF Forgotten, Spared, Welcome
<1>7. CASE Postponed(p) /\ UNCHANGED <<l1, l2, prune>>
  <2>1. Spoken \subseteq Spoken'
    BY <1>1, <1>2, <1>3, <1>4, <1>7 DEF Spoken
  <2> QED BY <1>2, <1>5, <1>7, <2>1 DEF Postponed, Spared, Welcome
<1> QED BY <1>1, <1>6, <1>7

LEMMA AccountsPass ==
  ASSUME Pull \/ Resync
  PROVE  Accounts'
<1>1. PICK m : PassLeaves(m)
  BY DEF Pull, Resync
<1>2. \A p \in Files \intersect Kept : remote'[p] = local'[p]
  BY <1>1, PassFiles, FilesAreNotDirs
<1> QED BY <1>2 DEF Accounts, Awaited, Arriving, InSync

\* There are never deletions enough to be withheld.
LEMMA NoStorm ==
  ASSUME Calm, TypeOK
  PROVE  ~Storm(deletes)
<1>1. deletes \subseteq Files
  BY DEF TypeOK
<1>2. Cardinality(deletes) \in Nat /\ Cardinality(deletes) <= Cardinality(Files)
  BY <1>1, FilesFinite, FS_Subset, FS_CardinalityType
<1> QED BY <1>2, FilesFinite, PushAssumption DEF Storm, Calm

LEMMA AccountsSmallSteps ==
  ASSUME Calm, Quiet,
         \/ BeginUploads \/ BeginDeletes \/ BeginPrune \/ Prune \/ SaveListing1
         \/ SaveListing2 \/ NotePushed \/ EndPush \/ DeadlinePasses
         \/ UNCHANGED vars
  PROVE  Accounts'
<1> USE DEF Quiet
<1>1. CASE BeginUploads \/ BeginDeletes \/ BeginPrune \/ SaveListing1 \/ SaveListing2
           \/ NotePushed \/ DeadlinePasses \/ UNCHANGED vars
  <2>1. UNCHANGED <<sides, listed, retry, l1, again, uploads, deletes>>
    BY <1>1, NoStorm DEF BeginUploads, BeginDeletes, BeginPrune, SaveListing1,
       SaveListing2, NotePushed, DeadlinePasses, vars, disk, memory, batch
  <2>2. \/ UNCHANGED <<pc, dirty, todo, moves>>
        \/ pc # "rename" /\ pc' # "rename"
    BY <1>1 DEF BeginUploads, BeginDeletes, BeginPrune, SaveListing1, SaveListing2,
       NotePushed, DeadlinePasses, vars, batch
  <2>3. Spoken' = Spoken /\ Expected' = Expected
    BY <2>1, <2>2 DEF Spoken, InBatch, Expected, ExpectedInBatch, sides
  <2> QED BY <2>1, <2>3, AccountsUnmoved DEF sides
<1>2. CASE Prune
  <2>1. PICK d \in prune : /\ remote' = Without(remote, {d}) \/ remote' = remote
                           /\ l1' = RemoveEntry(l1, d) \/ l1' = l1
    BY <1>2 DEF Prune
  <2>2. \A p \in Files : remote'[p] = remote[p] /\ l1'[p] = l1[p]
    BY <2>1, FilesAreNotDirs DEF TypeOK, Without, RemoveEntry
  <2>3. UNCHANGED <<local, events, listed, retry, again, pc, dirty, todo, moves,
                    uploads, deletes>>
    BY <1>2 DEF Prune, disk, memory
  <2>4. Spoken' = Spoken /\ Expected' = Expected
    BY <2>3 DEF Spoken, InBatch, Expected, ExpectedInBatch
  <2> QED BY <2>2, <2>3, <2>4, AccountsKept DEF Spared, Welcome
<1>3. CASE EndPush
  <2>1. /\ UNCHANGED <<sides, listed, l1, uploads, deletes>>
        /\ retry' = again /\ again' = NoChange /\ pc = "noted" /\ pc' = "idle"
    BY <1>3 DEF EndPush
  <2>2. Named(retry) = {}
    BY <2>1, NamedBy DEF Staged
  <2>3. Spoken \subseteq Spoken' /\ Expected' = Expected
    BY <2>1, <2>2 DEF Spoken, InBatch, Expected, ExpectedInBatch, sides
  <2> QED BY <2>1, <2>3, AccountsUnmoved DEF sides
<1> QED BY <1>1, <1>2, <1>3

LEMMA AccountsNext ==
  ASSUME Calm, Quiet, [Next]_vars
  PROVE  Accounts'
<1>1. Staged
  BY DEF Quiet
<1>2. Lockout => Accounts'
  BY DEF Lockout, Accounts, Awaited, Arriving
<1> QED
  BY <1>1, <1>2, QuietNext, AccountsUser, AccountsPush, AccountsBeginRename,
     AccountsMove, AccountsClassify, AccountsUpload, AccountsDelete, AccountsPass,
     AccountsSmallSteps

LEMMA QuietInit == Init => Quiet
<1> SUFFICES ASSUME Init PROVE Quiet
  OBVIOUS
<1>1. PICK synced \in SUBSET (Files \intersect Kept) :
        /\ local = [x \in Locs |->
                     IF x \in synced THEN FirstVersion[x]
                     ELSE IF \E p \in synced : x = p[1] THEN 1 ELSE 0]
        /\ ino = [p \in Files |-> IF p \in synced THEN Born(p, 0) ELSE NoId]
  BY DEF Init
<1>2. \A p \in Files : local[p] = IF p \in synced THEN FirstVersion[p] ELSE 0
  BY <1>1, NotAPlace, FilesAreNotDirs
<1>3. TypeOK /\ NoFolderRenames /\ Confined
  BY TypeInit, NoFoldersInit DEF Init, Confined
<1>4. Staged
  BY QueuesOf DEF Init, Staged
<1>5. Own
  BY <1>1 DEF Init, Own, Scanned, Born
<1>6. Agreed
  BY DEF Init, Agreed
<1>7. Exact
  BY FilesAreNotDirs DEF Init, Exact, OnRemote, Contains, Listed
<1>12. Pushed
  BY FilesAreNotDirs DEF Init, Pushed, Listed
<1>8. Housed
  <2> SUFFICES ASSUME NEW p \in Files \intersect Kept, local[p] # 0, p[1] \in Dirs
               PROVE  local[p[1]] # 0
    BY DEF Housed
  <2>1. p \in synced /\ p[1] \in Locs /\ p[1] \notin synced
    BY <1>2, FilesAreNotDirs DEF Locs
  <2>2. local[p[1]] = 1
    BY <1>1, <2>1
  <2> QED BY <2>2
<1>9. Aged
  <2>1. FreshVersion = Cardinality(Files) + 1 /\ Cardinality(Files) \in Nat
    BY FilesFinite DEF Init, FreshVersion
  <2>2. \A p \in Files : FirstVersion[p] \in 1..Cardinality(Files)
    BY PushAssumption
  <2>3. \A p \in Files : local[p] < FreshVersion
    BY <1>2, <2>1, <2>2
  <2>4. \A p \in Files : remote[p] = local[p] /\ l1[p] \in {local[p], 0}
    BY FilesAreNotDirs DEF Init, Listed
  <2> QED BY <2>1, <2>3, <2>4 DEF Aged
<1>10. Reported
  BY DEF Init, Reported
<1>11. Accounts
  BY DEF Init, Accounts, Awaited, Arriving, InSync
<1> QED
  BY <1>3, <1>4, <1>5, <1>6, <1>7, <1>8, <1>9, <1>10, <1>11, <1>12 DEF Quiet

LEMMA QuietPreserved ==
  ASSUME Calm
  PROVE  Quiet /\ [Next]_vars => Quiet'
<1> SUFFICES ASSUME Quiet, [Next]_vars PROVE Quiet'
  OBVIOUS
<1>1. "renamedir" \notin UserOps
  BY DEF Calm
<1>2. Accounts'
  BY AccountsNext
<1>3. TypeOK' /\ NoFolderRenames' /\ Confined'
  BY <1>1, TypeNext, NoFoldersNext, ConfinedNext DEF Quiet
<1>4. Staged' /\ Own' /\ Agreed' /\ Exact' /\ Pushed'
  BY StagedNext, OwnNext, AgreedNext, ExactNext, PushedNext DEF Quiet
<1>5. Housed' /\ Aged' /\ Reported'
  BY HousedNext, AgedNext, ReportedNext DEF Quiet
<1> QED BY <1>2, <1>3, <1>4, <1>5 DEF Quiet

-----------------------------------------------------------------------------
(***************************************************************************)
(* The theorems.                                                           *)
(***************************************************************************)
\* What is Spoken for is in hand.
LEMMA SpokenIsInHand ==
  ASSUME TypeOK, NEW x \in Locs, NEW p \in Spoken, p \in Around(x)
  PROVE  InHand(x)
<1> DEFINE S == Around(x)
<1>1. \A s : p \in Ends(s) => \E i \in DOMAIN s : {s[i][1], s[i][2]} \intersect S # {}
  BY DEF Ends, From, To, Range
<1>2. \A c : p \in Named(c) => Mentions(c, S)
  BY <1>1 DEF Named, Mentions
<1> HIDE DEF S
<1>3. CASE p \in Named(events) \union Named(retry) \union Named(again)
  BY <1>2, <1>3 DEF InHand, S
<1>4. CASE p \in uploads \union deletes
  BY <1>4 DEF InHand
<1>5. CASE p \in InBatch
  <2> DEFINE b == [dirty |-> dirty, renames |-> todo]
  <2>1. b.dirty = dirty /\ b.renames = todo
    OBVIOUS
  <2>2. CASE p \in dirty \union Ends(todo)
    <3>1. p \in Named(b)
      BY <2>1, <2>2 DEF Named
    <3> HIDE DEF b
    <3>2. Mentions(b, S)
      BY <1>2, <3>1
    <3> QED BY <3>2 DEF InHand, S, b
  <2>3. CASE p \in Sources(moves) \union Targets(moves)
    BY <2>3 DEF InHand, Sources, Targets
  <2> QED BY <1>5, <2>2, <2>3 DEF InBatch
<1> QED BY <1>3, <1>4, <1>5 DEF Spoken

\* What the remote does not hold, and the listings do not have, is the user's.
LEMMA PullSettlesFile ==
  ASSUME Agreed, Exact, TypeOK, NEW p \in Files \intersect Kept,
         remote[p] = 0 \/ InSync(p)
  PROVE  MergedTree(local, l1, remote, l2)[p] = local[p]
<1>1. MergedTree(local, l1, remote, l2)[p]
        = MergedAt(p, local[p], l1[p], remote[p], l2[p])
  BY MergedFiles
<1>2. local[p] \in Nat /\ l1[p] = l2[p]
  BY FilesAreNotDirs DEF TypeOK, Agreed
<1>3. CASE remote[p] = 0
  <2>1. l2[p] = 0
    BY <1>3 DEF Exact, OnRemote, Contains
  <2> QED BY <1>1, <1>2, <1>3, <2>1 DEF MergedAt
<1>4. CASE InSync(p)
  BY <1>1, <1>2, <1>4 DEF MergedAt, Newer, InSync
<1> QED BY <1>3, <1>4

\* Of a file that was not pushed since the last pull the remote has what the
\* listings have, so that only the user can have changed it.
LEMMA PullSettlesUnpushed ==
  ASSUME Agreed, Pushed, NEW p \in Files \intersect Kept, p \notin known
  PROVE  MergedTree(local, l1, remote, l2)[p] = local[p]
<1>1. MergedTree(local, l1, remote, l2)[p]
        = MergedAt(p, local[p], l1[p], remote[p], l2[p])
  BY MergedFiles
<1>2. remote[p] = l2[p] /\ l1[p] = l2[p]
  BY DEF Agreed, Pushed
<1> QED BY <1>1, <1>2 DEF MergedAt

LEMMA QuietFiles == Quiet => FilesAccounted
<1> SUFFICES ASSUME Quiet, listed, NEW p \in Files \intersect Kept
             PROVE  PullSettles(p) \/ AwaitsPush(p)
  BY DEF FilesAccounted
<1>1. TypeOK /\ Agreed /\ Exact /\ Pushed /\ p \in Locs /\ p \in Around(p)
  BY FilesAreNotDirs DEF Quiet, Around
<1>2. CASE p \in Spoken /\ p \in known
  BY <1>1, <1>2, SpokenIsInHand DEF AwaitsPush
<1>3. CASE p \notin known
  BY <1>1, <1>3, PullSettlesUnpushed DEF PullSettles
<1>4. CASE remote[p] = 0 \/ InSync(p)
  BY <1>1, <1>4, PullSettlesFile DEF PullSettles
<1> QED BY <1>2, <1>3, <1>4 DEF Quiet, Accounts, Awaited

\* While bisync's listings are there, a pull that comes now, between any two
\* steps of a quiet pair, would bring the remote to what the user has of every
\* file, and never the user's tree to the remote's; except of a file that was
\* pushed since the last pull, and that the engine then still has in hand.
\* (There the pull does undo the change, and its event is dropped as an echo:
\* run PulledTooSoon.)  This is what lets push.rs drop echoes (push.rs:162) and
\* forget what is already gone.
THEOREM FilesAreAccounted ==
  ASSUME Calm
  PROVE  Spec => []FilesAccounted
<1>1. Init => Quiet
  BY QuietInit
<1>2. Quiet /\ [Next]_vars => Quiet'
  BY QuietPreserved
<1> QED BY <1>1, <1>2, QuietFiles, PTL DEF Spec

-----------------------------------------------------------------------------
(***************************************************************************)
(* Folders.  The engine never uploads or deletes one as such: on the       *)
(* remote a folder comes with a file and goes when it is pruned.           *)
(***************************************************************************)
\* What the filter excludes is not on the remote: the two sides began alike.
UnkeptEmpty == \A p \in Files \ Kept : remote[p] = 0

\* A folder is there or not.
Flags ==
  \A d \in Dirs \intersect Kept :
    local[d] \in {0, 1} /\ remote[d] \in {0, 1} /\ l2[d] \in {0, 1}

\* A folder the remote has and the listings have not is there for its files, or
\* still to be looked at; and the listings have none that the remote has not.
Kempt ==
  \A d \in Dirs \intersect Kept :
    /\ remote[d] # 0 /\ l2[d] = 0 => d \in prune \/ \E p \in Under(d) : remote[p] # 0
    /\ l2[d] # 0 => remote[d] # 0

Tidy == UnkeptEmpty /\ Flags /\ Kempt

LEMMA TidyInit == Init => Tidy
<1> SUFFICES ASSUME Init PROVE Tidy
  OBVIOUS
<1>1. PICK synced \in SUBSET (Files \intersect Kept) :
        local = [x \in Locs |->
                   IF x \in synced THEN FirstVersion[x]
                   ELSE IF \E p \in synced : x = p[1] THEN 1 ELSE 0]
  BY DEF Init
<1>2. remote = local /\ l2 = Listed(local)
  BY DEF Init
<1>3. UnkeptEmpty
  BY <1>1, <1>2, NotAPlace, FilesAreNotDirs DEF UnkeptEmpty
<1>4. ASSUME NEW d \in Dirs \intersect Kept
      PROVE  /\ local[d] \in {0, 1} /\ remote[d] = local[d] /\ l2[d] = local[d]
  <2>1. d \in Locs /\ d \notin synced
    BY FilesAreNotDirs DEF Locs
  <2>2. local[d] \in {0, 1}
    BY <1>1, <2>1
  <2> QED BY <1>2, <2>1, <2>2 DEF Listed
<1> QED BY <1>3, <1>4 DEF Tidy, Flags, Kempt

\* A step by which the remote loses no file and no folder, and folders keep their
\* place in the listings and among those to be pruned.
LEMMA TidyKept ==
  ASSUME Tidy, UnkeptEmpty',
         \A d \in Dirs : local'[d] = local[d] \/ local'[d] \in {0, 1},
         \A d \in Dirs : l2'[d] = l2[d] /\ (d \in prune => d \in prune'),
         \A d \in Dirs :
           \/ remote'[d] = remote[d]
           \/ remote'[d] = 1 /\ \E p \in Under(d) : remote'[p] # 0,
         \A p \in Files : \/ remote[p] # 0 => remote'[p] # 0
                          \/ p[1] \in prune'
  PROVE  Tidy'
<1>1. Flags'
  BY DEF Tidy, Flags
<1>2. ASSUME NEW d \in Dirs \intersect Kept
      PROVE  /\ remote'[d] # 0 /\ l2'[d] = 0
                  => d \in prune' \/ \E p \in Under(d) : remote'[p] # 0
             /\ l2'[d] # 0 => remote'[d] # 0
  <2>1. l2'[d] = l2[d] /\ (d \in prune => d \in prune')
    OBVIOUS
  <2>2. /\ remote[d] # 0 /\ l2[d] = 0 => d \in prune \/ \E p \in Under(d) : remote[p] # 0
        /\ l2[d] # 0 => remote[d] # 0
    BY DEF Tidy, Kempt
  <2>3. CASE remote'[d] = 1 /\ \E p \in Under(d) : remote'[p] # 0
    BY <2>3
  <2>4. CASE remote'[d] = remote[d]
    <3>1. ASSUME NEW p \in Under(d), remote[p] # 0
          PROVE  remote'[p] # 0 \/ d \in prune'
      BY <3>1 DEF Under
    <3> QED BY <2>1, <2>2, <2>4, <3>1
  <2> QED BY <2>3, <2>4
<1> QED BY <1>1, <1>2 DEF Tidy, Kempt

LEMMA TidyUser ==
  ASSUME Calm, TypeOK, Tidy, UnkeptEmpty', User
  PROVE  Tidy'
<1>1. UNCHANGED <<remote, l2, prune>>
  BY QuietEdit DEF Edit, batch
<1>2. ASSUME NEW d \in Dirs PROVE local'[d] = local[d] \/ local'[d] \in {0, 1}
  <2>1. d \in Locs /\ d \notin Files
    BY FilesAreNotDirs DEF Locs
  <2>2. ASSUME NEW p \in Files, UserWrite(p, FreshVersion)
        PROVE  local'[d] = local[d] \/ local'[d] \in {0, 1}
    BY <2>1, <2>2 DEF UserWrite, Put
  <2>3. ASSUME NEW p \in Files, UserDelete(p)
        PROVE  local'[d] = local[d] \/ local'[d] \in {0, 1}
    BY <2>1, <2>3 DEF UserDelete, Without
  <2>4. ASSUME NEW p \in Files, NEW q \in Files, UserRename(p, q)
        PROVE  local'[d] = local[d] \/ local'[d] \in {0, 1}
    BY <2>1, <2>4 DEF UserRename, Put, Without
  <2>5. ASSUME NEW e \in Dirs, UserRemoveDir(e)
        PROVE  local'[d] = local[d] \/ local'[d] \in {0, 1}
    BY <2>1, <2>5 DEF UserRemoveDir, Without
  <2> QED BY <2>2, <2>3, <2>4, <2>5, QuietUser
<1> QED BY <1>1, <1>2, TidyKept

LEMMA TidyMove ==
  ASSUME Calm, Quiet, Tidy, UnkeptEmpty', MoveOne
  PROVE  Tidy'
<1>1. PICK k \in moves : MoveUnsafe(k) \/ \E o \in Outcomes : MoveCalled(k, o)
  BY DEF MoveOne
<1>2. Aside(k) \/ Carried(k)
  BY <1>1, QuietMove DEF Quiet
<1>3. local' = local
  BY DEF MoveOne
<1>4. CASE Aside(k)
  BY <1>3, <1>4, TidyKept DEF Aside
<1>5. CASE Carried(k)
  <2>1. /\ k[1] \in Files /\ k[2] \in Files /\ k[1] # k[2]
        /\ remote[k[1]] # 0 /\ remote[k[2]] = 0
        /\ \A p \in Files : remote'[p] = IF p = k[1] THEN 0
                                         ELSE IF p = k[2] THEN remote[k[1]]
                                         ELSE remote[p]
        /\ \A d \in Dirs : /\ remote'[d] = IF d = k[2][1] THEN 1 ELSE remote[d]
                           /\ l2'[d] = l2[d]
        /\ prune' = prune \union ParentDirs(k[1])
    BY <1>5 DEF Carried
  <2>2. remote'[k[2]] # 0
    BY <2>1
  <2>3. ASSUME NEW d \in Dirs
        PROVE  \/ remote'[d] = remote[d]
               \/ remote'[d] = 1 /\ \E p \in Under(d) : remote'[p] # 0
    <3>1. CASE d = k[2][1]
      <4>1. k[2] \in Under(d)
        BY <2>1, <3>1 DEF Under
      <4> QED BY <2>1, <2>2, <3>1, <4>1
    <3> QED BY <2>1, <3>1
  <2>4. k[1][1] \in Dirs => k[1][1] \in prune'
    BY <2>1, TreeAssumption DEF ParentDirs, Dirs
  <2>5. ASSUME NEW d \in Dirs \intersect Kept
        PROVE  /\ remote'[d] # 0 /\ l2'[d] = 0
                    => d \in prune' \/ \E p \in Under(d) : remote'[p] # 0
               /\ l2'[d] # 0 => remote'[d] # 0
    <3>1. l2'[d] = l2[d] /\ (d \in prune => d \in prune')
      BY <2>1
    <3>2. /\ remote[d] # 0 /\ l2[d] = 0 => d \in prune \/ \E p \in Under(d) : remote[p] # 0
          /\ l2[d] # 0 => remote[d] # 0
      BY DEF Tidy, Kempt
    <3>3. ASSUME NEW p \in Under(d), remote[p] # 0
          PROVE  remote'[p] # 0 \/ d \in prune'
      BY <2>1, <2>4, <3>3 DEF Under
    <3> QED BY <2>3, <3>1, <3>2, <3>3
  <2>6. Flags'
    BY <1>3, <2>1 DEF Tidy, Flags
  <2> QED BY <2>5, <2>6 DEF Tidy, Kempt
<1> QED BY <1>2, <1>4, <1>5

LEMMA TidyUpload ==
  ASSUME Calm, Quiet, Tidy, UnkeptEmpty', Upload
  PROVE  Tidy'
<1>1. PICK p \in uploads : Sent(p) \/ Gone(p) \/ Postponed(p)
  BY QuietUpload DEF Quiet
<1>2. UNCHANGED <<local, l2, prune>> /\ p \in Files
  BY DEF Upload, Quiet, TypeOK
<1>3. CASE Gone(p) \/ Postponed(p)
  BY <1>2, <1>3, TidyKept DEF Gone, Postponed
<1>4. CASE Sent(p)
  <2>1. remote'[p] # 0
    BY <1>2, <1>4 DEF Sent
  <2>2. \A q \in Files : remote[q] # 0 => remote'[q] # 0
    BY <1>4 DEF Sent
  <2>3. ASSUME NEW d \in Dirs
        PROVE  \/ remote'[d] = remote[d]
               \/ remote'[d] = 1 /\ \E q \in Under(d) : remote'[q] # 0
    BY <1>2, <1>4, <2>1 DEF Sent, Under
  <2> QED BY <1>2, <2>2, <2>3, TidyKept
<1> QED BY <1>1, <1>3, <1>4

LEMMA TidyDelete ==
  ASSUME Calm, Quiet, Tidy, UnkeptEmpty', Delete
  PROVE  Tidy'
<1>1. PICK p \in deletes : Forgotten(p) \/ (Postponed(p) /\ UNCHANGED <<l1, l2, prune>>)
  BY QuietDelete DEF Quiet
<1>2. local' = local
  BY DEF Delete
<1>3. CASE Postponed(p) /\ UNCHANGED <<l1, l2, prune>>
  BY <1>2, <1>3, TidyKept DEF Postponed
<1>4. CASE Forgotten(p)
  <2>1. \A q \in Files : (remote[q] # 0 => remote'[q] # 0) \/ q = p
    BY <1>4 DEF Forgotten
  <2>2. prune' = prune \union ParentDirs(p) /\ p \in Files
    BY <1>4 DEF Forgotten
  <2>3. p[1] \in Dirs => p[1] \in prune'
    BY <2>2, TreeAssumption DEF ParentDirs, Dirs
  <2>4. ASSUME NEW d \in Dirs \intersect Kept
        PROVE  /\ remote'[d] # 0 /\ l2'[d] = 0
                    => d \in prune' \/ \E q \in Under(d) : remote'[q] # 0
               /\ l2'[d] # 0 => remote'[d] # 0
    <3>1. l2'[d] = l2[d] /\ remote'[d] = remote[d] /\ (d \in prune => d \in prune')
      BY <1>4, <2>2 DEF Forgotten
    <3>2. /\ remote[d] # 0 /\ l2[d] = 0 => d \in prune \/ \E q \in Under(d) : remote[q] # 0
          /\ l2[d] # 0 => remote[d] # 0
      BY DEF Tidy, Kempt
    <3>3. ASSUME NEW q \in Under(d), remote[q] # 0
          PROVE  remote'[q] # 0 \/ d \in prune'
      BY <2>1, <2>3, <3>3 DEF Under
    <3> QED BY <3>1, <3>2, <3>3
  <2>5. Flags'
    BY <1>2, <1>4 DEF Tidy, Flags, Forgotten
  <2> QED BY <2>4, <2>5 DEF Tidy, Kempt
<1> QED BY <1>1, <1>3, <1>4

\* A folder is looked at, and goes from the remote and the listings together.
LEMMA TidyPrune ==
  ASSUME Outcomes \subseteq {"ok"}, TypeOK, Tidy, UnkeptEmpty', Prune
  PROVE  Tidy'
<1>1. PICK d \in prune :
        /\ prune' = prune \ {d}
        /\ \/ /\ EmptyOnRemote(d)
              /\ remote' = Without(remote, {d}) /\ l2' = RemoveEntry(l2, d)
           \/ ~EmptyOnRemote(d) /\ UNCHANGED <<remote, l2>>
  BY DEF Prune, CarriedOut
<1>2. d \in Dirs /\ d \in Locs /\ local' = local
  BY DEF Prune, TypeOK, Locs
<1>3. \A p \in Files : remote'[p] = remote[p]
  BY <1>1, <1>2, FilesAreNotDirs DEF Without
<1>4. ASSUME NEW e \in Dirs, e # d PROVE remote'[e] = remote[e] /\ l2'[e] = l2[e]
  <2>1. e \in Locs
    BY DEF Locs
  <2> QED BY <1>1, <1>4, <2>1 DEF Without, RemoveEntry, TypeOK
<1>5. \/ remote'[d] = 0 /\ l2'[d] = 0
      \/ remote'[d] = remote[d] /\ l2'[d] = l2[d] /\ ~EmptyOnRemote(d)
  BY <1>1, <1>2 DEF Without, RemoveEntry, TypeOK
<1>6. Flags'
  BY <1>2, <1>4, <1>5 DEF Tidy, Flags
<1>7. ASSUME NEW e \in Dirs \intersect Kept
      PROVE  /\ remote'[e] # 0 /\ l2'[e] = 0
                  => e \in prune' \/ \E p \in Under(e) : remote'[p] # 0
             /\ l2'[e] # 0 => remote'[e] # 0
  <2>1. /\ remote[e] # 0 /\ l2[e] = 0 => e \in prune \/ \E p \in Under(e) : remote[p] # 0
        /\ l2[e] # 0 => remote[e] # 0
    BY DEF Tidy, Kempt
  <2>2. \A p \in Under(e) : remote'[p] = remote[p]
    BY <1>3 DEF Under
  <2>3. CASE e = d
    BY <1>5, <2>1, <2>2, <2>3 DEF EmptyOnRemote
  <2>4. CASE e # d
    BY <1>1, <1>4, <2>1, <2>2, <2>4
  <2> QED BY <2>3, <2>4
<1> QED BY <1>6, <1>7 DEF Tidy, Kempt

LEMMA TidyPass ==
  ASSUME Tidy, UnkeptEmpty', Pull \/ Resync
  PROVE  Tidy'
<1>1. PICK was1, was2 : PassLeaves(MergedTree(local, was1, remote, was2))
  BY DEF Pull, Resync, ResyncedTree
<1> DEFINE m == MergedTree(local, was1, remote, was2)
<1>2. ASSUME NEW d \in Dirs \intersect Kept
      PROVE  local'[d] = m[d] /\ remote'[d] = m[d] /\ l2'[d] = m[d] /\ m[d] \in {0, 1}
  <2>1. d \in Locs \intersect Kept
    BY DEF Locs
  <2>2. m[d] \in {1, MergedAt(d, local[d], was1[d], remote[d], was2[d])}
    BY <2>1 DEF MergedTree
  <2>3. local[d] \in {0, 1} /\ remote[d] \in {0, 1}
    BY DEF Tidy, Flags
  <2>4. m[d] \in {0, 1}
    BY <2>2, <2>3 DEF MergedAt, Newer
  <2> HIDE DEF m
  <2> QED BY <1>1, <2>1, <2>4, PassFiles DEF m
<1> QED BY <1>2 DEF Tidy, Flags, Kempt

LEMMA TidyNext ==
  ASSUME Calm, Outcomes \subseteq {"ok"}, Quiet, Tidy, [Next]_vars
  PROVE  Tidy'
<1>1. UnkeptEmpty'
  BY ExcludedStays DEF Quiet, Tidy, UnkeptEmpty
<1>2. Staged /\ TypeOK
  BY DEF Quiet
<1>3. CASE PushChanges
  <2>1. UNCHANGED <<local, remote>> /\ pc = "idle"
    BY <1>3 DEF PushChanges
  <2>2. l2' = l2 /\ prune' = prune
    BY <1>2, <1>3, <2>1, QuietPush DEF Quiet, Agreed, BeginPush, batch
  <2> QED BY <1>1, <2>1, <2>2, TidyKept
<1>4. CASE BeginRename \/ Classify \/ BeginUploads \/ BeginDeletes \/ BeginPrune
           \/ SaveListing1 \/ SaveListing2 \/ NotePushed \/ EndPush \/ DeadlinePasses \/ Lockout
           \/ UNCHANGED vars
  <2>1. UNCHANGED <<local, remote, l2, prune>>
    BY <1>4 DEF BeginRename, Classify, BeginUploads, BeginDeletes, BeginPrune,
       SaveListing1, SaveListing2, NotePushed, EndPush, DeadlinePasses, Lockout, vars, sides, batch
  <2> QED BY <1>1, <2>1, TidyKept
<1> QED
  BY <1>1, <1>2, <1>3, <1>4, QuietNext, TidyUser, TidyMove, TidyUpload, TidyDelete,
     TidyPrune, TidyPass

LEMMA TidyFolders == Quiet /\ Tidy => FoldersAccounted
<1> SUFFICES ASSUME Quiet, Tidy, listed, NEW d \in Dirs \intersect Kept,
                    ~FolderAwaitsPush(d)
             PROVE  PullSettles(d)
  BY DEF FoldersAccounted
<1> DEFINE m == MergedTree(local, l1, remote, l2)
           at(x) == MergedAt(x, local[x], l1[x], remote[x], l2[x])
<1>1. TypeOK /\ Agreed /\ Exact /\ Pushed /\ d \in Locs /\ d \notin Files
  BY FilesAreNotDirs DEF Quiet, Locs
<1>2. Around(d) = Under(d) \union {d}
  BY <1>1 DEF Around
<1>3. ASSUME NEW p \in Under(d) \intersect Kept
      PROVE  /\ p \in Files \intersect Kept
             /\ remote[p] = 0 \/ InSync(p) \/ p \notin known
             /\ at(p) = local[p]
  <2>1. p \in Files \intersect Kept
    BY DEF Under
  <2>2. p \in known => p \notin Spoken
    BY <1>1, <1>2, SpokenIsInHand DEF FolderAwaitsPush
  <2>3. remote[p] = 0 \/ InSync(p) \/ p \notin known
    BY <2>1, <2>2 DEF Quiet, Accounts, Awaited
  <2>4. m[p] = local[p]
    BY <1>1, <2>1, <2>3, PullSettlesFile, PullSettlesUnpushed
  <2>5. m[p] = at(p)
    BY <2>1, MergedFiles
  <2> QED BY <2>1, <2>3, <2>4, <2>5
<1>5. m[d] = IF \E p \in Under(d) \intersect Kept : at(p) # 0 THEN 1 ELSE at(d)
  BY <1>1 DEF MergedTree
<1>6. local[d] \in {0, 1} /\ remote[d] \in {0, 1} /\ l2[d] \in {0, 1} /\ l1[d] = l2[d]
  BY <1>1 DEF Tidy, Flags, Agreed
<1> HIDE DEF m, at
<1>7. CASE \E p \in Under(d) \intersect Kept : local[p] # 0
  <2>1. local[d] # 0
    BY <1>7 DEF Quiet, Housed, Under
  <2> QED BY <1>3, <1>5, <1>6, <1>7, <2>1 DEF PullSettles, m
<1>8. CASE \A p \in Under(d) \intersect Kept : local[p] = 0
  <2>1. CASE remote[d] = l2[d]
    <3>1. at(d) = local[d]
      BY <1>6, <2>1 DEF at, MergedAt
    <3> QED BY <1>3, <1>5, <1>8, <3>1 DEF PullSettles, m
  <2>2. CASE ~InHand(d)
    <3>1. \A p \in Under(d) \intersect Kept : remote[p] = 0
      <4> SUFFICES ASSUME NEW p \in Under(d) \intersect Kept PROVE remote[p] = 0
        OBVIOUS
      <4>1. p \notin Spoken
        BY <1>1, <1>2, <2>2, SpokenIsInHand
      <4>2. p \in Files \intersect Kept
        BY <1>3
      <4> QED BY <1>8, <4>1, <4>2 DEF Quiet, Accounts, Awaited, InSync
    <3>2. \A p \in Under(d) : remote[p] = 0
      BY <3>1 DEF Tidy, UnkeptEmpty, Under
    <3>3. d \notin prune
      BY <1>2, <2>2 DEF InHand
    <3>4. remote[d] = l2[d]
      BY <1>6, <3>2, <3>3 DEF Tidy, Kempt
    <3> QED BY <2>1, <3>4
  <2> QED BY <2>1, <2>2 DEF FolderAwaitsPush
<1> QED BY <1>7, <1>8

\* No folder is left behind: a pull that comes now would leave one that the user
\* emptied or removed as the user has it; except one that was made on the remote
\* since the last pull, or with a file pushed since, and that the engine then
\* still has in hand.  This needs the prune to get through: one that fails is
\* not tried again (push.rs:254-260).
THEOREM FoldersAreAccounted ==
  ASSUME Calm, Outcomes \subseteq {"ok"}
  PROVE  Spec => []FoldersAccounted
<1> DEFINE Inv == Quiet /\ Tidy
<1>1. Init => Inv
  BY QuietInit, TidyInit
<1>2. Inv /\ [Next]_vars => Inv'
  BY QuietPreserved, TidyNext
<1>3. Inv => FoldersAccounted
  BY TidyFolders
<1> QED BY <1>1, <1>2, <1>3, PTL DEF Spec
=============================================================================
