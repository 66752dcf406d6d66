-------------------------------- MODULE Push --------------------------------
(***************************************************************************)
(* The push engine of one pair: src/push.rs, and the part of src/pair.rs   *)
(* that feeds it (events, the retry queue and its files) and restarts it.  *)
(*                                                                         *)
(* Each remote call is an action of its own, since the engine awaits it:   *)
(* the user goes on editing between any two of them.  Pulls are rclone's   *)
(* (module Bisync); the pair's loop never runs one during a push.          *)
(***************************************************************************)
EXTENDS Bisync

CONSTANTS MinStorm,   \* fewer deletions than this in a batch are no storm
          MaxDelete,  \* bisync's maxDelete, in percent
          MaxEdits,   \* bound: how many times the user touches the tree
          MaxQueue,   \* bound: how many renames one batch queues for retry
          UserOps,    \* which kinds of edits the user makes
          Outcomes,   \* how a remote call may end
          Faults,     \* "restart", "crash", "lockout", "unsaved": what may go wrong besides
          NoId,       \* the identity of what is not there
          FirstVersion  \* the version each file has to begin with

AllUserOps == {"write", "restore", "delete", "rename", "unpaired",
               "renamedir", "removedir"}

\* "ok": carried out (or refused because the path is not there);
\* "unreachable": never reached the server; "lost": carried out, the answer
\* lost; "busy": the server answered 429/502/503/504; "refused": for good.
AllOutcomes == {"ok", "unreachable", "lost", "busy", "refused"}

ASSUME PushAssumption ==
  /\ MinStorm \in Nat /\ MaxDelete \in Nat
  /\ MaxEdits \in Nat /\ MaxQueue \in Nat
  /\ UserOps \subseteq AllUserOps
  /\ Outcomes \subseteq AllOutcomes
  /\ Faults \subseteq {"restart", "crash", "lockout", "unsaved"}
  /\ NoId \notin Files \X Nat
  /\ FirstVersion \in [Files -> 1..Cardinality(Files)]
  /\ \A p, q \in Files : FirstVersion[p] = FirstVersion[q] => p = q

Transient(o) == o \in {"unreachable", "lost", "busy"}
\* Whether the server carried the call out, told or not.
CarriedOut(o) == o \in {"ok", "lost"}

\* An inode and birth time: where and when a file was born.
FileIds == Files \X Nat
Born(p, n) == <<p, n>>

\* What the watcher reports: paths to look at again, and renames in order.
\* (The order of the former among the latter never matters to a push.)
Renames == (Files \X Files) \union (Dirs \X Dirs)
Change == [dirty : SUBSET Locs, renames : Seq(Renames)]
NoChange == [dirty |-> {}, renames |-> <<>>]
Merge(c, d) ==
  [dirty |-> c.dirty \union d.dirty, renames |-> c.renames \o d.renames]
Dirty(S) == [dirty |-> S, renames |-> <<>>]
Rename(k) == [dirty |-> {}, renames |-> <<k>>]
NoRename == <<>>

VARIABLES
  \* The two sides, and the events on their way to the engine.
  local,       \* the user's tree
  ino,         \* the identity of each local file
  remote,      \* the remote's tree
  events,      \* changes the watcher reported, not yet taken
  clock,       \* bound and source of fresh versions and identities
  \* On disk.
  lst1, lst2,  \* bisync's listings
  listed,      \* whether they are there at all
  knownFile, pendingFile,
  \* In the daemon's memory, between batches.
  known,       \* uploaded since the last successful pull
  ids,         \* identity of local files when last looked at
  failing,     \* renames with a deadline running
  expired,     \* those whose deadline has passed
  givenUp,     \* renames no longer attempted
  retry,       \* what to try again
  pending,     \* the retry queue whose length `ctl status` reports
  located,     \* whether the pair knows where its listings are
  \* In the daemon's memory, for the batch it is pushing.
  pc,          \* where the push is
  l1, l2,      \* the listings as patched so far
  todo,        \* renames not yet begun
  current,     \* the folder rename under way, or NoRename
  moves,       \* file moves of the step under way
  dirty, uploads, deletes, prune,
  again        \* the report's retry list

sides == <<local, ino, remote, events, clock>>
disk == <<lst1, lst2, listed, knownFile, pendingFile>>
memory == <<known, ids, failing, expired, givenUp, retry, pending, located>>
batch == <<pc, l1, l2, todo, current, moves, dirty, uploads, deletes, prune, again>>
vars == <<sides, disk, memory, batch>>

Phases == {"idle", "rename", "pair", "upload", "delete", "prune", "save",
           "note", "noted"}

TypeOK ==
  /\ local \in [Locs -> Nat] /\ remote \in [Locs -> Nat]
  /\ ino \in [Files -> FileIds \union {NoId}]
  /\ events \in Change
  /\ clock \in Nat
  /\ lst1 \in [Locs -> Nat] /\ lst2 \in [Locs -> Nat]
  /\ listed \in BOOLEAN /\ located \in BOOLEAN
  /\ knownFile \in SUBSET Files /\ known \in SUBSET Files
  /\ pendingFile \in Seq(Renames)
  /\ ids \in [Files -> FileIds \union {NoId}]
  /\ failing \in SUBSET Renames
  /\ expired \in SUBSET failing
  /\ givenUp \in SUBSET Renames
  /\ retry \in Change /\ pending \in Change /\ again \in Change
  /\ pc \in Phases
  /\ l1 \in [Locs -> Nat] /\ l2 \in [Locs -> Nat]
  /\ todo \in Seq(Renames)
  /\ current \in (Dirs \X Dirs) \union {NoRename}
  /\ moves \in SUBSET Renames
  /\ dirty \in SUBSET Locs
  /\ uploads \in SUBSET Files /\ deletes \in SUBSET Files
  /\ prune \in SUBSET Dirs

-----------------------------------------------------------------------------
(***************************************************************************)
(* The user.  Every edit reports to the watcher; a rename may come as one  *)
(* event or, "unpaired", as something gone and something new.  A file in a *)
(* folder that was not there is reported as the folder: the watcher does   *)
(* not watch inside it yet.                                                *)
(***************************************************************************)
Appeared(p) == IF p[1] \in Dirs /\ local[p[1]] = 0 THEN {p[1]} ELSE {p}

Edit(c) ==
  /\ clock < MaxEdits
  /\ clock' = clock + 1
  /\ events' = Merge(events, c)
  /\ UNCHANGED <<remote, disk, memory, batch>>

\* Written in place, or replaced by a new file (an editor's atomic save).
UserWrite(p, v) ==
  /\ v # local[p]
  /\ local' = Put(local, p, v)
  /\ \/ local[p] # 0 /\ UNCHANGED ino
     \/ ino' = [ino EXCEPT ![p] = Born(p, clock + 1)]
  /\ Edit(Dirty(Appeared(p)))

UserDelete(p) ==
  /\ local[p] # 0
  /\ local' = Without(local, {p})
  /\ ino' = [ino EXCEPT ![p] = NoId]
  /\ Edit(Dirty({p}))

UserRename(p, q) ==
  /\ p # q /\ local[p] # 0
  /\ local' = Put(Without(local, {p}), q, local[p])
  /\ ino' = [ino EXCEPT ![p] = NoId, ![q] = ino[p]]
  /\ \/ /\ Appeared(q) = {q}
        /\ Edit(Rename(<<p, q>>))
     \/ /\ "unpaired" \in UserOps
        /\ Edit(Dirty({p} \union Appeared(q)))

UserRenameDir(d, e) ==
  /\ local[d] # 0 /\ local[e] = 0
  /\ local' = Relocate(local, d, e)
  /\ ino' = [p \in Files |->
               IF p[1] = e THEN ino[Rebase(p, d)]
               ELSE IF p[1] = d THEN NoId ELSE ino[p]]
  /\ \/ Edit(Rename(<<d, e>>))
     \/ "unpaired" \in UserOps /\ Edit(Dirty({d, e}))

UserRemoveDir(d) ==
  /\ local[d] # 0
  /\ local' = Without(local, Under(d) \union {d})
  /\ ino' = [p \in Files |-> IF p[1] = d THEN NoId ELSE ino[p]]
  /\ Edit(Dirty({d} \union {p \in Under(d) : local[p] # 0}))

\* Greater than any version there has been.
FreshVersion == Cardinality(Files) + clock + 1

User ==
  \/ "write" \in UserOps /\ \E p \in Files : UserWrite(p, FreshVersion)
  \* An earlier version put back with its size and modification time.
  \/ "restore" \in UserOps /\ \E p \in Files, v \in 1..(FreshVersion - 1) : UserWrite(p, v)
  \/ "delete" \in UserOps /\ \E p \in Files : UserDelete(p)
  \/ "rename" \in UserOps /\ \E p, q \in Files : UserRename(p, q)
  \/ "renamedir" \in UserOps /\ \E d, e \in Dirs : UserRenameDir(d, e)
  \/ "removedir" \in UserOps /\ \E d \in Dirs : UserRemoveDir(d)

-----------------------------------------------------------------------------
(***************************************************************************)
(* Taking changes: Pair::push_changes up to the call of Pusher::push.      *)
(***************************************************************************)
OnListed(p) == Contains(l2, p)
OnRemote(p) == Contains(l2, p) \/ p \in known

\* The file is exactly what bisync's own last pass recorded.
Echo(p) == Contains(lst1, p) /\ local[p] = lst1[p]

NotEchoes(c) == [c EXCEPT !.dirty = {p \in c.dirty : ~Echo(p)}]

\* Nothing left once echoes are dropped: the early return leaves the status,
\* the files and the backoff as they were, with the queue already emptied.
OnlyEchoes(c) ==
  /\ located /\ listed
  /\ NotEchoes(c) = NoChange
  /\ UNCHANGED <<pending, pendingFile, batch>>

\* Started with no listings, and no pass since: the first one will cover these.
NeverSynced == ~located /\ UNCHANGED <<pending, pendingFile, batch>>

\* The listings cannot be read: the pass that brings them back covers these.
NothingListed ==
  /\ located /\ ~listed
  /\ pending' = NoChange
  /\ pendingFile' = <<>>
  /\ UNCHANGED batch

BeginPush(c) ==
  /\ located /\ listed
  /\ NotEchoes(c) # NoChange
  /\ pc' = "rename"
  /\ l1' = lst1 /\ l2' = lst2
  /\ todo' = NotEchoes(c).renames
  /\ dirty' = NotEchoes(c).dirty
  /\ again' = NoChange
  /\ UNCHANGED <<pending, pendingFile, current, moves, uploads, deletes, prune>>

\* A quiet burst of events, with whatever waits to be retried; or the retry
\* timer alone.
PushChanges ==
  /\ pc = "idle"
  /\ \E taken \in {events, NoChange} :
       LET c == Merge(retry, taken)
       IN  /\ c # NoChange
           /\ events' = IF taken = events THEN NoChange ELSE events
           /\ OnlyEchoes(c) \/ NeverSynced \/ NothingListed \/ BeginPush(c)
  /\ retry' = NoChange
  /\ UNCHANGED <<local, ino, remote, clock, lst1, lst2, listed, knownFile,
                 known, ids, failing, expired, givenUp, located>>

-----------------------------------------------------------------------------
(***************************************************************************)
(* Renames.                                                                *)
(***************************************************************************)
FollowedAnyway(k) ==
  IF k[2] \in Dirs /\ local[k[2]] # 0 THEN "folder" ELSE "file"
FollowedAs(k) == IF {k[1], k[2]} \subseteq Kept
                 THEN IF k[2] \in Dirs /\ local[k[2]] # 0 THEN "folder" ELSE "file"
                 ELSE "excluded"

Members(d, e) == {<<p, Rebase(p, e)>> : p \in {q \in Under(d) : OnRemote(q)}}

BeginRename ==
  /\ pc = "rename" /\ moves = {} /\ current = NoRename /\ todo # <<>>
  /\ LET k == Head(todo)
     IN  \/ /\ FollowedAs(k) = "excluded"
            /\ dirty' = dirty \union {k[1], k[2]}
            /\ UNCHANGED <<moves, current>>
         \/ /\ FollowedAs(k) = "folder"
            /\ moves' = Members(k[1], k[2])
            /\ current' = k
            /\ UNCHANGED dirty
         \/ /\ FollowedAs(k) = "file"
            /\ moves' = {k}
            /\ UNCHANGED <<current, dirty>>
  /\ todo' = Tail(todo)
  /\ UNCHANGED <<sides, disk, memory, pc, l1, l2, uploads, deletes, prune, again>>

EndDirRename ==
  /\ pc = "rename" /\ moves = {} /\ current # NoRename
  /\ l1' = RenameDirEntry(l1, current[1], current[2])
  /\ l2' = RenameDirEntry(l2, current[1], current[2])
  /\ dirty' = dirty \union {current[2]}
  /\ prune' = prune \union {current[1]}
  /\ current' = NoRename
  /\ UNCHANGED <<sides, disk, memory, pc, todo, moves, uploads, deletes, again>>

-----------------------------------------------------------------------------
(***************************************************************************)
(* One file moved on the remote (move_one), reached from a rename of it,   *)
(* a rename of its folder, or a match by identity (pc = "pair").           *)
(***************************************************************************)
\* Only what the remote holds, and never onto something it holds.
MoveIgnoresTarget(k) ==
  k \notin givenUp /\ OnRemote(k[1]) /\ k[2] \in Files /\ local[k[2]] # 0
MoveIsSafe(k) ==
  /\ k \notin givenUp
  /\ OnRemote(k[1])
  /\ ~OnRemote(k[2])
  /\ k[2] \in Files /\ local[k[2]] # 0

NoParentDirs(p) == {}
ParentDirs(p) == {p[1]} \ {Top}

\* Leave it as an upload of the new path and a delete of the old.
FallBack(k) ==
  /\ dirty' = dirty \union {k[1], k[2]}
  /\ UNCHANGED <<l1, l2, known, ids, deletes, prune, again>>

TryAgain(k) ==
  /\ Len(again.renames) < MaxQueue
  /\ again' = Merge(again, Rename(k))
  /\ UNCHANGED <<l1, l2, known, ids, dirty, deletes, prune>>

MoveUnsafe(k) ==
  /\ ~MoveIsSafe(k)
  /\ FallBack(k)
  /\ UNCHANGED <<remote, failing, expired, givenUp>>

\* The deadline of a rename, cleared once it is decided.
SettleHalf(k) == failing' = failing \ {k} /\ UNCHANGED expired
Settle(k) == failing' = failing \ {k} /\ expired' = expired \ {k}

KnownForgotten(k) == known \ {k[1]}
KnownAfter(k) ==
  IF k[1] \in known THEN (known \ {k[1]}) \union {k[2]} ELSE known

Moved(k) ==
  /\ remote[k[1]] # 0
  /\ Settle(k)
  /\ l1' = RenameEntry(l1, k[1], k[2])
  /\ l2' = RenameEntry(l2, k[1], k[2])
  /\ known' = KnownAfter(k)
  /\ ids' = IF ids[k[1]] # NoId
            THEN [ids EXCEPT ![k[1]] = NoId, ![k[2]] = ids[k[1]]] ELSE ids
  /\ dirty' = dirty \union {k[2]}
  /\ prune' = prune \union ParentDirs(k[1])
  /\ deletes' = IF pc = "pair" THEN deletes \ {k[1]} ELSE deletes
  /\ UNCHANGED <<givenUp, again>>

\* Already gone from the remote: forget it, and upload fresh.
MoveFoundNothing(k) ==
  /\ remote[k[1]] = 0
  /\ Settle(k)
  /\ l1' = RemoveEntry(l1, k[1])
  /\ l2' = RemoveEntry(l2, k[1])
  /\ known' = known \ {k[1]}
  /\ dirty' = dirty \union {k[2]}
  /\ UNCHANGED <<ids, givenUp, deletes, prune, again>>

MoveBusyRearms(k) ==
  failing' = failing \union {k} /\ expired' = expired \ {k} /\ TryAgain(k)
  /\ UNCHANGED givenUp
MoveBusy(k) ==
  \/ /\ k \notin expired
     /\ failing' = failing \union {k}
     /\ TryAgain(k)
     /\ UNCHANGED <<expired, givenUp>>
  \/ /\ k \in expired
     /\ Settle(k)
     /\ givenUp' = givenUp \union {k}
     /\ FallBack(k)

MoveUnreachable(k) == TryAgain(k) /\ UNCHANGED <<failing, expired, givenUp>>

MoveRefused(k) == FallBack(k) /\ UNCHANGED <<failing, expired, givenUp>>

\* What the remote holds after a move it carried out.
RemoteMoved(k) ==
  IF remote[k[1]] # 0 THEN Put(Without(remote, {k[1]}), k[2], remote[k[1]])
  ELSE remote

MoveCalled(k, o) ==
  /\ MoveIsSafe(k)
  /\ remote' = IF CarriedOut(o) THEN RemoteMoved(k) ELSE remote
  /\ \/ o = "ok" /\ (Moved(k) \/ MoveFoundNothing(k))
     \/ o = "busy" /\ MoveBusy(k)
     \/ o \in {"unreachable", "lost"} /\ MoveUnreachable(k)
     \/ o = "refused" /\ MoveRefused(k)

MoveOne ==
  /\ pc \in {"rename", "pair"}
  /\ \E k \in moves :
       /\ moves' = moves \ {k}
       /\ MoveUnsafe(k) \/ \E o \in Outcomes : MoveCalled(k, o)
  /\ UNCHANGED <<local, ino, events, clock, disk, retry, pending,
                 located, pc, todo, current, uploads>>

\* RENAME_GIVE_UP has passed since the server first failed this rename.
DeadlinePasses ==
  /\ \E k \in failing \ expired : expired' = expired \union {k}
  /\ UNCHANGED <<sides, disk, known, ids, failing, givenUp, retry, pending,
                 located, batch>>

-----------------------------------------------------------------------------
(***************************************************************************)
(* Turning dirty paths into work, from the disk as it is now (classify).   *)
(***************************************************************************)
\* A file that is there; in a folder that is there, those the remote lacks.
UploadsOf(D) ==
  {p \in Files \intersect Kept :
     /\ local[p] # 0
     /\ p \in D \/ (p[1] \in D \intersect Kept /\ ~OnRemote(p))}

\* A file that is gone; under a folder that is gone, those the remote holds.
DeletesOf(D) ==
  {p \in Files \intersect Kept :
     /\ local[p] = 0 /\ OnRemote(p)
     /\ p \in D \/ (p[1] \in D /\ local[p[1]] = 0)}

\* One vanished file and one new file that are the same file.
SameFile(old, new) == ids[old] # NoId /\ ids[old] = ino[new]

IdentityPairs(ups, dels) ==
  {k \in dels \X ups :
     /\ SameFile(k[1], k[2])
     /\ \A d \in dels : SameFile(d, k[2]) => d = k[1]
     /\ \A u \in ups : SameFile(k[1], u) => u = k[2]}

Classify ==
  /\ pc = "rename" /\ todo = <<>> /\ moves = {} /\ current = NoRename
  /\ uploads' = UploadsOf(dirty)
  /\ deletes' = DeletesOf(dirty)
  /\ moves' = IdentityPairs(UploadsOf(dirty), DeletesOf(dirty))
  /\ dirty' = {}
  /\ pc' = "pair"
  /\ UNCHANGED <<sides, disk, memory, l1, l2, todo, current, prune, again>>

BeginUploads ==
  /\ pc = "pair" /\ moves = {}
  /\ pc' = "upload"
  /\ UNCHANGED <<sides, disk, memory, l1, l2, todo, current, moves, dirty,
                 uploads, deletes, prune, again>>

-----------------------------------------------------------------------------
(***************************************************************************)
(* Uploads, then deletions, then folders that may have been emptied.       *)
(***************************************************************************)
\* What may yet get through is tried again with the next push.
RetriedIfDown(p, o) ==
  IF o \in {"unreachable", "lost"} THEN Merge(again, Dirty({p})) ELSE again
Retried(p, o) == IF Transient(o) THEN Merge(again, Dirty({p})) ELSE again

\* The file is uploaded as it is when the call is carried out.
Uploaded(p, o) ==
  IF CarriedOut(o) /\ local[p] # 0 THEN Put(remote, p, local[p]) ELSE remote

Upload ==
  /\ pc = "upload"
  /\ \E p \in uploads, o \in Outcomes :
       /\ uploads' = uploads \ {p}
       /\ remote' = Uploaded(p, o)
       /\ IF o = "ok" /\ local[p] # 0
          THEN known' = known \union {p} /\ ids' = [ids EXCEPT ![p] = ino[p]]
          ELSE UNCHANGED <<known, ids>>
       /\ again' = Retried(p, o)
  /\ UNCHANGED <<local, ino, events, clock, disk, failing, expired, givenUp,
                 retry, pending, located, pc, l1, l2, todo, current, moves, dirty,
                 deletes, prune>>

\* Suspiciously many deletions: withheld, all of them.
Storm(dels) ==
  LET n == Cardinality(dels)
      total == Newer(Newer(ListingLen(l1), ListingLen(l2)), 1)
  IN  n >= MinStorm /\ n * 100 > MaxDelete * total

BeginDeletes ==
  /\ pc = "upload" /\ uploads = {}
  /\ pc' = "delete"
  /\ deletes' = IF deletes # {} /\ Storm(deletes) THEN {} ELSE deletes
  /\ UNCHANGED <<sides, disk, memory, l1, l2, todo, current, moves, dirty,
                 uploads, prune, again>>

\* The remote no longer holds p, and nothing remembers that it did.
ForgetFile(p) ==
  /\ l1' = RemoveEntry(l1, p)
  /\ l2' = RemoveEntry(l2, p)
  /\ known' = known \ {p}
  /\ ids' = [ids EXCEPT ![p] = NoId]
  /\ prune' = prune \union ParentDirs(p)

Delete ==
  /\ pc = "delete"
  /\ \E p \in deletes, o \in Outcomes :
       /\ deletes' = deletes \ {p}
       /\ remote' = IF CarriedOut(o) THEN Without(remote, {p}) ELSE remote
       /\ IF o = "ok" THEN ForgetFile(p)
          ELSE UNCHANGED <<l1, l2, known, ids, prune>>
       /\ again' = Retried(p, o)
  /\ UNCHANGED <<local, ino, events, clock, disk, failing, expired, givenUp,
                 retry, pending, located, pc, todo, current, moves, dirty, uploads>>

BeginPrune ==
  /\ pc = "delete" /\ deletes = {}
  /\ pc' = "prune"
  /\ UNCHANGED <<sides, disk, memory, l1, l2, todo, current, moves, dirty,
                 uploads, deletes, prune, again>>

EmptyOnRemote(d) == remote[d] # 0 /\ \A p \in Under(d) : remote[p] = 0

Prune ==
  /\ pc = "prune"
  /\ \E d \in prune, o \in Outcomes :
       /\ prune' = prune \ {d}
       /\ remote' = IF CarriedOut(o) /\ EmptyOnRemote(d)
                    THEN Without(remote, {d}) ELSE remote
       /\ IF o = "ok" /\ EmptyOnRemote(d)
          THEN l1' = RemoveEntry(l1, d) /\ l2' = RemoveEntry(l2, d)
          ELSE UNCHANGED <<l1, l2>>
  /\ UNCHANGED <<local, ino, events, clock, disk, memory, pc, todo, current,
                 moves, dirty, uploads, deletes, again>>

-----------------------------------------------------------------------------
(***************************************************************************)
(* Saving: the two listings, then what was pushed, then what is pending.   *)
(***************************************************************************)
\* Nothing is written when no listing changed.
SaveListing1 ==
  /\ pc = "prune" /\ prune = {}
  /\ pc' = IF l1 = lst1 /\ l2 = lst2 THEN "note" ELSE "save"
  /\ lst1' = l1
  /\ UNCHANGED <<sides, lst2, listed, knownFile, pendingFile, memory, l1, l2,
                 todo, current, moves, dirty, uploads, deletes, prune, again>>

SaveListing2 ==
  /\ pc = "save"
  /\ pc' = "note"
  /\ lst2' = l2
  /\ UNCHANGED <<sides, lst1, listed, knownFile, pendingFile, memory, l1, l2,
                 todo, current, moves, dirty, uploads, deletes, prune, again>>

\* A listing cannot be written (the disk is full): the first, or the second
\* after it.  What waits to be tried again is given up with it.
SaveFails ==
  /\ "unsaved" \in Faults
  /\ \/ pc = "prune" /\ prune = {} /\ ~(l1 = lst1 /\ l2 = lst2)
     \/ pc = "save"
  /\ pc' = "note"
  /\ l1' = lst1 /\ l2' = lst2
  /\ again' = NoChange
  /\ UNCHANGED <<sides, disk, memory, todo, current, moves, dirty, uploads,
                 deletes, prune>>

\* Two files: what was pushed since the last pull, then the pending renames.
NotePushed ==
  /\ pc = "note"
  /\ pc' = "noted"
  /\ knownFile' = known
  /\ UNCHANGED <<sides, lst1, lst2, listed, pendingFile, memory, l1, l2, todo,
                 current, moves, dirty, uploads, deletes, prune, again>>

PendingBefore(renames) == retry.renames
PendingSaved(renames) == renames

EndPush ==
  /\ pc = "noted"
  /\ pc' = "idle"
  /\ retry' = again /\ pending' = again /\ again' = NoChange
  /\ pendingFile' = PendingSaved(again.renames)
  /\ dirty' = {}
  /\ UNCHANGED <<sides, lst1, lst2, listed, knownFile, known, ids, failing,
                 expired, givenUp, located, l1, l2, todo, current, moves,
                 uploads, deletes, prune>>

-----------------------------------------------------------------------------
(***************************************************************************)
(* Passes and restarts.                                                    *)
(***************************************************************************)
\* Snapshot::scan: the identity of every file the filter keeps.
Scanned(id) == [p \in Files |-> IF p \in Kept THEN id[p] ELSE NoId]

\* Both sides become the merged tree; what that writes locally is reported by
\* the watcher like any other write.  The pass then forgets what was pushed
\* since the last one (Pair::remember) and looks at identities again.
PassLeaves(merged) ==
  LET tree == Applied(local, merged)
      written == {x \in Locs : tree[x] # local[x]}
      born == [p \in Files |-> IF p \notin written THEN ino[p]
                               ELSE IF tree[p] = 0 THEN NoId
                               ELSE Born(p, clock + 1)]
  IN  /\ local' = tree
      /\ ino' = born
      /\ remote' = Applied(remote, merged)
      /\ events' = Merge(events, Dirty(written))
      /\ clock' = IF written = {} THEN clock ELSE clock + 1
      /\ lst1' = Listed(merged) /\ lst2' = Listed(merged)
      /\ l1' = Listed(merged) /\ l2' = Listed(merged)
      /\ known' = {} /\ knownFile' = {}
      /\ ids' = Scanned(born)
      /\ listed' = TRUE /\ located' = TRUE
      /\ UNCHANGED <<pendingFile, failing, expired, givenUp, retry, pending,
                     pc, todo, current, moves, dirty, uploads, deletes, prune, again>>

Pull ==
  /\ pc = "idle" /\ listed
  /\ PassLeaves(MergedTree(local, lst1, remote, lst2))

Resync ==
  /\ pc = "idle" /\ ~listed
  /\ PassLeaves(ResyncedTree(local, remote))

\* bisync failed critically and put its listings out of its own reach.
Lockout ==
  /\ "lockout" \in Faults
  /\ pc = "idle" /\ listed
  /\ listed' = FALSE
  /\ UNCHANGED <<sides, lst1, lst2, knownFile, pendingFile, memory, batch>>

\* The daemon stops, between batches or in the middle of one ("crash"), and
\* starts again with what its files say.  What it had not been told is gone.
Restart ==
  /\ \/ "restart" \in Faults /\ pc = "idle"
     \/ "crash" \in Faults
  /\ events' = NoChange
  /\ known' = knownFile
  /\ ids' = Scanned(ino)
  /\ failing' = {} /\ expired' = {} /\ givenUp' = {}
  /\ retry' = [dirty |-> {}, renames |-> pendingFile]
  /\ pending' = [dirty |-> {}, renames |-> pendingFile]
  /\ pc' = "idle"
  /\ located' = listed
  /\ l1' = lst1 /\ l2' = lst2
  /\ todo' = <<>> /\ current' = NoRename /\ moves' = {} /\ dirty' = {}
  /\ uploads' = {} /\ deletes' = {} /\ prune' = {} /\ again' = NoChange
  /\ UNCHANGED <<local, ino, remote, clock, disk>>

-----------------------------------------------------------------------------
Init ==
  /\ \E synced \in SUBSET (Files \intersect Kept) :
       /\ local = [x \in Locs |->
                     IF x \in synced THEN FirstVersion[x]
                     ELSE IF \E p \in synced : x = p[1] THEN 1 ELSE 0]
       /\ ino = [p \in Files |-> IF p \in synced THEN Born(p, 0) ELSE NoId]
  /\ remote = local
  /\ lst1 = Listed(local) /\ lst2 = Listed(local)
  /\ l1 = lst1 /\ l2 = lst2
  /\ ids = Scanned(ino)
  /\ events = NoChange /\ clock = 0
  /\ listed = TRUE /\ located = TRUE /\ knownFile = {} /\ pendingFile = <<>>
  /\ known = {} /\ failing = {} /\ expired = {} /\ givenUp = {}
  /\ retry = NoChange /\ pending = NoChange /\ again = NoChange
  /\ pc = "idle" /\ todo = <<>> /\ current = NoRename
  /\ moves = {} /\ dirty = {} /\ uploads = {} /\ deletes = {} /\ prune = {}

Engine ==
  \/ PushChanges \/ BeginRename \/ EndDirRename \/ MoveOne \/ Classify
  \/ BeginUploads \/ Upload \/ BeginDeletes \/ Delete \/ BeginPrune \/ Prune
  \/ SaveListing1 \/ SaveListing2 \/ SaveFails \/ NotePushed \/ EndPush

Next == User \/ Engine \/ DeadlinePasses \/ Pull \/ Resync \/ Lockout \/ Restart

Spec == Init /\ [][Next]_vars

\* The pair's loop never stops selecting, so the engine's own steps are taken;
\* the clock moves on; and a server that can be reached again and again lets an
\* upload or a deletion through each time it keeps being made.  Of a rename
\* not even that is assumed (a server may answer 502 to it for ever), nor
\* anything of the user, of pulls or of faults.
Through(A) == A /\ again' = again
Fairness ==
  /\ WF_vars(Engine) /\ WF_vars(DeadlinePasses)
  /\ SF_vars(Through(Upload)) /\ SF_vars(Through(Delete))

LiveSpec == Spec /\ Fairness

-----------------------------------------------------------------------------
(***************************************************************************)
(* Properties.                                                             *)
(***************************************************************************)
InSync(x) == remote[x] = local[x]

\* x and the folder it is in; a folder and all that is in it.
Around(x) == IF x \in Files THEN {x, x[1]} ELSE Under(x) \union {x}

Mentions(c, S) ==
  \/ S \intersect c.dirty # {}
  \/ \E i \in DOMAIN c.renames : {c.renames[i][1], c.renames[i][2]} \intersect S # {}

\* The engine still has x in hand: reported, queued, or in the batch.
InHand(x) ==
  LET S == Around(x)
  IN  \/ \E c \in {events, retry, again, [dirty |-> dirty, renames |-> todo]} :
           Mentions(c, S)
      \/ S \intersect (uploads \union deletes \union prune) # {}
      \/ \E k \in moves : {k[1], k[2]} \intersect S # {}
      \/ current # NoRename /\ {current[1], current[2]} \intersect S # {}

\* The next pull would bring the remote to what the user has at x, and not the
\* user to what the remote has.
PullSettles(x) == MergedTree(local, l1, remote, l2)[x] = local[x]

\* A file pushed since the last pull, whose next change is not pushed yet.
\* Nothing lists it, so a pull that comes first takes it for a new file of the
\* remote's, and undoes the change: PullUndoesNothing below is what that breaks.
AwaitsPush(p) == p \in known /\ InHand(p)

\* What the user did to a file wins, at whatever moment a pull comes: the pull
\* would bring the remote to what the user has, never the user's tree to the
\* remote's.  This is what lets push.rs drop echoes, forget a refused upload or
\* a vanished file, and leave a storm to the pull.  The one exception is a file
\* in AwaitsPush, and such a file is never forgotten.  (Only the user and the
\* daemon write here, so a difference is always the user's.)
FilesAccounted ==
  listed => \A p \in Files \intersect Kept : PullSettles(p) \/ AwaitsPush(p)

\* The same of a folder: it was made on the remote since the last pull, or a
\* file in it was pushed since, and its removal is not done yet.
FolderAwaitsPush(d) ==
  InHand(d) /\ (remote[d] # l2[d] \/ Under(d) \intersect known # {})

\* The same of folders: none that the user emptied or renamed away is left on
\* the remote for the next pull to recreate (push.rs:251-253).
FoldersAccounted ==
  listed => \A d \in Dirs \intersect Kept : PullSettles(d) \/ FolderAwaitsPush(d)

\* Whatever the remote holds the engine knows it to hold, from the listing or
\* from its own uploads: this is what on_remote decides every deletion and
\* every move by (push.rs:279, 403).
RemoteTracked ==
  listed => \A p \in Files \intersect Kept : remote[p] # 0 => OnRemote(p)

\* A move never lands on a file the remote holds (push.rs:415-417).
MovesNeverOverwrite ==
  [][\A k \in moves : (k \notin moves' /\ remote'[k[2]] # remote[k[2]])
                        => remote[k[2]] = 0]_vars

\* What an exclude pattern keeps out is never written on the remote.
ExcludedUntouched ==
  [][\A p \in Files \ Kept : remote'[p] = remote[p]]_vars

\* Between batches the files hold what a restart would otherwise forget: the
\* renames still to be carried out, and what was pushed since the last pull.
\* (A pair that restarted while it was locked out drops its queue and keeps
\* the file, pair.rs:478-482: the file may hold more, never less.)
FilesCurrent ==
  pc = "idle" /\ listed /\ located =>
    retry.renames \in {<<>>, pendingFile} /\ knownFile = known

\* A rename that only waits for the server is not replayed as an upload and a
\* delete meanwhile: while it is queued its source stays on the remote, and its
\* destination does not appear there (push.rs:469-471).
RenameWaits ==
  [][\A i \in DOMAIN again.renames :
       LET k == again.renames[i]
       IN  k[1] \in Files /\ remote[k[1]] # 0 /\ remote[k[2]] = 0
           /\ pc \in {"upload", "delete"}
             => remote'[k[1]] # 0 /\ remote'[k[2]] = 0]_vars

\* A pull takes back nothing the user did to a file.  The code does not keep
\* this: see AwaitsPush, and finding PulledTooSoon in README.md.
PullUndoesNothing ==
  [][Pull => \A p \in Files \intersect Kept : local'[p] = local[p]]_vars

\* A rename the server fails is given up only after it was retried: at its
\* first failure it is queued.  The code does not keep this where the same
\* rename failed once before and was settled in a way that leaves its deadline
\* (push.rs:414, 480): README.md, section 4, has the instance.
GetsItsWindow ==
  [][\A k \in givenUp' \ givenUp :
       \/ {k[1], k[2]} \subseteq pending.dirty
       \/ \E queue \in {pending.renames, again.renames} :
            \E i \in DOMAIN queue : queue[i] = k]_vars

\* `ctl status` reports as pending what will be retried.
PendingIsQueued == pc = "idle" => pending = retry

\* Once edits end, the remote ends up with what the user has.
Converges == <>[](\A p \in Files \intersect Kept : InSync(p))
=============================================================================
