------------------------------- MODULE Mirror -------------------------------
(***************************************************************************)
(* markdownSync (src/markdown/mirror.rs and its callers in src/pair.rs): a *)
(* vault of notes and the synced tree of documents kept alike.  A pass     *)
(* lets the notes lead, pulls, then lets the documents lead; changes       *)
(* reported from the vault are carried over in between.                    *)
(*                                                                         *)
(* A file holds a text, the newest version of one line of work, and has a  *)
(* modification time, by which alone the two sides are compared.  Texts    *)
(* and times are both numbered by the clock of edits.  The line is history *)
(* the program does not see: it tells a moved file from a new one.         *)
(*                                                                         *)
(* rclone's part of a pass is one step: Pull, or PullFails, which may have *)
(* merged some of the files.  Carrying renames ahead of it is module       *)
(* Push's business; that one did not go through is a way for the pull to   *)
(* wait.  A folder lasts as long as there is a note or document in it.     *)
(***************************************************************************)
EXTENDS Moves

CONSTANTS SyncDeletions, \* markdownSync.syncDeletions
          TrackMoves,    \* markdownSync.trackMoves
          MinStorm,      \* MIN_STORM
          MaxDelete,     \* bisync's maxDelete, in percent
          MaxEdits,      \* bound: how many times anyone touches a file
          FirstText,     \* bound: the texts there may be to begin with
          UserOps,       \* which edits are made, in the vault or on the drive
          BusyOps,       \* which of them also while the mirror is at work
          Faults         \* what may go wrong, see AllFaults

AllUserOps ==
  {"create", "write", "delete", "cull", "rename", "relocate", "replace", "renamedir",
   "drive-create", "drive-write", "drive-delete", "drive-cull", "drive-rename",
   "drive-relocate", "drive-replace"}
\* "missed": the kernel drops the event; "half": a rename is reported as two
\* changes; "waits": a pull fails before it begins; "pull": a pull fails part-way,
\* or succeeds unheard; "resync": a resync is asked for; "convert": a conversion
\* fails; "race": edits fall between a conversion's reading and writing; "stop":
\* the daemon dies or is stopped, "late" also while a pull is at work and between
\* it and the end of the pass.
AllFaults ==
  {"missed", "half", "waits", "pull", "resync", "convert", "race", "stop", "late"}

ASSUME MirrorAssumption ==
  /\ {SyncDeletions, TrackMoves} \subseteq BOOLEAN
  /\ {MinStorm, MaxDelete, MaxEdits} \subseteq Nat
  /\ FirstText \in [Files -> 1..Cardinality(Files)]
  /\ \A f, g \in Files : FirstText[f] = FirstText[g] => f = g
  /\ BusyOps \subseteq UserOps /\ UserOps \subseteq AllUserOps
  /\ Faults \subseteq AllFaults
  /\ NoFile = 0

VARIABLES
  note, ids,     \* the vault: its notes, and the identity of each file
  doc,           \* the synced tree of documents
  snap,          \* the identities saved when the vault was last looked over
  remote, base,  \* the drive, and what it and the documents last agreed on
  clock,
  dirty, renames,  \* vault events on their way
  \* The pass, or the batch of events, under way.
  pc,
  taken,         \* the renames of the batch still to be followed
  batch,         \* the paths of the batch still to be looked at
  removed,       \* the notes it found gone, each with the path that said so
  moves,         \* moves still to be made in the side that follows
  todo,          \* files still to be looked at for conversion
  held,          \* the conversion under way: the file, and what was read of it
  \* History.
  owed,          \* for each line, its newest text that nobody has deleted
  calm,          \* nothing happened or failed since the last pass began
  hands          \* who has edited since the two sides were last alike

sides == <<note, ids, doc, snap, remote, base>>
events == <<dirty, renames>>
gathered == <<taken, batch, removed>>
work == <<pc, gathered, moves, todo, held>>
history == <<owed, calm, hands>>
vars == <<sides, clock, events, work, history>>

Newest == Cardinality(Files) + MaxEdits
Renames == (Files \X Files) \union (Dirs \X Dirs)
Versions == [line : 0..Newest, text : 0..Newest, time : 0..Newest]
Nobody == <<>>
Phases == {"idle", "lead", "to-docs", "pull", "follow", "to-notes",
           "taken", "seen", "changed"}

TypeOK ==
  /\ note \in [Files -> Versions] /\ doc \in [Files -> Versions]
  /\ remote \in [Files -> Versions] /\ base \in [Files -> Versions]
  /\ ids \in [Files -> Nat] /\ snap \in [Files -> Nat]
  /\ \A f \in Files : ids[f] = NoFile <=> note[f] = Absent
  /\ clock \in 0..Newest
  /\ dirty \subseteq Locs /\ renames \in Seq(Renames)
  /\ pc \in Phases
  /\ taken \in Seq(Renames)
  /\ batch \subseteq Locs /\ removed \subseteq Locs \X Files
  /\ moves \subseteq Files \X Files
  /\ todo \subseteq Files
  /\ held = Nobody \/ held \in Files \X Versions
  /\ owed \in [1..Newest -> 0..Newest] /\ calm \in BOOLEAN
  /\ hands \subseteq {"vault", "drive"}

Within(side, d) == Has(side) \intersect Under(d)

\* Renamed on one side: from is not there any more, to holds what it held.
Moved(side, none, from, to) ==
  [side EXCEPT ![to] = side[from], ![from] = none]
MovedDir(side, none, from, to) ==
  [f \in Files |-> IF f \in Under(to) THEN side[Rebase(f, from)]
                   ELSE IF f \in Under(from) THEN none ELSE side[f]]

-----------------------------------------------------------------------------
(***************************************************************************)
(* Edits, in the vault and on the drive.                                   *)
(***************************************************************************)
Text(line) == [line |-> line, text |-> clock + 1, time |-> clock + 1]
\* What is written over a text that someone deleted, but a copy of which is left
\* or is back, is new work.
LineOf(v) == IF v = Absent \/ owed[v.line] = 0 THEN clock + 1 ELSE v.line

Superseded(v) == [owed EXCEPT ![LineOf(v)] = clock + 1]
\* Deleting a copy that is not the newest takes nothing from the line.
Discarded(v) == [owed EXCEPT ![v.line] = IF @ = v.text THEN 0 ELSE @]

Edit(op, hand) ==
  /\ op \in UserOps
  /\ pc # "idle" => op \in BusyOps
  /\ held # Nobody => op = "delete" \/ "race" \in Faults
  /\ clock < Newest
  /\ clock' = clock + 1
  /\ calm' = FALSE
  /\ hands' = hands \union {hand}
  /\ UNCHANGED <<doc, snap, base, work>>

\* A file's identity is an inode and a birth time: no two ever share one.
Unused == CHOOSE n \in 1..(2 * Cardinality(Files) + 1) :
            \A f \in Files : ids[f] # n /\ snap[f] # n

Reported(paths) ==
  \/ dirty' = dirty \union paths
  \/ "missed" \in Faults /\ UNCHANGED dirty
ReportedRename(from, to) ==
  \/ renames' = Append(renames, <<from, to>>) /\ UNCHANGED dirty
  \/ /\ "half" \in Faults
     /\ dirty' = dirty \union {from, to} /\ UNCHANGED renames
  \/ "missed" \in Faults /\ UNCHANGED <<dirty, renames>>

\* Saved in place, or as a new file put in its place.
VaultWrite(f) ==
  /\ Edit(IF note[f] = Absent THEN "create" ELSE "write", "vault")
  /\ note' = [note EXCEPT ![f] = Text(LineOf(note[f]))]
  /\ \/ note[f] # Absent /\ UNCHANGED ids
     \/ ids' = [ids EXCEPT ![f] = Unused]
  /\ owed' = Superseded(note[f])
  /\ Reported({f}) /\ UNCHANGED <<remote, renames>>

\* "cull": while a file of the same name elsewhere has no counterpart yet.
Removal(f, side, other) ==
  IF \E g \in Has(side) \ Has(other) : g # f /\ g[2] = f[2]
  THEN "cull" ELSE "delete"

VaultDelete(f) ==
  /\ note[f] # Absent
  /\ Edit(Removal(f, note, doc), "vault")
  /\ note' = [note EXCEPT ![f] = Absent] /\ ids' = [ids EXCEPT ![f] = NoFile]
  /\ owed' = Discarded(note[f])
  /\ Reported({f}) /\ UNCHANGED <<remote, renames>>

\* A "rename" stays in the folder or keeps the name; "relocate" does neither;
\* "replace" is onto a name that a note has, which goes with it, or that a
\* document still has.
Way(f, g) ==
  IF note[g] # Absent \/ doc[g] # Absent THEN "replace"
  ELSE IF f[1] = g[1] \/ f[2] = g[2] THEN "rename"
  ELSE "relocate"

VaultRename(f, g) ==
  /\ note[f] # Absent /\ f # g
  /\ Edit(Way(f, g), "vault")
  /\ note' = Moved(note, Absent, f, g) /\ ids' = Moved(ids, NoFile, f, g)
  /\ owed' = IF note[g] = Absent THEN owed ELSE Discarded(note[g])
  /\ ReportedRename(f, g) /\ UNCHANGED remote

VaultRenameDir(d, e) ==
  /\ Within(note, d) # {} /\ Within(note, e) = {}
  /\ Edit(IF Within(doc, e) = {} THEN "renamedir" ELSE "replace", "vault")
  /\ note' = MovedDir(note, Absent, d, e) /\ ids' = MovedDir(ids, NoFile, d, e)
  /\ ReportedRename(d, e)
  /\ UNCHANGED <<remote, owed>>

OnDrive ==
  [delete |-> "drive-delete", cull |-> "drive-cull", rename |-> "drive-rename",
   relocate |-> "drive-relocate", replace |-> "drive-replace"]

DriveWrite(f) ==
  /\ Edit(IF remote[f] = Absent THEN "drive-create" ELSE "drive-write", "drive")
  /\ remote' = [remote EXCEPT ![f] = Text(LineOf(@))]
  /\ owed' = Superseded(remote[f])
  /\ UNCHANGED <<note, ids, events>>

DriveDelete(f) ==
  /\ remote[f] # Absent
  /\ Edit(OnDrive[Removal(f, remote, note)], "drive")
  /\ remote' = [remote EXCEPT ![f] = Absent]
  /\ owed' = Discarded(remote[f])
  /\ UNCHANGED <<note, ids, events>>

DriveRename(f, g) ==
  /\ remote[f] # Absent /\ remote[g] = Absent
  /\ Edit(OnDrive[Way(f, g)], "drive")
  /\ remote' = Moved(remote, Absent, f, g)
  /\ UNCHANGED <<note, ids, owed, events>>

-----------------------------------------------------------------------------
(***************************************************************************)
(* What both directions share.                                             *)
(***************************************************************************)
NewerOfTwo(a, b) == a # Absent /\ b # Absent /\ a.time > b.time  \* a mutant

\* newer_than
NewerThan(a, b) == a # Absent /\ (b = Absent \/ a.time > b.time)

\* The files of victims a pass would delete: those without a counterpart,
\* unless the leading side is empty or they are too many at once.
Storm(gone, of) == gone >= MinStorm /\ gone * 100 > MaxDelete * of
Dropped(lead, victims) ==
  LET orphans == Has(victims) \ Has(lead)
  IN  IF \/ ~SyncDeletions
         \/ Has(lead) = {}
         \/ Storm(Cardinality(orphans), Cardinality(Has(victims)))
      THEN {} ELSE orphans

Cleared(side, none, gone) == [f \in Files |-> IF f \in gone THEN none ELSE side[f]]

\* save_ids
SaveIds(now) == snap' = IF TrackMoves THEN now ELSE snap

\* The next file of a conversion loop: read if it is the newer, else done with.
Take(f, lead, other) ==
  /\ f \in todo /\ held = Nobody
  /\ todo' = todo \ {f}
  /\ held' = IF NewerThan(lead[f], other[f]) THEN <<f, lead[f]>> ELSE Nobody

WrittenAsNew(lead) == [held[2] EXCEPT !.time = clock + 1]  \* a mutant

\* write_like: what was read, with the time its source has by now.
WrittenNow(lead) == [held[2] EXCEPT !.time = lead[held[1]].time]

\* A conversion that fails is logged, and the loop goes on.
ConversionFails ==
  /\ held # Nobody
  /\ "convert" \in Faults \/ (IF pc = "to-notes" THEN doc ELSE note)[held[1]] = Absent
  /\ held' = Nobody /\ calm' = FALSE
  /\ UNCHANGED <<sides, clock, events, pc, gathered, moves, todo, owed, hands>>

-----------------------------------------------------------------------------
(***************************************************************************)
(* Notes lead (md_leads), at the beginning of a pass.                      *)
(***************************************************************************)
MovesUnseen == {}  \* a mutant

\* follow_moves
MovesFound == IF TrackMoves THEN Pairing(note, doc, snap, ids) ELSE {}

BeginPass ==
  /\ pc = "idle"
  /\ pc' = "lead" /\ moves' = MovesFound
  /\ calm' = TRUE
  /\ UNCHANGED <<sides, clock, events, gathered, todo, held, owed, hands>>

\* apply_moves, in the documents: nothing that is there is moved over.
MoveDoc ==
  /\ pc \in {"lead", "seen"}
  /\ \E k \in moves :
       /\ moves' = moves \ {k}
       /\ doc' = IF doc[k[1]] # Absent /\ doc[k[2]] = Absent
                 THEN Moved(doc, Absent, k[1], k[2]) ELSE doc
  /\ UNCHANGED <<note, ids, snap, remote, base, clock, events, pc, gathered,
                 todo, held, history>>

LeadOn ==
  /\ pc = "lead" /\ moves = {}
  /\ pc' = "to-docs" /\ todo' = Has(note)
  /\ UNCHANGED <<sides, clock, events, gathered, moves, held, history>>

ReadNote ==
  /\ pc \in {"to-docs", "changed"}
  /\ \E f \in todo : Take(f, note, doc)
  /\ UNCHANGED <<sides, clock, events, pc, gathered, moves, history>>

WriteDoc ==
  /\ pc \in {"to-docs", "changed"} /\ held # Nobody
  /\ note[held[1]] # Absent
  /\ doc' = [doc EXCEPT ![held[1]] = WrittenNow(note)]
  /\ held' = Nobody
  /\ UNCHANGED <<note, ids, snap, remote, base, clock, events, pc, gathered,
                 moves, todo, history>>

\* drop_orphans and save_ids, at the end of md_leads.
DropDocs ==
  /\ pc = "to-docs" /\ todo = {} /\ held = Nobody
  /\ doc' = Cleared(doc, Absent, Dropped(note, doc))
  /\ SaveIds(ids)
  /\ pc' = "pull"
  /\ UNCHANGED <<note, ids, remote, base, clock, events, gathered, moves,
                 todo, held, history>>

-----------------------------------------------------------------------------
(***************************************************************************)
(* The pull.  rclone is not part of the repository: a three-way merge of   *)
(* the documents and the drive against what they last agreed on, in which  *)
(* a change beats a deletion and the newer of two changes wins.            *)
(***************************************************************************)
MergedAt(mine, theirs, was) ==
  IF mine = was THEN theirs
  ELSE IF theirs = was THEN mine
  ELSE IF NewerThan(theirs, mine) THEN theirs ELSE mine
Merged == [f \in Files |-> MergedAt(doc[f], remote[f], base[f])]

\* Two files made apart under one name: the line of the older one ends here.
Older(f) == IF NewerThan(remote[f], doc[f]) THEN doc[f] ELSE remote[f]
Apart == {f \in Has(doc) \intersect Has(remote) : doc[f].line # remote[f].line}
Beaten(files) ==
  {Older(f).line : f \in {g \in files \intersect Apart : base[g] \notin {doc[g], remote[g]}}}
Outdone == {Older(f).line : f \in Apart}

MovesBack(src, dst) == IF TrackMoves THEN Pairing(src, dst, NoneKnown, NoneKnown) ELSE {}

Pull ==
  /\ pc = "pull"
  /\ doc' = Merged /\ remote' = Merged /\ base' = Merged
  /\ pc' = "follow" /\ moves' = MovesBack(Merged, note)
  /\ owed' = [l \in 1..Newest |-> IF l \in Beaten(Files) THEN 0 ELSE owed[l]]
  /\ UNCHANGED <<note, ids, snap, clock, events, gathered, todo, held, calm,
                 hands>>

\* The pull did not begin: rclone cannot be reached or finds a lock, or a rename
\* has to reach the remote first.  The documents do not get to lead.
PullWaits ==
  /\ pc = "pull" /\ "waits" \in Faults
  /\ pc' = "idle" /\ calm' = FALSE
  /\ UNCHANGED <<sides, clock, events, gathered, moves, todo, held, owed,
                 hands>>

\* A pull that ends early, or ends unheard, has merged some of the files, and
\* noted as agreed on some of those.
MergedIn(side, done) == [f \in Files |-> IF f \in done THEN Merged[f] ELSE side[f]]
PartlyMerged ==
  \E done \in SUBSET Files : \E noted \in SUBSET done :
    /\ doc' = MergedIn(doc, done) /\ remote' = MergedIn(remote, done)
    /\ base' = MergedIn(base, noted)
    /\ owed' = [l \in 1..Newest |-> IF l \in Beaten(done) THEN 0 ELSE owed[l]]

\* The pull failed part-way, or its end was not heard of: nor do they then.
PullFails ==
  /\ pc = "pull" /\ "pull" \in Faults
  /\ PartlyMerged
  /\ pc' = "idle" /\ calm' = FALSE
  /\ UNCHANGED <<note, ids, snap, clock, events, gathered, moves, todo, held, hands>>

\* `ctl resync`: of two files the newer, whatever was agreed on before, and
\* neither do the notes lead before it nor the documents after it.
NewerOf(f) == IF NewerThan(remote[f], doc[f]) THEN remote[f] ELSE doc[f]
Resync ==
  /\ pc = "idle" /\ "resync" \in Faults
  /\ LET newest == [f \in Files |-> NewerOf(f)]
     IN  doc' = newest /\ remote' = newest /\ base' = newest
  /\ owed' = [l \in 1..Newest |-> IF l \in Outdone THEN 0 ELSE owed[l]]
  /\ calm' = FALSE
  /\ UNCHANGED <<note, ids, snap, clock, events, work, hands>>

-----------------------------------------------------------------------------
(***************************************************************************)
(* Documents lead (docx_leads), once the pull has succeeded.  What it      *)
(* writes and deletes in the vault is reported like any other change.      *)
(***************************************************************************)
MoveNote ==
  /\ pc = "follow"
  /\ \E k \in moves :
       /\ moves' = moves \ {k}
       /\ IF note[k[1]] # Absent /\ note[k[2]] = Absent
          THEN /\ note' = Moved(note, Absent, k[1], k[2])
               /\ ids' = Moved(ids, NoFile, k[1], k[2])
               /\ ReportedRename(k[1], k[2])
          ELSE UNCHANGED <<note, ids, events>>
  /\ UNCHANGED <<doc, snap, remote, base, clock, pc, gathered, todo, held,
                 history>>

FollowOn ==
  /\ pc = "follow" /\ moves = {}
  /\ pc' = "to-notes" /\ todo' = Has(doc)
  /\ UNCHANGED <<sides, clock, events, gathered, moves, held, history>>

ReadDoc ==
  /\ pc = "to-notes"
  /\ \E f \in todo : Take(f, doc, note)
  /\ UNCHANGED <<sides, clock, events, pc, gathered, moves, history>>

\* A note written anew is another file.
WriteNote ==
  /\ pc = "to-notes" /\ held # Nobody
  /\ doc[held[1]] # Absent
  /\ note' = [note EXCEPT ![held[1]] = WrittenNow(doc)]
  /\ ids' = [ids EXCEPT ![held[1]] = Unused]
  /\ held' = Nobody
  /\ Reported({held[1]})
  /\ UNCHANGED <<doc, snap, remote, base, clock, renames, pc, gathered, moves,
                 todo, history>>

\* drop_orphans and save_ids; the pass is over.
DropNotes ==
  /\ pc = "to-notes" /\ todo = {} /\ held = Nobody
  /\ LET gone == Dropped(doc, note)
     IN  /\ note' = Cleared(note, Absent, gone)
         /\ ids' = Cleared(ids, NoFile, gone)
         /\ Reported(gone)
  /\ SaveIds(ids')
  /\ pc' = "idle"
  /\ hands' = IF calm /\ Cardinality(hands) < 2 THEN {} ELSE hands
  /\ UNCHANGED <<doc, remote, base, clock, renames, gathered, moves, todo,
                 held, owed, calm>>

-----------------------------------------------------------------------------
(***************************************************************************)
(* A batch of vault events (on_vault_events).                              *)
(***************************************************************************)
VaultDir(d) == Within(note, d) # {}
Gone(p) == IF p \in Dirs THEN ~VaultDir(p) ELSE note[p] = Absent

\* A renamed folder that is gone again is two paths to look at.
Known(r) == r[1] \in Files \/ VaultDir(r[2])

TakeEvents ==
  /\ pc = "idle" /\ (dirty # {} \/ renames # <<>>)
  /\ taken' = renames /\ batch' = dirty
  /\ dirty' = {} /\ renames' = <<>>
  /\ pc' = "taken"
  /\ UNCHANGED <<sides, clock, removed, moves, todo, held, history>>

\* follow_rename: the document, or the folder of documents, is renamed like the
\* note; not over what is there, which may be an emptied folder.
CanFollow(r) ==
  IF r[1] \in Files THEN doc[r[1]] # Absent /\ doc[r[2]] = Absent
  ELSE Within(doc, r[1]) # {} /\ Within(doc, r[2]) = {}
Followed(r) ==
  IF r[1] \in Files THEN Moved(doc, Absent, r[1], r[2])
  ELSE MovedDir(doc, Absent, r[1], r[2])

FollowRename ==
  /\ pc = "taken" /\ taken # <<>>
  /\ LET r == Head(taken)
     IN  \/ /\ Known(r)
            /\ \/ TrackMoves /\ CanFollow(r) /\ doc' = Followed(r)
               \/ (TrackMoves /\ CanFollow(r) => r[1] \in Dirs) /\ UNCHANGED doc
            /\ batch' = batch \union {r[2]}
         \/ /\ ~Known(r)
            /\ batch' = batch \union {r[1], r[2]} /\ UNCHANGED doc
  /\ taken' = Tail(taken)
  /\ UNCHANGED <<note, ids, snap, remote, base, clock, events, pc, removed,
                 moves, todo, held, history>>

\* What the watcher saw only half of is paired up before anything is converted.
LooksLikeAMove(p) == p \in Dirs \/ note[p] = Absent \/ doc[p] = Absent

FollowMoves ==
  /\ pc = "taken" /\ taken = <<>>
  /\ moves' = IF \E p \in batch : LooksLikeAMove(p) THEN MovesFound ELSE {}
  /\ pc' = "seen"
  /\ UNCHANGED <<sides, clock, events, gathered, todo, held, history>>

\* The renames have been carried to the remote; now the paths of the batch, one
\* by one (vault_changed).  Notes that are there are converted, of those that
\* are not the documents will go.
GoneNotes(p) ==
  {k \in {p} \X Files : Gone(p) /\ (k[1] = k[2] \/ k[2] \in Within(doc, p))}
NotesAt(p) == {f \in Has(note) : p \in {f, f[1]}}

LookAtPath ==
  /\ pc \in {"seen", "changed"} /\ moves = {} /\ todo = {} /\ held = Nobody
  /\ \E p \in batch :
       /\ batch' = batch \ {p}
       /\ todo' = NotesAt(p) /\ removed' = removed \union GoneNotes(p)
  /\ pc' = "changed"
  /\ UNCHANGED <<sides, clock, events, taken, moves, held, history>>

\* note_removed, for each; an empty vault is taken to be an unmounted one.
NoteRemoved(f) == note[f] = Absent /\ Has(note) # {}
Larger(m, n) == IF m < n THEN n ELSE m
RemovedDocs ==
  LET gone == Cardinality(removed)
  IN  IF ~SyncDeletions \/ Storm(gone, Larger(gone, Cardinality(Has(doc))))
      THEN {} ELSE {f \in Files : NoteRemoved(f) /\ \E k \in removed : k[2] = f}

DropRemoved ==
  /\ pc = "changed" /\ batch = {} /\ todo = {} /\ held = Nobody
  /\ doc' = Cleared(doc, Absent, RemovedDocs)
  /\ SaveIds(ids)
  /\ pc' = "idle" /\ removed' = {}
  /\ UNCHANGED <<note, ids, remote, base, clock, events, taken, batch, moves,
                 todo, held, history>>

-----------------------------------------------------------------------------
\* The daemon dies, or is stopped, and is started again: events and work are
\* gone, files stay, as rclone left them if it was at work.
Restart ==
  /\ "stop" \in Faults
  /\ pc \in {"follow", "to-notes"} => "late" \in Faults
  /\ \/ UNCHANGED <<doc, remote, base, owed>>
     \/ pc = "pull" /\ "late" \in Faults /\ PartlyMerged
  /\ pc # "idle" \/ dirty # {} \/ renames # <<>>
  /\ pc' = "idle"
  /\ dirty' = {} /\ renames' = <<>>
  /\ taken' = <<>> /\ batch' = {} /\ removed' = {}
  /\ moves' = {} /\ todo' = {} /\ held' = Nobody
  /\ calm' = FALSE
  /\ UNCHANGED <<note, ids, snap, clock, hands>>

\* To begin with the sides are alike, or there is one file on one of them.
Holding(S) ==
  [f \in Files |->
     IF f \in S
     THEN [line |-> FirstText[f], text |-> FirstText[f], time |-> FirstText[f]]
     ELSE Absent]

Init ==
  /\ \E both, alone \in SUBSET Files :
       /\ alone # {} => both = {} /\ Cardinality(alone) = 1
       /\ doc = Holding(both) /\ base = doc
       /\ \/ note = Holding(both \union alone) /\ remote = doc
          \/ alone # {} /\ note = doc /\ remote = Holding(both \union alone)
       /\ calm = (alone = {})
       /\ owed = [l \in 1..Newest |->
                    IF \E f \in both \union alone : FirstText[f] = l THEN l ELSE 0]
  /\ ids = [f \in Files |-> IF note[f] = Absent THEN NoFile ELSE FirstText[f]]
  /\ snap = [f \in Files |-> IF doc[f] = Absent THEN NoFile ELSE FirstText[f]]
  /\ clock = Cardinality(Files)
  /\ dirty = {} /\ renames = <<>>
  /\ pc = "idle"
  /\ taken = <<>> /\ batch = {} /\ removed = {}
  /\ moves = {} /\ todo = {} /\ held = Nobody
  /\ hands = {}

User ==
  \/ \E f \in Files : VaultWrite(f) \/ VaultDelete(f) \/ DriveWrite(f) \/ DriveDelete(f)
  \/ \E f, g \in Files : VaultRename(f, g) \/ DriveRename(f, g)
  \/ \E d, e \in Dirs : VaultRenameDir(d, e)

NotesLead == BeginPass \/ MoveDoc \/ LeadOn \/ ReadNote \/ WriteDoc \/ DropDocs
DocsLead == MoveNote \/ FollowOn \/ ReadDoc \/ WriteNote \/ DropNotes
Events == TakeEvents \/ FollowRename \/ FollowMoves \/ LookAtPath \/ DropRemoved

Next ==
  \/ User \/ NotesLead \/ Pull \/ PullWaits \/ PullFails \/ DocsLead \/ Events
  \/ ConversionFails \/ Resync \/ Restart

Spec == Init /\ [][Next]_vars

-----------------------------------------------------------------------------
(***************************************************************************)
(* Properties.                                                             *)
(***************************************************************************)
Texts(side) == {side[f].text : f \in Files}

\* No work is lost: the newest text of every line that nobody has deleted is a
\* note, a document, or on the drive.
NothingLost ==
  \A l \in 1..Newest :
    owed[l] # 0 => owed[l] \in Texts(note) \union Texts(doc) \union Texts(remote)

\* Only genuine deletions are carried over (README.md:226): what the mirror
\* itself deletes, on either side, is not the newest text of a line that nobody
\* has deleted, unless it stays under another name.
Deleted(now, next) ==
  {f \in Has(now) : next[f] = Absent /\ now[f].text \notin Texts(next)}
OnlyGenuineDeletions ==
  [][DropDocs \/ DropRemoved \/ DropNotes =>
       /\ \A f \in Deleted(doc, doc') : owed[doc[f].line] # doc[f].text
       /\ \A f \in Deleted(note, note') : owed[note[f].line] # note[f].text]_vars

\* After a pass in which nothing failed and nobody interfered the three trees
\* are alike, whatever events had been missed before it, and acting on the
\* events of its own writes changes nothing.  Notes are left over only if the
\* drive had lost so much that the deletion was withheld.
AllAlike(files) ==
  \A f \in files : note[f] = base[f] /\ doc[f] = base[f] /\ remote[f] = base[f]
Withheld ==
  LET orphans == Has(note) \ Has(base)
  IN  Has(base) = {} \/ Storm(Cardinality(orphans), Cardinality(Has(note)))
Settled ==
  pc = "idle" /\ calm =>
    \/ AllAlike(Files)
    \/ remote = base /\ AllAlike(Has(base)) /\ Withheld

\* A file moved on one side does not end up at both paths: of a line that
\* nobody has deleted, and only one side has had in hand, there is one note.
OneCopyEach ==
  pc = "idle" /\ calm /\ Cardinality(hands) < 2 =>
    \A f, g \in Has(note) :
      note[f].line = note[g].line /\ owed[note[f].line] # 0 => f = g

\* A file of the following side is moved once, to where nothing else is moved.
MovesOneToOne ==
  \A j, k \in moves : j[1] = k[1] \/ j[2] = k[2] => j = k
=============================================================================
